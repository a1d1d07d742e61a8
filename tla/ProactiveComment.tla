-------------------------- MODULE ProactiveComment --------------------------
(***************************************************************************)
(* The comments the bot volunteers under the videos it watches             *)
(* (scheduler_proactive_publish.py, scheduler_proactive_retry.py).  Two    *)
(* workers share the rows of the table and the log of CommentPolicy: the   *)
(* watcher, the one task that the account's video lock admits, and the     *)
(* retrier, the main loop's pass over the rows that wait.  Operators retry *)
(* by hand, leases run out, and the process may die at every await.        *)
(***************************************************************************)
EXTENDS ActionStore

CONSTANTS
    Backoff,        \* the waits mark_retry_wait may choose
    MaxNow,         \* the clock stops here (bound)
    MaxCrashes,     \* how often the process dies (bound)
    MaxManual,      \* how many manual retries (bound)
    MaxActions      \* how many rows are ever claimed (bound)

ASSUME CommentAssumption ==
    /\ Backoff \subseteq Nat
    /\ {MaxNow, MaxCrashes, MaxManual, MaxActions} \subseteq Nat

VARIABLES
    now, alive,
    action,         \* [Id -> ActionRow], durable
    logged,         \* the actions CommentPolicy counts as published
    at, on,         \* per worker: where it is, and on which action
    pending,        \* the rows the retrier has listed and not yet dealt with
    prompt,         \* no watcher outlives the lease of its claim
    accepted,       \* history: [Video -> how many comments the platform took]
    forced, manual, crashes

Id == 1..MaxActions
Worker == {"watcher", "retrier"}

workers == <<at, on, pending>>
env == <<prompt, forced, manual, crashes>>
vars == <<now, alive, action, logged, workers, accepted, env>>

Rest == [w \in Worker |-> "idle"]

Init ==
    /\ now = 0
    /\ alive = TRUE
    /\ action = [a \in Id |-> NoAction]
    /\ logged = {}
    /\ at = Rest
    /\ on = [w \in Worker |-> 0]
    /\ pending = {}
    /\ prompt \in BOOLEAN
    /\ accepted = [v \in Video |-> 0]
    /\ forced = 0
    /\ manual = 0
    /\ crashes = 0

-----------------------------------------------------------------------------
(* Steps of a worker.                                                      *)

On(w, place) == alive /\ at[w] = place
Mine(w) == action[on[w]]

Go(w, place) == at' = [at EXCEPT ![w] = place] /\ UNCHANGED <<on, pending>>
Leave(w) ==
    /\ at' = [at EXCEPT ![w] = "idle"]
    /\ on' = [on EXCEPT ![w] = 0]
    /\ UNCHANGED pending

Put(w, r) == action' = [action EXCEPT ![on[w]] = r]

\* In the actions that follow nothing else changes.
Still == UNCHANGED <<now, alive, logged, accepted, env>>

-----------------------------------------------------------------------------
(* do_proactive_comment_publish, the watcher's.                            *)

\* ux_pca_active: at most one row of a video has a blocking status.
Free(v) ==
    \A a \in Id : action[a].video = v => action[a].status \notin BlockingStatuses

\* Other rules (InteractionPolicy.evaluate, the watch history) only keep the
\* watcher from coming here more often.
Claim(v) ==
    /\ On("watcher", "idle")
    /\ Free(v)
    /\ \E a \in Id :
        /\ action[a].status = "absent"
        /\ \A b \in 1..(a - 1) : action[b].status # "absent"
        /\ action' = [action EXCEPT ![a] = Claimed(v, now)]
        /\ on' = [on EXCEPT !["watcher"] = a]
    /\ at' = [at EXCEPT !["watcher"] = "writing"]
    /\ UNCHANGED pending
    /\ Still

\* The model writes nothing that may be said, or the text is saved.
Write ==
    /\ On("watcher", "writing")
    /\ \/ Put("watcher", MarkFailed(Mine("watcher"), now)) /\ Leave("watcher")
       \/ /\ Put("watcher", SaveText(Mine("watcher"), now))
          /\ Go("watcher", "vetting")
    /\ Still

-----------------------------------------------------------------------------
(* process_retryable_proactive_comments, the retrier's.                    *)

List ==
    /\ On("retrier", "idle")
    /\ pending = {}
    /\ pending' = {a \in Id : Due(action[a], now)}
    /\ UNCHANGED <<action, at, on>>
    /\ Still

HasPublished(v) ==
    \E a \in Id : action[a].video = v /\ action[a].status = "published"

PickUp(a) ==
    /\ On("retrier", "idle")
    /\ a \in pending
    /\ pending' = pending \ {a}
    /\ \/ /\ HasPublished(action[a].video)
          /\ UNCHANGED <<action, at, on>>
       \/ /\ ~HasPublished(action[a].video)
          /\ ~action[a].written
          /\ action' = [action EXCEPT ![a] = MarkFailed(@, now)]
          /\ UNCHANGED <<at, on>>
       \/ /\ ~HasPublished(action[a].video)
          /\ action[a].written
          /\ at' = [at EXCEPT !["retrier"] = "resolving"]
          /\ on' = [on EXCEPT !["retrier"] = a]
          /\ UNCHANGED action
    /\ Still

\* The platform is asked for the oid of the video.
Resolve ==
    /\ On("retrier", "resolving")
    /\ \/ Put("retrier", MarkFailed(Mine("retrier"), now)) /\ Leave("retrier")
       \/ UNCHANGED action /\ Go("retrier", "vetting")
    /\ Still

-----------------------------------------------------------------------------
(* What both do: the policy, the checker, the post, its answer.            *)

\* CommentPolicy.check: one comment per video.
Allowed(v) == \A a \in logged : action[a].video # v

\* A thread reads the log; a pause or the day's budget refuses whatever it
\* finds there.
Vet(w) ==
    /\ On(w, "vetting")
    /\ \/ Allowed(Mine(w).video) /\ Go(w, "allowed")
       \/ Go(w, "refused")
    /\ UNCHANGED action
    /\ Still

Refuse(w) ==
    /\ On(w, "refused")
    /\ Put(w, MarkFailed(Mine(w), now))
    /\ Leave(w)
    /\ Still

\* check_content, check_and_record_rate_limit, mark_publishing: no await
\* between them.
Enter(w) ==
    /\ On(w, "allowed")
    /\ \/ Put(w, MarkFailed(Mine(w), now)) /\ Leave(w)
       \/ \E wait \in Backoff :
            Put(w, MarkRetryWait(Mine(w), FALSE, wait, now)) /\ Leave(w)
       \/ /\ CanMarkPublishing(Mine(w))
          /\ Put(w, MarkPublishing(Mine(w), now))
          /\ Go(w, "posting")
       \/ /\ ~CanMarkPublishing(Mine(w))
          /\ UNCHANGED action
          /\ Leave(w)
    /\ Still

\* The platform publishes before it answers.
Post(w) ==
    /\ On(w, "posting")
    /\ accepted' = [accepted EXCEPT ![Mine(w).video] = @ + 1]
    /\ Go(w, "posted")
    /\ UNCHANGED <<now, alive, action, logged, env>>

Accept(w) ==
    /\ On(w, "posted")
    /\ Put(w, FromPublishing(Mine(w), "published", now))
    /\ Go(w, "recording")
    /\ Still

\* record_async, whose exception is swallowed
Record(w) ==
    /\ On(w, "recording")
    /\ logged' \in {logged, logged \cup {on[w]}}
    /\ Leave(w)
    /\ UNCHANGED <<now, alive, action, accepted, env>>

\* The answer is no.  The watcher logs the refusal, and awaits it, before it
\* marks the row.
Decline(w) ==
    /\ On(w, "posting")
    /\ IF w = "watcher"
       THEN UNCHANGED action /\ Go(w, "declined")
       ELSE /\ \E wait \in Backoff :
                 Put(w, MarkRetryWait(Mine(w), TRUE, wait, now))
            /\ Leave(w)
    /\ Still

Requeue ==
    /\ On("watcher", "declined")
    /\ \E wait \in Backoff :
         Put("watcher", MarkRetryWait(Mine("watcher"), TRUE, wait, now))
    /\ Leave("watcher")
    /\ Still

\* No answer, or none that says what happened
Lose(w) ==
    /\ On(w, "posting") \/ On(w, "posted")
    /\ Put(w, FromPublishing(Mine(w), "result_unknown", now))
    /\ Leave(w)
    /\ Still

\* A statement of the store raises: the watcher's task ends, the retrier
\* abandons the pass.
Raise(w) ==
    /\ alive /\ at[w] # "idle"
    /\ at' = [at EXCEPT ![w] = "idle"]
    /\ on' = [on EXCEPT ![w] = 0]
    /\ pending' = IF w = "retrier" THEN {} ELSE pending
    /\ UNCHANGED action
    /\ Still

-----------------------------------------------------------------------------
(* The main loop's recovery, the panel, the process.                       *)

Recovery == [a \in Id |-> Recovered(action[a], now)]

\* The loop that retries is the loop that recovers.
RecoverStuck ==
    /\ On("retrier", "idle")
    /\ pending = {}
    /\ Recovery # action
    /\ action' = Recovery
    /\ UNCHANGED workers
    /\ Still

\* schedule_manual_retry takes the video's row that changed last, with the
\* text of an audit record of the video; the unique index may refuse it.
Latest(v) ==
    {a \in Id : /\ action[a].video = v
                /\ \A b \in Id : action[b].video = v =>
                     action[b].updatedAt <= action[a].updatedAt}

RetryManually(v, force) ==
    /\ manual < MaxManual
    /\ \E a \in Id : action[a].video = v /\ action[a].written
    /\ ~HasPublished(v)
    /\ \E a \in Latest(v) :
        /\ CanRetryByHand(action[a], force)
        /\ \A b \in Id \ {a} :
             action[b].video = v => action[b].status \notin BlockingStatuses
        /\ action' = [action EXCEPT ![a] = RetryByHand(@, now)]
        /\ forced' = IF action[a].status = "result_unknown"
                     THEN forced + 1 ELSE forced
    /\ manual' = manual + 1
    /\ UNCHANGED <<now, alive, logged, workers, accepted, prompt, crashes>>

\* Where prompt holds, the clock waits for a watcher whose claim would expire.
Late ==
    /\ at["watcher"] \in {"writing", "vetting", "refused", "allowed"}
    /\ Mine("watcher").status = "claimed"
    /\ Mine("watcher").leaseUntil <= now

Tick ==
    /\ now < MaxNow
    /\ ~(prompt /\ Late)
    /\ now' = now + 1
    /\ UNCHANGED <<alive, action, logged, workers, accepted, env>>

Crash ==
    /\ alive
    /\ crashes < MaxCrashes
    /\ crashes' = crashes + 1
    /\ alive' = FALSE
    /\ at' = Rest
    /\ on' = [w \in Worker |-> 0]
    /\ pending' = {}
    /\ UNCHANGED <<now, action, logged, accepted, prompt, forced, manual>>

Boot ==
    /\ ~alive
    /\ alive' = TRUE
    /\ action' = Recovery
    /\ UNCHANGED <<now, logged, workers, accepted, env>>

-----------------------------------------------------------------------------
Work(w) ==
    \/ Vet(w) \/ Refuse(w) \/ Enter(w)
    \/ Post(w) \/ Accept(w) \/ Record(w) \/ Decline(w) \/ Lose(w)

Watch == Write \/ Requeue \/ Work("watcher")
Retry == (\E a \in Id : PickUp(a)) \/ Resolve \/ Work("retrier")

Next ==
    \/ \E v \in Video : Claim(v)
    \/ Watch \/ List \/ Retry \/ RecoverStuck
    \/ \E w \in Worker : Raise(w)
    \/ \E v \in Video, force \in BOOLEAN : RetryManually(v, force)
    \/ Tick \/ Crash \/ Boot

Spec == Init /\ [][Next]_vars

-----------------------------------------------------------------------------
(* Properties.                                                             *)

\* The account comments on a video once, whatever crashes, lost answers,
\* raising statements and manual retries there are, unless an operator forces
\* a row whose result is unknown or a watcher outlives its claim.
CommentedOnce ==
    prompt /\ forced = 0 => \A v \in Video : accepted[v] <= 1

\* A settled row goes back to the queue by a manual retry only, never by the
\* late answer of a post whose lease ran out.
LateCallsRequeueNothing ==
    [][\A a \in Id :
         action[a].status \in TerminalStatuses /\ action'[a].status = "retry_wait"
           => manual' = manual + 1]_vars

\* No crash keeps a video locked: a claimed row, or one that is being
\* published, is left (while the clock still runs).
Locked(a) ==
    /\ action[a].status \in {"claimed", "publishing"}
    /\ action[a].leaseUntil < MaxNow
=============================================================================
