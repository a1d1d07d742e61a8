----------------------------- MODULE DirectPost -----------------------------
(***************************************************************************)
(* do_post_dynamic without a review (src/bilibot/scheduler_dynamic_post.py)*)
(* between the pauses and the limits of the SafetyChecker, beside the      *)
(* publications of another scene that share the account's day.             *)
(*                                                                         *)
(* A dynamic is written by a model, checked, paid for from the quota,      *)
(* illustrated for minutes, and only then posted.  The rows of the tasks   *)
(* are reduced to their statuses; TaskRun has them in full.                *)
(***************************************************************************)
EXTENDS RateLimiter

CONSTANTS
    Dynamics,       \* the tasks that post a dynamic, in the scene "dynamic"
    Others,         \* publications of the scene "reply"
    MaxAttempts,    \* max_attempts of a task
    MaxNow,         \* the clock stops here (bound)
    MaxTroubles,    \* how often the process dies, the operator pauses, resumes
                    \* or switches the limiter, or its table fails (bound)
    MaxUnlimited    \* how many pass while the limiter is off (bound)

\* Assumed by the modules that instantiate this one.
PostAssumption ==
    /\ {MaxAttempts, MaxNow, MaxTroubles, MaxUnlimited} \subseteq Nat
    /\ Dynamics \cap Others = {}

VARIABLES
    now, alive, troubles,
    enabled,        \* rate_limit_enabled
    lim,            \* the windows and rate_limit_events
    global,         \* bot_pause, durable
    account,        \* account_pause: [db |-> durable, mem |-> _account_paused]
    status,         \* [Dynamics -> task status], durable
    attempts,       \* [Dynamics -> Nat], durable
    at,             \* [Dynamics \cup Others -> place in the handler]
    kept,           \* history: [Keys -> reservations that were not refused]
    lost,           \* history: insertions that failed
    unlimited,      \* history: publications that passed while switched off
    unreturned,     \* history: refusals while switched off, or whose row could
                    \* not be deleted
    unread,         \* history: the most rows that a failing load left out
    cleared,        \* history: the publications that were past the check when
                    \* the pause in force began
    online          \* history: the tasks whose attempt the platform accepted

process == <<now, alive>>
operator == <<troubles, enabled>>
pauses == <<global, account, cleared>>
quota == <<lim, kept, lost, unlimited, unreturned, unread>>
tasks == <<status, attempts, online>>
vars == <<process, operator, pauses, quota, tasks, at>>

Work == Dynamics \cup Others
Key(p) == IF p \in Dynamics THEN "dynamic" ELSE "reply"
\* Another scene's text comes from elsewhere and needs no picture.
Home(p) == IF p \in Dynamics THEN "idle" ELSE "writing"
Paused == global \/ account.db \/ account.mem
PastCheck == {p \in Work : at[p] \in {"drawing", "posting"}}

Init ==
    /\ now = 0 /\ alive = TRUE /\ troubles = 0 /\ enabled = TRUE
    /\ lim = Empty
    /\ global = FALSE
    /\ account = [db |-> FALSE, mem |-> FALSE]
    /\ status = [p \in Dynamics |-> "claimed"]
    /\ attempts = [p \in Dynamics |-> 0]
    /\ at = [p \in Work |-> Home(p)]
    /\ kept = [k \in Keys |-> 0]
    /\ lost = 0 /\ unlimited = 0 /\ unreturned = 0 /\ unread = 0
    /\ cleared = {}
    /\ online = {}

Trouble == troubles < MaxTroubles /\ troubles' = troubles + 1

Goto(p, place) == at' = [at EXCEPT ![p] = place]

\* A pause is set: what is past its check goes on.
Order == cleared' = IF Paused THEN cleared ELSE PastCheck

\* pause_account, for a refusal that looks like risk control or a memory that
\* cannot be written; a row that cannot be written stays in memory only.
PauseAccount ==
    /\ account' \in {[db |-> TRUE, mem |-> TRUE], [account EXCEPT !.mem = TRUE]}
    /\ Order
    /\ UNCHANGED global

\* _fail_task
Failed(p, retryable) ==
    /\ attempts' = [attempts EXCEPT ![p] = @ + 1]
    /\ status' = [status EXCEPT ![p] = IF retryable /\ attempts[p] + 1 < MaxAttempts
                                       THEN "retry_wait" ELSE "failed"]
    /\ UNCHANGED online

To(p, s) == status' = [status EXCEPT ![p] = s] /\ UNCHANGED <<attempts, online>>

-----------------------------------------------------------------------------
(* do_post_dynamic.                                                        *)

\* The pauses are looked at before the task is started.
Start(p) ==
    /\ alive /\ at[p] = "idle" /\ status[p] = "claimed"
    /\ IF Paused THEN Failed(p, TRUE) /\ UNCHANGED at
                 ELSE To(p, "running") /\ Goto(p, "writing")
    /\ UNCHANGED <<process, operator, pauses, quota>>

\* The activity's intent cannot be recorded: the account is paused.
NoActivity(p) ==
    /\ alive /\ at[p] = "writing" /\ p \in Dynamics
    /\ PauseAccount
    /\ Failed(p, TRUE)
    /\ Goto(p, "idle")
    /\ UNCHANGED <<process, operator, quota>>

\* The model raises or answers nothing, or the check raises.
NoText(p) ==
    /\ alive /\ at[p] = "writing" /\ p \in Dynamics
    /\ Failed(p, TRUE)
    /\ Goto(p, "idle")
    /\ UNCHANGED <<process, operator, pauses, quota>>

\* check_content refuses the text, or answers that there is a pause: either
\* way the task fails for good, unless the archive of the rejection raises.
Rejected(p) ==
    /\ alive /\ at[p] = "writing" /\ p \in Dynamics
    /\ \/ Failed(p, FALSE) /\ UNCHANGED pauses
       \/ Failed(p, TRUE) /\ PauseAccount
    /\ Goto(p, "idle")
    /\ UNCHANGED <<process, operator, quota>>

\* Faulty variant of the check: only the text counts.
MayPassPaused(p) == TRUE
MayPass(p) == ~Paused

\* check_content and check_and_record_rate_limit, with no await between them.
Reserve(p) ==
    LET k == Key(p)
    IN  /\ alive /\ at[p] = "writing"
        /\ MayPass(p)
        /\ Goto(p, IF p \in Dynamics THEN "drawing" ELSE "posting")
        /\ \/ /\ ~enabled
              /\ unlimited < MaxUnlimited
              /\ unlimited' = unlimited + 1
              /\ UNCHANGED <<lim, lost, troubles>>
           \/ /\ enabled
              /\ HasRoom(lim, k, now)
              /\ \/ /\ lim' = Reserved(lim, k, now, TRUE)
                    /\ UNCHANGED <<lost, troubles>>
                 \/ /\ Trouble
                    /\ lim' = Reserved(lim, k, now, FALSE)
                    /\ lost' = lost + 1
              /\ UNCHANGED unlimited
        /\ kept' = [kept EXCEPT ![k] = @ + 1]
        /\ UNCHANGED <<process, enabled, pauses, tasks, unreturned, unread>>

\* The limit is reached; the archive of the deferral may raise.
Limited(p) ==
    /\ alive /\ at[p] = "writing"
    /\ MayPass(p)
    /\ enabled /\ ~HasRoom(lim, Key(p), now)
    /\ lim' = Trimmed(lim, Key(p), now)
    /\ IF p \in Dynamics
       THEN Failed(p, TRUE) /\ (UNCHANGED pauses \/ PauseAccount)
       ELSE UNCHANGED <<tasks, pauses>>
    /\ Goto(p, Home(p))
    /\ UNCHANGED <<process, operator, kept, lost, unlimited, unreturned, unread>>

\* The picture is described, generated and uploaded, or not: a dynamic without
\* one is posted all the same, and the pauses are not looked at again.
Illustrate(p) ==
    /\ alive /\ at[p] = "drawing"
    /\ Goto(p, "posting")
    /\ UNCHANGED <<process, operator, pauses, quota, tasks>>

\* The platform publishes; whether the answer arrives is seen later.
Post(p) ==
    /\ alive /\ at[p] = "posting"
    /\ online' = IF p \in Dynamics THEN online \cup {p} ELSE online
    /\ Goto(p, "posted")
    /\ UNCHANGED <<process, operator, pauses, quota, status, attempts>>

\* No answer, or one that says nothing: not posted again, the quota is kept.
\* The archive's exceptions end here, but a failed archive pauses the account.
NoAnswer(p) ==
    /\ alive /\ at[p] \in {"posting", "posted"}
    /\ IF p \in Dynamics
       THEN To(p, "result_unknown") /\ (UNCHANGED pauses \/ PauseAccount)
       ELSE UNCHANGED <<tasks, pauses>>
    /\ Goto(p, Home(p))
    /\ UNCHANGED <<process, operator, quota>>

\* The answer is a success: recorded and archived, or archived in vain.
Answered(p) ==
    /\ alive /\ at[p] = "posted"
    /\ IF p \in Dynamics
       THEN \/ To(p, "succeeded") /\ UNCHANGED pauses
            \/ To(p, "result_unknown") /\ PauseAccount
       ELSE UNCHANGED <<tasks, pauses>>
    /\ Goto(p, Home(p))
    /\ UNCHANGED <<process, operator, quota>>

GiveBack(p) ==
    \/ /\ ~enabled
       /\ unreturned' = unreturned + 1
       /\ UNCHANGED <<lim, troubles>>
    \/ /\ enabled
       /\ lim' = Refunded(lim, Key(p), TRUE)
       /\ UNCHANGED <<unreturned, troubles>>
    \/ /\ enabled
       /\ Trouble
       /\ lim' = Refunded(lim, Key(p), FALSE)
       /\ unreturned' = unreturned + 1

\* The platform refuses: risk control may pause the account, and the quota is
\* given back before the archive is awaited.
Refused(p) ==
    /\ alive /\ at[p] = "posting"
    /\ UNCHANGED pauses \/ PauseAccount
    /\ GiveBack(p)
    /\ kept' = [kept EXCEPT ![Key(p)] = @ - 1]
    /\ Goto(p, IF p \in Dynamics THEN "filing" ELSE Home(p))
    /\ UNCHANGED <<process, enabled, tasks, lost, unlimited, unread>>

\* Faulty variant: an answer that was lost is filed as a refusal.
FiledAnyway(p) == at[p] \in {"filing", "posted"}
Filing(p) == at[p] = "filing"

\* The refusal is archived; if that raises, a post has been attempted and the
\* task is not tried again.
File(p) ==
    /\ alive /\ Filing(p) /\ p \in Dynamics
    /\ \/ Failed(p, TRUE) /\ UNCHANGED pauses
       \/ To(p, "result_unknown") /\ PauseAccount
    /\ Goto(p, "idle")
    /\ UNCHANGED <<process, operator, quota>>

\* process_retryable_tasks
Retry(p) ==
    /\ alive /\ status[p] = "retry_wait"
    /\ To(p, "claimed")
    /\ UNCHANGED <<process, operator, pauses, quota, at>>

-----------------------------------------------------------------------------
(* The operator, the clock and the process.                                *)

Pause ==
    /\ Trouble
    /\ ~global
    /\ global' = TRUE
    /\ Order
    /\ UNCHANGED <<process, enabled, account, quota, tasks, at>>

Resume ==
    /\ Trouble
    /\ global
    /\ global' = FALSE
    /\ UNCHANGED <<process, enabled, account, cleared, quota, tasks, at>>

\* resume_account: a row that cannot be deleted is only logged, and the next
\* look at it pauses the account again.
ResumeAccount ==
    /\ Trouble
    /\ account.mem
    /\ account' \in {[db |-> FALSE, mem |-> FALSE], [account EXCEPT !.mem = FALSE]}
    /\ UNCHANGED <<process, enabled, global, cleared, quota, tasks, at>>

\* reload_config keeps the windows as they are.
Reload ==
    /\ alive
    /\ Trouble
    /\ enabled' = ~enabled
    /\ UNCHANGED <<process, pauses, quota, tasks, at>>

Tick ==
    /\ now < MaxNow
    /\ now' = now + 1
    /\ UNCHANGED <<alive, operator, pauses, quota, tasks, at>>

Crash ==
    /\ alive
    /\ Trouble
    /\ alive' = FALSE
    /\ at' = [p \in Work |-> Home(p)]
    /\ account' = [account EXCEPT !.mem = FALSE]
    /\ UNCHANGED <<now, enabled, global, cleared, quota, tasks>>

\* The pauses and the windows come back from their tables, or the windows start
\* empty beside their rows; what was running is claimed again, whether it had
\* posted or not (TaskRun looks at that).
Boot ==
    /\ ~alive
    /\ alive' = TRUE
    /\ account' = [account EXCEPT !.mem = account.db]
    /\ \/ /\ lim' = Loaded(lim, now)
          /\ UNCHANGED <<unread, troubles>>
       \/ /\ Trouble
          /\ \E swept \in BOOLEAN : lim' = Unloaded(lim, now, swept)
          /\ unread' = LET rows == Both([k \in Keys |-> Len(lim.rows[k])])
                       IN  IF rows > unread THEN rows ELSE unread
    /\ status' = [p \in Dynamics |-> IF status[p] = "running" THEN "claimed"
                                                              ELSE status[p]]
    /\ online' = {p \in online : status[p] # "running"}
    /\ cleared' = {}
    /\ UNCHANGED <<now, enabled, global, kept, lost, unlimited, unreturned,
                   attempts, at>>

Next ==
    \/ \E p \in Dynamics :
         \/ Start(p) \/ NoActivity(p) \/ NoText(p) \/ Rejected(p) \/ File(p)
         \/ Retry(p)
    \/ \E p \in Work :
         \/ Reserve(p) \/ Limited(p) \/ Illustrate(p) \/ Post(p) \/ NoAnswer(p)
         \/ Answered(p) \/ Refused(p)
    \/ Pause \/ Resume \/ ResumeAccount \/ Reload \/ Tick \/ Crash \/ Boot

Spec == Init /\ [][Next]_vars

-----------------------------------------------------------------------------
(* Properties.                                                             *)

\* A day's publications stay within the key's limit and within the quota of
\* all keys together, whatever is refused and given back, whoever's entry a
\* refund takes, and whether the windows are counted or read back after a
\* restart.  What exceeds them is no more than what was published while the
\* limiter was off, what could not be written (safety.py:704, 868, 206), and
\* what a load that failed left out: it starts from nothing (safety.py:290).
Uncounted == lost + unlimited
Excess == Uncounted + unread
QuotaHolds ==
    /\ \A k \in Keys : kept[k] <= PerDay + Excess
    /\ Both(kept) <= GlobalQuota + Excess

\* What the platform refused is given back: an account's quota is used up by
\* publications that may be online and by nothing else, but for refusals that
\* fell into the time the limiter was off (safety.py:868), or whose row could
\* not be deleted and is counted again after a restart (safety.py:336, 358).
RefusalsGiveBack ==
    alive => /\ \A k \in Keys : Len(lim.day[k]) <= kept[k] + unreturned
             /\ Len(lim.total) <= Both(kept) + unreturned

\* A pause, of the bot or of the account, of the operator, of risk control or
\* of the memory's failure, before or after a restart, stops every publication
\* that has not passed its check when the pause begins (safety.py:576).
PauseStopsUnchecked ==
    Paused => PastCheck \subseteq cleared

\* A task that will be tried again was not published by the attempt that
\* failed: after a post was tried only the platform's own refusal leads to
\* another attempt (scheduler_dynamic_post.py:678).
RetriedIsNotOnline ==
    \A p \in Dynamics : status[p] \in {"retry_wait", "claimed"} => p \notin online
=============================================================================
