------------------------------- MODULE Bangumi -------------------------------
(***************************************************************************)
(* Following series (src/bilibot/bangumi.py, scheduler_bangumi.py): a      *)
(* check of the day, and one an operator asks for beside it, take an       *)
(* episode nobody has completed, download and judge it, archive what they  *)
(* saw, act on it (like, comment, follow), and only then count it as       *)
(* completed.  Every act has an intent in the archive before it and an     *)
(* outcome after it, each under a key of its own.                          *)
(***************************************************************************)
EXTENDS Integers

CONSTANTS
    Runners,      \* "daily" and "manual"
    Episodes,
    Acts,         \* in Ordered's order: of like, comment, follow
    Texts,        \* what the model may say of an episode
    MaxTroubles   \* calls that fail, and crashes (bound)

VARIABLES
    runner,     \* [Runners -> where it is, with its episode, judgement and result]
    lock,       \* _action_locks: [Episodes \X Acts -> holder]
    media,      \* the episodes whose file is on the disk
    seen,       \* [Episodes -> the judgement archived of it]
    completed,  \* bangumi_watch_state
    event,      \* [Episodes \X Acts -> [States -> the text archived, if any]]
    checked,    \* _last_bangumi_check_date is today
    cooling,    \* _bangumi_retry_after is ahead
    troubles,
    taken       \* history: how often the platform accepted the act

vars == <<runner, lock, media, seen, completed, event, checked, cooling,
          troubles, taken>>

None == "none"
States == {"intent", "completed", "failed", "result_unknown", "rejected", "deferred"}
Idle == [at |-> "idle", todo |-> {}, ep |-> 0, text |-> None, act |-> None, result |-> None]
At(r, place) == runner[r].at = place
Move(r, place) == runner' = [runner EXCEPT ![r].at = place]
Key(r) == <<runner[r].ep, runner[r].act>>

\* _perform_interactions
After == [start |-> "like", like |-> "comment", comment |-> "follow", follow |-> "end"]
NextAct[a \in DOMAIN After] ==
    IF After[a] = "end" \/ After[a] \in Acts THEN After[a] ELSE NextAct[After[a]]

\* Only a comment has words; the scores of the other acts are left out.
TextOf(r) == IF runner[r].act = "comment" THEN runner[r].text ELSE "act"

Init ==
    /\ runner = [r \in Runners |-> Idle]
    /\ lock = [k \in Episodes \X Acts |-> None]
    /\ media = {} /\ seen = [e \in Episodes |-> None] /\ completed = {}
    /\ event = [k \in Episodes \X Acts |-> [s \in States |-> None]]
    /\ checked = FALSE /\ cooling = FALSE
    /\ troubles = 0 /\ taken = [k \in Episodes \X Acts |-> 0]

Trouble == troubles < MaxTroubles /\ troubles' = troubles + 1
Calm == UNCHANGED troubles

\* run_bangumi_daily_check and do_bangumi_task: an exception backs the daily
\* check off; the task of an operator fails.
Failed(r) ==
    /\ runner' = [runner EXCEPT ![r] = Idle]
    /\ cooling' = (cooling \/ r = "daily")
    /\ UNCHANGED checked

Succeeded(r) ==
    /\ runner' = [runner EXCEPT ![r] = Idle]
    /\ checked' = TRUE /\ cooling' = FALSE

\* _cleanup_episode_artifacts
Cleaned(r) == media' = media \ {runner[r].ep}

-----------------------------------------------------------------------------
(* One check: check_updates and watch_bangumi.                             *)

\* maybe_schedule_bangumi_check, and the operator's task at any time.
Check(r) ==
    /\ At(r, "idle")
    /\ r = "daily" => ~checked /\ ~cooling
    /\ IF Episodes \subseteq completed THEN Succeeded(r)
       ELSE Move(r, "choosing") /\ UNCHANGED <<checked, cooling>>
    /\ UNCHANGED <<lock, media, seen, completed, event, troubles, taken>>

\* The list of the unwatched is made once; what another runner completes
\* meanwhile stays on it.
List(r) ==
    /\ At(r, "choosing")
    /\ IF Episodes \subseteq completed THEN Succeeded(r)
       ELSE /\ runner' = [runner EXCEPT ![r].at = "next", ![r].todo = Episodes \ completed]
            /\ UNCHANGED <<checked, cooling>>
    /\ UNCHANGED <<lock, media, seen, completed, event, troubles, taken>>

\* In the order of the series; too low a score or max_episodes ends it early.
Choose(r) ==
    /\ At(r, "next")
    /\ \/ /\ \E e \in runner[r].todo :
              /\ \A f \in runner[r].todo : e <= f
              /\ runner' = [runner EXCEPT ![r] = [Idle EXCEPT !.at = "downloading",
                                 !.ep = e, !.todo = runner[r].todo \ {e}]]
          /\ UNCHANGED <<checked, cooling>>
       \/ /\ \/ runner[r].todo = {} \/ runner[r].ep # 0
          /\ Succeeded(r)
    /\ UNCHANGED <<lock, media, seen, completed, event, troubles, taken>>

\* download_bangumi_video
Download(r) ==
    /\ At(r, "downloading")
    /\ \/ media' = media \cup {runner[r].ep} /\ Move(r, "looking") /\ Calm
          /\ UNCHANGED <<checked, cooling>>
       \/ Trouble /\ Failed(r) /\ Cleaned(r)
    /\ UNCHANGED <<lock, seen, completed, event, taken>>

\* understand: without the file, or without an answer, nothing is kept.
Look(r) ==
    /\ At(r, "looking")
    /\ \/ runner[r].ep \in media /\ Move(r, "recalling") /\ Calm
          /\ UNCHANGED <<checked, cooling, media>>
       \/ runner[r].ep \notin media /\ Failed(r) /\ Cleaned(r) /\ Calm
       \/ Trouble /\ Failed(r) /\ Cleaned(r)
    /\ UNCHANGED <<lock, seen, completed, event, taken>>

\* _recall_for_bangumi, outside the blocks that clean up, and the judgement.
Judge(r) ==
    /\ At(r, "recalling")
    /\ \/ \E x \in Texts :
            runner' = [runner EXCEPT ![r].at = "finding", ![r].text = x]
          /\ Calm /\ UNCHANGED <<checked, cooling>>
       \/ Trouble /\ Failed(r)
    /\ UNCHANGED <<lock, media, seen, completed, event, taken>>

\* The episode's event, unless one is there under its key.  Another runner
\* may commit one between the look and the write: other content under the
\* same key is refused.  Too low a score leads to no act.
Acting(r) ==
    \E a \in {NextAct["start"], "end"} :
      runner' = [runner EXCEPT ![r].at = "acting", ![r].act = a]

Find(r) ==
    /\ At(r, "finding")
    /\ IF seen[runner[r].ep] = None THEN Move(r, "archiving") ELSE Acting(r)
    /\ UNCHANGED <<lock, media, seen, completed, event, checked, cooling, troubles, taken>>

Archive(r) ==
    /\ At(r, "archiving")
    /\ LET e == runner[r].ep
           fits == seen[e] \in {None, runner[r].text}
       IN  \/ /\ fits /\ Acting(r) /\ Calm
              /\ seen' = [seen EXCEPT ![e] = runner[r].text]
              /\ UNCHANGED <<checked, cooling, media>>
           \/ /\ \/ ~fits /\ Calm
                 \/ Trouble
              /\ Failed(r) /\ Cleaned(r) /\ UNCHANGED seen
    /\ UNCHANGED <<lock, completed, event, taken>>

\* The episode is completed when everything before it went well.
Complete(r) ==
    /\ At(r, "acting") /\ runner[r].act = "end"
    /\ \/ /\ completed' = completed \cup {runner[r].ep}
          /\ Cleaned(r) /\ Calm /\ Move(r, "next") /\ UNCHANGED <<checked, cooling>>
       \/ Trouble /\ Failed(r) /\ Cleaned(r) /\ UNCHANGED completed
    /\ UNCHANGED <<lock, seen, event, taken>>

-----------------------------------------------------------------------------
(* One act: _execute_and_archive_action.                                   *)

\* archive_observation under the key of the act and the state: the same
\* content again is the same event, other content is a conflict.
Fits(k, state, text) == event[k][state] \in {None, text}
Stored(k, state, text) == event' = [event EXCEPT ![k][state] = text]

\* The exception leaves the lock, cleans up, and ends the check.
GivesUp(r) == Failed(r) /\ Cleaned(r) /\ lock' = [lock EXCEPT ![Key(r)] = None]
              /\ UNCHANGED event

Conclude(r, state) ==
    \/ /\ Fits(Key(r), state, TextOf(r)) /\ Stored(Key(r), state, TextOf(r)) /\ Calm
       /\ lock' = [lock EXCEPT ![Key(r)] = None]
       /\ runner' = [runner EXCEPT ![r].at = "acting", ![r].act = NextAct[@],
                                   ![r].result = None]
       /\ UNCHANGED <<media, checked, cooling>>
    \/ ~Fits(Key(r), state, TextOf(r)) /\ Calm /\ GivesUp(r)
    \/ Trouble /\ GivesUp(r)

Lock(r) ==
    /\ At(r, "acting") /\ runner[r].act # "end" /\ lock[Key(r)] = None
    /\ lock' = [lock EXCEPT ![Key(r)] = r]
    /\ Move(r, "intending")
    /\ UNCHANGED <<media, seen, completed, event, checked, cooling, troubles, taken>>

\* Faulty variant: an outcome is what counts as an attempt.
Attempted_ByOutcome(k) == event[k]["completed"] # None

\* The lookup of the intent by its key.
Attempted(k) == event[k]["intent"] # None

\* An intent of an earlier time defers the act for good.
Intend(r) ==
    /\ At(r, "intending")
    /\ IF Attempted(Key(r))
       THEN Conclude(r, "deferred")
       ELSE \/ /\ Stored(Key(r), "intent", TextOf(r)) /\ Move(r, "checking")
               /\ Calm /\ UNCHANGED <<media, lock, checked, cooling>>
            \/ Trouble /\ GivesUp(r)
    /\ UNCHANGED <<seen, completed, taken>>

\* The safety checker and the quota: an answer of no is an outcome.
Screen(r) ==
    /\ At(r, "checking")
    /\ \/ Move(r, "posting") /\ UNCHANGED event /\ Calm
          /\ UNCHANGED <<media, lock, checked, cooling>>
       \/ Conclude(r, "rejected")
    /\ UNCHANGED <<seen, completed, taken>>

\* What an answer that was lost is taken for: follow_bangumi has no third answer.
Answers(r) == IF runner[r].act = "follow" THEN {"failed"} ELSE {"result_unknown"}

\* The platform decides; its answer may be lost either way.
Post(r) ==
    /\ At(r, "posting")
    /\ \E granted \in BOOLEAN, lost \in BOOLEAN :
         /\ lost => troubles < MaxTroubles
         /\ troubles' = troubles + (IF lost THEN 1 ELSE 0)
         /\ taken' = [taken EXCEPT ![Key(r)] = @ + (IF granted THEN 1 ELSE 0)]
         /\ \E x \in IF lost THEN Answers(r)
                     ELSE {IF granted THEN "completed" ELSE "failed"} :
              runner' = [runner EXCEPT ![r].at = "concluding", ![r].result = x]
    /\ UNCHANGED <<media, lock, seen, completed, event, checked, cooling>>

Outcome(r) ==
    /\ At(r, "concluding")
    /\ Conclude(r, runner[r].result)
    /\ UNCHANGED <<seen, completed, taken>>

-----------------------------------------------------------------------------
(* Time and crashes.                                                       *)

Cooled ==
    /\ cooling /\ cooling' = FALSE
    /\ UNCHANGED <<runner, lock, media, seen, completed, event, checked, troubles, taken>>

Tomorrow ==
    /\ checked /\ checked' = FALSE
    /\ UNCHANGED <<runner, lock, media, seen, completed, event, cooling, troubles, taken>>

\* A crash while a call is out: the platform may have accepted it.
Crash ==
    /\ Trouble
    /\ runner' = [r \in Runners |-> Idle]
    /\ lock' = [k \in Episodes \X Acts |-> None]
    /\ checked' = FALSE /\ cooling' = FALSE
    /\ \/ UNCHANGED taken
       \/ \E r \in Runners :
            /\ At(r, "posting")
            /\ taken' = [taken EXCEPT ![Key(r)] = @ + 1]
    /\ UNCHANGED <<media, seen, completed, event>>

Step(r) ==
    \/ List(r) \/ Choose(r) \/ Download(r) \/ Look(r) \/ Judge(r) \/ Find(r) \/ Archive(r)
    \/ Lock(r) \/ Intend(r) \/ Screen(r) \/ Post(r) \/ Outcome(r) \/ Complete(r)

Next == Cooled \/ Tomorrow \/ Crash \/ \E r \in Runners : Check(r) \/ Step(r)

\* The main loop asks for the day's check every minute; calls end.
Spec ==
    /\ Init /\ [][Next]_vars
    /\ WF_vars(Cooled) /\ WF_vars(Tomorrow) /\ WF_vars(Check("daily"))
    /\ \A r \in Runners : WF_vars(Step(r))

-----------------------------------------------------------------------------
(* Properties                                                              *)

\* However often an episode is taken up again, by the check of the day, by an
\* operator's beside it, or after a crash between an act and its record, the
\* platform gets each act once: "Prefer a deferred/manual decision over
\* repeating a like/comment/follow" (bangumi.py 1198-1200).
ActedOnce == \A k \in DOMAIN taken : taken[k] <= 1

\* A like or a comment recorded as failed or rejected is not on the platform:
\* what nobody knows is recorded as result_unknown (bangumi.py 1244-1270).
FailureIsReal ==
    \A k \in DOMAIN event :
      k[2] # "follow" /\ (event[k]["failed"] # None \/ event[k]["rejected"] # None)
        => taken[k] = 0

\* An episode whose judgement is archived is completed in the end: a check
\* that failed is repeated, "preserving same-day recovery"
\* (scheduler_bangumi.py 51).
EpisodesSettle == \A e \in Episodes : seen[e] # None ~> e \in completed
=============================================================================
