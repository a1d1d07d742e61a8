--------------------------- MODULE WeeklySummary ---------------------------
(***************************************************************************)
(* The weekly summary of one account: scheduler_weekly.py, run by the main *)
(* loop every minute of a Monday, with the TaskRun row of the week that is *)
(* meant to pace its retries.  The main loop is one coroutine: while it    *)
(* waits for the model neither the retry pass nor the watchdog runs, but   *)
(* an operator's request can, and the process can die.                     *)
(***************************************************************************)
EXTENDS TaskStore

CONSTANTS
    StoreFails,     \* the task store may raise
    MaxNow,         \* the clock stops here (bound)
    MaxCrashes,     \* how often the process dies (bound)
    MaxRequests     \* how many cancel and retry requests arrive (bound)

\* Assumed by the modules that instantiate this one.
WeeklyAssumption ==
    /\ StoreFails \in BOOLEAN
    /\ {MaxNow, MaxCrashes, MaxRequests} \subseteq Nat

VARIABLES
    now, alive,
    monday,         \* the check runs on Mondays only
    row,            \* the week's TaskRun row, durable
    archived,       \* the memory brain has an event of the week, durable
    loop,           \* where the main loop is
    held,           \* task_id # None in the check that is under way
    quiet,          \* history: a week without activity was skipped
    sound,          \* history: the task store has not raised
    crashes, requests

env == <<crashes, requests>>
vars == <<now, alive, monday, row, archived, loop, held, quiet, sound, env>>

NoRow == [CreatedRow(0) EXCEPT !.status = "absent"]

Init ==
    /\ now = 0
    /\ alive = FALSE
    /\ monday = TRUE
    /\ row = NoRow
    /\ archived = FALSE
    /\ loop = "idle"
    /\ held = FALSE
    /\ quiet = FALSE
    /\ sound = TRUE
    /\ crashes = 0
    /\ requests = 0

Tick ==
    /\ now < MaxNow
    /\ now' = now + 1
    /\ UNCHANGED <<alive, monday, row, archived, loop, held, quiet, sound, env>>

MondayEnds ==
    /\ monday
    /\ monday' = FALSE
    /\ UNCHANGED <<now, alive, row, archived, loop, held, quiet, sound, env>>

\* scheduler_start: the scene is not one that is rerun at once, so an
\* interrupted row is only requeued.
BootedRow ==
    CASE CanInterrupt(row) \/ row.status = "interrupted"
                          -> RetryRow(InterruptRow(row), now)
      [] CanExpire(row, now) -> ExpireRow(row)
      [] OTHER               -> row

Boot ==
    /\ ~alive
    /\ alive' = TRUE
    /\ row' = BootedRow
    /\ UNCHANGED <<now, monday, archived, loop, held, quiet, sound, env>>

Crash ==
    /\ alive
    /\ crashes < MaxCrashes
    /\ crashes' = crashes + 1
    /\ alive' = FALSE
    /\ loop' = "idle"
    /\ held' = FALSE
    /\ UNCHANGED <<now, monday, row, archived, quiet, sound, requests>>

-----------------------------------------------------------------------------
(* The other visitors of the row.                                          *)

\* process_retryable_tasks: dispatch_task_run claims the row, finds no
\* coroutine for the scene, and the row is failed for good.
RetryPass ==
    /\ alive /\ loop = "idle"
    /\ RetryDue(row, now)
    /\ row' = FailRow(ClaimRow(RetryRow(row, now), now), now, FALSE, 0)
    /\ UNCHANGED <<now, alive, monday, archived, loop, held, quiet, sound, env>>

Watchdog ==
    /\ alive /\ loop = "idle"
    /\ LeaseExpired(row, now)
    /\ row' = FailRow(row, now, TRUE, 0)
    /\ UNCHANGED <<now, alive, monday, archived, loop, held, quiet, sound, env>>

\* POST tasks/{id}/retry: dispatch_task_run claims the row and answers False.
RetryRequest ==
    /\ alive
    /\ requests < MaxRequests
    /\ CanRetry(row)
    /\ row' = ClaimRow(RetryRow(row, now), now)
    /\ requests' = requests + 1
    /\ UNCHANGED <<now, alive, monday, archived, loop, held, quiet, sound, crashes>>

\* Faulty variant of the request: it looks at no status.
CancelRequestBlind ==
    /\ alive
    /\ requests < MaxRequests
    /\ row # NoRow
    /\ row' = CancelRow(row)
    /\ requests' = requests + 1
    /\ UNCHANGED <<now, alive, monday, archived, loop, held, quiet, sound, crashes>>

CancelRequest ==
    /\ alive
    /\ requests < MaxRequests
    /\ CanCancel(row)
    /\ row' = CancelRow(row)
    /\ requests' = requests + 1
    /\ UNCHANGED <<now, alive, monday, archived, loop, held, quiet, sound, crashes>>

-----------------------------------------------------------------------------
(* check_weekly_summary.                                                   *)

\* The row the check ends up with and whether it holds it, for the branches
\* that go on to write.  A new or scheduled row is claimed and started.  A row
\* that is failed, expired or result_unknown falls through every branch.
Taken ==
    LET started(r) == StartRow(ClaimRow(r, now))
    IN  CASE row.status = "absent"
               -> {[row |-> started(CreatedRow(now)), held |-> TRUE]}
          [] CanClaim(row, now)
               -> {[row |-> started(row), held |-> TRUE]}
          [] row.status \in {"failed", "expired", "result_unknown", "interrupted"}
               -> {[row |-> row, held |-> FALSE]}
          [] OTHER -> {}

\* The same when the store raises half way: the exception is logged, the check
\* goes on, and holds the row if it had created it.
Botched ==
    IF ~StoreFails THEN {}
    ELSE {[row |-> row, held |-> FALSE]}
           \cup (IF row.status = "absent"
                 THEN {[row |-> r, held |-> TRUE] :
                         r \in {CreatedRow(now), ClaimRow(CreatedRow(now), now)}}
                 ELSE {})
           \cup (IF CanClaim(row, now)
                 THEN {[row |-> ClaimRow(row, now), held |-> FALSE]} ELSE {})

\* What succeed() and fail() leave of r.
Succeeded(r) == IF CanSucceed(r) THEN SucceedRow(r) ELSE r
Failed(r) == IF CanFail(r) THEN FailRow(r, now, TRUE, 0) ELSE r

CanCheck == alive /\ loop = "idle" /\ monday /\ ~archived

\* The week has no activity, which ends the check; or the model is asked.
SkipWith(taken) ==
    /\ CanCheck
    /\ row' \in taken
    /\ quiet' = TRUE
    /\ UNCHANGED <<now, alive, monday, archived, loop, held, env>>

WriteWith(taken) ==
    /\ CanCheck
    /\ \E t \in taken : row' = t.row /\ held' = t.held
    /\ loop' = "writing"
    /\ UNCHANGED <<now, alive, monday, archived, quiet, env>>

Skip ==
    /\ SkipWith({IF t.held THEN Succeeded(t.row) ELSE t.row : t \in Taken})
    /\ UNCHANGED sound

Write == WriteWith(Taken) /\ UNCHANGED sound

\* The store raises while the row is taken, or at the end of a skipped week.
Botch ==
    /\ \/ WriteWith(Botched)
       \/ StoreFails /\ SkipWith({t.row : t \in Taken \cup Botched})
    /\ sound' = FALSE

\* It raises while the outcome is recorded, which is logged and swallowed.
Unrecorded ==
    /\ StoreFails
    /\ alive /\ loop # "idle" /\ held
    /\ loop' = "idle"
    /\ held' = FALSE
    /\ sound' = FALSE
    /\ UNCHANGED <<now, alive, monday, row, archived, quiet, env>>

\* It has no answer, or raises, or the event cannot be archived.
NotWritten ==
    /\ alive /\ loop = "writing"
    /\ row' = IF held THEN Failed(row) ELSE row
    /\ loop' = "idle"
    /\ held' = FALSE
    /\ UNCHANGED <<now, alive, monday, archived, quiet, sound, env>>

Archive ==
    /\ alive /\ loop = "writing"
    /\ archived' = TRUE
    /\ loop' = "archived"
    /\ UNCHANGED <<now, alive, monday, row, held, quiet, sound, env>>

\* The action is archived too, or that raises.
Finish ==
    /\ alive /\ loop = "archived"
    /\ row' \in IF held THEN {Succeeded(row), Failed(row)} ELSE {row}
    /\ loop' = "idle"
    /\ held' = FALSE
    /\ UNCHANGED <<now, alive, monday, archived, quiet, sound, env>>

-----------------------------------------------------------------------------
Next ==
    \/ Tick \/ MondayEnds \/ Boot \/ Crash
    \/ RetryPass \/ Watchdog \/ RetryRequest \/ CancelRequest
    \/ Skip \/ Write \/ Botch \/ Unrecorded \/ NotWritten \/ Archive \/ Finish

Spec == Init /\ [][Next]_vars

-----------------------------------------------------------------------------
(* Properties.                                                             *)

\* A row that says the summary succeeded is not lying: the event of the week
\* is archived, or the week was skipped as one without activity.
SuccessIsArchived == row.status = "succeeded" => archived \/ quiet

\* While a check that holds the row waits for the model or the archive, no
\* request, pass or restart takes the row from it: its outcome finds the row
\* running (when the store did not raise).
HolderKeepsRow == held /\ sound => row.status = "running"

\* If Monday does not end, operators keep away, and the store does not raise,
\* the week gets its summary: no status that passes,
\* watchdog and restarts leave behind keeps the check out for ever.
Unwritten == monday /\ requests = 0 /\ sound /\ ~archived /\ ~quiet
=============================================================================
