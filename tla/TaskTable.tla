----------------------------- MODULE TaskTable -----------------------------
(***************************************************************************)
(* The table of task rows, the coroutines that execute them, and what the  *)
(* scheduler and the panel do to a row whatever its scene is: the moves    *)
(* that TaskRun and DraftPublish have in common.                           *)
(***************************************************************************)
EXTENDS TaskStore

CONSTANTS
    Task,           \* task ids
    Copy,           \* how many coroutines of a task are followed (bound)
    Backoff         \* the backoffs fail() may choose, in time units

ASSUME TableAssumption ==
    /\ Copy \subseteq Nat \ {0}
    /\ Backoff \subseteq Nat

VARIABLES
    now,            \* time.time(), in units of the watchdog's grace
    alive,          \* the scheduler runs
    task,           \* [Task -> TaskRow]: the table, durable
    run,            \* [Task -> [Copy -> Coroutine]]: the live coroutines
    inflight        \* [Task -> Copy \cup {0}]: _inflight_task_runs

Gone == [at |-> "none", tracked |-> FALSE]

NoRow == [CreatedRow(0) EXCEPT !.status = "absent"]

-----------------------------------------------------------------------------
(* Coroutines.                                                             *)

\* asyncio.create_task: the coroutine takes its first step later.
\* _spawn_task_run_coroutine also records it in _inflight_task_runs;
\* _spawn_memory_task does not.
Spawn(t, k, tracked) ==
    /\ run[t][k] = Gone
    /\ run' = [run EXCEPT ![t][k] = [at |-> "ready", tracked |-> tracked]]
    /\ inflight' = IF tracked THEN [inflight EXCEPT ![t] = k] ELSE inflight

\* The done callback pops the task id, whichever coroutine it now names.
Return(t, k) ==
    /\ run' = [run EXCEPT ![t][k] = Gone]
    /\ inflight' = IF run[t][k].tracked THEN [inflight EXCEPT ![t] = 0]
                                        ELSE inflight

Goto(t, k, place) ==
    /\ run' = [run EXCEPT ![t][k].at = place]
    /\ UNCHANGED inflight

Live(t, k) == alive /\ run[t][k] # Gone

\* _succeed_task, _fail_task and _mark_task_result_unknown: the statement
\* updates the row if its guard holds, and an exception of the store is
\* logged and swallowed, which leaves the row as it was.
Record(t, outcome) ==
    \/ UNCHANGED task
    \/ /\ outcome = "succeed"
       /\ CanSucceed(task[t])
       /\ task' = [task EXCEPT ![t] = SucceedRow(@)]
    \/ /\ outcome = "unknown"
       /\ CanMarkResultUnknown(task[t])
       /\ task' = [task EXCEPT ![t] = ResultUnknownRow(@)]
    \/ /\ outcome = "retry"
       /\ CanFail(task[t])
       /\ \E b \in Backoff : task' = [task EXCEPT ![t] = FailRow(@, now, TRUE, b)]
    \/ /\ outcome = "fail"
       /\ CanFail(task[t])
       /\ task' = [task EXCEPT ![t] = FailRow(@, now, FALSE, 0)]

Finish(t, k, outcomes) ==
    /\ \E outcome \in outcomes : Record(t, outcome)
    /\ Return(t, k)

-----------------------------------------------------------------------------
(* What happens to a row.                                                  *)

EmptyTable ==
    /\ task = [t \in Task |-> NoRow]
    /\ run = [t \in Task |-> [k \in Copy |-> Gone]]
    /\ inflight = [t \in Task |-> 0]

\* scheduler_start: recover_interrupted, expire_overdue, then retry() and
\* dispatch of every interrupted row.
IsCutShort(r) == CanInterrupt(r) \/ r.status = "interrupted"

RecoveredRow(r) ==
    CASE IsCutShort(r)     -> ClaimRow(RetryRow(InterruptRow(r), now), now)
      [] CanExpire(r, now) -> ExpireRow(r)
      [] OTHER             -> r

Resume ==
    \E k \in Copy :
      /\ run' = [t \in Task |-> [run[t] EXCEPT ![k] =
                   IF IsCutShort(task[t]) THEN [at |-> "ready", tracked |-> TRUE]
                                          ELSE Gone]]
      /\ inflight' = [t \in Task |-> IF IsCutShort(task[t]) THEN k ELSE 0]

\* The process dies, or cleanup() cancels every background task: a
\* CancelledError passes the handlers of the coroutines, so no row is written.
CoroutinesDie ==
    /\ run' = [t \in Task |-> [k \in Copy |-> Gone]]
    /\ inflight' = [t \in Task |-> 0]
    /\ UNCHANGED task

\* A coroutine takes its first step in the loop iteration after its creation:
\* no time passes before it.
TimePasses ==
    /\ \A t \in Task : \A k \in Copy : run[t][k].at # "ready"
    /\ now' = now + 1

\* retry() then dispatch_task_run, which claims the row and spawns a tracked
\* coroutine.
Redispatch(t) ==
    /\ CanRetry(task[t])
    /\ task' = [task EXCEPT ![t] = ClaimRow(RetryRow(@, now), now)]
    /\ \E k \in Copy : Spawn(t, k, TRUE)

\* process_retryable_tasks
RetryOverdue(t) == RetryDue(task[t], now) /\ Redispatch(t)

\* Faulty variant of the watchdog: it does not look for a live coroutine.
FailOrphanBlind(t) ==
    /\ LeaseExpired(task[t], now)
    /\ \E b \in Backoff : task' = [task EXCEPT ![t] = FailRow(@, now, TRUE, b)]
    /\ UNCHANGED <<run, inflight>>

\* _recover_orphaned_task_runs
FailOrphan(t) ==
    /\ LeaseExpired(task[t], now)
    /\ inflight[t] = 0
    /\ \E b \in Backoff : task' = [task EXCEPT ![t] = FailRow(@, now, TRUE, b)]
    /\ UNCHANGED <<run, inflight>>

\* POST tasks/{id}/cancel
Cancel(t) ==
    /\ CanCancel(task[t])
    /\ task' = [task EXCEPT ![t] = CancelRow(@)]
    /\ UNCHANGED <<run, inflight>>
=============================================================================
