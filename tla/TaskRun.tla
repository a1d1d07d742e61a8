------------------------------ MODULE TaskRun ------------------------------
(***************************************************************************)
(* The TaskRun lifecycle of one account: the durable rows of task_runs.db, *)
(* the coroutines that execute them, and everybody who moves them: the     *)
(* daily slots, the retry pass, the lease watchdog, the panel's operators, *)
(* and the process itself, which may die at any await and recover at the   *)
(* next start.                                                             *)
(*                                                                         *)
(* One action is what the event loop runs between two awaits.  A task may  *)
(* have several coroutines at once, since a requeued row is dispatched     *)
(* again without looking for the coroutine that had it.                    *)
(***************************************************************************)
EXTENDS TaskTable, FiniteSets

CONSTANTS
    Video,          \* the tasks of scene proactive_video; others are dynamics
    Slot,           \* the tasks of today's plan; others are manual
    SlotTime,       \* [Slot -> Nat]: the minute the plan gives a slot
    MaxNow,         \* the clock stops here (bound)
    MaxCrashes,     \* how often the process dies (bound)
    MaxRequests     \* how many cancel and retry requests arrive (bound)

ASSUME TaskAssumption ==
    /\ Video \subseteq Task
    /\ Slot \subseteq Task
    /\ SlotTime \in [Slot -> Nat]
    /\ {MaxNow, MaxCrashes, MaxRequests} \subseteq Nat

VARIABLES
    triggered,      \* _proactive_triggered and _dynamic_triggered
    begun,          \* history: how often start() succeeded
    cut,            \* history: how often a restart interrupted the row
    requeued,       \* history: how often an operator retried the row
    posts,          \* history: dynamics the platform published for the task
    crashes, requests

memory == <<run, inflight, triggered>>
history == <<begun, cut, requeued, posts>>
vars == <<now, alive, task, memory, history, crashes, requests>>

Place == {"none", "ready", "working", "posting", "posted"}
Coroutine == [at : Place, tracked : BOOLEAN]

-----------------------------------------------------------------------------
(* The process.                                                            *)

Init ==
    /\ now = 0
    /\ alive = FALSE
    /\ EmptyTable
    /\ triggered = {}
    /\ begun = [t \in Task |-> 0]
    /\ cut = [t \in Task |-> 0]
    /\ requeued = [t \in Task |-> 0]
    /\ posts = [t \in Task |-> 0]
    /\ crashes = 0
    /\ requests = 0

\* scheduler_start: the rows are recovered and resumed, then
\* generate_daily_schedule (the plan of the day is the same after a restart; a
\* row that exists is kept) and mark_overdue_as_triggered.
BootedRow(t) ==
    IF task[t].status = "absent" /\ t \in Slot
    THEN CreatedRow(SlotTime[t])
    ELSE RecoveredRow(task[t])

Boot ==
    /\ ~alive
    /\ alive' = TRUE
    /\ task' = [t \in Task |-> BootedRow(t)]
    /\ Resume
    /\ triggered' = {t \in Slot : SlotTime[t] < now}
    /\ cut' = [t \in Task |-> IF CanInterrupt(task[t]) THEN cut[t] + 1
                                                       ELSE cut[t]]
    /\ UNCHANGED <<now, begun, requeued, posts, crashes, requests>>

Crash ==
    /\ alive
    /\ crashes < MaxCrashes
    /\ crashes' = crashes + 1
    /\ alive' = FALSE
    /\ CoroutinesDie
    /\ triggered' = {}
    /\ UNCHANGED <<now, history, requests>>

Tick ==
    /\ now < MaxNow
    /\ TimePasses
    /\ UNCHANGED <<alive, task, memory, history, crashes, requests>>

-----------------------------------------------------------------------------
(* Who dispatches a row.                                                   *)

\* check_proactive_tasks: the first due slot of the scene that this process
\* has not triggered is claimed and spawned, or only marked when its row is
\* not claimable.  A video is tracked, a dynamic is not.
TriggerSlot(t) ==
    /\ alive
    /\ t \in Slot \ triggered
    /\ SlotTime[t] <= now
    /\ \A u \in Slot \ triggered :
         ((u \in Video) = (t \in Video)) => SlotTime[t] <= SlotTime[u]
    /\ triggered' = triggered \cup {t}
    /\ \/ /\ CanClaim(task[t], now)
          /\ task' = [task EXCEPT ![t] = ClaimRow(@, now)]
          /\ \E k \in Copy : Spawn(t, k, t \in Video)
       \/ /\ ~CanClaim(task[t], now)
          /\ UNCHANGED <<task, run, inflight>>
    /\ UNCHANGED <<now, alive, history, crashes, requests>>

RetryPass(t) ==
    /\ alive
    /\ RetryOverdue(t)
    /\ UNCHANGED <<now, alive, triggered, history, crashes, requests>>

Watchdog(t) ==
    /\ alive
    /\ FailOrphan(t)
    /\ UNCHANGED <<now, alive, triggered, history, crashes, requests>>

\* POST tasks/proactive-video and tasks/dynamic: the row stays scheduled, and
\* an untracked coroutine claims it itself.
CreateManual(t) ==
    /\ alive
    /\ t \in Task \ Slot
    /\ task[t].status = "absent"
    /\ task' = [task EXCEPT ![t] = CreatedRow(now)]
    /\ \E k \in Copy : Spawn(t, k, FALSE)
    /\ UNCHANGED <<now, alive, triggered, history, crashes, requests>>

CancelRequest(t) ==
    /\ alive
    /\ requests < MaxRequests
    /\ Cancel(t)
    /\ requests' = requests + 1
    /\ UNCHANGED <<now, alive, triggered, history, crashes>>

\* POST tasks/{id}/retry
RetryRequest(t) ==
    /\ alive
    /\ requests < MaxRequests
    /\ Redispatch(t)
    /\ requests' = requests + 1
    /\ requeued' = [requeued EXCEPT ![t] = @ + 1]
    /\ UNCHANGED <<now, alive, triggered, begun, cut, posts, crashes>>

-----------------------------------------------------------------------------
(* _do_proactive_video and do_post_dynamic.                                *)

\* The first step, up to the first await: a missing dependency or a pause
\* fails the row before anything is claimed.
Refuse(t, k) ==
    /\ Live(t, k)
    /\ run[t][k].at = "ready"
    /\ Finish(t, k, {"retry", "fail"})
    /\ UNCHANGED <<now, alive, triggered, history, crashes, requests>>

\* A scheduled row is claimed here, a claimed one was claimed by whoever
\* dispatched it; then start().  Any other status ends the coroutine.
Enter(t, k) ==
    LET mine == IF CanClaim(task[t], now) THEN ClaimRow(task[t], now)
                                          ELSE task[t]
    IN  /\ Live(t, k)
        /\ run[t][k].at = "ready"
        /\ \/ /\ CanStart(mine)
              /\ task' = [task EXCEPT ![t] = StartRow(mine)]
              /\ begun' = [begun EXCEPT ![t] = @ + 1]
              /\ Goto(t, k, "working")
           \/ /\ ~CanStart(mine)
              /\ Return(t, k)
              /\ UNCHANGED <<task, begun>>
        /\ UNCHANGED <<now, alive, triggered, cut, requeued, posts, crashes,
                       requests>>

\* Everything before the platform is asked to publish: a video is watched, a
\* dynamic is written, checked, or filed as a draft for review.
Work(t, k) ==
    /\ Live(t, k)
    /\ run[t][k].at = "working"
    /\ \/ Finish(t, k, {"succeed", "retry", "fail"})
       \/ /\ t \notin Video
          /\ Goto(t, k, "posting")
          /\ UNCHANGED task
    /\ UNCHANGED <<now, alive, triggered, history, crashes, requests>>

\* The platform publishes the dynamic.
Publish(t, k) ==
    /\ Live(t, k)
    /\ run[t][k].at = "posting"
    /\ Goto(t, k, "posted")
    /\ posts' = [posts EXCEPT ![t] = @ + 1]
    /\ UNCHANGED <<now, alive, task, triggered, begun, cut, requeued, crashes,
                   requests>>

\* It did not: a refusal is answered False, a lost request raises or is None.
NotPublished(t, k) ==
    /\ Live(t, k)
    /\ run[t][k].at = "posting"
    /\ Finish(t, k, {"retry", "unknown"})
    /\ UNCHANGED <<now, alive, triggered, history, crashes, requests>>

\* The answer comes back, or is lost, or the result cannot be archived.
Published(t, k) ==
    /\ Live(t, k)
    /\ run[t][k].at = "posted"
    /\ Finish(t, k, {"succeed", "unknown"})
    /\ UNCHANGED <<now, alive, triggered, history, crashes, requests>>

-----------------------------------------------------------------------------
Step(t, k) == \/ Refuse(t, k) \/ Enter(t, k) \/ Work(t, k)
              \/ Publish(t, k) \/ NotPublished(t, k) \/ Published(t, k)

Next ==
    \/ Boot \/ Crash \/ Tick
    \/ \E t \in Task :
         \/ TriggerSlot(t) \/ RetryPass(t) \/ Watchdog(t)
         \/ CreateManual(t) \/ CancelRequest(t) \/ RetryRequest(t)
         \/ \E k \in Copy : Step(t, k)

Spec == Init /\ [][Next]_vars

\* The main loop comes round every minute and the event loop starves nobody;
\* the clock runs and the process is restarted.  Operators owe nothing.
Fairness ==
    /\ WF_vars(Tick)
    /\ WF_vars(Boot)
    /\ \A t \in Task :
         /\ WF_vars(RetryPass(t))
         /\ WF_vars(Watchdog(t))
         /\ \A k \in Copy : WF_vars(Step(t, k))

FairSpec == Spec /\ Fairness

-----------------------------------------------------------------------------
(* Properties.                                                             *)

\* Every variable has its type.
TypeOK ==
    /\ now \in Nat
    /\ alive \in BOOLEAN
    /\ task \in [Task -> TaskRow \cup {NoRow}]
    /\ run \in [Task -> [Copy -> Coroutine]]
    /\ inflight \in [Task -> Copy \cup {0}]
    /\ triggered \subseteq Slot
    /\ {begun, cut, requeued, posts} \subseteq [Task -> Nat]
    /\ crashes \in Nat
    /\ requests \in Nat

\* A row is executed at most once per attempt it spends, plus once per restart
\* that cut it short (recover_interrupted does not spend an attempt) and once
\* for the execution that is under way or settled it.
Executing == {"running", "succeeded", "result_unknown"}
StartBudget ==
    \A t \in Task :
      begun[t] <= task[t].attempt + cut[t]
                    + (IF task[t].status \in Executing THEN 1 ELSE 0)

\* The scheduler alone never requeues a row that has spent max_attempts: only
\* an operator's retry of a failed row gets past the cap, once per request.
AttemptsCapped ==
    \A t \in Task :
      /\ task[t].attempt <= MaxAttempts + requeued[t]
      /\ task[t].status = "retry_wait" => task[t].attempt < MaxAttempts

\* Without operators, a video of the plan is executed by one coroutine at a
\* time: the watchdog waits for the coroutine that _inflight_task_runs names,
\* and a retry waits for the watchdog or for that coroutine's own fail().
SlotVideoHasOneExecutor ==
    \A t \in Video \cap Slot :
      Cardinality({k \in Copy : run[t][k].at \in {"working", "posting"}}) <= 1

\* fail()'s comment: "a late watchdog/retry coroutine must never pull
\* succeeded/result_unknown back into retry_wait".
SettledStays ==
    [][\A t \in Task : task[t].status \in SettledStatus
                         => task'[t] = task[t]]_vars

\* The rows implement TaskPromise: failed, interrupted and waiting rows are
\* all work that may still be taken up.
phaseOf(r) ==
    CASE r.status = "absent"        -> "none"
      [] r.status = "running"       -> "executing"
      [] r.status \in SettledStatus -> "done"
      [] OTHER                      -> "waiting"

Promise == INSTANCE TaskPromise WITH
    job <- [t \in Task |-> [phase |-> phaseOf(task[t]), runs |-> begun[t]]]

KeepsPromise == Promise!Spec

\* A running row whose coroutine died is taken from it once its lease is
\* overdue, by the watchdog or by the next start.
OrphansAreRecovered ==
    \A t \in Task :
      (/\ task[t].status = "running"
       /\ task[t].leaseUntil + LeaseOverdue <= MaxNow
       /\ \A k \in Copy : run[t][k] = Gone)
      ~> (task[t].status # "running")

\* A row in retry_wait is taken up again once its backoff is over.
RetriesAreTaken ==
    \A t \in Task :
      (task[t].status = "retry_wait" /\ task[t].nextRetryAt <= MaxNow)
      ~> (task[t].status # "retry_wait")

-----------------------------------------------------------------------------
(* What the documentation says and the code does not do.                   *)

\* task_store.py: "platform result uncertain -> result_unknown (do NOT
\* auto-republish)": without an operator the dynamic of a task is published
\* once.
PublishedOnce == \A t \in Task : posts[t] <= 1 + requeued[t]

=============================================================================
