--------------------------- MODULE TaskRunProofs ---------------------------
(***************************************************************************)
(* Theorems about TaskRun for every set of tasks, every plan and every     *)
(* bound: type correctness, the execution budget, the attempt cap, the     *)
(* finality of settled rows, the implementation of TaskPromise, and the    *)
(* one executor of a planned video.                                        *)
(*                                                                         *)
(* The argument: whatever action is taken, what happens to one task is one *)
(* of the few effects of the definition Effect (lemma NextEffect).  The    *)
(* theorems about rows then follow from Effect alone, with no action and   *)
(* no EXCEPT in sight.                                                     *)
(***************************************************************************)
EXTENDS TaskRun, FiniteSetTheorems, TLAPS

Rows == TaskRow \cup {NoRow}

-----------------------------------------------------------------------------
(* Lemmas about rows.                                                      *)

\* A row that passes a guard of the store is a real row.
LEMMA AbsentPassesNoGuard ==
    ASSUME NEW r \in Rows, r.status # "absent"
    PROVE  r \in TaskRow
  BY DEF Rows, NoRow, CreatedRow

\* Every statement of the store yields a row.
LEMMA StatementsKeepType ==
    ASSUME NEW r \in TaskRow, NEW n \in Nat, NEW b \in Nat, NEW c \in BOOLEAN
    PROVE  /\ ClaimRow(r, n) \in TaskRow
           /\ StartRow(r) \in TaskRow
           /\ SucceedRow(r) \in TaskRow
           /\ FailRow(r, n, c, b) \in TaskRow
           /\ ResultUnknownRow(r) \in TaskRow
           /\ CancelRow(r) \in TaskRow
           /\ RetryRow(r, n) \in TaskRow
           /\ ExpireRow(r) \in TaskRow
           /\ InterruptRow(r) \in TaskRow
           /\ CreatedRow(n) \in TaskRow
<1>0. {"claimed", "running", "succeeded", "failed", "retry_wait",
        "result_unknown", "scheduled", "expired", "interrupted"} \subseteq TaskStatus
  BY DEF TaskStatus
<1>a. Never \in Int /\ n \in Int /\ n + LeaseTime \in Int /\ n + b \in Int
  BY StoreAssumption DEF Never
<1>1. ClaimRow(r, n) \in TaskRow
  BY <1>0, <1>a DEF ClaimRow, TaskRow
<1>2. StartRow(r) \in TaskRow
  BY <1>0 DEF StartRow, TaskRow
<1>8. SucceedRow(r) \in TaskRow
  BY <1>0, <1>a DEF SucceedRow, TaskRow
<1>3. FailRow(r, n, c, b) \in TaskRow
  <2> DEFINE spent == [r EXCEPT !.attempt = r.attempt + 1, !.leaseUntil = Never]
  <2>0. r.attempt + 1 \in Nat
    BY DEF TaskRow
  <2>1. spent \in TaskRow
    BY <2>0, <1>a DEF TaskRow
  <2>2. [spent EXCEPT !.status = "failed", !.nextRetryAt = Never] \in TaskRow
    BY <2>1, <1>0, <1>a DEF TaskRow
  <2>3. [spent EXCEPT !.status = "retry_wait", !.nextRetryAt = n + b] \in TaskRow
    BY <2>1, <1>0, <1>a DEF TaskRow
  <2> QED BY <2>2, <2>3 DEF FailRow
<1>4. ResultUnknownRow(r) \in TaskRow /\ CancelRow(r) \in TaskRow
  BY <1>0, <1>a DEF ResultUnknownRow, CancelRow, TaskRow
<1>5. RetryRow(r, n) \in TaskRow
  BY <1>0, <1>a DEF RetryRow, TaskRow
<1>6. ExpireRow(r) \in TaskRow /\ InterruptRow(r) \in TaskRow
  BY <1>0, <1>a DEF ExpireRow, InterruptRow, TaskRow
<1>7. CreatedRow(n) \in TaskRow
  BY <1>0, <1>a DEF CreatedRow, TaskRow
<1> QED BY <1>1, <1>2, <1>3, <1>4, <1>5, <1>6, <1>7, <1>8

\* What every statement does to the status and the attempt counter.
LEMMA StatementEffects ==
    ASSUME NEW r \in TaskRow, NEW n \in Nat
    PROVE  /\ ClaimRow(r, n).status = "claimed"
           /\ ClaimRow(r, n).attempt = r.attempt
           /\ StartRow(r).status = "running"
           /\ StartRow(r).attempt = r.attempt
           /\ SucceedRow(r).status = "succeeded"
           /\ SucceedRow(r).attempt = r.attempt
           /\ ResultUnknownRow(r).status = "result_unknown"
           /\ ResultUnknownRow(r).attempt = r.attempt
           /\ CancelRow(r).status = "failed"
           /\ CancelRow(r).attempt = r.attempt
           /\ RetryRow(r, n).status = "scheduled"
           /\ RetryRow(r, n).attempt = r.attempt
           /\ ExpireRow(r).status = "expired"
           /\ ExpireRow(r).attempt = r.attempt
           /\ InterruptRow(r).status = "interrupted"
           /\ InterruptRow(r).attempt = r.attempt
  BY DEF TaskRow, ClaimRow, StartRow, SucceedRow, ResultUnknownRow, CancelRow,
         RetryRow, ExpireRow, InterruptRow

\* fail() spends an attempt, and stops the retries at the cap.
LEMMA FailEffect ==
    ASSUME NEW r \in TaskRow, NEW n \in Nat, NEW b \in Nat, NEW c \in BOOLEAN
    PROVE  /\ FailRow(r, n, c, b).attempt = r.attempt + 1
           /\ \/ FailRow(r, n, c, b).status = "failed"
              \/ /\ FailRow(r, n, c, b).status = "retry_wait"
                 /\ r.attempt + 1 < MaxAttempts
<1> DEFINE spent == [r EXCEPT !.attempt = r.attempt + 1, !.leaseUntil = Never]
<1>0. r.attempt + 1 \in Nat /\ Never \in Int
  BY DEF TaskRow, Never
<1>1. spent \in TaskRow /\ spent.attempt = r.attempt + 1
  BY <1>0 DEF TaskRow
<1>2. CASE ~c \/ r.attempt + 1 >= MaxAttempts
  <2>1. FailRow(r, n, c, b)
          = [spent EXCEPT !.status = "failed", !.nextRetryAt = Never]
    BY <1>2 DEF FailRow
  <2> HIDE DEF spent
  <2> QED BY <2>1, <1>1 DEF TaskRow
<1>3. CASE ~(~c \/ r.attempt + 1 >= MaxAttempts)
  <2>1. FailRow(r, n, c, b)
          = [spent EXCEPT !.status = "retry_wait", !.nextRetryAt = n + b]
    BY <1>3 DEF FailRow
  <2>2. r.attempt + 1 < MaxAttempts
    BY <1>3, <1>0, StoreAssumption
  <2> HIDE DEF spent
  <2> QED BY <2>1, <2>2, <1>1 DEF TaskRow
<1> QED BY <1>2, <1>3

-----------------------------------------------------------------------------
(* What a step does to one task.                                           *)

Same(t) == /\ task'[t] = task[t]
           /\ begun'[t] = begun[t]
           /\ cut'[t] = cut[t]
           /\ requeued'[t] = requeued[t]

\* The row moves but the coroutine that executes it neither starts nor ends.
Idle(t) == begun'[t] = begun[t] /\ cut'[t] = cut[t]

Effect(t) ==
    LET r == task[t]
        s == task'[t]
    IN  \/ Same(t)
        \/ \* created
           /\ r.status = "absent" /\ r.attempt = 0
           /\ s.status = "scheduled" /\ s.attempt = 0
           /\ Idle(t) /\ requeued'[t] = requeued[t]
        \/ \* claimed, cancelled or expired before it is executed
           /\ r.status \in {"scheduled", "claimed"}
           /\ s.status \in {"claimed", "failed", "expired"}
           /\ s.attempt = r.attempt
           /\ Idle(t) /\ requeued'[t] = requeued[t]
        \/ \* requeued by the retry pass or by a start
           /\ r.status \in {"retry_wait", "interrupted"}
           /\ s.status = "claimed" /\ s.attempt = r.attempt
           /\ Idle(t) /\ requeued'[t] = requeued[t]
        \/ \* requeued by an operator
           /\ r.status \in RetryableStatus
           /\ s.status = "claimed" /\ s.attempt = r.attempt
           /\ Idle(t) /\ requeued'[t] = requeued[t] + 1
        \/ \* cut short by a restart
           /\ r.status \in RecoverableOnRestart
           /\ s.status = "claimed" /\ s.attempt = r.attempt
           /\ begun'[t] = begun[t] /\ cut'[t] = cut[t] + 1
           /\ requeued'[t] = requeued[t]
        \/ \* failed
           /\ r.status \in {"running", "claimed", "scheduled"}
           /\ s.attempt = r.attempt + 1
           /\ \/ s.status = "failed"
              \/ s.status = "retry_wait" /\ r.attempt + 1 < MaxAttempts
           /\ Idle(t) /\ requeued'[t] = requeued[t]
        \/ \* started
           /\ r.status \in {"scheduled", "claimed"}
           /\ s.status = "running" /\ s.attempt = r.attempt
           /\ begun'[t] = begun[t] + 1 /\ cut'[t] = cut[t]
           /\ requeued'[t] = requeued[t]
        \/ \* settled
           /\ r.status = "running"
           /\ s.status \in {"succeeded", "result_unknown"}
           /\ s.attempt = r.attempt
           /\ Idle(t) /\ requeued'[t] = requeued[t]

\* Every other task is left alone by an update of one row.
LEMMA OneRow ==
    ASSUME TypeOK, NEW t \in Task, NEW x, task' = [task EXCEPT ![t] = x]
    PROVE  /\ task'[t] = x
           /\ \A u \in Task \ {t} : task'[u] = task[u]
           /\ x \in Rows => task' \in [Task -> Rows]
  BY DEF TypeOK, Rows

\* What a finalising call does to the table.
LEMMA RecordEffect ==
    ASSUME TypeOK, NEW t \in Task, NEW outcome, Record(t, outcome),
           UNCHANGED <<begun, cut, requeued>>
    PROVE  /\ task' \in [Task -> Rows]
           /\ \A u \in Task : Effect(u)
<1>1. now \in Nat /\ task \in [Task -> Rows] /\ task[t] \in Rows
  BY DEF TypeOK, Rows
<1>2. CASE UNCHANGED task
  BY <1>1, <1>2 DEF Effect, Same
<1>3. CASE CanSucceed(task[t]) /\ task' = [task EXCEPT ![t] = SucceedRow(@)]
  <2>1. task[t] \in TaskRow /\ task[t].status = "running"
    BY <1>1, <1>3, AbsentPassesNoGuard DEF CanSucceed
  <2>2. SucceedRow(task[t]) \in Rows
    BY <2>1, StatementsKeepType DEF Rows
  <2>3. /\ task'[t] = SucceedRow(task[t])
        /\ \A u \in Task \ {t} : task'[u] = task[u]
        /\ task' \in [Task -> Rows]
    BY <1>3, <2>2, OneRow
  <2>4. task'[t].status = "succeeded" /\ task'[t].attempt = task[t].attempt
    BY <1>1, <2>1, <2>3, StatementEffects
  <2>5. Effect(t)
    BY <2>1, <2>4 DEF Effect, Idle
  <2>6. \A u \in Task \ {t} : Effect(u)
    BY <2>3 DEF Effect, Same
  <2> QED BY <2>3, <2>5, <2>6
<1>4. CASE /\ CanMarkResultUnknown(task[t])
           /\ task' = [task EXCEPT ![t] = ResultUnknownRow(@)]
  <2>1. task[t] \in TaskRow /\ task[t].status = "running"
    BY <1>1, <1>4, AbsentPassesNoGuard DEF CanMarkResultUnknown
  <2>2. ResultUnknownRow(task[t]) \in Rows
    BY <2>1, StatementsKeepType DEF Rows
  <2>3. /\ task'[t] = ResultUnknownRow(task[t])
        /\ \A u \in Task \ {t} : task'[u] = task[u]
        /\ task' \in [Task -> Rows]
    BY <1>4, <2>2, OneRow
  <2>4. task'[t].status = "result_unknown" /\ task'[t].attempt = task[t].attempt
    BY <1>1, <2>1, <2>3, StatementEffects
  <2>5. Effect(t)
    BY <2>1, <2>4 DEF Effect, Idle
  <2>6. \A u \in Task \ {t} : Effect(u)
    BY <2>3 DEF Effect, Same
  <2> QED BY <2>3, <2>5, <2>6
<1>5. ASSUME CanFail(task[t]), NEW b \in Nat, NEW c \in BOOLEAN,
             task' = [task EXCEPT ![t] = FailRow(@, now, c, b)]
      PROVE  /\ task' \in [Task -> Rows]
             /\ \A u \in Task : Effect(u)
  <2>1. /\ task[t] \in TaskRow
        /\ task[t].status \in {"running", "claimed", "scheduled"}
    BY <1>1, <1>5, AbsentPassesNoGuard DEF CanFail
  <2>2. FailRow(task[t], now, c, b) \in Rows
    BY <1>1, <2>1, StatementsKeepType DEF Rows
  <2>3. /\ task'[t] = FailRow(task[t], now, c, b)
        /\ \A u \in Task \ {t} : task'[u] = task[u]
        /\ task' \in [Task -> Rows]
    BY <1>5, <2>2, OneRow
  <2>4. /\ task'[t].attempt = task[t].attempt + 1
        /\ \/ task'[t].status = "failed"
           \/ task'[t].status = "retry_wait" /\ task[t].attempt + 1 < MaxAttempts
    BY <1>1, <2>1, <2>3, FailEffect
  <2> QED BY <2>1, <2>3, <2>4 DEF Effect, Same, Idle
<1>6. CASE \E b \in Backoff : /\ CanFail(task[t])
                             /\ task' = [task EXCEPT ![t] = FailRow(@, now, TRUE, b)]
  BY <1>5, <1>6, TableAssumption
<1>7. CASE CanFail(task[t]) /\ task' = [task EXCEPT ![t] = FailRow(@, now, FALSE, 0)]
  BY <1>5, <1>7
<1> QED BY <1>2, <1>3, <1>4, <1>6, <1>7 DEF Record

\* A row that is not executed is claimed, cancelled, created, or dispatched
\* again by the retry pass; each is one effect on the whole table.
LEMMA ClaimEffect ==
    ASSUME TypeOK, NEW t \in Task, CanClaim(task[t], now),
           task' = [task EXCEPT ![t] = ClaimRow(@, now)],
           UNCHANGED <<begun, cut, requeued>>
    PROVE  task' \in [Task -> Rows] /\ \A u \in Task : Effect(u)
<1>1. now \in Nat /\ task[t] \in Rows
  BY DEF TypeOK, Rows
<1>2. task[t] \in TaskRow /\ task[t].status = "scheduled"
  BY <1>1, AbsentPassesNoGuard DEF CanClaim
<1>3. /\ ClaimRow(task[t], now) \in Rows
      /\ ClaimRow(task[t], now).status = "claimed"
      /\ ClaimRow(task[t], now).attempt = task[t].attempt
  BY <1>1, <1>2, StatementsKeepType, StatementEffects DEF Rows
<1>4. /\ task'[t] = ClaimRow(task[t], now)
      /\ \A u \in Task \ {t} : task'[u] = task[u]
      /\ task' \in [Task -> Rows]
  BY <1>3, OneRow
<1>5. Effect(t)
  BY <1>2, <1>3, <1>4 DEF Effect, Idle
<1>6. \A u \in Task \ {t} : Effect(u)
  BY <1>4 DEF Effect, Same
<1> QED BY <1>4, <1>5, <1>6

LEMMA CancelEffect ==
    ASSUME TypeOK, NEW t \in Task, CanCancel(task[t]),
           task' = [task EXCEPT ![t] = CancelRow(@)],
           UNCHANGED <<begun, cut, requeued>>
    PROVE  task' \in [Task -> Rows] /\ \A u \in Task : Effect(u)
<1>1. now \in Nat /\ task[t] \in Rows
  BY DEF TypeOK, Rows
<1>2. task[t] \in TaskRow /\ task[t].status \in {"scheduled", "claimed"}
  BY <1>1, AbsentPassesNoGuard DEF CanCancel
<1>3. /\ CancelRow(task[t]) \in Rows
      /\ CancelRow(task[t]).status = "failed"
      /\ CancelRow(task[t]).attempt = task[t].attempt
  BY <1>1, <1>2, StatementsKeepType, StatementEffects DEF Rows
<1>4. /\ task'[t] = CancelRow(task[t])
      /\ \A u \in Task \ {t} : task'[u] = task[u]
      /\ task' \in [Task -> Rows]
  BY <1>3, OneRow
<1>5. Effect(t)
  BY <1>2, <1>3, <1>4 DEF Effect, Idle
<1>6. \A u \in Task \ {t} : Effect(u)
  BY <1>4 DEF Effect, Same
<1> QED BY <1>4, <1>5, <1>6

LEMMA RedispatchEffect ==
    ASSUME TypeOK, NEW t \in Task, Redispatch(t), UNCHANGED <<begun, cut>>,
           \/ RetryDue(task[t], now) /\ UNCHANGED requeued
           \/ requeued' = [requeued EXCEPT ![t] = @ + 1]
    PROVE  task' \in [Task -> Rows] /\ \A u \in Task : Effect(u)
<1> DEFINE x == ClaimRow(RetryRow(task[t], now), now)
<1>1. now \in Nat /\ task[t] \in Rows /\ requeued \in [Task -> Nat]
  BY DEF TypeOK, Rows
<1>2. task[t] \in TaskRow /\ task[t].status \in RetryableStatus
  BY <1>1, AbsentPassesNoGuard DEF Redispatch, CanRetry, RetryableStatus
<1>3. /\ RetryRow(task[t], now) \in TaskRow
      /\ RetryRow(task[t], now).attempt = task[t].attempt
  BY <1>1, <1>2, StatementsKeepType, StatementEffects
<1>4. x \in Rows /\ x.status = "claimed" /\ x.attempt = task[t].attempt
  BY <1>1, <1>3, StatementsKeepType, StatementEffects DEF Rows
<1>5. task' = [task EXCEPT ![t] = x]
  BY DEF Redispatch
<1> HIDE DEF x
<1>6. /\ task'[t] = x
      /\ \A u \in Task \ {t} : task'[u] = task[u]
      /\ task' \in [Task -> Rows]
  BY <1>4, <1>5, OneRow
<1>7. Effect(t)
  <2>1. CASE RetryDue(task[t], now) /\ UNCHANGED requeued
    BY <1>4, <1>6, <2>1 DEF Effect, Idle, RetryDue
  <2>2. CASE requeued' = [requeued EXCEPT ![t] = @ + 1]
    BY <1>1, <1>2, <1>4, <1>6, <2>2 DEF Effect, Idle
  <2> QED BY <2>1, <2>2
<1>8. \A u \in Task \ {t} : Effect(u)
  BY <1>1, <1>6 DEF Effect, Same
<1> QED BY <1>6, <1>7, <1>8

LEMMA CreateEffect ==
    ASSUME TypeOK, NEW t \in Task, task[t].status = "absent",
           task' = [task EXCEPT ![t] = CreatedRow(now)],
           UNCHANGED <<begun, cut, requeued>>
    PROVE  task' \in [Task -> Rows] /\ \A u \in Task : Effect(u)
<1>1. now \in Nat /\ task[t] \in Rows
  BY DEF TypeOK, Rows
<1>2. task[t].attempt = 0
  BY <1>1 DEF Rows, TaskRow, TaskStatus, NoRow, CreatedRow
<1>3. /\ CreatedRow(now).status = "scheduled"
      /\ CreatedRow(now).attempt = 0
  BY DEF CreatedRow
<1>4. CreatedRow(now) \in Rows
  BY <1>1 DEF Rows, CreatedRow, TaskRow, TaskStatus, Never
<1>5. /\ task'[t] = CreatedRow(now)
      /\ \A u \in Task \ {t} : task'[u] = task[u]
      /\ task' \in [Task -> Rows]
  BY <1>4, OneRow
<1>6. Effect(t)
  BY <1>2, <1>3, <1>5 DEF Effect, Idle
<1>7. \A u \in Task \ {t} : Effect(u)
  BY <1>5 DEF Effect, Same
<1> QED BY <1>5, <1>6, <1>7

\* start(), with the claim that precedes it when the row is still scheduled.
LEMMA StartEffect ==
    ASSUME TypeOK, NEW t \in Task, NEW mine,
           mine = IF CanClaim(task[t], now) THEN ClaimRow(task[t], now)
                                            ELSE task[t],
           CanStart(mine),
           task' = [task EXCEPT ![t] = StartRow(mine)],
           begun' = [begun EXCEPT ![t] = @ + 1],
           UNCHANGED <<cut, requeued>>
    PROVE  task' \in [Task -> Rows] /\ \A u \in Task : Effect(u)
<1>1. now \in Nat /\ task[t] \in Rows /\ begun \in [Task -> Nat]
  BY DEF TypeOK, Rows
<1>2. /\ mine \in TaskRow
      /\ mine.attempt = task[t].attempt
      /\ task[t].status \in {"scheduled", "claimed"}
  <2>1. CASE CanClaim(task[t], now)
    <3>1. task[t] \in TaskRow /\ task[t].status = "scheduled"
      BY <1>1, <2>1, AbsentPassesNoGuard DEF CanClaim
    <3> QED BY <1>1, <2>1, <3>1, StatementsKeepType, StatementEffects
  <2>2. CASE ~CanClaim(task[t], now)
    BY <1>1, <2>2, AbsentPassesNoGuard DEF CanStart
  <2> QED BY <2>1, <2>2
<1>3. /\ StartRow(mine) \in Rows
      /\ StartRow(mine).status = "running"
      /\ StartRow(mine).attempt = task[t].attempt
  BY <1>1, <1>2, StatementsKeepType, StatementEffects DEF Rows
<1>4. /\ task'[t] = StartRow(mine)
      /\ \A u \in Task \ {t} : task'[u] = task[u]
      /\ task' \in [Task -> Rows]
  BY <1>3, OneRow
<1>5. Effect(t)
  BY <1>1, <1>2, <1>3, <1>4 DEF Effect
<1>6. \A u \in Task \ {t} : Effect(u)
  BY <1>1, <1>4 DEF Effect, Same
<1> QED BY <1>4, <1>5, <1>6

\* A row that a restart finds under way, or interrupted, is claimed anew.
LEMMA BootedCutShort ==
    ASSUME TypeOK, NEW t \in Task, IsCutShort(task[t])
    PROVE  /\ BootedRow(t) \in Rows
           /\ BootedRow(t).status = "claimed"
           /\ BootedRow(t).attempt = task[t].attempt
<1> DEFINE r == task[t]
<1>1. r \in Rows /\ now \in Nat
  BY DEF TypeOK, Rows
<1>2. r \in TaskRow
  BY <1>1, AbsentPassesNoGuard DEF IsCutShort, CanInterrupt, RecoverableOnRestart
<1>3. BootedRow(t) = ClaimRow(RetryRow(InterruptRow(r), now), now)
  <2>1. ~CanExpire(r, now) /\ r.status # "absent"
    BY DEF IsCutShort, CanExpire, CanInterrupt, RecoverableOnRestart
  <2> QED BY <2>1 DEF BootedRow, RecoveredRow, IsCutShort
<1>4. InterruptRow(r) \in TaskRow /\ InterruptRow(r).attempt = r.attempt
  BY <1>1, <1>2, StatementsKeepType, StatementEffects
<1>5. /\ RetryRow(InterruptRow(r), now) \in TaskRow
      /\ RetryRow(InterruptRow(r), now).attempt = r.attempt
  BY <1>1, <1>4, StatementsKeepType, StatementEffects
<1> DEFINE x == RetryRow(InterruptRow(r), now)
<1> HIDE DEF x
<1>6. /\ ClaimRow(x, now) \in TaskRow
      /\ ClaimRow(x, now).status = "claimed"
      /\ ClaimRow(x, now).attempt = x.attempt
  BY <1>1, <1>5, StatementsKeepType, StatementEffects DEF x
<1>7. BootedRow(t) = ClaimRow(x, now) /\ x.attempt = r.attempt
  BY <1>3, <1>5 DEF x
<1> QED BY <1>6, <1>7 DEF Rows

\* scheduler_start treats every row by itself.
LEMMA BootEffect ==
    ASSUME TypeOK, Boot
    PROVE  task' \in [Task -> Rows] /\ \A u \in Task : Effect(u)
<1>1. now \in Nat /\ task \in [Task -> Rows] /\ cut \in [Task -> Nat]
  BY DEF TypeOK, Rows
<1>2. UNCHANGED <<begun, requeued>>
  BY DEF Boot
<1>3. ASSUME NEW t \in Task
      PROVE  BootedRow(t) \in Rows /\ Effect(t)
  <2> DEFINE r == task[t]
  <2>1. /\ r \in Rows
        /\ task'[t] = BootedRow(t)
        /\ cut'[t] = IF CanInterrupt(r) THEN cut[t] + 1 ELSE cut[t]
    BY <1>1 DEF Boot
  <2>2. CASE CanInterrupt(r) \/ r.status = "interrupted"
    <3>5. /\ BootedRow(t) \in Rows
          /\ BootedRow(t).status = "claimed"
          /\ BootedRow(t).attempt = r.attempt
      BY <2>2, BootedCutShort DEF IsCutShort
    <3>6. CASE CanInterrupt(r)
      BY <1>2, <2>1, <3>5, <3>6 DEF Effect, CanInterrupt
    <3>7. CASE ~CanInterrupt(r)
      BY <1>2, <2>1, <2>2, <3>5, <3>7 DEF Effect, Idle
    <3> QED BY <3>5, <3>6, <3>7
  <2>3. CASE ~(CanInterrupt(r) \/ r.status = "interrupted") /\ CanExpire(r, now)
    <3>1. r \in TaskRow /\ r.status = "scheduled"
      BY <2>1, <2>3, AbsentPassesNoGuard DEF CanExpire
    <3>2. BootedRow(t) = ExpireRow(r)
      BY <2>3, <3>1 DEF BootedRow, RecoveredRow, IsCutShort
    <3>3. /\ BootedRow(t) \in TaskRow
          /\ BootedRow(t).status = "expired"
          /\ BootedRow(t).attempt = r.attempt
      <4>1. /\ ExpireRow(r) \in TaskRow
            /\ ExpireRow(r).status = "expired"
            /\ ExpireRow(r).attempt = r.attempt
        BY <1>1, <3>1, StatementsKeepType, StatementEffects
      <4> QED BY <3>2, <4>1
    <3> QED BY <1>2, <2>1, <2>3, <3>1, <3>3 DEF Effect, Idle, Rows
  <2>4. CASE r.status = "absent" /\ t \in Slot
    <3>1. BootedRow(t) = CreatedRow(SlotTime[t])
      BY <2>4 DEF BootedRow, CanInterrupt, RecoverableOnRestart, CanExpire
    <3>2. SlotTime[t] \in Nat
      BY <2>4, TaskAssumption
    <3>3. r.attempt = 0 /\ ~CanInterrupt(r)
      BY <2>1, <2>4 DEF Rows, TaskRow, TaskStatus, NoRow, CreatedRow,
                        CanInterrupt, RecoverableOnRestart
    <3>4. CreatedRow(SlotTime[t]) \in Rows
      BY <3>2 DEF CreatedRow, Rows, TaskRow, TaskStatus, Never
    <3>5. BootedRow(t).status = "scheduled" /\ BootedRow(t).attempt = 0
      BY <3>1 DEF CreatedRow
    <3> QED BY <1>2, <2>1, <2>4, <3>1, <3>3, <3>4, <3>5 DEF Effect, Idle
  <2>5. CASE /\ ~(CanInterrupt(r) \/ r.status = "interrupted")
             /\ ~CanExpire(r, now)
             /\ ~(r.status = "absent" /\ t \in Slot)
    <3>1. BootedRow(t) = r
      BY <2>5 DEF BootedRow, RecoveredRow, IsCutShort
    <3> QED BY <1>2, <2>1, <2>5, <3>1 DEF Effect, Same
  <2> QED BY <2>2, <2>3, <2>4, <2>5
<1>4. task' = [t \in Task |-> BootedRow(t)]
  BY DEF Boot
<1> QED BY <1>3, <1>4

-----------------------------------------------------------------------------
(* Coroutines keep their type.                                             *)

LEMMA CoroutinesKeepType ==
    ASSUME TypeOK, NEW t \in Task, NEW k \in Copy,
           \/ \E tracked \in BOOLEAN : Spawn(t, k, tracked)
           \/ Return(t, k)
           \/ \E place \in Place : Goto(t, k, place)
    PROVE  /\ run' \in [Task -> [Copy -> Coroutine]]
           /\ inflight' \in [Task -> Copy \cup {0}]
<1>1. /\ run \in [Task -> [Copy -> Coroutine]]
      /\ inflight \in [Task -> Copy \cup {0}]
      /\ run[t][k] \in Coroutine
      /\ Gone \in Coroutine
  BY DEF TypeOK, Gone, Coroutine, Place
<1>2. ASSUME NEW tracked \in BOOLEAN, Spawn(t, k, tracked)
      PROVE  /\ run' \in [Task -> [Copy -> Coroutine]]
             /\ inflight' \in [Task -> Copy \cup {0}]
  <2>1. [at |-> "ready", tracked |-> tracked] \in Coroutine
    BY DEF Coroutine, Place
  <2> QED BY <1>1, <1>2, <2>1 DEF Spawn
<1>3. CASE Return(t, k)
  BY <1>1, <1>3 DEF Return
<1>4. ASSUME NEW place \in Place, Goto(t, k, place)
      PROVE  /\ run' \in [Task -> [Copy -> Coroutine]]
             /\ inflight' \in [Task -> Copy \cup {0}]
  <2>1. [run[t][k] EXCEPT !.at = place] \in Coroutine
    BY <1>1 DEF Coroutine
  <2>2. run' = [run EXCEPT ![t] = [run[t] EXCEPT ![k] =
                   [run[t][k] EXCEPT !.at = place]]]
    BY <1>4 DEF Goto
  <2> QED BY <1>1, <1>4, <2>1, <2>2 DEF Goto
<1> QED BY <1>2, <1>3, <1>4

LEMMA NextEffect ==
    ASSUME TypeOK, Next
    PROVE  TypeOK' /\ \A u \in Task : Effect(u)
<1> USE DEF history, memory
<1>1. /\ now \in Nat /\ alive \in BOOLEAN /\ triggered \subseteq Slot
      /\ crashes \in Nat /\ requests \in Nat
      /\ task \in [Task -> Rows]
      /\ run \in [Task -> [Copy -> Coroutine]]
      /\ inflight \in [Task -> Copy \cup {0}]
      /\ begun \in [Task -> Nat] /\ cut \in [Task -> Nat]
      /\ requeued \in [Task -> Nat] /\ posts \in [Task -> Nat]
  BY DEF TypeOK, Rows
<1>2. SUFFICES /\ task' \in [Task -> Rows]
               /\ \A u \in Task : Effect(u)
               /\ run' \in [Task -> [Copy -> Coroutine]]
               /\ inflight' \in [Task -> Copy \cup {0}]
               /\ now' \in Nat /\ alive' \in BOOLEAN /\ triggered' \subseteq Slot
               /\ crashes' \in Nat /\ requests' \in Nat
               /\ begun' \in [Task -> Nat] /\ cut' \in [Task -> Nat]
               /\ requeued' \in [Task -> Nat] /\ posts' \in [Task -> Nat]
  BY DEF TypeOK, Rows
<1>3. ASSUME UNCHANGED <<task, begun, cut, requeued>>
      PROVE  task' \in [Task -> Rows] /\ \A u \in Task : Effect(u)
  BY <1>1, <1>3 DEF Effect, Same
<1>4. Gone \in Coroutine
  BY DEF Gone, Coroutine, Place
<1>5. CASE Boot
  <2>1. ASSUME NEW k \in Copy,
               run' = [t \in Task |-> [run[t] EXCEPT ![k] =
                         IF IsCutShort(task[t]) THEN [at |-> "ready", tracked |-> TRUE]
                                                ELSE Gone]],
               inflight' = [t \in Task |-> IF IsCutShort(task[t]) THEN k ELSE 0]
        PROVE  /\ run' \in [Task -> [Copy -> Coroutine]]
               /\ inflight' \in [Task -> Copy \cup {0}]
    <3>1. [at |-> "ready", tracked |-> TRUE] \in Coroutine
      BY DEF Coroutine, Place
    <3> QED BY <1>1, <1>4, <2>1, <3>1
  <2>2. /\ run' \in [Task -> [Copy -> Coroutine]]
        /\ inflight' \in [Task -> Copy \cup {0}]
    BY <1>5, <2>1 DEF Boot, Resume
  <2>3. task' \in [Task -> Rows] /\ \A u \in Task : Effect(u)
    BY <1>5, BootEffect
  <2> QED BY <1>1, <1>5, <2>2, <2>3 DEF Boot
<1>6. CASE Crash
  <2>1. task' \in [Task -> Rows] /\ \A u \in Task : Effect(u)
    BY <1>3, <1>6 DEF Crash, CoroutinesDie
  <2>2. /\ run' \in [Task -> [Copy -> Coroutine]]
        /\ inflight' \in [Task -> Copy \cup {0}]
    BY <1>4, <1>6 DEF Crash, CoroutinesDie
  <2>5. /\ crashes' = crashes + 1 /\ alive' = FALSE /\ triggered' = {}
        /\ UNCHANGED <<now, requests>>
    BY <1>6 DEF Crash
  <2>3. /\ now' \in Nat /\ alive' \in BOOLEAN /\ triggered' \subseteq Slot
        /\ crashes' \in Nat /\ requests' \in Nat
    <3>1. crashes + 1 \in Nat
      BY <1>1
    <3>2. {} \subseteq Slot
      OBVIOUS
    <3>3. FALSE \in BOOLEAN
      OBVIOUS
    <3> QED BY <1>1, <2>5, <3>1, <3>2, <3>3, Zenon
  <2>4. /\ begun' \in [Task -> Nat] /\ cut' \in [Task -> Nat]
        /\ requeued' \in [Task -> Nat] /\ posts' \in [Task -> Nat]
    BY <1>1, <1>6 DEF Crash
  <2> QED BY <2>1, <2>2, <2>3, <2>4
<1>7. CASE Tick
  BY <1>1, <1>3, <1>7 DEF Tick, TimePasses
<1>8. ASSUME NEW t \in Task, TriggerSlot(t)
      PROVE  /\ TypeOK'
             /\ \A u \in Task : Effect(u)
  <2>1. task' \in [Task -> Rows] /\ \A u \in Task : Effect(u)
    BY <1>3, <1>8, ClaimEffect DEF TriggerSlot
  <2>2. /\ run' \in [Task -> [Copy -> Coroutine]]
        /\ inflight' \in [Task -> Copy \cup {0}]
    <3>1. (t \in Video) \in BOOLEAN
      OBVIOUS
    <3>2. CASE \E k \in Copy : Spawn(t, k, t \in Video)
      BY <3>1, <3>2, CoroutinesKeepType
    <3>3. CASE UNCHANGED <<task, run, inflight>>
      BY <1>1, <3>3
    <3> QED BY <1>8, <3>2, <3>3 DEF TriggerSlot
  <2> QED BY <1>1, <1>8, <2>1, <2>2 DEF TriggerSlot, TypeOK, Rows
<1>9. ASSUME NEW t \in Task, RetryPass(t)
      PROVE  TypeOK' /\ \A u \in Task : Effect(u)
  <2>1. task' \in [Task -> Rows] /\ \A u \in Task : Effect(u)
    BY <1>9, RedispatchEffect DEF RetryPass, RetryOverdue
  <2>2. /\ run' \in [Task -> [Copy -> Coroutine]]
        /\ inflight' \in [Task -> Copy \cup {0}]
    BY <1>9, CoroutinesKeepType DEF RetryPass, RetryOverdue, Redispatch
  <2> QED BY <1>1, <1>9, <2>1, <2>2 DEF RetryPass, TypeOK, Rows
<1>10. ASSUME NEW t \in Task, Watchdog(t)
       PROVE  TypeOK' /\ \A u \in Task : Effect(u)
  <2>1. Record(t, "retry") /\ UNCHANGED <<begun, cut, requeued>>
    BY <1>10 DEF Watchdog, FailOrphan, LeaseExpired, Record, CanFail
  <2>2. task' \in [Task -> Rows] /\ \A u \in Task : Effect(u)
    BY <2>1, RecordEffect
  <2> QED BY <1>1, <1>10, <2>2 DEF Watchdog, FailOrphan, TypeOK, Rows
<1>11. ASSUME NEW t \in Task, CreateManual(t)
       PROVE  TypeOK' /\ \A u \in Task : Effect(u)
  <2>1. task' \in [Task -> Rows] /\ \A u \in Task : Effect(u)
    BY <1>11, CreateEffect DEF CreateManual
  <2>2. /\ run' \in [Task -> [Copy -> Coroutine]]
        /\ inflight' \in [Task -> Copy \cup {0}]
    BY <1>11, CoroutinesKeepType DEF CreateManual
  <2> QED BY <1>1, <1>11, <2>1, <2>2 DEF CreateManual, TypeOK, Rows
<1>12. ASSUME NEW t \in Task, CancelRequest(t)
       PROVE  TypeOK' /\ \A u \in Task : Effect(u)
  <2>1. task' \in [Task -> Rows] /\ \A u \in Task : Effect(u)
    BY <1>12, CancelEffect DEF CancelRequest, Cancel
  <2> QED BY <1>1, <1>12, <2>1 DEF CancelRequest, Cancel, TypeOK, Rows
<1>13. ASSUME NEW t \in Task, RetryRequest(t)
       PROVE  TypeOK' /\ \A u \in Task : Effect(u)
  <2>1. task' \in [Task -> Rows] /\ \A u \in Task : Effect(u)
    BY <1>13, RedispatchEffect DEF RetryRequest
  <2>2. /\ run' \in [Task -> [Copy -> Coroutine]]
        /\ inflight' \in [Task -> Copy \cup {0}]
    BY <1>13, CoroutinesKeepType DEF RetryRequest, Redispatch
  <2>3. requeued' \in [Task -> Nat] /\ requests' \in Nat
    BY <1>1, <1>13 DEF RetryRequest
  <2> QED BY <1>1, <1>13, <2>1, <2>2, <2>3 DEF RetryRequest, TypeOK, Rows
<1>14. ASSUME NEW t \in Task, NEW k \in Copy,
              NEW outcomes, Finish(t, k, outcomes),
              UNCHANGED <<now, alive, triggered, history, crashes, requests>>
       PROVE  TypeOK' /\ \A u \in Task : Effect(u)
  <2>1. task' \in [Task -> Rows] /\ \A u \in Task : Effect(u)
    BY <1>14, RecordEffect DEF Finish
  <2>2. /\ run' \in [Task -> [Copy -> Coroutine]]
        /\ inflight' \in [Task -> Copy \cup {0}]
    BY <1>14, CoroutinesKeepType DEF Finish
  <2> QED BY <1>1, <1>14, <2>1, <2>2 DEF TypeOK, Rows
<1>15. ASSUME NEW t \in Task, NEW k \in Copy, Enter(t, k)
       PROVE  TypeOK' /\ \A u \in Task : Effect(u)
  <2> DEFINE mine == IF CanClaim(task[t], now) THEN ClaimRow(task[t], now)
                                               ELSE task[t]
  <2>1. CASE /\ CanStart(mine)
             /\ task' = [task EXCEPT ![t] = StartRow(mine)]
             /\ begun' = [begun EXCEPT ![t] = @ + 1]
             /\ Goto(t, k, "working")
    <3>1. UNCHANGED <<cut, requeued>>
      BY <1>15 DEF Enter
    <3>2. task' \in [Task -> Rows] /\ \A u \in Task : Effect(u)
      <4> HIDE DEF mine
      <4> QED BY <2>1, <3>1, StartEffect DEF mine
    <3>3. "working" \in Place
      BY DEF Place
    <3>4. /\ run' \in [Task -> [Copy -> Coroutine]]
          /\ inflight' \in [Task -> Copy \cup {0}]
      BY <2>1, <3>3, CoroutinesKeepType
    <3>5. begun' \in [Task -> Nat]
      BY <1>1, <2>1
    <3> QED BY <1>1, <1>15, <3>2, <3>4, <3>5 DEF Enter, TypeOK, Rows
  <2>2. CASE Return(t, k) /\ UNCHANGED <<task, begun>>
    <3>1. task' \in [Task -> Rows] /\ \A u \in Task : Effect(u)
      BY <1>3, <1>15, <2>2 DEF Enter
    <3>2. /\ run' \in [Task -> [Copy -> Coroutine]]
          /\ inflight' \in [Task -> Copy \cup {0}]
      BY <2>2, CoroutinesKeepType
    <3> QED BY <1>1, <1>15, <2>2, <3>1, <3>2 DEF Enter, TypeOK, Rows
  <2> QED BY <1>15, <2>1, <2>2 DEF Enter
<1>16. ASSUME NEW t \in Task, NEW k \in Copy, NEW place \in Place,
              Goto(t, k, place), UNCHANGED <<task, begun, cut, requeued>>,
              UNCHANGED <<now, alive, triggered, crashes, requests>>,
              posts' \in [Task -> Nat]
       PROVE  TypeOK' /\ \A u \in Task : Effect(u)
  <2>1. task' \in [Task -> Rows] /\ \A u \in Task : Effect(u)
    BY <1>3, <1>16
  <2>2. /\ run' \in [Task -> [Copy -> Coroutine]]
        /\ inflight' \in [Task -> Copy \cup {0}]
    BY <1>16, CoroutinesKeepType
  <2> QED BY <1>1, <1>16, <2>1, <2>2 DEF TypeOK, Rows
<1>17. ASSUME NEW t \in Task, NEW k \in Copy, Step(t, k)
       PROVE  TypeOK' /\ \A u \in Task : Effect(u)
  <2>1. {"posting", "posted"} \subseteq Place
    BY DEF Place
  <2>2. CASE Refuse(t, k)
    BY <1>14, <2>2 DEF Refuse
  <2>3. CASE Enter(t, k)
    BY <1>15, <2>3
  <2>4. CASE Work(t, k)
    BY <1>1, <1>14, <1>16, <2>1, <2>4 DEF Work
  <2>5. CASE Publish(t, k)
    <3>1. posts' \in [Task -> Nat]
      BY <1>1, <2>5 DEF Publish
    <3> QED BY <1>16, <2>1, <2>5, <3>1 DEF Publish
  <2>6. CASE NotPublished(t, k)
    BY <1>14, <2>6 DEF NotPublished
  <2>7. CASE Published(t, k)
    BY <1>14, <2>7 DEF Published
  <2> QED BY <1>17, <2>2, <2>3, <2>4, <2>5, <2>6, <2>7 DEF Step
<1>18. ASSUME TypeOK', \A u \in Task : Effect(u)
       PROVE  /\ task' \in [Task -> Rows]
              /\ run' \in [Task -> [Copy -> Coroutine]]
              /\ inflight' \in [Task -> Copy \cup {0}]
              /\ now' \in Nat /\ alive' \in BOOLEAN /\ triggered' \subseteq Slot
              /\ crashes' \in Nat /\ requests' \in Nat
              /\ begun' \in [Task -> Nat] /\ cut' \in [Task -> Nat]
              /\ requeued' \in [Task -> Nat] /\ posts' \in [Task -> Nat]
  BY <1>18 DEF TypeOK, Rows
<1> QED BY <1>5, <1>6, <1>7, <1>8, <1>9, <1>10, <1>11, <1>12, <1>13, <1>17,
           <1>18 DEF Next

-----------------------------------------------------------------------------
(* The theorems.                                                           *)

LEMMA InitTypeOK == Init => TypeOK
<1>1. Gone \in Coroutine
  BY DEF Gone, Coroutine, Place
<1> SUFFICES ASSUME Init PROVE TypeOK
  OBVIOUS
<1>2. run \in [Task -> [Copy -> Coroutine]]
  BY <1>1 DEF Init, EmptyTable
<1>3. task \in [Task -> TaskRow \cup {NoRow}]
  BY DEF Init, EmptyTable
<1>4. /\ begun \in [Task -> Nat] /\ cut \in [Task -> Nat]
      /\ requeued \in [Task -> Nat] /\ posts \in [Task -> Nat]
      /\ inflight \in [Task -> Copy \cup {0}]
  BY DEF Init, EmptyTable
<1>5. now \in Nat /\ alive \in BOOLEAN /\ triggered \subseteq Slot
      /\ crashes \in Nat /\ requests \in Nat
  BY DEF Init, EmptyTable
<1> QED BY <1>2, <1>3, <1>4, <1>5 DEF TypeOK

LEMMA AttemptIsNatural ==
    ASSUME NEW r \in Rows
    PROVE  r.attempt \in Nat
  BY DEF Rows, TaskRow, NoRow, CreatedRow

LEMMA StutterEffect ==
    ASSUME TypeOK, UNCHANGED vars
    PROVE  TypeOK' /\ \A u \in Task : Effect(u)
  BY DEF TypeOK, vars, memory, history, Effect, Same

\* Every variable of the TaskRun lifecycle keeps its type.
THEOREM TypeCorrect == Spec => []TypeOK
<1>1. Init => TypeOK
  BY InitTypeOK
<1>2. TypeOK /\ [Next]_vars => TypeOK'
  BY NextEffect, StutterEffect
<1> QED BY <1>1, <1>2, PTL DEF Spec

\* A row is executed at most once per attempt spent, plus once per restart
\* that cut it short, plus the execution under way: the bound on what fail()
\* and recover_interrupted let through.
THEOREM ExecutionsBounded == Spec => []StartBudget
<1>1. Init => StartBudget
  BY DEF Init, EmptyTable, StartBudget, NoRow, CreatedRow, Executing
<1>2. ASSUME TypeOK, StartBudget, [Next]_vars
      PROVE  StartBudget'
  <2>1. TypeOK' /\ \A u \in Task : Effect(u)
    BY <1>2, NextEffect, StutterEffect
  <2>2. SUFFICES ASSUME NEW t \in Task
                 PROVE  begun'[t] <= task'[t].attempt + cut'[t]
                          + (IF task'[t].status \in Executing THEN 1 ELSE 0)
    BY DEF StartBudget, Executing
  <2>3. begun[t] <= task[t].attempt + cut[t]
                      + (IF task[t].status \in Executing THEN 1 ELSE 0)
    BY <1>2 DEF StartBudget
  <2>4. /\ begun[t] \in Nat /\ cut[t] \in Nat /\ task[t].attempt \in Nat
        /\ begun'[t] \in Nat /\ cut'[t] \in Nat /\ task'[t].attempt \in Nat
    <3>1. task[t] \in Rows /\ task'[t] \in Rows
      BY <1>2, <2>1 DEF TypeOK, Rows
    <3>2. task[t].attempt \in Nat /\ task'[t].attempt \in Nat
      BY <3>1, AttemptIsNatural
    <3>3. /\ begun[t] \in Nat /\ cut[t] \in Nat
          /\ begun'[t] \in Nat /\ cut'[t] \in Nat
      BY <1>2, <2>1 DEF TypeOK
    <3> QED BY <3>2, <3>3
  <2>5. Effect(t)
    BY <2>1
  <2> QED BY <2>3, <2>4, <2>5
          DEF Effect, Same, Idle, Executing, RetryableStatus, RecoverableOnRestart
<1> QED BY <1>1, <1>2, TypeCorrect, PTL DEF Spec

\* The inductive form of AttemptsCapped: a row that may still be executed has
\* an attempt left, of its own or granted by an operator.
HasAttemptLeft ==
    \A t \in Task :
      /\ task[t].attempt <= MaxAttempts + requeued[t]
      /\ task[t].status \in {"scheduled", "claimed", "running", "interrupted"}
           => task[t].attempt < MaxAttempts + requeued[t]
      /\ task[t].status = "retry_wait" => task[t].attempt < MaxAttempts

\* fail() moves a row to retry_wait only below max_attempts, and only an
\* operator's retry() takes a failed row past the cap, one attempt a request.
THEOREM CapHolds == Spec => []AttemptsCapped
<1>1. Init => HasAttemptLeft
  BY StoreAssumption DEF Init, EmptyTable, HasAttemptLeft, NoRow, CreatedRow
<1>2. ASSUME TypeOK, HasAttemptLeft, [Next]_vars
      PROVE  HasAttemptLeft'
  <2>1. TypeOK' /\ \A u \in Task : Effect(u)
    BY <1>2, NextEffect, StutterEffect
  <2>2. SUFFICES ASSUME NEW t \in Task
                 PROVE  /\ task'[t].attempt <= MaxAttempts + requeued'[t]
                        /\ task'[t].status \in {"scheduled", "claimed",
                                                "running", "interrupted"}
                             => task'[t].attempt < MaxAttempts + requeued'[t]
                        /\ task'[t].status = "retry_wait"
                             => task'[t].attempt < MaxAttempts
    BY DEF HasAttemptLeft
  <2>3. /\ task[t].attempt <= MaxAttempts + requeued[t]
        /\ task[t].status \in {"scheduled", "claimed", "running", "interrupted"}
             => task[t].attempt < MaxAttempts + requeued[t]
        /\ task[t].status = "retry_wait" => task[t].attempt < MaxAttempts
    BY <1>2 DEF HasAttemptLeft
  <2>4. /\ requeued[t] \in Nat /\ requeued'[t] \in Nat
        /\ task[t].attempt \in Nat /\ task'[t].attempt \in Nat
        /\ MaxAttempts \in Nat \ {0}
    <3>1. task[t] \in Rows /\ task'[t] \in Rows
      BY <1>2, <2>1 DEF TypeOK, Rows
    <3>2. task[t].attempt \in Nat /\ task'[t].attempt \in Nat
      BY <3>1, AttemptIsNatural
    <3>3. requeued[t] \in Nat /\ requeued'[t] \in Nat
      BY <1>2, <2>1 DEF TypeOK
    <3> QED BY <3>2, <3>3, StoreAssumption
  <2>5. Effect(t)
    BY <2>1
  <2> QED BY <2>3, <2>4, <2>5
          DEF Effect, Same, Idle, RetryableStatus, RecoverableOnRestart
<1>3. HasAttemptLeft => AttemptsCapped
  BY DEF HasAttemptLeft, AttemptsCapped
<1> QED BY <1>1, <1>2, <1>3, TypeCorrect, PTL DEF Spec

\* No statement of the store moves a row that is succeeded, result_unknown or
\* expired: a late watchdog, retry or coroutine cannot reopen it.
THEOREM SettledRowsStay == Spec => SettledStays
<1>1. ASSUME TypeOK, [Next]_vars, NEW t \in Task,
             task[t].status \in SettledStatus
      PROVE  task'[t] = task[t]
  <2>1. Effect(t)
    BY <1>1, NextEffect, StutterEffect
  <2> QED BY <1>1, <2>1
          DEF Effect, Same, SettledStatus, RetryableStatus, RecoverableOnRestart
<1>2. TypeOK /\ [Next]_vars
        => [\A t \in Task : task[t].status \in SettledStatus
                              => task'[t] = task[t]]_vars
  BY <1>1
<1> QED BY <1>2, TypeCorrect, PTL DEF Spec, SettledStays

-----------------------------------------------------------------------------
(* The rows implement TaskPromise.                                         *)

jobs == [t \in Task |-> [phase |-> phaseOf(task[t]), runs |-> begun[t]]]

\* Every effect on a row is a move of its job.
LEMMA EffectMovesJob ==
    ASSUME TypeOK, TypeOK', NEW t \in Task, Effect(t)
    PROVE  Promise!Moves(jobs[t], jobs'[t])
<1> DEFINE p == phaseOf(task[t])
           q == phaseOf(task'[t])
<1>1. /\ jobs[t] = [phase |-> p, runs |-> begun[t]]
      /\ jobs'[t] = [phase |-> q, runs |-> begun'[t]]
  BY DEF jobs
<1>2. begun[t] \in Nat /\ begun'[t] \in Nat
  BY DEF TypeOK
<1>3. \/ q = p /\ begun'[t] = begun[t]
      \/ p \in {"none", "executing"} /\ q = "waiting" /\ begun'[t] = begun[t]
      \/ p = "waiting" /\ q = "executing" /\ begun'[t] = begun[t] + 1
      \/ p \in {"waiting", "executing"} /\ q = "done" /\ begun'[t] = begun[t]
  BY <1>2 DEF Effect, Same, Idle, phaseOf, SettledStatus, RetryableStatus,
              RecoverableOnRestart
<1> HIDE DEF p, q
<1> QED BY <1>1, <1>3 DEF Promise!Moves

\* TaskRun implements TaskPromise: work begins only on a waiting task, and a
\* task that is done is never taken up again.
THEOREM ImplementsPromise == Spec => KeepsPromise
<1>1. ASSUME Init
      PROVE  Promise!Init
  <2>1. \A t \in Task : task[t].status = "absent" /\ begun[t] = 0
    BY <1>1 DEF Init, EmptyTable, NoRow, CreatedRow
  <2>2. \A t \in Task : phaseOf(task[t]) = "none"
    BY <2>1 DEF phaseOf, SettledStatus
  <2> QED BY <2>1, <2>2 DEF Promise!Init
<1>2. ASSUME TypeOK, [Next]_vars
      PROVE  [Promise!Next]_jobs
  <2>1. \A t \in Task : Promise!Moves(jobs[t], jobs'[t])
    BY <1>2, NextEffect, StutterEffect, EffectMovesJob
  <2>2. jobs' = [t \in Task |-> jobs'[t]]
    BY DEF jobs
  <2> QED BY <2>1, <2>2 DEF Promise!Next, jobs
<1> QED BY <1>1, <1>2, TypeCorrect, PTL DEF Spec, KeepsPromise, Promise!Spec, jobs

-----------------------------------------------------------------------------
(* One coroutine executes a video of the plan.                             *)

\* Whoever has been dispatched is the one _inflight_task_runs names, and its
\* row is one that neither the retry pass nor a slot takes up.
Solo(t) ==
    /\ \A k \in Copy : run[t][k] # Gone => run[t][k].tracked /\ inflight[t] = k
    /\ inflight[t] # 0 => task[t].status \in {"claimed", "running"}
    /\ ~alive => inflight[t] = 0

AllSolo == requests = 0 => \A t \in Video \cap Slot : Solo(t)

\* Nothing happens to the task.
Still(t) ==
    /\ run'[t] = run[t] /\ inflight'[t] = inflight[t] /\ task'[t] = task[t]
    /\ alive' = alive

LEMMA StillSolo ==
    ASSUME NEW t \in Video \cap Slot, Solo(t), Still(t)
    PROVE  Solo(t)'
  BY DEF Solo, Still

\* An update of one task's coroutines leaves those of another alone.
LEMMA OthersStill ==
    ASSUME TypeOK, NEW t \in Task, NEW u \in Task \ {t}, NEW k \in Copy,
           \/ \E tracked \in BOOLEAN : Spawn(t, k, tracked)
           \/ Return(t, k)
           \/ \E place \in Place : Goto(t, k, place)
           \/ UNCHANGED <<run, inflight>>
    PROVE  run'[u] = run[u] /\ inflight'[u] = inflight[u]
  BY DEF TypeOK, Spawn, Return, Goto

\* It is dispatched when it has no coroutine, and its row is claimed.
LEMMA SpawnSolo ==
    ASSUME TypeOK, NEW t \in Task, Solo(t), alive, alive' = alive,
           task[t].status \notin {"claimed", "running"},
           task'[t].status = "claimed", NEW k \in Copy, Spawn(t, k, TRUE)
    PROVE  Solo(t)'
<1>1. run \in [Task -> [Copy -> Coroutine]] /\ inflight \in [Task -> Copy \cup {0}]
  BY DEF TypeOK
<1>2. \A j \in Copy : run[t][j] = Gone
  <2>1. inflight[t] = 0 /\ 0 \notin Copy
    BY TableAssumption DEF Solo
  <2> QED BY <2>1 DEF Solo
<1>3. /\ run'[t][k].tracked = TRUE /\ inflight'[t] = k
      /\ \A j \in Copy \ {k} : run'[t][j] = Gone
  BY <1>1, <1>2 DEF Spawn
<1> QED BY <1>3 DEF Solo

\* It goes on, or ends; if it goes on its row is still its own.
LEMMA StepSolo ==
    ASSUME TypeOK, NEW t \in Task, Solo(t), alive, alive' = alive, NEW k \in Copy,
           run[t][k] # Gone,
           \/ Return(t, k)
           \/ /\ \E place \in Place : Goto(t, k, place)
              /\ task'[t].status \in {"claimed", "running"} \/ task'[t] = task[t]
    PROVE  Solo(t)'
<1>1. run \in [Task -> [Copy -> Coroutine]] /\ inflight \in [Task -> Copy \cup {0}]
  BY DEF TypeOK
<1>2. run[t][k].tracked /\ inflight[t] = k /\ k # 0
  BY TableAssumption DEF Solo
<1>3. \A j \in Copy \ {k} : run[t][j] = Gone
  BY <1>2 DEF Solo
<1>4. CASE Return(t, k)
  <2>1. inflight'[t] = 0 /\ \A j \in Copy : run'[t][j] = Gone
    BY <1>1, <1>2, <1>3, <1>4 DEF Return
  <2> QED BY <2>1 DEF Solo
<1>5. ASSUME NEW place \in Place, Goto(t, k, place),
             task'[t].status \in {"claimed", "running"} \/ task'[t] = task[t]
      PROVE  Solo(t)'
  <2> DEFINE c == [run[t][k] EXCEPT !.at = place]
  <2>1. /\ inflight'[t] = k /\ run'[t][k].tracked = run[t][k].tracked
        /\ \A j \in Copy \ {k} : run'[t][j] = Gone
    <3>1. run[t][k] \in Coroutine
      BY <1>1
    <3>2. run' = [run EXCEPT ![t] = [run[t] EXCEPT ![k] = c]] /\ inflight' = inflight
      BY <1>5 DEF Goto
    <3>3. c.tracked = run[t][k].tracked
      BY <3>1 DEF Coroutine
    <3> HIDE DEF c
    <3>4. run'[t] = [run[t] EXCEPT ![k] = c]
      BY <1>1, <3>2
    <3> QED BY <1>1, <1>2, <1>3, <3>2, <3>3, <3>4
  <2> QED BY <1>2, <1>5, <2>1 DEF Solo
<1> QED BY <1>4, <1>5

LEMMA BootSolo ==
    ASSUME TypeOK, NEW t \in Task, Solo(t), Boot
    PROVE  Solo(t)'
<1>1. run \in [Task -> [Copy -> Coroutine]] /\ inflight \in [Task -> Copy \cup {0}]
  BY DEF TypeOK
<1>2. \A j \in Copy : run[t][j] = Gone
  BY TableAssumption DEF Boot, Solo
<1>3. PICK k \in Copy :
        /\ run' = [u \in Task |-> [run[u] EXCEPT ![k] =
                     IF IsCutShort(task[u]) THEN [at |-> "ready", tracked |-> TRUE]
                                            ELSE Gone]]
        /\ inflight' = [u \in Task |-> IF IsCutShort(task[u]) THEN k ELSE 0]
  BY DEF Boot, Resume
<1>4. task'[t] = BootedRow(t) /\ alive' = TRUE
  BY DEF Boot
<1>5. CASE IsCutShort(task[t])
  <2>1. /\ run'[t][k] = [at |-> "ready", tracked |-> TRUE] /\ inflight'[t] = k
        /\ \A j \in Copy \ {k} : run'[t][j] = Gone
    BY <1>1, <1>2, <1>3, <1>5
  <2>2. task'[t].status = "claimed"
    BY <1>4, <1>5, BootedCutShort
  <2>3. run'[t][k].tracked
    BY <2>1
  <2> QED BY <1>4, <2>1, <2>2, <2>3 DEF Solo
<1>6. CASE ~IsCutShort(task[t])
  <2>1. inflight'[t] = 0 /\ \A j \in Copy : run'[t][j] = Gone
    BY <1>1, <1>2, <1>3, <1>6
  <2> QED BY <1>4, <2>1 DEF Solo
<1> QED BY <1>5, <1>6

\* A step of one of its own coroutines.
LEMMA OwnStepSolo ==
    ASSUME TypeOK, NEW t \in Task, Solo(t), NEW k \in Copy, Step(t, k)
    PROVE  Solo(t)'
<1>1. alive /\ alive' = alive /\ run[t][k] # Gone
  BY DEF Step, Refuse, Enter, Work, Publish, NotPublished, Published, Live
<1>2. {"working", "posting", "posted"} \subseteq Place
  BY DEF Place
<1>3. CASE Return(t, k)
  BY <1>1, <1>3, StepSolo
<1>4. ASSUME NEW place \in Place, Goto(t, k, place), UNCHANGED task
      PROVE  Solo(t)'
  BY <1>1, <1>4, StepSolo
<1>5. CASE Enter(t, k)
  <2> DEFINE mine == IF CanClaim(task[t], now) THEN ClaimRow(task[t], now)
                                               ELSE task[t]
  <2>1. CASE /\ CanStart(mine)
             /\ task' = [task EXCEPT ![t] = StartRow(mine)]
             /\ begun' = [begun EXCEPT ![t] = @ + 1]
             /\ Goto(t, k, "working")
    <3>1. task \in [Task -> Rows] /\ UNCHANGED <<cut, requeued>> /\ begun[t] \in Nat
      BY <1>5 DEF TypeOK, Enter, Rows
    <3>2. Effect(t)
      <4> HIDE DEF mine
      <4> QED BY <2>1, <3>1, StartEffect DEF mine
    <3>3. begun'[t] = begun[t] + 1
      BY <2>1 DEF TypeOK
    <3>4. task'[t].status = "running"
      BY <3>1, <3>2, <3>3 DEF Effect, Same, Idle
    <3> QED BY <1>1, <1>2, <2>1, <3>4, StepSolo
  <2>2. CASE Return(t, k)
    BY <1>3, <2>2
  <2> QED BY <1>5, <2>1, <2>2 DEF Enter
<1>6. CASE Refuse(t, k)
  BY <1>3, <1>6 DEF Refuse, Finish
<1>7. CASE Work(t, k)
  BY <1>2, <1>3, <1>4, <1>7 DEF Work, Finish
<1>8. CASE Publish(t, k)
  BY <1>2, <1>4, <1>8 DEF Publish
<1>9. CASE NotPublished(t, k)
  BY <1>3, <1>9 DEF NotPublished, Finish
<1>10. CASE Published(t, k)
  BY <1>3, <1>10 DEF Published, Finish
<1> QED BY <1>5, <1>6, <1>7, <1>8, <1>9, <1>10 DEF Step

\* A row that is claimed by a statement of the scheduler.
LEMMA ClaimedRows ==
    ASSUME TypeOK, NEW t \in Task
    PROVE  /\ CanClaim(task[t], now) =>
                [task EXCEPT ![t] = ClaimRow(@, now)][t].status = "claimed"
           /\ CanRetry(task[t]) =>
                [task EXCEPT ![t] = ClaimRow(RetryRow(@, now), now)][t].status = "claimed"
<1> DEFINE r == task[t]
<1>1. r \in Rows /\ now \in Nat
  BY DEF TypeOK, Rows
<1>2. ASSUME r \in TaskRow
      PROVE  ClaimRow(r, now).status = "claimed"
  BY <1>1, <1>2, StatementEffects
<1>3. ASSUME r \in TaskRow
      PROVE  ClaimRow(RetryRow(r, now), now).status = "claimed"
  <2> DEFINE x == RetryRow(r, now)
  <2>1. x \in TaskRow
    BY <1>1, <1>3, StatementsKeepType
  <2> HIDE DEF x
  <2>2. ClaimRow(x, now).status = "claimed"
    BY <1>1, <2>1, StatementEffects
  <2> QED BY <2>2 DEF x
<1>4. CanClaim(r, now) \/ CanRetry(r) => r \in TaskRow
  BY <1>1, AbsentPassesNoGuard DEF CanClaim, CanRetry, RetryableStatus
<1>5. \A x : [task EXCEPT ![t] = x][t] = x
  BY DEF TypeOK
<1> QED BY <1>2, <1>3, <1>4, <1>5

LEMMA NextSolo ==
    ASSUME TypeOK, AllSolo, [Next]_vars
    PROVE  AllSolo'
<1> USE DEF history, memory
<1>1. SUFFICES ASSUME requests' = 0, NEW t \in Video \cap Slot
               PROVE  Solo(t)'
  BY DEF AllSolo
<1>2. t \in Task /\ t \in Slot /\ t \in Video
  BY TaskAssumption
<1>3. requests = 0 /\ Solo(t)
  <2>1. requests \in Nat
    BY DEF TypeOK
  <2>2. requests' = requests \/ requests' = requests + 1
    BY DEF Next, vars, Boot, Crash, Tick, TriggerSlot, RetryPass, Watchdog, CreateManual,
           CancelRequest, RetryRequest, Step, Refuse, Enter, Work, Publish, NotPublished,
           Published
  <2> QED BY <1>1, <2>1, <2>2 DEF AllSolo
<1>4. CASE UNCHANGED vars
  BY <1>2, <1>3, <1>4, StillSolo DEF vars, Still
<1>5. CASE Boot
  BY <1>2, <1>3, <1>5, BootSolo
<1>6. CASE Crash
  <2>1. run'[t] = [k \in Copy |-> Gone] /\ inflight'[t] = 0
    BY <1>2, <1>6 DEF Crash, CoroutinesDie
  <2> QED BY <2>1 DEF Solo
<1>7. CASE Tick
  BY <1>2, <1>3, <1>7, StillSolo DEF Tick, TimePasses, Still
\* The row of another task.
<1>8. ASSUME NEW u \in Task, u # t, NEW k \in Copy,
             \/ \E tracked \in BOOLEAN : Spawn(u, k, tracked)
             \/ Return(u, k)
             \/ \E place \in Place : Goto(u, k, place)
             \/ UNCHANGED <<run, inflight>>,
             task' = task \/ (\E x : task' = [task EXCEPT ![u] = x]),
             alive' = alive
      PROVE  Solo(t)'
  <2>1. run'[t] = run[t] /\ inflight'[t] = inflight[t]
    BY <1>2, <1>8, OthersStill
  <2>2. task'[t] = task[t]
    BY <1>2, <1>8 DEF TypeOK
  <2> QED BY <1>2, <1>3, <1>8, <2>1, <2>2, StillSolo DEF Still
<1>9. ASSUME NEW u \in Task, TriggerSlot(u)
       PROVE  Solo(t)'
  <2>1. CASE CanClaim(task[u], now)
    <3>1. PICK k \in Copy : Spawn(u, k, u \in Video)
      BY <1>9, <2>1 DEF TriggerSlot
    <3>2. /\ task' = [task EXCEPT ![u] = ClaimRow(@, now)]
          /\ alive /\ alive' = alive
      BY <1>9, <2>1 DEF TriggerSlot
    <3>3. CASE u = t
      <4>1. Spawn(t, k, TRUE)
        BY <1>2, <3>1, <3>3
      <4>2. task'[t].status = "claimed"
        BY <1>2, <2>1, <3>2, <3>3, ClaimedRows
      <4>3. task[t].status \notin {"claimed", "running"}
        BY <2>1, <3>3 DEF CanClaim
      <4> QED BY <1>2, <1>3, <3>2, <4>1, <4>2, <4>3, SpawnSolo
    <3>4. CASE u # t
      <4>1. (u \in Video) \in BOOLEAN
        OBVIOUS
      <4> QED BY <1>8, <3>1, <3>2, <3>4, <4>1
    <3> QED BY <3>3, <3>4
  <2>2. CASE ~CanClaim(task[u], now)
    <3>1. UNCHANGED <<task, run, inflight, alive>>
      BY <1>9, <2>2 DEF TriggerSlot
    <3> QED BY <1>2, <1>3, <3>1, StillSolo DEF Still
  <2> QED BY <2>1, <2>2
<1>10. ASSUME NEW u \in Task, RetryPass(u)
       PROVE  Solo(t)'
  <2>1. /\ RetryDue(task[u], now) /\ CanRetry(task[u]) /\ alive /\ alive' = alive
        /\ task' = [task EXCEPT ![u] = ClaimRow(RetryRow(@, now), now)]
    BY <1>10 DEF RetryPass, RetryOverdue, Redispatch
  <2>2. PICK k \in Copy : Spawn(u, k, TRUE)
    BY <1>10 DEF RetryPass, RetryOverdue, Redispatch
  <2>3. CASE u = t
    <3>1. task'[t].status = "claimed"
      BY <1>2, <2>1, <2>3, ClaimedRows
    <3>2. task[t].status \notin {"claimed", "running"}
      BY <2>1, <2>3 DEF RetryDue
    <3> QED BY <1>2, <1>3, <2>1, <2>2, <2>3, <3>1, <3>2, SpawnSolo
  <2>4. CASE u # t
    BY <1>8, <2>1, <2>2, <2>4
  <2> QED BY <2>3, <2>4
<1>11. ASSUME NEW u \in Task, Watchdog(u)
       PROVE  Solo(t)'
  <2>1. /\ inflight[u] = 0 /\ UNCHANGED <<run, inflight, alive>>
        /\ \E b \in Backoff : task' = [task EXCEPT ![u] = FailRow(@, now, TRUE, b)]
    BY <1>11 DEF Watchdog, FailOrphan
  <2>2. CASE u = t
    BY <1>3, <2>1, <2>2 DEF Solo
  <2>3. CASE u # t
    <3>1. task'[t] = task[t]
      BY <1>2, <2>1, <2>3 DEF TypeOK
    <3> QED BY <1>2, <1>3, <2>1, <3>1, StillSolo DEF Still
  <2> QED BY <2>2, <2>3
<1>12. ASSUME NEW u \in Task, CreateManual(u)
       PROVE  Solo(t)'
  <2>1. PICK k \in Copy : Spawn(u, k, FALSE)
    BY <1>12 DEF CreateManual
  <2>2. u # t /\ alive' = alive /\ task' = [task EXCEPT ![u] = CreatedRow(now)]
    BY <1>2, <1>12 DEF CreateManual
  <2> QED BY <1>8, <2>1, <2>2
<1>13. ASSUME NEW u \in Task, CancelRequest(u) \/ RetryRequest(u)
       PROVE  FALSE
  BY <1>1, <1>3, <1>13 DEF CancelRequest, RetryRequest
<1>14. ASSUME NEW u \in Task, NEW k \in Copy, Step(u, k)
       PROVE  Solo(t)'
  <2>1. CASE u = t
    BY <1>2, <1>3, <1>14, <2>1, OwnStepSolo
  <2>2. CASE u # t
    <3>1. alive' = alive
      BY <1>14 DEF Step, Refuse, Enter, Work, Publish, NotPublished, Published
    <3>2. {"working", "posting", "posted"} \subseteq Place
      BY DEF Place
    <3>3. Return(u, k) \/ \E place \in Place : Goto(u, k, place)
      BY <1>14, <3>2 DEF Step, Refuse, Enter, Work, Publish, NotPublished, Published, Finish
    <3>4. task' = task \/ (\E x : task' = [task EXCEPT ![u] = x])
      <4>1. ASSUME NEW o, Record(u, o)
            PROVE  task' = task \/ (\E x : task' = [task EXCEPT ![u] = x])
        BY <4>1 DEF Record
      <4> QED BY <1>14, <4>1 DEF Step, Refuse, Enter, Work, Publish, NotPublished, Published,
                                 Finish
    <3> QED BY <1>8, <2>2, <3>1, <3>3, <3>4
  <2> QED BY <2>1, <2>2
<1> QED BY <1>4, <1>5, <1>6, <1>7, <1>9, <1>10, <1>11, <1>12, <1>13, <1>14 DEF Next

\* Until an operator asks for something, a video of the plan has one executing
\* coroutine at most: a retry follows the fail() that ends the coroutine, and
\* the watchdog waits for the one _inflight_task_runs names
\* (scheduler.py:283-340).
THEOREM OneExecutor == Spec => [](requests = 0 => SlotVideoHasOneExecutor)
<1>1. Init => AllSolo
  <2>1. Init => \A t \in Task : /\ \A k \in Copy : run[t][k] = Gone
                                /\ inflight[t] = 0
    BY DEF Init, EmptyTable
  <2> QED BY <2>1, TaskAssumption DEF AllSolo, Solo
<1>2. TypeOK /\ AllSolo /\ [Next]_vars => AllSolo'
  BY NextSolo
<1>3. ASSUME TypeOK, AllSolo, requests = 0
      PROVE  SlotVideoHasOneExecutor
  <2> SUFFICES ASSUME NEW t \in Video \cap Slot
               PROVE  Cardinality({k \in Copy : run[t][k].at \in {"working", "posting"}}) <= 1
    BY DEF SlotVideoHasOneExecutor
  <2> DEFINE busy == {k \in Copy : run[t][k].at \in {"working", "posting"}}
  <2>1. \A k \in busy : k = inflight[t]
    BY <1>3 DEF AllSolo, Solo, Gone
  <2>2. busy \in SUBSET {inflight[t]}
    BY <2>1
  <2> HIDE DEF busy
  <2>3. IsFiniteSet({inflight[t]}) /\ Cardinality({inflight[t]}) = 1
    BY FS_Singleton
  <2>4. Cardinality(busy) <= 1
    BY <2>2, <2>3, FS_Subset
  <2> QED BY <2>4 DEF busy
<1> QED BY <1>1, <1>2, <1>3, TypeCorrect, PTL DEF Spec
=============================================================================
