----------------------------- MODULE TaskStore -----------------------------
(***************************************************************************)
(* One row of task_runs (src/bilibot/services/task_store.py) and the       *)
(* conditional UPDATE statements that move it.  Every SQL statement of the *)
(* store is a guard (its WHERE clause) and a row-to-row operator (its SET  *)
(* clause); the store has no variables here, so the modules that own the   *)
(* table can chain several calls within one event-loop step.               *)
(*                                                                         *)
(* Time is a small natural number.  One unit is the watchdog's 300 s; the  *)
(* lease (600 s) and the grace window (900 s) are constants.               *)
(***************************************************************************)
EXTENDS Integers

CONSTANTS
    MaxAttempts,    \* max_attempts of a row
    LeaseTime,      \* DEFAULT_LEASE_SECONDS
    LeaseOverdue,   \* lease_overdue_seconds of the watchdog
    GraceWindow     \* grace_window of a row

ASSUME StoreAssumption ==
    /\ MaxAttempts \in Nat \ {0}
    /\ LeaseTime \in Nat
    /\ LeaseOverdue \in Nat
    /\ GraceWindow \in Nat

Never == -1         \* an SQL NULL in a time column

TaskStatus == {"scheduled", "claimed", "running", "retry_wait",
               "succeeded", "failed", "expired", "interrupted",
               "result_unknown"}

RetryableStatus == {"retry_wait", "failed", "interrupted"}
RecoverableOnRestart == {"claimed", "running"}

\* Statuses that no operation of the store leaves: the documented terminal
\* statuses without the two that retry() may requeue.
SettledStatus == {"succeeded", "expired", "result_unknown"}

TaskRow == [status      : TaskStatus,
            attempt     : Nat,
            scheduledAt : Int,
            notBefore   : Int,
            leaseUntil  : Int,
            nextRetryAt : Int]

\* create: not_before defaults to scheduled_at.
CreatedRow(at) == [status |-> "scheduled", attempt |-> 0, scheduledAt |-> at,
                   notBefore |-> at, leaseUntil |-> Never,
                   nextRetryAt |-> Never]

CanClaim(r, now) == r.status = "scheduled" /\ r.notBefore <= now
ClaimRow(r, now) == [r EXCEPT !.status = "claimed",
                              !.leaseUntil = now + LeaseTime]

CanStart(r) == r.status = "claimed"
StartRow(r) == [r EXCEPT !.status = "running"]

CanSucceed(r) == r.status = "running"
SucceedRow(r) == [r EXCEPT !.status = "succeeded", !.leaseUntil = Never,
                           !.nextRetryAt = Never]

\* Faulty variants of fail(): the attempt is not counted, the cap is compared
\* off by one, and the status is not looked at again.
FailRowForgetsAttempt(r, now, retryable, backoff) ==
    [r EXCEPT !.status = IF retryable THEN "retry_wait" ELSE "failed",
              !.leaseUntil = Never, !.nextRetryAt = now + backoff]
FailRowPastCap(r, now, retryable, backoff) ==
    [r EXCEPT !.status = IF retryable /\ r.attempt + 1 <= MaxAttempts
                         THEN "retry_wait" ELSE "failed",
              !.attempt = @ + 1,
              !.leaseUntil = Never, !.nextRetryAt = now + backoff]
CanFailAnything(r) == r.status # "absent"

\* fail: the attempt is spent whatever the outcome.  The backoff of
\* 2^attempt (at most 300) seconds plus jitter is a number of time units that
\* the caller chooses.
CanFail(r) == r.status \in {"running", "claimed", "scheduled"}
FailRow(r, now, retryable, backoff) ==
    LET spent == [r EXCEPT !.attempt = @ + 1, !.leaseUntil = Never]
    IN  IF ~retryable \/ r.attempt + 1 >= MaxAttempts
        THEN [spent EXCEPT !.status = "failed", !.nextRetryAt = Never]
        ELSE [spent EXCEPT !.status = "retry_wait",
                           !.nextRetryAt = now + backoff]

CanMarkResultUnknown(r) == r.status = "running"
ResultUnknownRow(r) == [r EXCEPT !.status = "result_unknown",
                                 !.leaseUntil = Never, !.nextRetryAt = Never]

CanCancel(r) == r.status \in {"scheduled", "claimed"}
CancelRow(r) == [r EXCEPT !.status = "failed"]

\* Faulty variant of retry(): every terminal status may be requeued.
CanRetryTerminal(r) == r.status \in RetryableStatus \cup SettledStatus

CanRetry(r) == r.status \in RetryableStatus
RetryRow(r, now) == [r EXCEPT !.status = "scheduled", !.notBefore = now,
                              !.leaseUntil = Never, !.nextRetryAt = Never]

\* expire_overdue and expire_scheduled_before touch scheduled rows only.
CanExpire(r, now) == r.status = "scheduled" /\ r.scheduledAt + GraceWindow < now
ExpireRow(r) == [r EXCEPT !.status = "expired"]

CanInterrupt(r) == r.status \in RecoverableOnRestart
InterruptRow(r) == [r EXCEPT !.status = "interrupted", !.leaseUntil = Never]

\* Faulty variants of the two queries: the comparison turned round, and claimed
\* rows looked for instead of running ones.
RetryDueEarly(r, now) == /\ r.status = "retry_wait"
                         /\ r.nextRetryAt > now
LeaseExpiredClaimed(r, now) == /\ r.status = "claimed"
                               /\ r.leaseUntil <= now - LeaseOverdue

\* list_retryable and list_running_expired
RetryDue(r, now) == /\ r.status = "retry_wait"
                    /\ r.nextRetryAt # Never
                    /\ r.nextRetryAt <= now
LeaseExpired(r, now) == /\ r.status = "running"
                        /\ r.leaseUntil # Never
                        /\ r.leaseUntil <= now - LeaseOverdue
=============================================================================
