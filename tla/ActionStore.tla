---------------------------- MODULE ActionStore ----------------------------
(***************************************************************************)
(* One row of proactive_comment_actions                                    *)
(* (src/bilibot/services/proactive_comment_store.py): an attempt of the    *)
(* account to comment on one video.  Guards and row-to-row operators; the  *)
(* partial unique index over the table is ProactiveComment's.              *)
(***************************************************************************)
EXTENDS Integers

CONSTANTS
    Video,          \* the videos the bot watches
    NoVideo,        \* the row does not exist
    MaxAttempts,    \* max_attempts of the configuration
    ClaimLease,     \* DEFAULT_CLAIMED_LEASE_SECONDS
    PublishLease    \* DEFAULT_LEASE_SECONDS

ASSUME ActionAssumption ==
    /\ NoVideo \notin Video
    /\ MaxAttempts \in Nat \ {0}
    /\ {ClaimLease, PublishLease} \subseteq Nat

NoTime == -1

TerminalStatuses == {"published", "result_unknown", "failed"}
BlockingStatuses ==
    {"claimed", "publishing", "published", "retry_wait", "result_unknown"}
NoAction ==
    [status |-> "absent", video |-> NoVideo, written |-> FALSE,
     attempt |-> 0, maxAttempts |-> MaxAttempts,
     leaseUntil |-> NoTime, nextRetryAt |-> NoTime, updatedAt |-> 0]

Claimed(v, now) ==
    [NoAction EXCEPT !.status = "claimed", !.video = v, !.updatedAt = now,
                     !.leaseUntil = now + ClaimLease]

\* save_generation, which only a claimed row accepts
SaveText(r, now) ==
    IF r.status = "claimed" THEN [r EXCEPT !.written = TRUE, !.updatedAt = now]
                            ELSE r

\* A row that reaches a final status has neither a lease nor a time to wait for.
Settled(r, status, now) ==
    [r EXCEPT !.status = status, !.updatedAt = now,
              !.leaseUntil = NoTime, !.nextRetryAt = NoTime]

\* mark_failed looks at no status.
MarkFailed(r, now) == Settled(r, "failed", now)

CanMarkPublishing(r) == r.status \in {"claimed", "retry_wait"}
MarkPublishing(r, now) ==
    [r EXCEPT !.status = "publishing", !.updatedAt = now, !.nextRetryAt = NoTime,
              !.leaseUntil = now + PublishLease]

\* mark_published and mark_result_unknown
FromPublishing(r, status, now) ==
    IF r.status = "publishing" THEN Settled(r, status, now) ELSE r

Queued(r, at, now) ==
    [r EXCEPT !.status = "retry_wait", !.updatedAt = now,
              !.nextRetryAt = at, !.leaseUntil = NoTime]

\* Faulty variants: any status is queued again, or one attempt too many is.
MarkRetryWaitAnyhow(r, burn, wait, now) ==
    LET spent == IF burn THEN r.attempt + 1 ELSE r.attempt
    IN  IF burn /\ spent >= r.maxAttempts
        THEN [MarkFailed(r, now) EXCEPT !.attempt = spent]
        ELSE [Queued(r, now + wait, now) EXCEPT !.attempt = spent]
\* mark_retry_wait: a late call does not bring a settled row back.
MarkRetryWait(r, burn, wait, now) ==
    LET spent == IF burn THEN r.attempt + 1 ELSE r.attempt
    IN  IF r.status \notin {"claimed", "publishing", "retry_wait"} THEN r
        ELSE IF burn /\ spent >= r.maxAttempts
        THEN [MarkFailed(r, now) EXCEPT !.attempt = spent]
        ELSE [Queued(r, now + wait, now) EXCEPT !.attempt = spent]

\* schedule_manual_retry, of a row that is neither published nor in progress
CanRetryByHand(r, force) ==
    \/ r.status \in {"retry_wait", "failed"}
    \/ force /\ r.status = "result_unknown"
RetryByHand(r, now) ==
    [Queued(r, 0, now) EXCEPT
        !.written = TRUE,
        !.maxAttempts = IF r.status = "failed" /\ r.attempt >= @
                        THEN r.attempt + 1 ELSE @]

Due(r, now) == r.status = "retry_wait" /\ r.nextRetryAt <= now

\* Faulty variants: a comment that may be out is queued; a row without a text
\* stays claimed.
RecoveredToQueue(r, now) ==
    IF r.leaseUntil = NoTime \/ r.leaseUntil >= now THEN r
    ELSE CASE r.status = "publishing"             -> Queued(r, now, now)
           [] r.status = "claimed" /\ r.written   -> Queued(r, now, now)
           [] r.status = "claimed" /\ ~r.written  -> MarkFailed(r, now)
           [] OTHER                               -> r
\* recover_stuck_publishing and recover_stuck_claimed
Recovered(r, now) ==
    IF r.leaseUntil = NoTime \/ r.leaseUntil >= now THEN r
    ELSE CASE r.status = "publishing"             -> Settled(r, "result_unknown", now)
           [] r.status = "claimed" /\ r.written   -> Queued(r, now, now)
           [] r.status = "claimed" /\ ~r.written  -> MarkFailed(r, now)
           [] OTHER                               -> r
=============================================================================
