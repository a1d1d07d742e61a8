---------------------------- MODULE ReplyStore ----------------------------
(***************************************************************************)
(* One row of reply_states (src/bilibot/services/reply_state.py): the      *)
(* comment of one user and what became of the reply to it.  upsert() has   *)
(* no guard of its own, so these are row-to-row operators; the order in    *)
(* which the scheduler applies them is CommentReply's.                     *)
(***************************************************************************)
EXTENDS Integers

CONSTANTS
    Text,           \* what the model may write
    NoText,         \* the row has no generated text
    MaxAttempts,    \* DEFAULT_MAX_ATTEMPTS
    StuckTime       \* DEFAULT_STUCK_TIMEOUT_MINUTES

\* Assumed by the modules that instantiate this one.
ReplyAssumption ==
    /\ NoText \notin Text
    /\ MaxAttempts \in Nat \ {0}
    /\ StuckTime \in Nat

NoTime == -1

TerminalStates == {"published", "published_legacy", "ignored", "rejected",
                   "failed", "result_unknown"}
RetryableStates == {"deferred", "retry_wait"}
IntermediateStates == {"context_building", "generation_pending",
                       "safety_pending", "publish_pending"}

NoRow == [state |-> "absent", attempts |-> 0, maxAttempts |-> MaxAttempts,
          nextRetryAt |-> NoTime, updatedAt |-> 0, notified |-> FALSE,
          text |-> NoText, revision |-> 0]

\* upsert: a burnt attempt that is the last one turns the row to failed.
Upsert(r, state, burn, wait, now) ==
    LET burns == burn /\ state \in RetryableStates
        spent == IF burns THEN r.attempts + 1 ELSE r.attempts
        next  == IF burns /\ spent >= r.maxAttempts THEN "failed" ELSE state
    IN  [r EXCEPT !.state = next, !.attempts = spent, !.updatedAt = now,
                  !.nextRetryAt = IF next \in RetryableStates THEN now + wait
                                                              ELSE NoTime]

\* upsert with the notification, which a retry needs to know what to answer
Notified(r) == [r EXCEPT !.notified = TRUE]

\* save_generation_result: another text, another revision.
Save(r, text, now) ==
    [r EXCEPT !.text = text, !.updatedAt = now,
              !.revision = IF @ = 0 THEN 1 ELSE IF r.text = text THEN @ ELSE @ + 1]

\* mark_manual_retry
CanRequeue(r) == r.state \notin {"absent", "published", "published_legacy"}
Requeue(r, now) ==
    [r EXCEPT !.state = "retry_wait", !.updatedAt = now, !.nextRetryAt = now,
              !.maxAttempts = IF r.attempts >= @ THEN r.attempts + 1 ELSE @]

\* Faulty variant: a row that was about to be published is not looked for.
StuckUnpublished(r, now) ==
    /\ r.state \in IntermediateStates \ {"publish_pending"}
    /\ r.updatedAt < now - StuckTime

\* recover_stuck_intermediate and get_retryable look for the same rows.
Stuck(r, now) ==
    /\ r.state \in IntermediateStates
    /\ r.updatedAt < now - StuckTime

Retryable(r, now) ==
    \/ r.state \in RetryableStates /\ r.nextRetryAt <= now
    \/ Stuck(r, now)

\* A text that may be on its way is kept; everything else starts again.
Unstuck(r, now) ==
    [r EXCEPT !.state = IF @ = "publish_pending" /\ r.text # NoText
                        THEN "retry_wait" ELSE "deferred",
              !.updatedAt = now, !.nextRetryAt = now]
=============================================================================
