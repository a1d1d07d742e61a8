------------------------------ MODULE PmStore ------------------------------
(***************************************************************************)
(* One row of pm_states (src/bilibot/services/pm_state_store.py): what the *)
(* account knows of one private message.  Every change of status goes      *)
(* through update_status, which checks the transition table in the         *)
(* statement's own transaction.                                            *)
(***************************************************************************)
EXTENDS Integers

CONSTANTS
    MaxAttempts,    \* max_attempts of a private message
    DeferWait,      \* mark_deferred waits this long
    StuckAfter      \* timeout_minutes of recover_stuck_intermediate

\* Assumed by the modules that instantiate this one.
PmAssumption ==
    /\ MaxAttempts \in Nat \ {0}
    /\ {DeferWait, StuckAfter} \subseteq Nat

NoTime == -1

Terminal == {"published", "ignored", "rejected", "failed"}
Intermediate ==
    {"discovered", "context_building", "generation_pending", "safety_pending",
     "publish_pending"}
Statuses == Terminal \cup Intermediate
            \cup {"deferred", "retry_wait", "result_unknown"}

\* Faulty variant: a deferred or waiting message may only be published.
TransitionsUnchecked ==
    [s \in Statuses |->
       CASE s = "discovered" ->
              {"ignored", "context_building", "generation_pending", "deferred"}
         [] s = "generation_pending" ->
              {"safety_pending", "deferred", "ignored", "rejected", "failed"}
         [] s = "safety_pending" -> {"publish_pending", "rejected", "deferred"}
         [] s = "publish_pending" ->
              {"published", "retry_wait", "result_unknown", "failed"}
         [] s = "retry_wait" -> {"publish_pending", "failed", "deferred"}
         [] s = "deferred" -> Statuses \ {"published", "result_unknown"}
         [] OTHER -> {}]

\* _VALID_TRANSITIONS
Transitions ==
    [s \in Statuses |->
       CASE s = "discovered" ->
              {"ignored", "context_building", "generation_pending", "deferred"}
         [] s = "context_building" ->
              {"generation_pending", "deferred", "ignored"}
         [] s = "generation_pending" ->
              {"safety_pending", "deferred", "ignored", "rejected", "failed"}
         [] s = "safety_pending" -> {"publish_pending", "rejected", "deferred"}
         [] s = "publish_pending" ->
              {"published", "retry_wait", "result_unknown", "failed"}
         [] s = "retry_wait" ->
              {"publish_pending", "failed", "deferred", "safety_pending"}
         [] s = "deferred" ->
              Statuses \ {"published", "result_unknown"}
         [] s = "result_unknown" -> {"published", "failed", "publish_pending"}
         [] OTHER -> {}]

NoRow ==
    [status |-> "absent", written |-> FALSE, attempt |-> 0,
     nextRetryAt |-> NoTime, updatedAt |-> 0, unarchived |-> FALSE]

\* ensure_discovered: the row of a message is inserted once.
Discovered(r, now) ==
    IF r.status = "absent" THEN [NoRow EXCEPT !.status = "discovered",
                                              !.updatedAt = now]
                           ELSE r

\* update_status, without force: what it refuses raises.
CanMove(r, status) ==
    r.status \in Statuses \ {"result_unknown"} /\ status \in Transitions[r.status]
Move(r, status, now) == [r EXCEPT !.status = status, !.updatedAt = now]

SaveText(r, now) == [r EXCEPT !.written = TRUE, !.updatedAt = now]

\* mark_memory_archive_pending and clear_memory_archive_pending
MarkArchive(r, missing, now) ==
    [r EXCEPT !.unarchived = missing, !.updatedAt = now]

MarkPublished(r, now) ==
    [Move(r, "published", now) EXCEPT !.nextRetryAt = NoTime]
MarkDeferred(r, now) ==
    [Move(r, "deferred", now) EXCEPT !.nextRetryAt = now + DeferWait]

\* mark_retry_wait: the attempt is counted, and the last one fails the row.
MarkRetryWait(r, wait, now) ==
    IF r.attempt + 1 >= MaxAttempts
    THEN [Move(r, "failed", now) EXCEPT !.attempt = @ + 1]
    ELSE [Move(r, "retry_wait", now) EXCEPT !.attempt = @ + 1,
                                            !.nextRetryAt = now + wait]

\* list_retryable
Due(r, now) ==
    /\ r.status \in {"retry_wait", "deferred"}
    /\ r.nextRetryAt # NoTime
    /\ r.nextRetryAt <= now

\* list_memory_archive_pending
Unarchived(r) == r.status = "published" /\ r.unarchived

\* Faulty variants: a message that may be out is answered again; a message
\* that was only discovered is left alone.
RecoveredForResend(r, now) ==
    IF r.status \in Intermediate /\ r.updatedAt < now - StuckAfter
    THEN [Move(r, "deferred", now) EXCEPT !.nextRetryAt = now]
    ELSE r
\* recover_stuck_intermediate
Recovered(r, now) ==
    IF ~(r.status \in Intermediate /\ r.updatedAt < now - StuckAfter) THEN r
    ELSE IF r.status = "publish_pending"
         THEN [Move(r, "result_unknown", now) EXCEPT !.nextRetryAt = NoTime]
         ELSE [Move(r, "deferred", now) EXCEPT !.nextRetryAt = now]
=============================================================================
