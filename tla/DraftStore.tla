----------------------------- MODULE DraftStore -----------------------------
(***************************************************************************)
(* One row of dynamic_drafts (src/bilibot/services/dynamic_draft_store.py) *)
(* and the conditional UPDATE statements that move it: a guard for every   *)
(* WHERE clause, a row-to-row operator for every SET clause.  The content  *)
(* of a draft is named by its revision: every edit writes a new one.       *)
(***************************************************************************)
EXTENDS Integers

CONSTANTS
    Expiry,         \* draft_expiry_seconds; 0: drafts do not expire
    StuckTime       \* DEFAULT_PUBLISH_STUCK_MINUTES

ASSUME DraftAssumption == Expiry \in Nat /\ StuckTime \in Nat

NoExpiry == -1

\* create, as review mode calls it: a draft that fails the safety check is
\* rejected from the start.
CreatedDraft(passed, now) ==
    [status    |-> IF passed THEN "awaiting_review" ELSE "rejected",
     revision  |-> 1,
     expiresAt |-> IF Expiry = 0 THEN NoExpiry ELSE now + Expiry,
     updatedAt |-> now]

To(d, status, now) == [d EXCEPT !.status = status, !.updatedAt = now]

\* Faulty variants: an edit or an approval that does not compare everything.
CanApproveStale(d, expected) == d.status = "awaiting_review"
CanApproveRejected(d, expected) ==
    d.status \in {"awaiting_review", "rejected"} /\ d.revision = expected

\* update, approve and reject, under the optimistic lock on the revision
CanUpdate(d, expected) == d.status = "awaiting_review" /\ d.revision = expected
Updated(d, now) == [d EXCEPT !.revision = @ + 1, !.updatedAt = now]

CanApprove(d, expected) == d.status = "awaiting_review" /\ d.revision = expected

CanReject(d) == d.status = "awaiting_review"

\* Faulty variant: a draft being published may be taken once more.
CanMarkPublishingTwice(d) == d.status \in {"approved", "retry_wait", "publishing"}

\* mark_publishing is the lock of a publication.
CanMarkPublishing(d) == d.status \in {"approved", "retry_wait"}

\* mark_published, mark_retry_wait and mark_result_unknown do nothing to a
\* draft that is not being published.
Settled(d, status, now) ==
    IF d.status = "publishing" THEN To(d, status, now) ELSE d

MarkedFailed(d, now) ==
    IF d.status \in {"publishing", "retry_wait", "result_unknown"}
    THEN To(d, "failed", now) ELSE d

\* reset_to_approved
CanReset(d) == d.status \in {"retry_wait", "failed", "result_unknown"}

\* Faulty variant: only approved drafts are looked after.
RecoveredApprovedOnly(d, now) ==
    IF d.status = "approved" /\ d.expiresAt # NoExpiry /\ d.expiresAt < now
    THEN To(d, "expired", now) ELSE d

\* recover_stuck_drafts
Overdue(d, now) == d.expiresAt # NoExpiry /\ d.expiresAt < now
Recovered(d, now) ==
    IF d.status = "approved" /\ Overdue(d, now)
    THEN To(d, "expired", now)
    ELSE IF d.status = "publishing" /\ d.updatedAt < now - StuckTime
         THEN To(d, "result_unknown", now)
         ELSE d
=============================================================================
