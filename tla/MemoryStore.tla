---------------------------- MODULE MemoryStore ----------------------------
(***************************************************************************)
(* The rows of one remembered event in memory_brain.db                     *)
(* (src/bilibot/memory_brain/store.py): the event's index status, its      *)
(* derived rows, and the brain_jobs rows that produce them, one per type   *)
(* of job.  Each operator is one statement or one transaction, applied to  *)
(* rows as values.                                                         *)
(***************************************************************************)
EXTENDS Integers, FiniteSets

CONSTANTS
    Types,          \* the types of job the event was archived with
    MaxAttempts,    \* job_max_attempts
    RetryWait,      \* fail_job waits this long, whatever the attempt
    UnblockGrace    \* unblock_grace_seconds

\* claim_jobs takes the types in this order.
Priority ==
    <<"embed_event", "embed_chunks", "summarize_event", "extract_entities",
      "link_associations">>

NoTime == -1
Nobody == -1

Open == {"pending", "retry"}
NoJob ==
    [status |-> "absent", attempts |-> 0, availableAt |-> 0, owner |-> Nobody,
     leasedUntil |-> NoTime, blockedAt |-> NoTime, mark |-> "none"]

\* UPDATE ... SET status='pending',attempts=0,lease_owner=NULL,...: the job
\* is due at once, and its payload, with the count in it, stays.
Reopened(j) ==
    [j EXCEPT !.status = "pending", !.attempts = 0, !.availableAt = 0,
              !.owner = Nobody, !.leasedUntil = NoTime, !.blockedAt = NoTime]

NewJob == Reopened(NoJob)
NewJobs == [t \in Types |-> NewJob]

-----------------------------------------------------------------------------
(***************************************************************************)
(* claim_jobs.                                                             *)
(***************************************************************************)
Claimable(j, now) ==
    \/ j.status \in Open /\ j.availableAt <= now /\ j.attempts < MaxAttempts
    \/ j.status = "processing" /\ j.leasedUntil <= now

\* The first n of the given types in the order of priority.
Rank(t) == CHOOSE i \in DOMAIN Priority : Priority[i] = t
FirstOf(types, n) ==
    {t \in types : Cardinality({u \in types : Rank(u) < Rank(t)}) < n}

Spent(j) == j.attempts + 1 > MaxAttempts

Claimed(j, owner, until) ==
    IF Spent(j)
    THEN [j EXCEPT !.status = "dead", !.owner = Nobody, !.leasedUntil = NoTime]
    ELSE [j EXCEPT !.status = "processing", !.attempts = @ + 1,
                   !.owner = owner, !.leasedUntil = until]

\* The lease names the worker, and a worker is a process.
Holds(j, owner) == j.status = "processing" /\ j.owner = owner

Renewed(j, until) == [j EXCEPT !.leasedUntil = until]

Completed(j, mark) ==
    [j EXCEPT !.status = "completed", !.owner = Nobody, !.leasedUntil = NoTime,
              !.mark = mark]

Blocked(j, now) ==
    [j EXCEPT !.status = "blocked", !.owner = Nobody, !.leasedUntil = NoTime,
              !.blockedAt = now]

Failed(j, now) ==
    [j EXCEPT !.status = IF j.attempts >= MaxAttempts THEN "dead" ELSE "retry",
              !.availableAt = IF j.attempts >= MaxAttempts
                              THEN 0 ELSE now + RetryWait,
              !.owner = Nobody, !.leasedUntil = NoTime]

\* unblock_blocked_jobs
CanUnblock(j, now) == j.status = "blocked" /\ j.blockedAt <= now - UnblockGrace

\* requeue_event_job, which leaves alone what is absent, running, blocked or
\* dead.
CanRequeue(j) == j.status \in Open \cup {"completed"}
Requeued(j) == IF CanRequeue(j) THEN Reopened(j) ELSE j

\* retry_dead_letter and retry_dead_letters
CanRetryDead(j) == j.status = "dead"

-----------------------------------------------------------------------------
(***************************************************************************)
(* What is missing and what is repaired.  rows[t] tells whether the event  *)
(* has the rows that jobs of type t derive ("stale" are there too), kept[t]*)
(* is the copy of the count in the event's metadata.                       *)
(***************************************************************************)
Derives == {"embed_event", "embed_chunks", "extract_entities",
            "link_associations"}

Expected(t, j, kept) ==
    IF j.status # "absent" /\ j.mark # "none" THEN j.mark
    ELSE IF kept # "none" THEN kept
    \* Older rows have no count: a finished embedding left a vector.
    ELSE IF t \in {"embed_event", "embed_chunks"} /\ j.status = "completed"
         THEN "some" ELSE "zero"

\* _missing_derivation_job_types_tx
Missing(jobs, rows, kept) ==
    {t \in Types \cap Derives :
        rows[t] = "none" /\ Expected(t, jobs[t], kept[t]) = "some"}

\* _requeue_event_jobs_tx: a row that is gone is written again.
CanRepair(j) == j.status = "absent" \/ CanRequeue(j)
Repaired(jobs, types) ==
    [t \in Types |->
       IF t \notin types THEN jobs[t]
       ELSE IF jobs[t].status = "absent" THEN NewJob
       ELSE Requeued(jobs[t])]

\* prune_finished_jobs: the rows go, their counts stay with the event.
CanPrune(j) == j.status \in {"completed", "dead"}

\* Faulty variant: the counts go with the rows.
KeptForgotten(jobs, kept) == kept

Kept(jobs, kept) ==
    [t \in Types |-> IF CanPrune(jobs[t]) /\ jobs[t].mark # "none"
                     THEN jobs[t].mark ELSE kept[t]]
Pruned(jobs) == [t \in Types |-> IF CanPrune(jobs[t]) THEN NoJob ELSE jobs[t]]

\* refresh_event_index_status, the half that reads.
IndexOf(jobs) ==
    LET left == {t \in Types : jobs[t].status # "absent"}
        any(s, among) == \E t \in left \cap among : jobs[t].status = s
    IN  IF \A t \in left : jobs[t].status = "completed" THEN "ready"
        ELSE IF any("dead", Types) THEN "degraded"
        ELSE IF any("blocked", {"embed_event", "embed_chunks"}) THEN "fts_only"
        ELSE IF any("blocked", Types) THEN "enrichment_blocked"
        ELSE "pending"
=============================================================================
