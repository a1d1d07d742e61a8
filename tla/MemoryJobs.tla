----------------------------- MODULE MemoryJobs -----------------------------
(***************************************************************************)
(* One remembered event and the jobs that enrich it                        *)
(* (src/bilibot/memory_brain/worker.py over store.py).  Two loops of one   *)
(* process take jobs: the worker's own, and the drain that the nightly     *)
(* consolidation and the shutdown run beside it; both claim under the same *)
(* worker id.  The operator deletes the event, rebuilds the index or       *)
(* reopens dead jobs, rows are lost, models come and go, and the process   *)
(* dies, while a job waits for its model.                                  *)
(***************************************************************************)
EXTENDS MemoryStore

CONSTANTS
    Concurrency,    \* worker_concurrency
    LeaseTime,      \* lease_seconds
    MaxNow,         \* the clock stops here (bound)
    MaxDrains,      \* batches the drain takes (bound)
    MaxTroubles     \* crashes, operator's calls, changes of the models (bound)

Loops == {"worker", "drain"}

VARIABLES
    now, process, alive, troubles, drains,
    models,         \* the kinds of model that are configured
    resting,        \* types held back: throttled, or their circuit is open
    index,          \* the event's index_status; "gone" once deleted
    jobs, rows, kept,
    derived,        \* history: types whose last completion left rows
    task            \* [Loops -> [Types -> where its coroutine is]]

durable == <<index, jobs, rows, kept, derived>>
vars == <<now, process, alive, troubles, drains, models, resting, durable, task>>

(***************************************************************************)
(* A coroutine: where it stands, whether what it read of the event is      *)
(* still what the event says, and which jobs it has yet to reopen.         *)
(***************************************************************************)
NoTask == [at |-> "none", fresh |-> TRUE, todo |-> {}, note |-> "none"]

Model(t) == IF t \in {"embed_event", "embed_chunks"} THEN "embedding" ELSE "chat"
Available == {t \in Types : Model(t) \in models}

Downstream(t) ==
    CASE t = "summarize_event" -> {"embed_event", "link_associations"}
      [] t = "extract_entities" -> {"link_associations"}
      [] OTHER -> {}

Init ==
    /\ now = 0 /\ process = 0 /\ alive = TRUE /\ troubles = 0 /\ drains = 0
    /\ models = {"chat", "embedding"} /\ resting = {}
    /\ index = "pending"
    /\ jobs = NewJobs
    /\ rows = [t \in Types |-> "none"]
    /\ kept = [t \in Types |-> "none"]
    /\ derived = {}
    /\ task = [l \in Loops |-> [t \in Types |-> NoTask]]

-----------------------------------------------------------------------------
(***************************************************************************)
(* run_once                                                                *)
(***************************************************************************)
Idle(l) == \A t \in Types : task[l][t].at = "none"
Live == index # "gone"
Claims == {t \in Types \ resting : Live /\ Claimable(jobs[t], now)}
World == <<now, process, alive, troubles, drains, models>>

Trouble ==
    /\ alive /\ troubles < MaxTroubles /\ troubles' = troubles + 1
    /\ UNCHANGED drains

Unblock ==
    /\ alive /\ Live
    /\ \E t \in Available : CanUnblock(jobs[t], now)
    /\ jobs' = [t \in Types |->
                  IF t \in Available /\ CanUnblock(jobs[t], now)
                  THEN Reopened(jobs[t]) ELSE jobs[t]]
    /\ UNCHANGED <<World, resting, index, rows, kept, derived, task>>

Claim(l) ==
    LET batch == FirstOf(Claims, Concurrency)
    IN  /\ alive /\ Idle(l) /\ batch # {}
        /\ jobs' = [t \in Types |->
                      IF t \in batch
                      THEN Claimed(jobs[t], process, now + LeaseTime)
                      ELSE jobs[t]]
        /\ task' = [task EXCEPT ![l] =
                      [t \in Types |->
                         IF t \in batch /\ ~Spent(jobs[t])
                         THEN [NoTask EXCEPT !.at = "reading"] ELSE NoTask]]
        \* run_until_idle claims beside the loop that always runs
        /\ \/ l = "worker" /\ UNCHANGED drains
           \/ l = "drain" /\ drains < MaxDrains /\ drains' = drains + 1
        /\ UNCHANGED <<now, process, alive, troubles, models, resting, index, rows, kept,
                       derived>>

-----------------------------------------------------------------------------
(***************************************************************************)
(* _process_claimed_job, from one await to the next                        *)
(***************************************************************************)
At(l, t, place) == alive /\ task[l][t].at = place
Goes(l, t, place) == task' = [task EXCEPT ![l][t].at = place]
Mine(t) == Live /\ Holds(jobs[t], process)
Store == <<index, jobs, rows, kept, derived>>

\* get_event_index_input; there is no event to read once it was deleted.
Read(l, t) ==
    /\ At(l, t, "reading")
    /\ Goes(l, t, IF Live THEN "renewing" ELSE "failing")
    /\ UNCHANGED <<World, resting, Store>>

\* _renew_or_lose before the model is asked, and after it answered.
Renew(l, t, place, next) ==
    /\ At(l, t, place)
    /\ IF Mine(t)
       THEN /\ jobs' = [jobs EXCEPT ![t] = Renewed(@, now + LeaseTime)]
            /\ Goes(l, t, next)
       ELSE Goes(l, t, "failing") /\ UNCHANGED jobs
    /\ UNCHANGED <<World, resting, index, rows, kept, derived>>

\* The vectors of the chunks are written without a second look at the lease,
\* and a model that links fails over to the shared entities.
Answer(l, t) ==
    /\ At(l, t, "asking")
    /\ \/ Model(t) \in models \/ t = "link_associations"
    /\ Goes(l, t, IF t = "embed_chunks" THEN "writing" ELSE "checking")
    /\ UNCHANGED <<World, resting, Store>>

NoAnswer(l, t) ==
    /\ At(l, t, "asking") /\ t # "link_associations"
    /\ Goes(l, t, "failing")
    /\ UNCHANGED <<World, resting, Store>>

NotConfigured(l, t) ==
    /\ At(l, t, "asking") /\ t # "link_associations" /\ Model(t) \notin models
    /\ Goes(l, t, "blocking")
    /\ UNCHANGED <<World, resting, Store>>

\* update_event_summary changes the text that embed_event embeds; what is
\* embedded, or was read to be embedded, is of the old one.
Summarized(l, t) ==
    /\ rows' = [u \in Types |->
                  IF u = t THEN "current"
                  ELSE IF u = "embed_event" /\ rows[u] = "current" THEN "stale"
                  ELSE rows[u]]
    /\ task' = [k \in Loops |-> [u \in Types |->
                  IF k = l /\ u = t
                  THEN [task[k][u] EXCEPT !.at = "reopening",
                                          !.todo = Downstream(t) \cap Types,
                                          !.note = "some"]
                  ELSE IF u = "embed_event" /\ task[k][u].at \notin {"none", "reading"}
                  THEN [task[k][u] EXCEPT !.fresh = FALSE]
                  ELSE task[k][u]]]

\* upsert_embedding, upsert_entities, upsert_links.  Entities and links may
\* be none.
Derived(l, t) ==
    \E left \in IF Model(t) = "embedding" THEN {"some"} ELSE {"zero", "some"} :
        /\ rows' = [rows EXCEPT ![t] =
                      IF left = "zero" THEN @
                      ELSE IF task[l][t].fresh THEN "current" ELSE "stale"]
        /\ task' = [task EXCEPT ![l][t] =
                      [@ EXCEPT !.at = "reopening", !.note = left,
                                !.todo = Downstream(t) \cap Types]]

Write(l, t) ==
    /\ At(l, t, "writing") /\ Live
    /\ IF t = "summarize_event" THEN Summarized(l, t) ELSE Derived(l, t)
    /\ UNCHANGED <<World, resting, index, jobs, kept, derived>>

\* Faulty variant: the target's row is not looked up in the transaction.
WriteNothingUnchecked(l, t) ==
    /\ At(l, t, "writing") /\ ~Live
    /\ Derived(l, t)
    /\ UNCHANGED <<World, resting, index, jobs, kept, derived>>

\* The transaction finds no event and raises.
WriteNothing(l, t) ==
    /\ At(l, t, "writing") /\ ~Live
    /\ Goes(l, t, "failing")
    /\ UNCHANGED <<World, resting, Store>>

Reopen(l, t) ==
    /\ At(l, t, "reopening")
    /\ IF task[l][t].todo = {}
       THEN Goes(l, t, "completing") /\ UNCHANGED jobs
       ELSE LET u == CHOOSE v \in task[l][t].todo : TRUE
            IN  /\ jobs' = [jobs EXCEPT ![u] = Requeued(@)]
                /\ task' = [task EXCEPT ![l][t].todo = @ \ {u}]
    /\ UNCHANGED <<World, resting, index, rows, kept, derived>>

Complete(l, t) ==
    /\ At(l, t, "completing")
    /\ IF Mine(t)
       THEN /\ jobs' = [jobs EXCEPT ![t] = Completed(@, task[l][t].note)]
            /\ derived' = IF task[l][t].note = "some"
                          THEN derived \cup {t} ELSE derived \ {t}
       ELSE UNCHANGED <<jobs, derived>>
    /\ Goes(l, t, "refreshing")
    /\ UNCHANGED <<World, resting, index, rows, kept>>

Block(l, t) ==
    /\ At(l, t, "blocking")
    /\ jobs' = IF Mine(t) THEN [jobs EXCEPT ![t] = Blocked(@, now)] ELSE jobs
    /\ Goes(l, t, "refreshing")
    /\ UNCHANGED <<World, resting, index, rows, kept, derived>>

Fail(l, t) ==
    /\ At(l, t, "failing")
    /\ jobs' = IF Mine(t) THEN [jobs EXCEPT ![t] = Failed(@, now)] ELSE jobs
    /\ Goes(l, t, "refreshing")
    /\ UNCHANGED <<World, resting, index, rows, kept, derived>>

\* refresh_event_index_status reads in one transaction and writes in another.
Refresh(l, t) ==
    /\ At(l, t, "refreshing")
    /\ task' = [task EXCEPT ![l][t] =
                  [NoTask EXCEPT !.at = "stamping", !.note = IndexOf(jobs)]]
    /\ UNCHANGED <<World, resting, Store>>

Stamp(l, t) ==
    /\ At(l, t, "stamping")
    /\ index' = IF Live THEN task[l][t].note ELSE index
    /\ task' = [task EXCEPT ![l][t] = NoTask]
    /\ UNCHANGED <<World, resting, jobs, rows, kept, derived>>

-----------------------------------------------------------------------------
(***************************************************************************)
(* The operator, the models, the losses and the crashes                    *)
(***************************************************************************)
\* hard_delete_event: every row of the event goes with it.
HardDelete ==
    /\ Trouble /\ Live
    /\ index' = "gone"
    /\ jobs' = [t \in Types |-> NoJob]
    /\ rows' = [t \in Types |-> "none"]
    /\ kept' = [t \in Types |-> "none"]
    /\ derived' = {}
    /\ UNCHANGED <<now, process, alive, models, resting, task>>

\* reindex_all reopens every job, the running ones included.
ReindexAll(clear) ==
    /\ Trouble /\ Live
    /\ index' = "pending"
    /\ jobs' = [t \in Types |-> Reopened(jobs[t])]
    /\ rows' = IF clear THEN [t \in Types |-> IF t \in Derives THEN "none"
                                                             ELSE rows[t]]
                        ELSE rows
    /\ UNCHANGED <<now, process, alive, models, resting, kept, derived, task>>

\* POST /memory/reindex of one event: what may be reopened is.
ReindexEvent ==
    /\ Trouble /\ Live
    /\ jobs' = [t \in Types |-> Requeued(jobs[t])]
    /\ index' = IF \E t \in Types : CanRequeue(jobs[t]) THEN "pending" ELSE index
    /\ UNCHANGED <<now, process, alive, models, resting, rows, kept, derived, task>>

RetryDead ==
    /\ Trouble /\ Live
    /\ \E t \in Types : CanRetryDead(jobs[t])
    /\ jobs' = [t \in Types |-> IF CanRetryDead(jobs[t])
                                THEN Reopened(jobs[t]) ELSE jobs[t]]
    /\ UNCHANGED <<now, process, alive, models, resting, index, rows, kept,
                   derived, task>>

\* The providers are bound anew, and the model of one kind may be none.
Rebind ==
    /\ Trouble
    /\ models' \in SUBSET {"chat", "embedding"} \ {models}
    /\ UNCHANGED <<now, process, alive, resting, durable, task>>

\* The chat jobs give way to a video that is being looked at, or failed
\* three times in a row and their circuit opens.
Throttle ==
    /\ Trouble
    /\ resting' = Types \ {"embed_event", "embed_chunks"}
    /\ UNCHANGED <<now, process, alive, models, durable, task>>

Rest ==
    /\ resting # {} /\ resting' = {}
    /\ UNCHANGED <<World, durable, task>>

\* Something outside the program removes derived rows, between two batches.
LoseRows(t) ==
    /\ Live /\ t \in Derives /\ rows[t] # "none" /\ \A l \in Loops : Idle(l)
    /\ rows' = [rows EXCEPT ![t] = "none"]
    /\ UNCHANGED <<World, resting, index, jobs, kept, derived, task>>

\* The same observation is archived again, or a scan runs, and finds rows
\* missing of an event that is ready.
Repairs ==
    IF index = "ready"
    THEN {t \in Missing(jobs, rows, kept) : CanRepair(jobs[t])} ELSE {}

Repair ==
    /\ alive /\ Repairs # {}
    /\ jobs' = Repaired(jobs, Repairs)
    /\ index' = "pending"
    /\ UNCHANGED <<World, resting, rows, kept, derived, task>>

Tick ==
    /\ now < MaxNow /\ now' = now + 1
    /\ UNCHANGED <<process, alive, troubles, drains, models, resting, durable, task>>

Crash ==
    /\ Trouble
    /\ alive' = FALSE /\ resting' = {}
    /\ task' = [l \in Loops |-> [t \in Types |-> NoTask]]
    /\ UNCHANGED <<now, process, models, durable>>

\* A new process has a new worker id; finished jobs are pruned before its
\* worker starts.
Boot ==
    /\ ~alive /\ alive' = TRUE /\ process' = process + 1
    /\ kept' = Kept(jobs, kept)
    /\ jobs' = Pruned(jobs)
    /\ UNCHANGED <<now, troubles, drains, models, resting, index, rows, derived, task>>

Steps(l, t) ==
    \/ Read(l, t) \/ Renew(l, t, "renewing", "asking")
    \/ NotConfigured(l, t) \/ NoAnswer(l, t) \/ Answer(l, t)
    \/ Renew(l, t, "checking", "writing")
    \/ Write(l, t) \/ WriteNothing(l, t)
    \/ Reopen(l, t) \/ Complete(l, t) \/ Block(l, t) \/ Fail(l, t)
    \/ Refresh(l, t) \/ Stamp(l, t)

Loop(l) == Claim(l) \/ \E t \in Types : Steps(l, t)

Next ==
    \/ Unblock \/ \E l \in Loops : Loop(l)
    \/ HardDelete \/ \E clear \in BOOLEAN : ReindexAll(clear)
    \/ ReindexEvent \/ RetryDead \/ Rebind \/ Throttle \/ Rest
    \/ \E t \in Types : LoseRows(t)
    \/ Repair \/ Tick \/ Crash \/ Boot

Spec == Init /\ [][Next]_vars

-----------------------------------------------------------------------------
(***************************************************************************)
(* A deleted event leaves nothing: a job that was waiting for its model    *)
(* when the operator deleted the event writes no row and reopens no job    *)
(* when it goes on (store.py:2328, 3244, 3276, 3425, 4536).                *)
(***************************************************************************)
DeletedLeavesNothing ==
    ~Live => \A t \in Types : rows[t] = "none" /\ jobs[t].status = "absent"

(***************************************************************************)
(* Rows that a finished job left and that were lost can be told to be      *)
(* missing, also after the job's own row was pruned (store.py:2905, 3748). *)
(***************************************************************************)
LossIsSeen ==
    \A t \in Types \cap derived \cap Derives :
        rows[t] = "none" /\ jobs[t].status \in {"absent", "completed"}
        => t \in Missing(jobs, rows, kept)

=============================================================================
