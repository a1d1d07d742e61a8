---------------------------- MODULE VectorCache ----------------------------
(***************************************************************************)
(* The vectors of one embedding model and the cache of them that one       *)
(* MemoryBrainStore keeps in memory (src/bilibot/memory_brain/store.py).   *)
(* Searches run in threads of their own, beside one writer at a time.  The *)
(* cache has a lock: a search holds it for each look but not between two,  *)
(* and a writer commits before it takes it to drop what it changed.        *)
(***************************************************************************)
EXTENDS Integers, FiniteSets, Functions

CONSTANTS
    Events,         \* the events that may have vectors
    Searches,       \* the threads that search
    CacheLimit,     \* vector_cache_limit, in rows over all entries
    ScanLimit       \* vector_full_scan_row_limit

Targets == {"event", "chunk"}

VARIABLES
    stored,     \* [Targets -> the events that have rows], memory_embeddings
    cache,      \* the cached targets, with the rows each entry holds
    counted,    \* _vector_cache_rows
    writer,     \* what the holder of the write lock has yet to drop
    erased,     \* history: events whose deletion has returned
    search      \* [Searches -> where the thread is]

vars == <<stored, cache, counted, writer, erased, search>>

NoWriter == [drops |-> {}, erases |-> {}]
NoSearch ==
    [at |-> "idle", target |-> "event", count |-> 0, since |-> {}, found |-> {}]

Init ==
    /\ stored = [k \in Targets |-> {}]
    /\ cache = <<>> /\ counted = 0
    /\ writer = NoWriter
    /\ erased = {}
    /\ search = [s \in Searches |-> NoSearch]

-----------------------------------------------------------------------------
(***************************************************************************)
(* search_embeddings                                                       *)
(***************************************************************************)
At(s, place) == search[s].at = place
Goes(s, place) == search' = [search EXCEPT ![s].at = place]
Returns(s, rows) ==
    search' = [search EXCEPT ![s].at = "done", ![s].found = rows]
Database == <<stored, writer, erased>>
Cached == <<cache, counted>>

\* The rows are counted before the cache is looked at.
Start(s, k) ==
    /\ At(s, "idle")
    /\ search' = [search EXCEPT ![s] =
                    [at |-> IF stored[k] = {} THEN "done" ELSE "looking",
                     target |-> k, count |-> Cardinality(stored[k]),
                     since |-> erased, found |-> {}]]
    /\ UNCHANGED <<Database, Cached>>

Look(s) ==
    LET k == search[s].target
    IN  /\ At(s, "looking")
        /\ IF k \in DOMAIN cache THEN Returns(s, cache[k])
           ELSE IF search[s].count > ScanLimit THEN Returns(s, {})
           ELSE Goes(s, IF search[s].count <= CacheLimit
                        THEN "building" ELSE "scanning")
        /\ UNCHANGED <<Database, Cached>>

Without(ks) == Restrict(cache, DOMAIN cache \ ks)
Size(ks) == SumFunction([k \in ks \cap DOMAIN cache |-> Cardinality(cache[k])])
AtLeastZero(n) == IF n < 0 THEN 0 ELSE n

(***************************************************************************)
(* _cache_entry_with_global_budget: the other entry goes when the rows do  *)
(* not fit beside it; what is added is counted also when it was there.     *)
(***************************************************************************)
Admit(k, rows) ==
    LET size == Cardinality(rows)
        evicted == IF counted + size > CacheLimit THEN Targets \ {k} ELSE {}
        left == AtLeastZero(counted - Size(evicted))
    IN  /\ size \in 1..CacheLimit /\ left + size <= CacheLimit
        /\ cache' = [j \in (DOMAIN cache \ evicted) \cup {k} |->
                       IF j = k THEN rows ELSE cache[j]]
        /\ counted' = left + size

\* What is evicted for an entry that still does not fit is lost all the same.
Reject(k, rows) ==
    LET size == Cardinality(rows)
        left == AtLeastZero(counted - Size(Targets \ {k}))
    IN  IF size \notin 1..CacheLimit THEN UNCHANGED Cached
        ELSE /\ left + size > CacheLimit
             /\ cache' = Without(Targets \ {k})
             /\ counted' = left

\* A second look under the lock: the entry another search has just built, or
\* one built from what the table holds now.
Build(s) ==
    LET k == search[s].target
        rows == IF k \in DOMAIN cache THEN cache[k] ELSE stored[k]
    IN  /\ At(s, "building")
        /\ \/ Admit(k, rows) /\ Returns(s, rows)
           \/ Reject(k, rows) /\ Goes(s, "scanning")
        /\ UNCHANGED Database

Scan(s) ==
    /\ At(s, "scanning")
    /\ Returns(s, stored[search[s].target])
    /\ UNCHANGED <<Database, Cached>>

Leave(s) ==
    /\ At(s, "done")
    /\ search' = [search EXCEPT ![s] = NoSearch]
    /\ UNCHANGED <<Database, Cached>>

-----------------------------------------------------------------------------
(***************************************************************************)
(* The writers: the rows change at the commit, the cache at the drop that  *)
(* follows it under the same write lock.                                   *)
(***************************************************************************)
Commits(rows, drops, erases) ==
    /\ writer = NoWriter
    /\ stored' = rows
    /\ writer' = [drops |-> drops, erases |-> erases]
    /\ UNCHANGED <<Cached, erased, search>>

\* upsert_embedding; a deleted event has no row to embed.
Upsert(e, k) ==
    /\ e \notin erased \cup stored[k]
    /\ Commits([stored EXCEPT ![k] = @ \cup {e}], {k}, {})

HardDelete(e) ==
    /\ e \notin erased
    /\ Commits([k \in Targets |-> stored[k] \ {e}], Targets, {e})

\* reindex_all with clear_enrichment.
ReindexAll == Commits([k \in Targets |-> {}], Targets, {})

\* _repair_event_derivations_tx removes the vectors of chunks and drops no entry.
RepairChunks(e) ==
    /\ e \in stored["chunk"]
    /\ Commits([stored EXCEPT !["chunk"] = @ \ {e}], {}, {})

\* _invalidate_vector_cache
Drop ==
    /\ writer # NoWriter
    /\ cache' = Without(writer.drops)
    /\ counted' = IF writer.drops = Targets THEN 0
                  ELSE AtLeastZero(counted - Size(writer.drops))
    /\ erased' = erased \cup writer.erases
    /\ writer' = NoWriter
    /\ UNCHANGED <<stored, search>>

Next ==
    \/ \E s \in Searches :
          \/ \E k \in Targets : Start(s, k)
          \/ Look(s) \/ Build(s) \/ Scan(s) \/ Leave(s)
    \/ \E e \in Events : \/ \E k \in Targets : Upsert(e, k)
                         \/ HardDelete(e) \/ RepairChunks(e)
    \/ ReindexAll \/ Drop

Spec == Init /\ [][Next]_vars

-----------------------------------------------------------------------------
(***************************************************************************)
(* A search finds no vector of an event whose deletion had returned before *)
(* the search began, whatever was cached, counted or being built then      *)
(* (store.py:4595: commit, then invalidate).                               *)
(***************************************************************************)
DeletedNotServed == \A s \in Searches : search[s].found \cap search[s].since = {}

=============================================================================
