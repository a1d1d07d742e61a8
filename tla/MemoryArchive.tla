---------------------------- MODULE MemoryArchive ----------------------------
(***************************************************************************)
(* What is remembered, what is concluded from it at night and what goes    *)
(* with it when it is deleted (src/bilibot/memory_brain/service.py and     *)
(* store.py).  The nightly consolidation reads, thinks, archives and links *)
(* in separate steps; the operator, the link jobs and the repairs change   *)
(* the memory between any two of them, and the process may die.            *)
(***************************************************************************)
EXTENDS FiniteSets, Integers

CONSTANTS
    Notes,          \* idempotency keys of observations
    Nights,         \* the keys nightly:<day> of the reflections
    MaxLinks,       \* the link jobs add links up to here (bound)
    MaxCrashes      \* crashes (bound)

VARIABLES
    events,     \* the keys that have a row in memory_events
    tombs,      \* deletion_tombstones
    links,      \* memory_links that leave a reflection
    night,      \* consolidate_recent: where it is and what it has read
    tried,      \* the days this process has begun to consolidate
    crashes

vars == <<events, tombs, links, night, tried, crashes>>

NoNight == [at |-> "idle", day |-> "none", basis |-> {}, drawn |-> {}]

Init ==
    /\ events = {} /\ tombs = {} /\ links = {}
    /\ night = NoNight /\ tried = {}
    /\ crashes = 0

-----------------------------------------------------------------------------
Memory == <<events, tombs, links>>
At(place) == night.at = place
Goes(place) == night' = [night EXCEPT !.at = place]
Ends == night' = NoNight

\* archive_observation: what was deleted is refused, what is there is kept.
Observe(k) ==
    /\ k \notin tombs \cup events
    /\ events' = events \cup {k}
    /\ UNCHANGED <<tombs, links, night, tried, crashes>>

(***************************************************************************)
(* consolidate_recent, once a day and process                              *)
(***************************************************************************)
Consolidate(n) ==
    /\ At("idle") /\ n \notin tried
    /\ tried' = tried \cup {n}
    /\ night' = [NoNight EXCEPT !.at = "marking", !.day = n]
    /\ UNCHANGED <<Memory, crashes>>

LookForMarker ==
    /\ At("marking")
    /\ IF night.day \in events THEN Ends ELSE Goes("reading")
    /\ UNCHANGED <<Memory, tried, crashes>>

Read ==
    /\ At("reading")
    /\ IF Cardinality(events \cap Notes) < 2 THEN Ends
       ELSE night' = [night EXCEPT !.at = "thinking", !.basis = events \cap Notes]
    /\ UNCHANGED <<Memory, tried, crashes>>

\* Only what cites the events it was shown is kept of the model's answer.
Think ==
    /\ At("thinking")
    /\ \/ Ends
       \/ \E drawn \in (SUBSET night.basis) \ {{}} :
             night' = [night EXCEPT !.at = "archiving", !.drawn = drawn]
    /\ UNCHANGED <<Memory, tried, crashes>>

Conclude ==
    /\ At("archiving")
    /\ IF night.day \in tombs
       THEN Ends /\ UNCHANGED events
       ELSE Goes("linking") /\ events' = events \cup {night.day}
    /\ UNCHANGED <<tombs, links, tried, crashes>>

\* upsert_links skips the targets that are gone.
LinkEvidence ==
    /\ At("linking")
    /\ links' = IF night.day \in events
                THEN links \cup {[from |-> night.day, to |-> e, cites |-> "event"] :
                                    e \in night.drawn \cap events}
                ELSE links
    /\ Ends
    /\ UNCHANGED <<events, tombs, tried, crashes>>

\* The link job of a reflection, which may find another reflection.
Associate(r, e, cites) ==
    /\ {r, e} \subseteq events /\ r # e /\ Cardinality(links) < MaxLinks
    /\ \A l \in links : ~(l.from = r /\ l.to = e /\ l.cites # "event")
    /\ links' = links \cup {[from |-> r, to |-> e, cites |-> cites]}
    /\ UNCHANGED <<events, tombs, night, tried, crashes>>

-----------------------------------------------------------------------------
(***************************************************************************)
(* hard_delete_event: the reflections that rested on what goes, and have   *)
(* no sound link to an observation left, go in the same transaction, and   *)
(* so on; each leaves a tombstone.                                         *)
(***************************************************************************)
Rests(r, E, L) ==
    \E l \in L : l.from = r /\ l.to \in E \cap Notes /\ l.cites # "lost"

Dependents(gone) == {r \in Nights \cap events :
                        \E l \in links : l.from = r /\ l.to \in gone}

\* Faulty variant: only the reflections of the event itself are looked at.
FallsAtOnce(e) ==
    {e} \cup {r \in Dependents({e}) : ~Rests(r, events \ {e}, links)}

\* The queue of affected reflections runs dry: the least set that is closed.
IsClosed(G, e) ==
    e \in G /\ \A r \in Dependents(G) : Rests(r, events \ {e}, links) \/ r \in G

Falls(e) ==
    LET sets == SUBSET ({e} \cup Nights)
    IN  {x \in {e} \cup Nights : \A G \in sets : IsClosed(G, e) => x \in G}

HardDelete(e) ==
    LET gone == Falls(e)
    IN  /\ e \in events
        /\ events' = events \ gone
        /\ tombs' = tombs \cup gone
        \* the unsound links of the reflections it looked at go as well
        /\ links' = {l \in links :
                       /\ {l.from, l.to} \cap gone = {}
                       /\ ~(l.cites = "lost" /\ l.from \in Dependents(gone)
                            /\ l.to \in Notes)}
        /\ UNCHANGED <<night, tried, crashes>>

\* _repair_event_derivations_tx gives an event new chunks.
Repair(e) ==
    /\ e \in events
    /\ \E l \in links : l.to = e /\ l.cites = "chunk"
    /\ links' = {IF l.to = e /\ l.cites = "chunk"
                 THEN [l EXCEPT !.cites = "lost"] ELSE l : l \in links}
    /\ UNCHANGED <<events, tombs, night, tried, crashes>>

\* reindex_all with clear_enrichment
ReindexAll ==
    /\ links # {} /\ links' = {}
    /\ UNCHANGED <<events, tombs, night, tried, crashes>>

Crash ==
    /\ crashes < MaxCrashes /\ crashes' = crashes + 1
    /\ night' = NoNight /\ tried' = {}
    /\ UNCHANGED Memory

Next ==
    \/ \E k \in Notes : Observe(k)
    \/ \E n \in Nights : Consolidate(n)
    \/ LookForMarker \/ Read \/ Think \/ Conclude \/ LinkEvidence
    \/ \E r \in Nights, e \in Notes \cup Nights, cites \in {"event", "chunk"} :
          Associate(r, e, cites)
    \/ \E e \in Notes \cup Nights : HardDelete(e) \/ Repair(e)
    \/ ReindexAll \/ Crash

Spec == Init /\ [][Next]_vars

-----------------------------------------------------------------------------
(***************************************************************************)
(* A reflection that loses something it was linked to, an event or another *)
(* reflection, rests on a surviving observation or goes with it, in the    *)
(* same step (store.py:4553-4589).                                         *)
(***************************************************************************)
DeletionTakesConclusions ==
    [][\A l \in links :
          /\ l.to \in events \ events' /\ l.from \in events'
          => Rests(l.from, events', links')]_vars

=============================================================================
