------------------------------- MODULE MCTurns -------------------------------
(***************************************************************************)
(* What is taken and must be given back: the semaphore and the threads of  *)
(* the analysis of videos, the slots and gates of the models' keys, and    *)
(* the energy that rest gives back.  The three share nothing, so a         *)
(* behaviour follows one of them, chosen at the start.                     *)
(***************************************************************************)
EXTENDS KeyPool

CONSTANTS
    FirstCap,       \* max_concurrent_global when the process starts (bound)
    Watches, Tests, Frames, Caps, MaxReloads,
    VideoSlots, DefaultEnergy, DreamCost, MaxSpent

VARIABLES
    part,
    open, caps, pools, at, sem, pool, thread, track, heard, seen,
    dir, timer, path, excused,
    slot, energy, activity, light, session, since, dry, watched, spent

Video == INSTANCE VideoAnalysis
Rhythm == INSTANCE LifeRhythm

ASSUME TurnsAssumption ==
    /\ FirstCap \in Caps /\ Caps \subseteq Nat \ {0}
    /\ Watches \cap Tests = {}
    /\ {Frames, MaxReloads} \subseteq Nat
    /\ PoolAssumption /\ Rhythm!RhythmAssumption

analysisVars == <<open, caps, pools, at, sem, pool, thread, track, heard, seen,
                  dir, timer, path, excused>>
poolVars == <<now, edits, keys, current, made, gates, slots, request, split>>
rhythmVars == <<slot, energy, activity, light, session, since, dry, watched, spent>>
allVars == <<part, analysisVars, poolVars, rhythmVars>>

TurnsInit ==
    /\ part \in {"analysis", "pool", "rhythm"}
    /\ Video!Init /\ Init /\ Rhythm!Init
    /\ caps = <<FirstCap>>
    /\ part # "pool" => keys = Keys

InAnalysis == part = "analysis" /\ UNCHANGED <<part, poolVars, rhythmVars>>
InPool == part = "pool" /\ UNCHANGED <<part, analysisVars, rhythmVars>>
InRhythm == part = "rhythm" /\ UNCHANGED <<part, analysisVars, poolVars>>

TurnsNext ==
    \/ InAnalysis /\ Video!Next
    \/ InPool /\ Next
    \/ InRhythm /\ Rhythm!Next

\* The event loop goes on and its timeouts fire, though a thread may hang for
\* ever; the lock of a pool is never held across an await, a gate serves in
\* order, and every call of a client has a timeout; time passes.  It is enough
\* that somebody gets on, whoever it is.
TurnsSpec ==
    /\ TurnsInit /\ [][TurnsNext]_allVars
    /\ WF_allVars(InAnalysis /\ \E a \in Video!Analyses : Video!Coroutine(a))
    /\ WF_allVars(InPool /\ \E r \in Requests : Pick(r) \/ NoKey(r) \/ Answered(r))
    /\ SF_allVars(InPool /\ \E r \in Requests : Enter(r))
    /\ WF_allVars(InRhythm /\ Rhythm!HalfHour)

\* What the run checks beside the properties of KeyPool, stated and explained
\* in the modules themselves.

\* What an analysis hands over is complete, and still on the disk.
EvidenceIsWhole == Video!EvidenceStays /\ Video!WholeIsWhole

\* And what it worked with is removed from the disk.
DirectoryGoes == Video!DirectoryGoes

\* Whoever waits for the semaphore gets it and gives it back; every request to
\* a model ends; and rest opens the gate again that holds videos and posts back
\* (service.py 1440-1449): each in the behaviours that are its own.
Waits ==
    \/ part = "analysis" /\ Video!InTurn # {}
    \/ part = "pool" /\ UnderWay # {}
    \/ part = "rhythm" /\ Rhythm!Gated
EveryTurnComes == Waits ~> ~Waits
=============================================================================
