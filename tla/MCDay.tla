-------------------------------- MODULE MCDay --------------------------------
(***************************************************************************)
(* How the account spends its day: the videos it watches, the series it    *)
(* follows, and the companion's plans and diaries.  They meet only in the  *)
(* memory brain, which each model has in its own terms, so a behaviour     *)
(* follows one of them, chosen at the start.                               *)
(***************************************************************************)
EXTENDS VideoWatch, TLC

CONSTANTS
    Texts, Wanted, Calls, MaxDays, MaxAsks, Target,
    Runners, Episodes, Acts, Says, SeriesTroubles

VARIABLES
    part,
    clock, scheduled, plan, waiting, kept, book, written, tried, resting, docs, acts, open,
    lost, drafts, workers, asks,
    runner, lock, onDisk, seen, completed, event, checked, backingOff, accepted

Life == INSTANCE Companion WITH cooling <- resting
Series == INSTANCE Bangumi WITH
    Texts <- Says, MaxTroubles <- SeriesTroubles, media <- onDisk,
    cooling <- backingOff, taken <- accepted

ASSUME DayAssumption ==
    /\ SeriesTroubles \in Nat
    /\ Series!None \notin Runners \cup Says
    /\ Life!CompanionAssumption
    /\ Acts \subseteq {"like", "comment", "follow"}

watchVars == <<alive, status, attempts, saved, queue, mention, run, test, made,
               file, apart, timers, left, stray, watched, done, cooling, log, spent, taken,
               vague, unrecorded>>
lifeVars == <<clock, scheduled, plan, waiting, kept, book, written, tried, resting, docs,
              acts, open, lost, drafts, workers, asks>>
seriesVars == <<runner, lock, onDisk, seen, completed, event, checked, backingOff,
                accepted>>
allVars == <<part, troubles, paused, watchVars, lifeVars, seriesVars>>

DayInit ==
    /\ part \in {"watch", "life", "series"}
    /\ Init /\ Life!Init /\ Series!Init
    /\ scheduled \/ part = "life"

InWatch == part = "watch" /\ UNCHANGED <<part, lifeVars, seriesVars>>
InLife == part = "life" /\ UNCHANGED <<part, watchVars, seriesVars>>
InSeries == part = "series" /\ UNCHANGED <<part, paused, watchVars, lifeVars>>

DayNext ==
    \/ InWatch /\ Next
    \/ InLife /\ Life!Next
    \/ InSeries /\ Series!Next

DaySpec == DayInit /\ [][DayNext]_allVars

\* What the run checks beside the properties of VideoWatch, stated and
\* explained in the modules themselves.

KeptIsArchived == Life!KeptIsArchived
OpenIsKnown == Life!OpenIsKnown

\* An act on an episode is done once, and "failed" means it was not.
ActedOnce == Series!ActedOnce /\ Series!FailureIsReal

CONSTANTS t1, t2
TaskSymmetry == Permutations(Tasks)
=============================================================================
