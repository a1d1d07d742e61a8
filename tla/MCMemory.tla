------------------------------ MODULE MCMemory ------------------------------
(***************************************************************************)
(* The memory brain's three parts, the jobs of an event, the cache of the  *)
(* vectors, and the archive with its reflections; and the backups of what  *)
(* is on the disk.  They share no variable of these models, so a behaviour *)
(* runs one of them, chosen at the start.                                  *)
(***************************************************************************)
EXTENDS Integers, FiniteSets

CONSTANTS
    Types, MaxAttempts, RetryWait, UnblockGrace, Concurrency, LeaseTime,
    MaxNow, MaxDrains, MaxTroubles,
    Events, Searches, CacheLimit, ScanLimit,
    Notes, Nights, MaxLinks, MaxCrashes,
    Files, Dbs, Brain, Creators, DiskTroubles

VARIABLES
    part,
    now, process, alive, troubles, drains, models, resting, index, jobs, rows,
    kept, derived, task,
    stored, cache, counted, writer, erased, search,
    events, tombs, links, night, tried, crashes,
    live, wal, dir, stage, creator, restore, moved, running, outcome, diskTroubles

Jobs == INSTANCE MemoryJobs
Vectors == INSTANCE VectorCache
Archive == INSTANCE MemoryArchive
Disk == INSTANCE Backup WITH MaxTroubles <- DiskTroubles, troubles <- diskTroubles

ASSUME MemoryAssumption ==
    /\ {MaxAttempts, Concurrency, LeaseTime, CacheLimit, ScanLimit}
          \subseteq Nat \ {0}
    /\ {RetryWait, UnblockGrace, MaxNow, MaxDrains, MaxTroubles, MaxLinks,
         MaxCrashes, DiskTroubles} \subseteq Nat
    /\ Notes \cap Nights = {}
    /\ Disk!BackupAssumption

jobVars == <<now, process, alive, troubles, drains, models, resting, index, jobs,
             rows, kept, derived, task>>
vectorVars == <<stored, cache, counted, writer, erased, search>>
archiveVars == <<events, tombs, links, night, tried, crashes>>
diskVars == <<live, wal, dir, stage, creator, restore, moved, running, outcome,
              diskTroubles>>
vars == <<part, jobVars, vectorVars, archiveVars, diskVars>>

\* What the initial states of the other parts leave open is fixed.
Init ==
    /\ part \in {"jobs", "vectors", "archive", "disk"}
    /\ Jobs!Init /\ Vectors!Init /\ Archive!Init /\ Disk!Init
    /\ part # "disk" => ~running /\ \A f \in Files : dir["kept"][f] = "new"

InJobs == part = "jobs" /\ UNCHANGED <<part, vectorVars, archiveVars, diskVars>>
InVectors == part = "vectors" /\ UNCHANGED <<part, jobVars, archiveVars, diskVars>>
InArchive == part = "archive" /\ UNCHANGED <<part, jobVars, vectorVars, diskVars>>
InDisk == part = "disk" /\ UNCHANGED <<part, jobVars, vectorVars, archiveVars>>

Next ==
    \/ InJobs /\ Jobs!Next
    \/ InVectors /\ Vectors!Next
    \/ InArchive /\ Archive!Next
    \/ InDisk /\ Disk!Next

Spec == Init /\ [][Next]_vars

\* What the run checks, stated and explained in the modules themselves.
LossIsSeen == Jobs!LossIsSeen
DeletionTakesConclusions == Archive!DeletionTakesConclusions

\* Deleted memories leave neither derived rows nor vectors that are served.
DeletedIsGone == Jobs!DeletedLeavesNothing /\ Vectors!DeletedNotServed

\* A restore is whole, and what it replaced is still somewhere.
RestoreIsSafe == Disk!RestoreIsWhole /\ Disk!NothingIsLost
=============================================================================
