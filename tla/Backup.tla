-------------------------------- MODULE Backup --------------------------------
(***************************************************************************)
(* Backups of the data directory and their restore (src/bilibot/api/       *)
(* backup.py).  A backup is written beside the others under a hidden name  *)
(* and renamed.  A restore stages and validates the files of a backup,     *)
(* refuses while the memory brain has a writer, makes a snapshot of what   *)
(* is there, and replaces file by file; what fails half way is rolled      *)
(* back.  Nothing holds two creations, or a creation and a restore, apart. *)
(***************************************************************************)
EXTENDS Integers, FiniteSets

CONSTANTS
    Files,        \* 1 .. n, in the order they are replaced
    Dbs,          \* those with a write-ahead log beside them
    Brain,        \* the memory brain's database
    Creators,     \* requests for a backup of one name
    MaxTroubles   \* file operations that fail, crashes, starts and stops (bound)

\* Assumed by the modules that instantiate this one.
BackupAssumption ==
    /\ Cardinality(Files) \in Nat \ {0} /\ Files = 1..Cardinality(Files)
    /\ Brain \in Dbs /\ Dbs \subseteq Files

VARIABLES
    live,       \* [Files -> which version is at its place]
    wal,        \* [Dbs -> whose log is beside it]
    dir,        \* [Names -> [Files -> version]]; Absent without the directory
    stage,      \* the hidden directory of the name "made"
    creator,    \* [Creators -> where it is, and the files it has to copy]
    restore,    \* where the restore is: its step and file, and what it staged
    moved,      \* .restore_rollback: originals and logs
    running,    \* the account has a memory brain open
    outcome,    \* history: how the last restore ended
    troubles

vars == <<live, wal, dir, stage, creator, restore, moved, running, outcome, troubles>>

None == "none"
Names == {"kept", "made", "snapshot"}
Absent == [f \in Files |-> "absent"]
Empty == [f \in Files |-> None]
Here(d) == d # Absent
Nowhere == [files |-> Empty, logs |-> [f \in Dbs |-> None], failed |-> FALSE]
Waiting == [at |-> "idle", f |-> 0, staged |-> {}]
First == 1
Last == CHOOSE f \in Files : \A g \in Files : g <= f

Trouble == troubles < MaxTroubles /\ troubles' = troubles + 1
Calm == UNCHANGED troubles

Init ==
    /\ live = [f \in Files |-> "old"] /\ wal = [f \in Dbs |-> "old"]
    /\ \E some \in SUBSET Files \ {{}} :
         dir = [n \in Names |-> IF n = "kept"
                                THEN [f \in Files |-> IF f \in some THEN "new" ELSE None]
                                ELSE Absent]
    /\ stage = Absent
    /\ creator = [c \in Creators |-> [at |-> "idle", todo |-> {}]]
    /\ restore = Waiting /\ moved = Nowhere
    /\ running \in BOOLEAN
    /\ outcome = None /\ troubles = 0

-----------------------------------------------------------------------------
(* create_backup: _do_create runs in a thread of its own.                  *)

BeginCreate(c) ==
    /\ creator[c].at = "idle" /\ ~Here(dir["made"])
    /\ creator' = [creator EXCEPT ![c].at = "clearing"]
    /\ UNCHANGED <<live, wal, dir, stage, restore, moved, running, outcome, troubles>>

\* A stage of that name is taken for what a crash left.
Clear(c) ==
    /\ creator[c].at = "clearing"
    /\ stage' = Empty
    /\ creator' = [creator EXCEPT ![c] = [at |-> "copying",
                                          todo |-> {f \in Files : live[f] # None}]]
    /\ UNCHANGED <<live, wal, dir, restore, moved, running, outcome, troubles>>

\* _write_backup makes the directories it misses; a database is copied with
\* its log.
Written(d, f) == [(IF Here(d) THEN d ELSE Empty) EXCEPT ![f] = live[f]]

Copy(c) ==
    /\ creator[c].at = "copying" /\ creator[c].todo # {}
    /\ LET f == CHOOSE f \in creator[c].todo : \A g \in creator[c].todo : f <= g IN
       \/ /\ live[f] # None /\ Calm
          /\ stage' = Written(stage, f)
          /\ creator' = [creator EXCEPT ![c].todo = @ \ {f}]
       \/ /\ \/ live[f] = None /\ Calm
             \/ Trouble
          /\ stage' = Absent
          /\ creator' = [creator EXCEPT ![c] = [at |-> "idle", todo |-> {}]]
    /\ UNCHANGED <<live, wal, dir, restore, moved, running, outcome>>

\* The rename; a target that has appeared meanwhile, or a stage that has
\* gone, is an error, and the stage is removed.
Rename(c) ==
    /\ creator[c].at = "copying" /\ creator[c].todo = {}
    /\ dir' = IF ~Here(dir["made"]) THEN [dir EXCEPT !["made"] = stage] ELSE dir
    /\ stage' = Absent
    /\ creator' = [creator EXCEPT ![c] = [at |-> "idle", todo |-> {}]]
    /\ UNCHANGED <<live, wal, restore, moved, running, outcome, troubles>>

-----------------------------------------------------------------------------
(* restore_backup, one at a time under its lock.                           *)

At(place) == restore.at = place
Go(place, f) == restore' = [restore EXCEPT !.at = place, !.f = f]
Refused == Go("idle", 0) /\ outcome' = "refused"

\* _collect_restore_entries, _stage_restore_entries, and the validation of a
\* staged brain: nothing live is touched.  (One snapshot is ever made.)
Stage ==
    /\ At("idle") /\ Here(dir["kept"]) /\ ~Here(dir["snapshot"])
    /\ \/ /\ restore' = [at |-> "owner", f |-> First,
                         staged |-> {f \in Files : dir["kept"][f] # None}]
          /\ Calm /\ outcome' = None
       \/ Trouble /\ Refused
    /\ UNCHANGED <<live, wal, dir, stage, creator, moved, running>>

\* _active_memory_writers
Ask ==
    /\ At("owner")
    /\ IF Brain \in restore.staged /\ running THEN Refused
       ELSE Go("snapshot", First) /\ UNCHANGED outcome
    /\ UNCHANGED <<live, wal, dir, stage, creator, moved, running, troubles>>

\* SAFETY_BACKUP_FAILED
Unsaved == Refused

\* _write_backup into the snapshot's own, visible directory.
Snapshot ==
    /\ At("snapshot")
    /\ \/ /\ dir' = [dir EXCEPT !["snapshot"] = Written(@, restore.f)] /\ Calm
          /\ IF restore.f = Last THEN Go("moving", First)
                                 ELSE Go("snapshot", restore.f + 1)
          /\ UNCHANGED outcome
       \/ /\ Trouble /\ Unsaved
          /\ dir' = [dir EXCEPT !["snapshot"] = IF Here(@) THEN @ ELSE Empty]
    /\ UNCHANGED <<live, wal, stage, creator, moved, running>>

\* _replace_staged_entries: the original goes aside, then its log, then the
\* staged file takes its place.
Raise == Trouble /\ Go("undoing", restore.f)

MoveOriginal ==
    /\ At("moving")
    /\ IF restore.f \notin restore.staged
       THEN /\ Calm /\ UNCHANGED <<live, moved>>
            /\ IF restore.f = Last THEN Go("done", Last) ELSE Go("moving", restore.f + 1)
       ELSE \/ /\ moved' = [moved EXCEPT !.files[restore.f] = live[restore.f]]
               /\ live' = [live EXCEPT ![restore.f] = None]
               /\ Go(IF restore.f \in Dbs THEN "log" ELSE "install", restore.f) /\ Calm
            \/ Raise /\ UNCHANGED <<live, moved>>
    /\ UNCHANGED <<wal, dir, stage, creator, running, outcome>>

MoveLog ==
    /\ At("log")
    /\ \/ /\ moved' = [moved EXCEPT !.logs[restore.f] = wal[restore.f]]
          /\ wal' = [wal EXCEPT ![restore.f] = None]
          /\ Go("install", restore.f) /\ Calm
       \/ Raise /\ UNCHANGED <<wal, moved>>
    /\ UNCHANGED <<live, dir, stage, creator, running, outcome>>

Install ==
    /\ At("install")
    /\ \/ /\ live' = [live EXCEPT ![restore.f] = "new"] /\ Calm
          /\ IF restore.f = Last THEN Go("done", Last) ELSE Go("moving", restore.f + 1)
       \/ Raise /\ UNCHANGED live
    /\ UNCHANGED <<wal, dir, stage, creator, moved, running, outcome>>

\* Faulty variant: the rollback leaves out the file at which it failed.
Touched_Installed(f) == f \in restore.staged /\ f < restore.f

\* What the rollback looks at.
Touched(f) == f \in restore.staged /\ f <= restore.f

\* Backwards over the touched files: the original is put over what is there.
Undo ==
    /\ At("undoing")
    /\ LET f == restore.f IN
       /\ IF moved.files[f] # None /\ Touched(f)
          THEN \/ /\ live' = [live EXCEPT ![f] = moved.files[f]] /\ Calm
                  /\ moved' = [moved EXCEPT !.files[f] = None]
               \/ /\ Trouble /\ moved' = [moved EXCEPT !.failed = TRUE]
                  /\ UNCHANGED live
          ELSE Calm /\ UNCHANGED <<live, moved>>
       /\ IF f = First THEN Go("logs", First) ELSE Go("undoing", f - 1)
    /\ UNCHANGED <<wal, dir, stage, creator, running, outcome>>

\* The logs that were moved, each to its database.
LogsBack == [f \in Dbs |-> IF moved.logs[f] # None THEN moved.logs[f] ELSE wal[f]]

UndoLogs ==
    /\ At("logs")
    /\ \/ /\ wal' = LogsBack /\ Calm
          /\ moved' = [moved EXCEPT !.logs = [f \in Dbs |-> None]]
       \/ /\ moved' = [moved EXCEPT !.failed = TRUE] /\ UNCHANGED wal
          /\ \E f \in Dbs : moved.logs[f] # None
          /\ Trouble
    /\ Go("undone", First)
    /\ UNCHANGED <<live, dir, stage, creator, running, outcome>>

\* The material of the rollback is kept only when it is needed.
Finish ==
    /\ At("done") \/ At("undone")
    /\ Go("idle", 0)
    /\ moved' = IF moved.failed THEN moved ELSE Nowhere
    /\ outcome' = IF moved.failed THEN "broken" ELSE restore.at
    /\ UNCHANGED <<live, wal, dir, stage, creator, running, troubles>>

-----------------------------------------------------------------------------
(* The rest of the process.                                                *)

DeleteBackup(n) ==
    /\ Here(dir[n])
    /\ Trouble
    /\ n \in {"kept", "made"}
    /\ dir' = [dir EXCEPT ![n] = Absent]
    /\ UNCHANGED <<live, wal, stage, creator, restore, moved, running, outcome>>

\* The operator starts or stops the account.
Toggle ==
    /\ Trouble /\ running' = ~running
    /\ UNCHANGED <<live, wal, dir, stage, creator, restore, moved, outcome>>

\* The rollback's directory stays where it is; nothing reads it at the start.
Crash ==
    /\ Trouble
    /\ creator' = [c \in Creators |-> [at |-> "idle", todo |-> {}]]
    /\ restore' = IF At("idle") THEN restore ELSE Waiting
    /\ outcome' = IF At("idle") THEN outcome ELSE "crashed"
    /\ running' = TRUE
    /\ UNCHANGED <<live, wal, dir, stage, moved>>

Restoring ==
    \/ Stage \/ Ask \/ Snapshot \/ MoveOriginal \/ MoveLog \/ Install
    \/ Undo \/ UndoLogs \/ Finish

Next ==
    \/ Restoring \/ Toggle \/ Crash
    \/ \E c \in Creators : BeginCreate(c) \/ Clear(c) \/ Copy(c) \/ Rename(c)
    \/ \E n \in Names : DeleteBackup(n)

Spec == Init /\ [][Next]_vars

-----------------------------------------------------------------------------
(* Properties                                                              *)

\* A restore that ended in this process, other than with an incomplete
\* rollback, replaced all the files of its backup or none: "per-file atomic
\* replacement and full rollback" (backup.py 430), whichever file operation
\* failed; and no database has the log of another version beside it.
RestoreIsWhole ==
    /\ outcome = "done" =>
         /\ \A f \in Files : live[f] = IF f \in restore.staged THEN "new" ELSE "old"
         /\ \A f \in Dbs : live[f] = "new" => wal[f] = None
    /\ outcome \in {"undone", "refused"} =>
         /\ \A f \in Files : live[f] = "old"
         /\ \A f \in Dbs : wal[f] = "old"

\* What was live before a restore is still somewhere: in its place, aside
\* for the rollback, or in the snapshot, also after a crash or an operation
\* of the rollback that failed (backup.py 785-835).
NothingIsLost ==
    \A f \in Files : "old" \in {live[f], moved.files[f], dir["snapshot"][f]}

=============================================================================
