--------------------------- MODULE VideoAnalysis ---------------------------
(***************************************************************************)
(* Understanding one video (src/bilibot/video_understanding/service.py):   *)
(* a coroutine waits for the process-wide semaphore, hands the slow work   *)
(* to threads of the service's own pool, gives up after a while without    *)
(* being able to stop them, and leaves a work directory that its caller,   *)
(* or a timer, removes.  The callers are the watchers of the scheduler     *)
(* (VideoWatch, Bangumi) and the panel's test (api/video_analysis.py).     *)
(***************************************************************************)
EXTENDS Integers, Sequences, FiniteSets

CONSTANTS
    Watches, Tests,     \* analyses the scheduler, and the panel, ask for
    Frames,             \* key frames of a video
    Caps,               \* values of max_concurrent_global
    MaxReloads          \* saved configurations (bound)

VARIABLES
    open,       \* ~_shutdown
    caps,       \* the semaphores made so far, the last one the global one
    pools,      \* the executors made so far: their size, and whether open
    at,         \* where understand(), and then its caller, is
    sem, pool,  \* [Analyses -> the semaphore, and the executor, it took]
    thread,     \* [Analyses -> [Jobs -> how far the job is]]
    track,      \* [Analyses -> the sound that was found and cut out]
    heard,      \* [Analyses -> what became of it]
    seen,       \* [Analyses -> frames described, in a result without a flaw]
    dir,        \* analyses whose work directory is on the disk
    timer,      \* [Analyses -> its delayed removals]
    path,       \* analyses whose caller knows the directory
    excused     \* history: directories nobody can be asked to remove, or could

limits == <<caps, pools>>
media == <<dir, timer, path>>
vars == <<open, limits, at, sem, pool, thread, track, heard, seen, media, excused>>

Analyses == Watches \cup Tests
Jobs == {"prep", "frames", "audio"}
Inside == {"preparing", "analysing"}
Idle == [j \in Jobs |-> "none"]
Running(a) == {j \in Jobs : thread[a][j] = "running"}
Busy(p) == {w \in Analyses \X Jobs : pool[w[1]] = p /\ thread[w[1]][w[2]] = "running"}
Holders(s) == {a \in Analyses : sem[a] = s /\ at[a] \in Inside}

Init ==
    /\ open = TRUE
    /\ caps \in {<<c>> : c \in Caps}
    /\ pools = <<>>
    /\ at = [a \in Analyses |-> "idle"]
    /\ sem = [a \in Analyses |-> 0] /\ pool = [a \in Analyses |-> 0]
    /\ thread = [a \in Analyses |-> Idle]
    /\ heard = [a \in Analyses |-> "none"]
    /\ track = [a \in Analyses |-> "none"]
    /\ seen = [a \in Analyses |-> 0]
    /\ dir = {} /\ timer = [a \in Analyses |-> {}] /\ path = {}
    /\ excused = {}

-----------------------------------------------------------------------------
(* The work directory.  A timer of kind "same" removes what is still as it *)
(* was when the timer was set, one of kind "sure" whatever it finds.       *)

\* Faulty variant: only the plain timer, as before delete_if_appears.
Scheduled_Plain(a, kind) ==
    [timer EXCEPT ![a] = @ \cup (IF a \in dir THEN {"same"} ELSE {})]

\* schedule_cleanup: what is not there yet is not a plain timer's to remove.
Scheduled(a, kind) ==
    [timer EXCEPT ![a] = @ \cup (IF kind = "sure" \/ a \in dir THEN {kind} ELSE {})]

\* A thread that writes into the directory, which may have to be made again:
\* a plain timer no longer recognises it.
Writes(a) ==
    /\ dir' = dir \cup {a}
    /\ timer' = [timer EXCEPT ![a] = @ \ {"same"}]
    /\ excused' = IF at[a] = "over" /\ (thread[a]["prep"] = "over" \/ ~open)
                  THEN excused \cup {a} ELSE excused

\* What cannot be removed is logged and not tried again.
Removed(a) ==
    \/ dir' = dir \ {a} /\ UNCHANGED excused
    \/ a \in dir /\ excused' = excused \cup {a} /\ UNCHANGED dir

\* The half hour is longer than a thread goes on writing.
Fire(a, kind) ==
    /\ kind \in timer[a] /\ Running(a) = {}
    /\ timer' = [timer EXCEPT ![a] = @ \ {kind}]
    /\ Removed(a)
    /\ UNCHANGED <<open, limits, at, sem, pool, thread, track, heard, seen, path>>

-----------------------------------------------------------------------------
(* The threads of the executor.                                            *)

\* A new future of a pool.
Submit(a, jobs) == [j \in Jobs |-> IF j \in jobs THEN "queued" ELSE thread[a][j]]
\* Whoever stops waiting cancels a future that has not started, and no other.
Abandon(a) == [j \in Jobs |-> IF thread[a][j] = "queued" THEN "over" ELSE thread[a][j]]

\* A worker takes a job; preparing and cutting frames begin with a makedirs.
Begin(a, j) ==
    /\ thread[a][j] = "queued"
    /\ Cardinality(Busy(pool[a])) < pools[pool[a]].size
    /\ thread' = [thread EXCEPT ![a][j] = "running"]
    /\ IF j = "audio" THEN UNCHANGED <<dir, timer, excused>> ELSE Writes(a)
    /\ UNCHANGED <<open, limits, at, sem, pool, track, heard, seen, path>>

Ends(a, j) ==
    /\ thread[a][j] = "running"
    /\ thread' = [thread EXCEPT ![a][j] = "over"]

\* What comes of the sound: found and cut out, or there is none, or the cutting
\* fails; a disk that is full ends everything with an exception.
Sounds == {"track", "silent", "not_cut", "raised"}

\* preprocess_video after its probes: the video is moved into the directory
\* and its sound is cut out.
Prepare(a) ==
    /\ Ends(a, "prep") /\ Writes(a)
    /\ \E sound \in Sounds : track' = [track EXCEPT ![a] = sound]
    /\ UNCHANGED <<open, limits, at, sem, pool, heard, seen, path>>

\* An extractor that fails is followed by ffmpeg, which makes the directory
\* once more.
FallsBack(a) == Writes(a)

\* _prepare_visual_frames
CutFrames(a) ==
    /\ Ends(a, "frames")
    /\ \/ FallsBack(a)
       \/ a \in dir /\ UNCHANGED <<dir, timer, excused>>
    /\ UNCHANGED <<open, limits, at, sem, pool, track, heard, seen, path>>

\* Without a file to listen to: a sound that was there and is not to be had
\* is an error, and a silent video is not.
NoTrack(a) == IF track[a] = "not_cut" THEN "failed" ELSE "not_present"

\* A long track is first written down as an mp3.
Compressed(a) ==
    \/ a \in dir /\ Writes(a)
    \/ UNCHANGED <<dir, timer, excused>>

\* The service, each of its keys, and the local model: speech, none, or no
\* answer from anybody.
Answers == {"ok", "no_speech", "failed"}

\* _audio_task
Transcribe(a) ==
    /\ Ends(a, "audio")
    /\ \/ /\ track[a] = "track"
          /\ \E answer \in Answers : heard' = [heard EXCEPT ![a] = answer]
          /\ Compressed(a)
       \/ /\ track[a] # "track"
          /\ heard' = [heard EXCEPT ![a] = NoTrack(a)]
          /\ UNCHANGED <<dir, timer, excused>>
    /\ UNCHANGED <<open, limits, at, sem, pool, track, seen, path>>

-----------------------------------------------------------------------------
(* understand().                                                           *)

\* It takes the semaphore of now and waits for that one.
Ask(a) ==
    /\ at[a] = "idle" /\ open
    /\ at' = [at EXCEPT ![a] = "waiting"]
    /\ sem' = [sem EXCEPT ![a] = Len(caps)]
    /\ UNCHANGED <<open, limits, pool, thread, track, heard, seen, media, excused>>

\* _get_executor makes a pool when there is none; each growth gives it one
\* more worker.
Executors ==
    IF pools # <<>> /\ pools[Len(pools)].open THEN pools
    ELSE Append(pools, [size |-> Len(pools) + 2, open |-> TRUE])

Acquire(a) ==
    /\ at[a] = "waiting" /\ Cardinality(Holders(sem[a])) < caps[sem[a]]
    /\ \/ \* check_resource_limits
          /\ at' = [at EXCEPT ![a] = "flawed"]
          /\ UNCHANGED <<pools, pool, thread>>
       \/ /\ pools' = Executors
          /\ pool' = [pool EXCEPT ![a] = Len(Executors)]
          /\ thread' = [thread EXCEPT ![a] = Submit(a, {"prep"})]
          /\ at' = [at EXCEPT ![a] = "preparing"]
    /\ UNCHANGED <<open, caps, sem, track, heard, seen, media, excused>>

\* A disk that fills up while preparing: no error carries the directory.
PrepareFails(a) ==
    /\ at[a] = "preparing" /\ thread[a]["prep"] = "over" /\ track[a] = "raised"
    /\ at' = [at EXCEPT ![a] = "raised"]
    /\ excused' = excused \cup {a}
    /\ UNCHANGED <<open, limits, sem, pool, thread, track, heard, seen, media>>

\* The name of the directory is known though the thread is not done with it,
\* or never began.
PrepareTimesOut(a) ==
    /\ at[a] = "preparing"
    /\ thread' = [thread EXCEPT ![a] = Abandon(a)]
    /\ timer' = Scheduled(a, "sure")
    /\ path' = path \cup {a}
    /\ at' = [at EXCEPT ![a] = "flawed"]
    /\ UNCHANGED <<open, limits, sem, pool, track, heard, seen, dir, excused>>

\* Every exception on the way takes the directory with it.
Carries(a) == path' = path \cup {a}

Raise(a) ==
    /\ thread' = [thread EXCEPT ![a] = Abandon(a)]
    /\ at' = [at EXCEPT ![a] = "raised"]
    /\ Carries(a)

\* The two tracks are handed to the pool taken before, which a reload may have
\* closed to new work.  A probe without a duration ends it here.
Analyse(a) ==
    /\ at[a] = "preparing" /\ thread[a]["prep"] = "over" /\ track[a] # "raised"
    /\ \/ /\ at' = [at EXCEPT ![a] = "flawed"]
          /\ Carries(a) /\ UNCHANGED thread
       \/ /\ pools[pool[a]].open
          /\ thread' = [thread EXCEPT ![a] = Submit(a, {"frames", "audio"})]
          /\ at' = [at EXCEPT ![a] = "analysing"]
          /\ UNCHANGED path
       \/ ~pools[pool[a]].open /\ Raise(a)
    /\ UNCHANGED <<open, limits, sem, pool, track, heard, seen, dir, timer, excused>>

\* _dual_track looks at the sound first.
AudioFails(a) ==
    /\ at[a] = "analysing" /\ thread[a]["audio"] = "over" /\ heard[a] = "failed"
    /\ Raise(a)
    /\ UNCHANGED <<open, limits, sem, pool, track, heard, seen, dir, timer, excused>>

\* At least one frame, and half of them (vision_min_success_ratio).
Needed == IF Frames < 2 THEN 1 ELSE (Frames + 1) \div 2

\* Faulty variant: the removal is scheduled whoever owns the directory.
Kept_Scheduled(a) == timer' = Scheduled(a, "same")

\* Nobody but the caller disposes of a directory it was promised.
Kept(a) == UNCHANGED timer

\* Each frame is described, after its retries, or left out.
Described == 0 .. Frames

\* The tracks are stitched together if enough is described.
Complete(a) ==
    /\ at[a] = "analysing" /\ thread[a]["audio"] = "over" /\ heard[a] # "failed"
    /\ thread[a]["frames"] = "over"
    /\ \E n \in Described :
         \/ /\ n >= Needed
            /\ at' = [at EXCEPT ![a] = "whole"]
            /\ seen' = [seen EXCEPT ![a] = n]
            /\ path' = path \cup {a}
            /\ Kept(a) /\ UNCHANGED thread
         \/ n < Needed /\ Raise(a) /\ UNCHANGED <<seen, timer>>
    /\ UNCHANGED <<open, limits, sem, pool, track, heard, dir, excused>>

\* Faulty variant: the cancelled tracks are waited for, threads included.
TimesOut_Joined(a) == at[a] = "analysing" /\ Running(a) = {}

\* Whatever the threads do, analysis_timeout_seconds gives the semaphore back.
TimesOut(a) == at[a] = "analysing"

AnalysisTimesOut(a) ==
    /\ TimesOut(a)
    /\ thread' = [thread EXCEPT ![a] = Abandon(a)]
    /\ at' = [at EXCEPT ![a] = "flawed"]
    /\ path' = path \cup {a}
    /\ UNCHANGED <<open, limits, sem, pool, track, heard, seen, dir, timer, excused>>

-----------------------------------------------------------------------------
(* The callers.                                                            *)

\* A watch is a task's or an episode's, or a mention asked for it.
Callers(a) == IF a \in Tests THEN {"test"} ELSE {"task", "mention"}

\* Everybody takes the directory from a result.  From an exception only the
\* tasks do: a mention awaits understand() outside of the try that would.
Known(a, caller) == a \in path /\ (at[a] = "raised" => caller = "task")

\* What is archived, found not worth it, or raised over an episode, is removed
\* at once.
RemoveNow(a) ==
    /\ \E caller \in Callers(a) :
         /\ \/ at[a] \in {"whole", "flawed"}
            \/ at[a] = "raised" /\ caller = "task"
         /\ IF Known(a, caller) THEN Removed(a) ELSE UNCHANGED <<dir, excused>>
    /\ at' = [at EXCEPT ![a] = "over"]
    /\ UNCHANGED <<open, limits, sem, pool, thread, track, heard, seen, timer, path>>

\* What failed, or could not be archived, is kept for half an hour.
RemoveLater(a) ==
    /\ at[a] \in {"whole", "flawed", "raised"}
    /\ \E caller \in Callers(a) :
         /\ timer' = IF Known(a, caller) THEN Scheduled(a, "same") ELSE timer
         /\ excused' = IF at[a] = "raised" /\ caller = "mention"
                       THEN excused \cup {a} ELSE excused
    /\ at' = [at EXCEPT ![a] = "over"]
    /\ UNCHANGED <<open, limits, sem, pool, thread, track, heard, seen, dir, path>>

\* The panel's test waits ten minutes for the whole of it, and a cancelled
\* coroutine is no Exception that carries a path.
TestTimesOut(a) ==
    /\ a \in Tests /\ at[a] \in {"waiting"} \cup Inside
    /\ thread' = [thread EXCEPT ![a] = Abandon(a)]
    /\ at' = [at EXCEPT ![a] = "over"]
    /\ UNCHANGED <<open, limits, sem, pool, track, heard, seen, media, excused>>

-----------------------------------------------------------------------------
(* Configuration and stopping.                                             *)

\* A saved configuration: another cap makes another semaphore, and more
\* workers per account close the pool, which finishes what it has.
Reconfigure(c, grow) ==
    /\ open
    /\ c # caps[Len(caps)] => Len(caps) <= MaxReloads
    /\ grow => pools # <<>> /\ Len(pools) <= MaxReloads
    /\ caps' = IF c = caps[Len(caps)] THEN caps ELSE Append(caps, c)
    /\ pools' = IF grow THEN [pools EXCEPT ![Len(pools)].open = FALSE] ELSE pools
    /\ UNCHANGED <<open, at, sem, pool, thread, track, heard, seen, media, excused>>

\* AccountInstance.close: the scheduler's coroutines have been cancelled, the
\* timers are cancelled too, and the pool is waited for with what it still has.
\* The next start looks only for what is older than half an hour.
Stop ==
    /\ open /\ Busy(Len(pools)) = {}
    /\ \A a \in Tests, j \in Jobs : pool[a] = Len(pools) => thread[a][j] # "queued"
    /\ open' = FALSE
    /\ at' = [a \in Analyses |-> IF a \in Watches /\ at[a] # "idle" THEN "over" ELSE at[a]]
    /\ thread' = [a \in Analyses |-> IF a \in Watches THEN Abandon(a) ELSE thread[a]]
    /\ timer' = [a \in Analyses |-> {}]
    /\ pools' = [p \in DOMAIN pools |-> [pools[p] EXCEPT !.open = FALSE]]
    /\ excused' = excused \cup dir
    /\ UNCHANGED <<caps, sem, pool, track, heard, seen, dir, path>>

Thread(a) ==
    \/ \E j \in Jobs : Begin(a, j)
    \/ Prepare(a)
    \/ CutFrames(a)
    \/ Transcribe(a)

Coroutine(a) ==
    \/ Acquire(a)
    \/ PrepareFails(a)
    \/ PrepareTimesOut(a)
    \/ Analyse(a)
    \/ AudioFails(a)
    \/ Complete(a)
    \/ AnalysisTimesOut(a)

Next ==
    \/ \E a \in Analyses : Ask(a) \/ Coroutine(a) \/ Thread(a)
                             \/ RemoveNow(a) \/ RemoveLater(a) \/ TestTimesOut(a)
                             \/ \E kind \in {"same", "sure"} : Fire(a, kind)
    \/ \E c \in Caps, grow \in BOOLEAN : Reconfigure(c, grow)
    \/ Stop

\* The event loop goes on and its timeouts fire; a thread may hang for ever.
Spec == Init /\ [][Next]_vars /\ \A a \in Analyses : WF_vars(Coroutine(a))

-----------------------------------------------------------------------------
(* Properties.                                                             *)

\* Once a watch is over, its work directory is gone or a timer will remove it,
\* unless preparing failed without a name for it, a mention's analysis raised
\* (scheduler_watch_video.py:192), one of the two tracks outlived the watch and
\* wrote again, a removal failed (cleanup.py:36, 89) or the account was stopped:
\* those are left to a later start (service.py:528-549, 887-906 and the finally
\* of scheduler_proactive_video.py:618).
DirectoryGoes ==
    \A a \in Watches \cap dir :
        at[a] = "over" => timer[a] # {} \/ Running(a) # {} \/ a \in excused

\* While a caller has a result and has not let go of it, its evidence is there
\* (service.py:902-906, defer_cleanup).
EvidenceStays == \A a \in Analyses : at[a] = "whole" => a \in dir

\* What goes to the archive as a complete extraction was listened to, unless
\* it was silent, and has a described frame: a sound that could not be cut out
\* does not pass for silence (service.py:624-669, visual_track.py:893-905).
WholeIsWhole ==
    \A a \in Analyses : at[a] = "whole" =>
        /\ seen[a] > 0
        /\ \/ track[a] = "silent"
           \/ track[a] = "track" /\ heard[a] \in {"ok", "no_speech"}

\* Hanging threads cost an analysis its result and never the others their
\* turn: whoever waits for the semaphore gets it and gives it back
\* (service.py:492, 528, 726-742).
InTurn == {a \in Analyses : at[a] \in {"waiting"} \cup Inside}

\* A reload lets what is under way finish (service.py:354-378).
ReloadInterruptsNobody ==
    [][\A a \in Analyses : at[a] = "preparing" /\ at'[a] = "raised" => track[a] = "raised"
                             \/ ~open]_vars

=============================================================================
