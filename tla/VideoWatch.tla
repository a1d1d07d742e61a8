----------------------------- MODULE VideoWatch -----------------------------
(***************************************************************************)
(* Watching videos (src/bilibot/scheduler_proactive_video.py): a task      *)
(* chooses a candidate, downloads and understands it, archives what it     *)
(* saw, judges it, and likes or pays for it through the InteractionPolicy. *)
(* A mention makes the reply watch its video first                         *)
(* (scheduler_watch_video.py), and the panel can test one                  *)
(* (api/video_analysis.py).  Tasks and replies take one lock; the test     *)
(* takes none.  The rows of the tasks are reduced to their statuses;       *)
(* TaskRun has them in full, and ProactiveComment the comment.             *)
(***************************************************************************)
EXTENDS Integers, Sequences, FiniteSets, Functions

CONSTANTS
    Tasks, Videos,
    Named,          \* the videos a mention or a test can be about
    Actions,        \* like, coin, favorite
    MaxPerVideo, MaxPerDay,
    MaxAttempts,    \* max_attempts of a task
    MaxCandidates,  \* videos tried in one run
    MaxDownloads,   \* files ever written (bound)
    MaxTroubles     \* crashes, broken archives and removals that fail (bound)

VARIABLES
    alive, troubles, paused,
    status, attempts,
    saved,          \* [Tasks -> the bvid in the task's input]
    queue,          \* who waits for the lock
    mention,        \* the video a reply wants to watch
    run,            \* who holds the lock, and where it is
    test,           \* the video under test, and the download of it
    made, file,     \* [Paths -> which download is there, 0 for none]
    apart,          \* downloads moved into the directory of their analysis
    timers,         \* delayed removals: <<path, the download they saw>>
    left,           \* history: downloads whose timers died with the process
    stray,          \* history: downloads that no caller finds, or could remove
    watched,        \* [Videos -> the digests archived of it]
    done, cooling,  \* experience archived; in the companion's cooldown
    log,            \* interaction_log: [Actions -> [Videos -> places taken]]
    spent,          \* and its successes of the day
    taken,          \* history: what the platform accepted
    vague,          \* history: accepted, recorded as result_unknown
    unrecorded      \* history: accepted, and never recorded

tasks == <<status, attempts, saved>>
media == <<made, file, apart, timers, left, stray>>
memory == <<watched, done, cooling>>
policy == <<log, spent, taken, vague, unrecorded>>
vars == <<alive, troubles, paused, tasks, queue, mention, run, test, media,
          memory, policy>>

None == "none"
Reply == "reply"

ASSUME WatchAssumption ==
    /\ {MaxPerVideo, MaxPerDay, MaxAttempts, MaxCandidates, MaxDownloads,
        MaxTroubles} \subseteq Nat
    /\ IsFiniteSet(Videos) /\ Named \subseteq Videos
    /\ None \notin Videos
    /\ {None, Reply} \cap Tasks = {}

Paths == Videos \X {"watch", "test"}
Results == {"success", "result_unknown", "failed"}
Free == [who |-> None, at |-> "free", v |-> None, rest |-> <<>>, got |-> 0,
         basis |-> None, plan |-> {}, act |-> None, result |-> None, took |-> FALSE]
NoTest == [v |-> None, got |-> 0]
Here == <<run.v, "watch">>
OnDisk == apart \cup ({file[x] : x \in Paths} \ {0})
\* _has_completed_proactive_video: the experience counts, not the watch.
Fresh == Videos \ (done \cup cooling)
\* event_is_full_video_watch, by any of the three watchers.
Whole(v) == watched[v] # {}
\* _build_video_detail_digest without require_llm
AnyDigest == {"model", "rough"}
Count == [a \in Actions |-> [v \in Videos |-> 0]]

Init ==
    /\ alive = TRUE /\ troubles = 0 /\ paused = FALSE
    /\ status = [t \in Tasks |-> "claimed"]
    /\ attempts = [t \in Tasks |-> 0]
    /\ saved = [t \in Tasks |-> None]
    /\ queue = {} /\ mention = None /\ run = Free /\ test = NoTest
    /\ made = 0 /\ file = [x \in Paths |-> 0] /\ apart = {}
    /\ timers = {} /\ left = {} /\ stray = {}
    /\ watched = [v \in Videos |-> {}] /\ done = {} /\ cooling = {}
    /\ log = Count /\ spent = [a \in Actions |-> 0]
    /\ taken = Count /\ vague = [a \in Actions |-> 0] /\ unrecorded = Count

Trouble == troubles < MaxTroubles /\ troubles' = troubles + 1
Smooth == UNCHANGED <<troubles, paused>>
\* An archive whose exception is swallowed.
Archived == Smooth \/ (Trouble /\ paused' = TRUE)
At(place) == alive /\ run.at = place
Mine(place) == At(place) /\ run.who \in Tasks

\* _fail_task and _succeed_task, and the lock is given back.
Failed(t, retryable) ==
    /\ attempts' = [attempts EXCEPT ![t] = @ + 1]
    /\ status' = [status EXCEPT ![t] = IF retryable /\ attempts[t] + 1 < MaxAttempts
                                       THEN "retry_wait" ELSE "failed"]
Leave(retryable) == Failed(run.who, retryable) /\ run' = Free /\ UNCHANGED saved

\* An archive that cannot be written pauses the account, and the exception
\* ends the run.
Broken == Trouble /\ paused' = TRUE /\ Leave(TRUE)

\* The next candidate; without one the task fails, to be tried again.
Advance ==
    IF run.rest = <<>> THEN Leave(TRUE)
    ELSE /\ run' = [Free EXCEPT !.who = run.who, !.at = "probing",
                                !.v = Head(run.rest), !.rest = Tail(run.rest)]
         /\ saved' = [saved EXCEPT ![run.who] = Head(run.rest)]
         /\ UNCHANGED <<status, attempts>>

\* _archive_proactive_video_failure: the failure is archived and the video
\* rests for a while.
Skip ==
    \/ Advance /\ Smooth /\ cooling' = cooling \cup {run.v}
    \/ Broken /\ UNCHANGED cooling

-----------------------------------------------------------------------------
(* Choosing and looking.                                                   *)

\* _do_proactive_video
Start(t) ==
    /\ alive /\ status[t] = "claimed"
    /\ IF paused THEN Failed(t, TRUE) /\ UNCHANGED queue
                 ELSE /\ status' = [status EXCEPT ![t] = "running"]
                      /\ queue' = queue \cup {t}
                      /\ UNCHANGED attempts
    /\ UNCHANGED <<alive, troubles, paused, saved, mention, run, test, media,
                   memory, policy>>

\* watch_video_for_reply looks into the archive before it waits for the lock.
Mention(v) ==
    /\ alive /\ mention = None /\ ~Whole(v)
    /\ mention' = v /\ queue' = queue \cup {Reply}
    /\ UNCHANGED <<alive, troubles, paused, tasks, run, test, media, memory, policy>>

\* The reply waits 90 seconds for a run that takes minutes.
GiveUp ==
    /\ alive /\ Reply \in queue /\ run # Free
    /\ queue' = queue \ {Reply} /\ mention' = None
    /\ UNCHANGED <<alive, troubles, paused, tasks, run, test, media, memory, policy>>

Enter(p) ==
    /\ alive /\ p \in queue /\ run = Free
    /\ queue' = queue \ {p}
    /\ run' = IF p = Reply
              THEN [Free EXCEPT !.who = p, !.at = "downloading", !.v = mention]
              ELSE [Free EXCEPT !.who = p, !.at = "choosing"]
    /\ UNCHANGED <<alive, troubles, paused, tasks, mention, test, media, memory,
                   policy>>

\* The feed of this time, without what is done or resting; an interrupted
\* video comes first, in the feed or not.
Candidates(t, feed) ==
    LET fresh  == feed \cap Fresh
        again  == {saved[t]} \cap Fresh
        many   == Cardinality(fresh \cup again)
    IN  {SubSeq(s, 1, IF many < MaxCandidates THEN many ELSE MaxCandidates) : s \in
          {s \in Bijection(1 .. many, fresh \cup again) :
             again # {} => s[1] \in again}}

Choose ==
    /\ Mine("choosing")
    /\ \E feed \in SUBSET Videos : \E c \in Candidates(run.who, feed) :
         \/ /\ feed # {} /\ c # <<>>
            /\ run' = [run EXCEPT !.at = "probing", !.v = Head(c), !.rest = Tail(c)]
            /\ saved' = [saved EXCEPT ![run.who] = Head(c)]
            /\ Smooth /\ UNCHANGED <<status, attempts>>
         \/ feed # {} /\ c = <<>> /\ Leave(FALSE) /\ Archived
         \/ feed = {} /\ Leave(FALSE) /\ Smooth
         \/ feed = {} /\ Broken
    /\ UNCHANGED <<alive, queue, mention, test, media, memory, policy>>

\* No oid, no details, no service, too long: the next one.
NotUsable ==
    /\ Mine("probing")
    /\ Skip
    /\ UNCHANGED <<alive, queue, mention, test, media, watched, done, policy>>

\* A web search whose archive is broken pauses the account and goes on.
SearchNotArchived ==
    /\ Mine("probing")
    /\ ~paused /\ Trouble /\ paused' = TRUE
    /\ UNCHANGED <<alive, tasks, queue, mention, run, test, media, memory, policy>>

\* A digest of an earlier watch is used again, whoever wrote it.
Reuse ==
    /\ Mine("probing")
    /\ \E d \in watched[run.v] :
         \/ /\ run' = [run EXCEPT !.at = "judging", !.basis = d]
            /\ Smooth /\ UNCHANGED tasks
         \/ Broken
    /\ UNCHANGED <<alive, queue, mention, test, media, memory, policy>>

Fetch ==
    /\ Mine("probing") /\ ~Whole(run.v)
    /\ run' = [run EXCEPT !.at = "downloading"]
    /\ UNCHANGED <<alive, troubles, paused, tasks, queue, mention, test, media,
                   memory, policy>>

-----------------------------------------------------------------------------
(* The file: written, moved, understood, removed at once or later.         *)

Written(x) ==
    /\ made < MaxDownloads /\ made' = made + 1
    /\ file' = [file EXCEPT ![x] = made + 1]
    /\ UNCHANGED <<apart, timers, left, stray>>

\* preprocess_video takes the download from its path into the directory of
\* this analysis.
Moved(x) ==
    /\ file' = [file EXCEPT ![x] = 0] /\ apart' = apart \cup {file[x]}
    /\ UNCHANGED <<made, timers, left, stray>>

\* What cannot be removed is logged and not tried again.
Stuck(n) == Trouble /\ stray' = stray \cup {n} /\ UNCHANGED <<file, apart>>

\* cleanup_now
Removed(x, n) ==
    /\ \/ /\ file' = IF file[x] = n THEN [file EXCEPT ![x] = 0] ELSE file
          /\ apart' = apart \ {n} /\ UNCHANGED <<troubles, stray>>
       \/ Stuck(n)
    /\ UNCHANGED <<made, timers, left>>

\* Faulty variant: an exception on the way out skips the removal.
NoRetain(x, n) == UNCHANGED media
\* schedule_cleanup remembers which download it saw, at its path or in the
\* directory the caller was told.
Retain(x, n) ==
    timers' = timers \cup {<<x, n>>} /\ UNCHANGED <<made, file, apart, left, stray>>

\* The exception of understand() names the directory, and the caller does not
\* take it: the timer is set on a path where nothing is any more.
Astray(n) ==
    /\ n \in apart /\ stray' = stray \cup {n}
    /\ UNCHANGED <<made, file, apart, timers, left>>

Download ==
    /\ At("downloading")
    /\ Written(Here)
    /\ run' = [run EXCEPT !.at = "understanding", !.got = made + 1]
    /\ UNCHANGED <<alive, troubles, paused, tasks, queue, mention, test, memory,
                   policy>>

\* download_video answers nothing and has removed its streams.
NoDownload ==
    /\ At("downloading")
    /\ IF run.who = Reply
       THEN /\ run' = Free /\ mention' = None
            /\ Smooth /\ UNCHANGED <<tasks, cooling>>
       ELSE Skip /\ UNCHANGED mention
    /\ UNCHANGED <<alive, queue, test, media, watched, done, policy>>

Prepare ==
    /\ At("understanding") /\ run.got \notin apart
    /\ Moved(Here)
    /\ UNCHANGED <<alive, troubles, paused, tasks, queue, mention, run, test, memory,
                   policy>>

\* The whole of it was extracted and digested; only the model's digest will
\* do here.  The archive is the commit.
Understand ==
    /\ Mine("understanding") /\ run.got \in apart
    /\ Removed(Here, run.got)
    /\ watched' = [watched EXCEPT ![run.v] = @ \cup {"model"}]
    /\ run' = [run EXCEPT !.at = "judging", !.got = 0, !.basis = "model"]
    /\ UNCHANGED <<alive, paused, tasks, queue, mention, test, done, cooling, policy>>

\* A reply cannot take another video: it takes a clipped log for a digest.
ReplyUnderstands ==
    /\ At("understanding") /\ run.who = Reply /\ run.got \in apart
    /\ Removed(Here, run.got)
    /\ \E d \in AnyDigest :
         watched' = [watched EXCEPT ![run.v] = @ \cup {d}]
    /\ run' = Free /\ mention' = None
    /\ UNCHANGED <<alive, paused, tasks, queue, test, done, cooling, policy>>

\* Degraded, without a log or a digest, refused by the archive, or the
\* archive is broken: the file is kept for half an hour.  A mention awaits
\* understand() outside of the try that would take the directory.
NotUnderstood ==
    /\ At("understanding")
    /\ Retain(Here, run.got) \/ (run.who = Reply /\ Astray(run.got))
    /\ IF run.who = Reply
       THEN /\ run' = Free /\ mention' = None
            /\ Archived
            /\ UNCHANGED <<tasks, cooling>>
       ELSE Skip /\ UNCHANGED mention
    /\ UNCHANGED <<alive, queue, test, watched, done, policy>>

\* Faulty variant: the timer deletes whatever is at the path now.
Blind(x, seen) == TRUE
\* cleanup_paths_if_unchanged
Unchanged(x, seen) == file[x] = seen

TimerFires(x, seen) ==
    /\ alive /\ <<x, seen>> \in timers
    /\ timers' = timers \ {<<x, seen>>}
    /\ \/ /\ file' = IF Unchanged(x, seen) THEN [file EXCEPT ![x] = 0] ELSE file
          /\ apart' = apart \ {seen} /\ UNCHANGED <<troubles, stray>>
       \/ \* or a thread has written into the directory since
          seen \in OnDisk /\ Stuck(seen)
    /\ UNCHANGED <<alive, paused, tasks, queue, mention, run, test, made, left, memory,
                   policy>>

TestPath(v) == <<v, "test">>
There == TestPath(test.v)

\* POST /api/video-analysis/test
TestStart(v) ==
    /\ alive /\ test = NoTest
    /\ Written(TestPath(v))
    /\ test' = [v |-> v, got |-> made + 1]
    /\ UNCHANGED <<alive, troubles, paused, tasks, queue, mention, run, memory, policy>>

TestPrepares ==
    /\ alive /\ test # NoTest /\ test.got \notin apart
    /\ Moved(There)
    /\ UNCHANGED <<alive, troubles, paused, tasks, queue, mention, run, test, memory,
                   policy>>

\* An exception, or the end of its ten minutes, leaves the test without a
\* result that would name the directory.
TestEnds ==
    /\ alive /\ test # NoTest
    /\ \/ \* understood and archived under a key of its own
          /\ test.got \in apart /\ Removed(There, test.got)
          /\ \E d \in AnyDigest :
               watched' = [watched EXCEPT ![test.v] = @ \cup {d}]
       \/ \* degraded, or nothing was extracted
          Removed(There, test.got) /\ UNCHANGED watched
       \/ /\ Retain(There, test.got) \/ Astray(test.got)
          /\ UNCHANGED <<troubles, watched>>
    /\ test' = NoTest
    /\ UNCHANGED <<alive, paused, tasks, queue, mention, run, done, cooling, policy>>

-----------------------------------------------------------------------------
(* Judging and interacting.                                                *)

\* Faulty variant: a call whose result is unknown takes no place.
CountSuccess(result) == result = "success"
\* _count_for_video
Counts(result) == result \in {"success", "result_unknown"}

\* _decide_action: the day's budget
UnderBudget(a) == spent[a] < MaxPerDay

Approved(a, v) == UnderBudget(a) /\ log[a][v] < MaxPerVideo

\* evaluate: the model's wishes, the score and the pace choose among these.
Plans(v) == SUBSET {a \in Actions : Approved(a, v)}

\* The model judges, and the policy decides on everything at once.
Judge ==
    /\ Mine("judging")
    /\ \E plan \in Plans(run.v) :
         run' = [run EXCEPT !.at = "acting", !.plan = plan]
    /\ Smooth
    /\ UNCHANGED <<alive, tasks, queue, mention, test, media, memory, policy>>

NoJudgement ==
    /\ Mine("judging")
    /\ \/ Leave(TRUE) /\ Smooth /\ cooling' = cooling \cup {run.v}
       \/ Broken /\ UNCHANGED cooling
    /\ UNCHANGED <<alive, queue, mention, test, media, watched, done, policy>>

\* The intent cannot be archived: the account is paused, the call not made.
NoIntent(a) ==
    /\ Mine("acting") /\ a \in run.plan
    /\ Trouble /\ paused' = TRUE
    /\ run' = [run EXCEPT !.plan = @ \ {a}]
    /\ UNCHANGED <<alive, tasks, queue, mention, test, media, memory, policy>>

\* The platform's answer; without one nobody knows whether it accepted.
Outcomes == {o \in Results \X BOOLEAN : /\ (o[1] = "success" => o[2])
                                        /\ (o[1] = "failed" => ~o[2])}

Call(a) ==
    /\ Mine("acting") /\ a \in run.plan
    /\ \E o \in Outcomes :
         /\ run' = [run EXCEPT !.at = "recording", !.plan = @ \ {a}, !.act = a,
                               !.result = o[1], !.took = o[2]]
         /\ taken' = [taken EXCEPT ![a][run.v] = @ + (IF o[2] THEN 1 ELSE 0)]
    /\ UNCHANGED <<alive, troubles, paused, tasks, queue, mention, test, media,
                   memory, log, spent, vague, unrecorded>>

\* record_result, and the archive of the outcome; a refusal may look like
\* risk control.
Record ==
    LET one(b) == IF b THEN 1 ELSE 0
        v == run.v
        a == run.act
    IN  /\ Mine("recording")
        /\ log' = [log EXCEPT ![a][v] = @ + one(Counts(run.result))]
        /\ spent' = [spent EXCEPT ![a] = @ + one(run.result = "success")]
        /\ vague' = [vague EXCEPT ![a] = @ + one(run.result # "success" /\ run.took)]
        /\ \/ /\ run' = [run EXCEPT !.at = "acting", !.act = None, !.result = None,
                                    !.took = FALSE]
              /\ \/ UNCHANGED <<troubles, paused>>
                 \/ run.result = "failed" /\ Trouble /\ paused' = TRUE
              /\ UNCHANGED tasks
           \/ Broken
        /\ UNCHANGED <<alive, queue, mention, test, media, memory, taken, unrecorded>>

\* Nobody writes down what the platform accepted.
Forget == unrecorded' = IF run.took THEN [unrecorded EXCEPT ![run.act][run.v] = @ + 1]
                                    ELSE unrecorded

\* The log cannot be written: the run ends.
NotRecorded ==
    /\ Mine("recording")
    /\ Trouble /\ Leave(TRUE) /\ Forget
    /\ UNCHANGED <<alive, paused, queue, mention, test, media, memory, log, spent,
                   taken, vague>>

\* The experience is archived; that is what makes the video done.
Complete ==
    /\ Mine("acting") /\ run.plan = {}
    /\ \/ /\ done' = done \cup {run.v}
          /\ status' = [status EXCEPT ![run.who] = "succeeded"]
          /\ run' = Free
          /\ Smooth /\ UNCHANGED <<attempts, saved>>
       \/ Broken /\ UNCHANGED done
    /\ UNCHANGED <<alive, queue, mention, test, media, watched, cooling, policy>>

-----------------------------------------------------------------------------
(* The process, the clock and the operator.                                *)

Crash ==
    /\ alive /\ Trouble
    /\ alive' = FALSE
    /\ queue' = {} /\ mention' = None /\ run' = Free /\ test' = NoTest
    /\ timers' = {} /\ left' = OnDisk /\ stray' = {}
    /\ Forget
    /\ UNCHANGED <<paused, tasks, made, file, apart, memory, log, spent, taken, vague>>

\* cleanup_orphaned_video_temp deletes what is old enough, and the running
\* tasks are run again.
Boot ==
    /\ ~alive /\ alive' = TRUE
    /\ \E old \in SUBSET left :
         /\ file' = [x \in Paths |-> IF file[x] \in old THEN 0 ELSE file[x]]
         /\ apart' = apart \ old
    /\ status' = [t \in Tasks |-> IF status[t] = "running" THEN "claimed" ELSE status[t]]
    /\ UNCHANGED <<troubles, paused, attempts, saved, queue, mention, run, test, made,
                   timers, left, stray, memory, policy>>

Retry(t) ==
    /\ alive /\ status[t] = "retry_wait"
    /\ status' = [status EXCEPT ![t] = "claimed"]
    /\ UNCHANGED <<alive, troubles, paused, attempts, saved, queue, mention, run, test,
                   media, memory, policy>>

Rested(v) ==
    /\ alive /\ v \in cooling /\ cooling' = cooling \ {v}
    /\ UNCHANGED <<alive, troubles, paused, tasks, queue, mention, run, test, media,
                   watched, done, policy>>

Resume ==
    /\ alive /\ paused /\ paused' = FALSE
    /\ UNCHANGED <<alive, troubles, tasks, queue, mention, run, test, media, memory,
                   policy>>

Next ==
    \/ \E t \in Tasks : Start(t) \/ Retry(t)
    \/ \E v \in Named : Mention(v) \/ TestStart(v)
    \/ \E v \in Videos : Rested(v)
    \/ \E p \in Tasks \cup {Reply} : Enter(p)
    \/ GiveUp \/ Choose \/ NotUsable \/ SearchNotArchived \/ Reuse \/ Fetch
    \/ Download \/ NoDownload \/ Prepare \/ Understand \/ ReplyUnderstands
    \/ NotUnderstood
    \/ \E x \in timers : TimerFires(x[1], x[2])
    \/ TestPrepares \/ TestEnds
    \/ Judge \/ NoJudgement \/ Record \/ NotRecorded \/ Complete
    \/ \E a \in Actions : NoIntent(a) \/ Call(a)
    \/ Crash \/ Boot \/ Resume

Spec == Init /\ [][Next]_vars

-----------------------------------------------------------------------------
(* Properties.                                                             *)

\* A coin is paid once per video, whatever was retried: what the platform
\* accepted of one action on one video stays within max_per_video, but for
\* what nobody could write down, because the process died between the call
\* and record_result or the log could not be written
\* (scheduler_proactive_video.py:1016-1120, interaction_policy.py:155-175).
OncePerVideo ==
    \A a \in Actions, v \in Videos :
      taken[a][v] <= MaxPerVideo + unrecorded[a][v]

\* How many places a count has given out, over all videos.
Places(count) == UNION {{v} \X (1 .. count[v]) : v \in Videos}
Total(count) == Cardinality(Places(count))

\* The budget of the day holds over all tasks, although every run decides on
\* it before its first call: the lock lets nobody in between.  What the
\* platform accepted without saying so is not counted (interaction_policy.py:
\* 249-275, scheduler.py:1107-1113).
DayBudget ==
    \A a \in Actions :
      Total(taken[a]) <= MaxPerDay + vague[a] + Total(unrecorded[a])

\* The file somebody analyses is the one it downloaded: no timer of an earlier
\* download, no other watcher and no test replaces or deletes it, at its path
\* or in its directory (scheduler_watch_video.py:132-152, cleanup.py:54-75).
FileStays ==
    run.at = "understanding" => run.got \in {file[Here]} \cup apart

InUse(n) == n \in {run.got, test.got}

\* Nothing downloaded is forgotten: it is in use, or a timer waits for it where
\* it is, or the process died and the next start looks at its age; but for
\* what went astray, the video of a mention or a test whose analysis raised
\* (scheduler_watch_video.py:192) and what could not be removed
\* (cleanup.py:36, 89), which only a later start finds
\* (scheduler_proactive_video.py:618-643, cleanup.py:115-160).
FileGoes ==
    /\ \A x \in Paths : file[x] = 0 \/ InUse(file[x]) \/ <<x, file[x]>> \in timers
                         \/ file[x] \in left \cup stray
    /\ \A n \in apart : InUse(n) \/ (\E x \in Paths : <<x, n>> \in timers)
                         \/ n \in left \cup stray

\* A video gets a coin once, and a day no more than its budget.
BudgetsHold == OncePerVideo /\ DayBudget
=============================================================================
