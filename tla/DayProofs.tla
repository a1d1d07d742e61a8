------------------------------ MODULE DayProofs ------------------------------
(***************************************************************************)
(* Theorems about the day, for any tasks, videos, episodes, texts and      *)
(* bounds.  Watching: no coin is paid twice, no file vanishes under its    *)
(* reader, and none is left behind.  The companion: what it shows the      *)
(* brain has committed, and every open activity is known.  The series:     *)
(* each act is done once, and what is recorded as failed was not done.     *)
(***************************************************************************)
EXTENDS MCDay, FiniteSetTheorems, SequenceTheorems, TLAPS

Stages == {"free", "choosing", "probing", "downloading", "understanding", "judging",
           "acting", "recording"}
RunType ==
    [who : Tasks \cup {None, Reply}, at : Stages, v : Videos \cup {None},
     rest : Seq(Videos), got : Nat, basis : AnyDigest \cup {None},
     plan : SUBSET Actions, act : Actions \cup {None}, result : Results \cup {None},
     took : BOOLEAN]
TestType == {NoTest} \cup [v : Videos, got : Nat]
CountType == [Actions -> [Videos -> Nat]]

TypeOK ==
    /\ run \in RunType
    /\ mention \in Videos \cup {None} /\ test \in TestType
    /\ made \in Nat /\ file \in [Paths -> Nat] /\ apart \in SUBSET Nat
    /\ timers \in SUBSET (Paths \X Nat)
    /\ watched \in [Videos -> SUBSET AnyDigest]
    /\ log \in CountType /\ taken \in CountType /\ unrecorded \in CountType
    /\ spent \in [Actions -> Nat] /\ vague \in [Actions -> Nat]

\* Somebody has the lock, or the run is free; whoever is past the choice has a
\* video, a reply has its mention, and an answer of the platform is waiting to
\* be recorded.
Sited ==
    /\ run.at # "free" => run.who # None
    /\ run.at \notin {"free", "choosing"} => run.v \in Videos
    /\ Reply \in queue => mention \in Videos
    /\ run.who = Reply => Reply \notin queue /\ mention \in Videos
    /\ run.took => run.at = "recording"

\* A run that has neither a file nor a call open
Bare == {"free", "choosing", "probing", "downloading", "judging"}

-----------------------------------------------------------------------------
(* The run.                                                                *)

LEMMA FreeType == Free \in RunType /\ Free.at = "free" /\ Free.who = None /\ ~Free.took
<1>1. <<>> \in Seq(Videos)
  OBVIOUS
<1> QED BY <1>1 DEF Free, RunType, Stages

\* A record of the run with other fields is one again.
LEMMA RunWith ==
    ASSUME NEW r \in RunType, NEW who \in Tasks \cup {None, Reply}, NEW at \in Stages,
           NEW v \in Videos \cup {None}, NEW rest \in Seq(Videos)
    PROVE  /\ [r EXCEPT !.who = who, !.at = at, !.v = v, !.rest = rest] \in RunType
           /\ [r EXCEPT !.who = who, !.at = at, !.v = v] \in RunType
           /\ [r EXCEPT !.who = who, !.at = at] \in RunType
           /\ [r EXCEPT !.at = at, !.v = v, !.rest = rest] \in RunType
           /\ [r EXCEPT !.at = at] \in RunType
  BY DEF RunType

LEMMA AdvanceType ==
    ASSUME TypeOK, run.who \in Tasks, Advance
    PROVE  /\ run' \in RunType
           /\ \/ run' = Free
              \/ run'.at = "probing" /\ run'.v \in Videos /\ run'.who = run.who /\ ~run'.took
<1>1. CASE run.rest = <<>>
  BY <1>1, FreeType DEF Advance, Leave
<1>2. CASE run.rest # <<>>
  <2> DEFINE h == Head(run.rest)
             t == Tail(run.rest)
  <2>1. run.rest \in Seq(Videos)
    BY DEF TypeOK, RunType
  <2>2. h \in Videos /\ t \in Seq(Videos)
    BY <1>2, <2>1, HeadTailProperties
  <2>3. run' = [Free EXCEPT !.who = run.who, !.at = "probing", !.v = h, !.rest = t]
    BY <1>2 DEF Advance
  <2> HIDE DEF h, t
  <2>4. "probing" \in Stages
    BY DEF Stages
  <2>5. run' \in RunType
    BY <2>2, <2>3, <2>4, FreeType, RunWith
  <2>6. run'.at = "probing" /\ run'.v = h /\ run'.who = run.who /\ run'.took = Free.took
    BY <2>3, FreeType DEF RunType
  <2> QED BY <2>2, <2>5, <2>6, FreeType
<1> QED BY <1>1, <1>2

LEMMA SkipType ==
    ASSUME TypeOK, run.who \in Tasks, Skip
    PROVE  /\ run' \in RunType
           /\ \/ run' = Free
              \/ run'.at = "probing" /\ run'.v \in Videos /\ run'.who = run.who /\ ~run'.took
  BY AdvanceType, FreeType DEF Skip, Broken, Leave

LEMMA CandidateType ==
    ASSUME NEW t \in Tasks, NEW feed \in SUBSET Videos, NEW c \in Candidates(t, feed), c # <<>>
    PROVE  Head(c) \in Videos /\ Tail(c) \in Seq(Videos)
<1> DEFINE among == (feed \cap Fresh) \cup ({saved[t]} \cap Fresh)
           many == Cardinality(among)
           n == IF many < MaxCandidates THEN many ELSE MaxCandidates
<1>1. PICK s \in Bijection(1 .. many, among) : c = SubSeq(s, 1, n)
  BY DEF Candidates
<1>2. among \subseteq Videos
  BY DEF Fresh
<1>3. IsFiniteSet(among)
  BY <1>2, WatchAssumption, FS_Subset
<1>4. many \in Nat /\ MaxCandidates \in Nat /\ n \in Nat /\ n <= many
  BY <1>3, WatchAssumption, FS_CardinalityType
<1>5. s \in [1 .. many -> among]
  BY DEF Bijection, Injection, IsInjective
<1> HIDE DEF among, many, n
<1>6. \A i \in 1 .. n : s[i] \in Videos
  BY <1>2, <1>4, <1>5
<1>7. c \in Seq(Videos)
  BY <1>1, <1>4, <1>6, SubSeqProperties
<1> QED BY <1>7, HeadTailProperties

-----------------------------------------------------------------------------
(* The steps that touch neither a file nor a count.                        *)

Resting ==
    \/ \E t \in Tasks : Start(t) \/ Retry(t)
    \/ \E v \in Named : Mention(v)
    \/ \E v \in Videos : Rested(v)
    \/ \E p \in Tasks \cup {Reply} : Enter(p)
    \/ GiveUp \/ Choose \/ NotUsable \/ SearchNotArchived \/ Reuse \/ Fetch
    \/ NoDownload \/ NoJudgement \/ Complete \/ Resume

Rests ==
    /\ alive /\ UNCHANGED <<alive, test, media, policy>>
    /\ \/ run' = run
       \/ run.at \notin {"understanding", "recording"} /\ run'.at \in Bare

LEMMA RestingRests ==
    ASSUME TypeOK, Sited, Resting
    PROVE  TypeOK' /\ Sited' /\ Rests
<1> USE DEF media, policy, memory, tasks
<1>0. /\ run \in RunType /\ mention \in Videos \cup {None}
      /\ Free \in RunType /\ Free.at = "free" /\ Free.who = None /\ ~Free.took
      /\ Named \subseteq Videos /\ None \notin Videos /\ None \notin Tasks /\ Reply \notin Tasks
      /\ None # Reply
      /\ {"free", "choosing", "probing", "downloading", "judging"} \subseteq Stages
      /\ {"free", "choosing", "probing", "downloading", "judging"} = Bare
      /\ <<>> \in Seq(Videos)
  BY WatchAssumption, FreeType DEF TypeOK, Stages, Bare, None, Reply
<1>1. ASSUME alive, UNCHANGED <<alive, test, media, policy, watched>>, run' \in RunType,
             mention' \in Videos \cup {None}, Sited',
             \/ run' = run
             \/ run.at \notin {"understanding", "recording"} /\ run'.at \in Bare
      PROVE  TypeOK' /\ Sited' /\ Rests
  BY <1>1 DEF TypeOK, Rests
<1>2. ASSUME UNCHANGED <<run, mention>>, Reply \in queue' => Reply \in queue
      PROVE  Sited'
  BY <1>2 DEF Sited
<1>3. ASSUME UNCHANGED <<queue, mention>>, run'.who \in {run.who, None},
             run'.at \notin {"free", "choosing"} => run'.v \in Videos, ~run'.took,
             run'.at # "free" => run'.who # None
      PROVE  Sited'
  BY <1>0, <1>3 DEF Sited
<1>4. ASSUME NEW t \in Tasks, Start(t)
      PROVE  TypeOK' /\ Sited' /\ Rests
  <2>1. UNCHANGED <<run, mention>> /\ (Reply \in queue' => Reply \in queue)
    BY <1>0, <1>4 DEF Start
  <2> QED BY <1>0, <1>1, <1>2, <1>4, <2>1 DEF Start
<1>5. ASSUME NEW t \in Tasks, Retry(t)
      PROVE  TypeOK' /\ Sited' /\ Rests
  BY <1>0, <1>1, <1>2, <1>5 DEF Retry
<1>6. ASSUME NEW v \in Named, Mention(v)
      PROVE  TypeOK' /\ Sited' /\ Rests
  <2>1. mention = None /\ mention' = v /\ v \in Videos /\ run' = run
    BY <1>0, <1>6 DEF Mention
  <2>2. Sited'
    BY <1>0, <2>1 DEF Sited
  <2> QED BY <1>0, <1>1, <1>6, <2>1, <2>2 DEF Mention
<1>7. ASSUME NEW v \in Videos, Rested(v)
      PROVE  TypeOK' /\ Sited' /\ Rests
  BY <1>0, <1>1, <1>2, <1>7 DEF Rested
<1>8. ASSUME NEW p \in Tasks \cup {Reply}, Enter(p)
      PROVE  TypeOK' /\ Sited' /\ Rests
  <2>1. /\ run = Free /\ p \in queue /\ queue' = queue \ {p}
        /\ alive /\ UNCHANGED <<alive, mention, test, media, policy, watched>>
    BY <1>8 DEF Enter
  <2>2. CASE p = Reply
    <3>1. run' = [Free EXCEPT !.who = p, !.at = "downloading", !.v = mention]
      BY <1>8, <2>2 DEF Enter
    <3>2. mention \in Videos
      BY <2>1, <2>2 DEF Sited
    <3>3. run' \in RunType
      BY <1>0, <3>1, <3>2, RunWith
    <3>4. /\ run'.who = Reply /\ run'.at = "downloading" /\ run'.v = mention
          /\ run'.took = Free.took
      BY <1>0, <2>2, <3>1 DEF RunType
    <3>5. Sited'
      BY <1>0, <2>1, <2>2, <3>2, <3>4 DEF Sited
    <3> QED BY <1>0, <1>1, <2>1, <3>3, <3>4, <3>5
  <2>3. CASE p # Reply
    <3>1. run' = [Free EXCEPT !.who = p, !.at = "choosing"]
      BY <1>8, <2>3 DEF Enter
    <3>2. run' \in RunType
      BY <1>0, <3>1, RunWith
    <3>3. run'.who = p /\ run'.at = "choosing" /\ run'.took = Free.took
      BY <1>0, <3>1 DEF RunType
    <3>4. Sited'
      BY <1>0, <2>1, <2>3, <3>3 DEF Sited
    <3> QED BY <1>0, <1>1, <2>1, <3>2, <3>3, <3>4
  <2> QED BY <2>2, <2>3
<1>9. CASE GiveUp
  <2>1. /\ Reply \in queue /\ queue' = queue \ {Reply} /\ mention' = None
        /\ alive /\ UNCHANGED <<alive, run, test, media, policy, watched>>
    BY <1>9 DEF GiveUp
  <2>2. Sited'
    BY <2>1 DEF Sited
  <2> QED BY <1>0, <1>1, <2>1, <2>2
\* The run ends, goes on to the next video, or says what it does with this one.
<1>10. ASSUME alive, UNCHANGED <<alive, queue, mention, test, media, policy, watched>>,
              run.at \notin {"understanding", "recording"}, run.who \in Tasks,
              run' \in RunType,
              \/ run' = Free
              \/ run'.at = "probing" /\ run'.v \in Videos /\ run'.who = run.who /\ ~run'.took
       PROVE  TypeOK' /\ Sited' /\ Rests
  BY <1>0, <1>1, <1>3, <1>10
<1>11. CASE Choose
  <2>1. /\ run.at = "choosing" /\ run.who \in Tasks
        /\ alive /\ UNCHANGED <<alive, queue, mention, test, media, policy, watched>>
    BY <1>11 DEF Choose, Mine, At
  <2>2. CASE Leave(FALSE)
    BY <1>0, <1>10, <2>1, <2>2 DEF Leave
  <2>3. CASE Broken
    BY <1>0, <1>10, <2>1, <2>3 DEF Broken, Leave
  <2>4. ASSUME NEW feed \in SUBSET Videos, NEW c \in Candidates(run.who, feed), c # <<>>,
               run' = [run EXCEPT !.at = "probing", !.v = Head(c), !.rest = Tail(c)]
        PROVE  TypeOK' /\ Sited' /\ Rests
    <3> DEFINE h == Head(c)
               t == Tail(c)
    <3>1. h \in Videos /\ t \in Seq(Videos)
      BY <2>1, <2>4, CandidateType
    <3>2. run' = [run EXCEPT !.at = "probing", !.v = h, !.rest = t]
      BY <2>4
    <3> HIDE DEF h, t
    <3>3. run' \in RunType
      BY <1>0, <3>1, <3>2, RunWith
    <3>4. /\ run'.at = "probing" /\ run'.v = h /\ run'.who = run.who
          /\ run'.took = run.took
      BY <1>0, <3>2 DEF RunType
    <3>5. ~run.took
      BY <2>1 DEF Sited
    <3> QED BY <1>10, <2>1, <3>1, <3>3, <3>4, <3>5
  <2> QED BY <1>11, <2>2, <2>3, <2>4 DEF Choose
<1>12. CASE NotUsable
  BY <1>10, <1>12, SkipType DEF NotUsable, Mine, At
\* It stays with its video.
<1>13. ASSUME NEW place \in Bare, NEW b \in AnyDigest \cup {None}, alive,
              UNCHANGED <<alive, queue, mention, test, media, policy, watched>>,
              run.at = "probing", run.who \in Tasks,
              run' = [run EXCEPT !.at = place, !.basis = b]
       PROVE  TypeOK' /\ Sited' /\ Rests
  <2>1. run' \in RunType
    BY <1>0, <1>13 DEF RunType
  <2>2. run'.at = place /\ run'.v = run.v /\ run'.who = run.who /\ run'.took = run.took
    BY <1>0, <1>13 DEF RunType
  <2>3. Sited'
    BY <1>13, <2>2 DEF Sited
  <2> QED BY <1>0, <1>1, <1>13, <2>1, <2>2, <2>3
<1>14. CASE SearchNotArchived
  BY <1>0, <1>1, <1>2, <1>14 DEF SearchNotArchived, Mine, At
<1>15. CASE Reuse
  <2>1. /\ alive /\ UNCHANGED <<alive, queue, mention, test, media, policy, watched>>
        /\ run.at = "probing" /\ run.who \in Tasks
    BY <1>15 DEF Reuse, Mine, At
  <2>2. PICK d \in watched[run.v] :
          \/ run' = [run EXCEPT !.at = "judging", !.basis = d]
          \/ Broken
    BY <1>15 DEF Reuse
  <2>3. d \in AnyDigest
    BY <2>1, <2>2 DEF Sited, TypeOK
  <2>4. CASE Broken
    BY <1>0, <1>10, <2>1, <2>4 DEF Broken, Leave
  <2>5. CASE run' = [run EXCEPT !.at = "judging", !.basis = d]
    BY <1>0, <1>13, <2>1, <2>3, <2>5
  <2> QED BY <2>2, <2>4, <2>5
<1>16. CASE Fetch
  <2>1. /\ alive /\ UNCHANGED <<alive, queue, mention, test, media, policy, watched>>
        /\ run.at = "probing" /\ run.who \in Tasks
        /\ run' = [run EXCEPT !.at = "downloading"]
    BY <1>16 DEF Fetch, Mine, At
  <2>2. run' \in RunType
    BY <1>0, <2>1, RunWith
  <2>3. /\ run'.at = "downloading" /\ run'.v = run.v /\ run'.who = run.who
        /\ run'.took = run.took
    BY <1>0, <2>1 DEF RunType
  <2>4. Sited'
    BY <2>1, <2>3 DEF Sited
  <2> QED BY <1>0, <1>1, <2>1, <2>2, <2>3, <2>4
<1>17. CASE NoDownload
  <2>1. /\ alive /\ UNCHANGED <<alive, queue, test, media, policy, watched>>
        /\ run.at = "downloading" /\ run.who \in Tasks \cup {Reply}
    BY <1>0, <1>17 DEF NoDownload, At, RunType, Sited
  <2>2. CASE run.who = Reply
    <3>1. run' = Free /\ mention' = None /\ Reply \notin queue
      BY <1>17, <2>2 DEF NoDownload, Sited
    <3>2. Sited'
      BY <1>0, <2>1, <3>1 DEF Sited
    <3> QED BY <1>0, <1>1, <2>1, <3>1, <3>2
  <2>3. CASE run.who # Reply
    <3>1. Skip /\ UNCHANGED mention
      BY <1>17, <2>3 DEF NoDownload
    <3> QED BY <1>10, <2>1, <2>3, <3>1, SkipType
  <2> QED BY <2>2, <2>3
<1>18. CASE NoJudgement
  BY <1>0, <1>10, <1>18 DEF NoJudgement, Mine, At, Leave, Broken
<1>19. CASE Complete
  BY <1>0, <1>10, <1>19 DEF Complete, Mine, At, Leave, Broken
<1>20. CASE Resume
  BY <1>0, <1>1, <1>2, <1>20 DEF Resume
<1> QED BY <1>4, <1>5, <1>6, <1>7, <1>8, <1>9, <1>11, <1>12, <1>14, <1>15, <1>16, <1>17,
           <1>18, <1>19, <1>20 DEF Resting

-----------------------------------------------------------------------------
(* The steps that write, keep or remove a file.                            *)

Handling ==
    \/ Download \/ Prepare \/ Understand \/ ReplyUnderstands \/ NotUnderstood
    \/ (\E x \in timers : TimerFires(x[1], x[2]))
    \/ (\E v \in Named : TestStart(v)) \/ TestPrepares \/ TestEnds

\* Whoever is done with download n at x has it removed, now or later, or loses
\* it.
LetsGo(x, n) == Removed(x, n) \/ Retain(x, n) \/ Astray(n)

\* A timer that is not there any more has removed what it found, or could not.
Fired(x, n) ==
    /\ <<x, n>> \in timers /\ timers' = timers \ {<<x, n>>}
    /\ \/ /\ file' = IF file[x] = n THEN [file EXCEPT ![x] = 0] ELSE file
          /\ apart' = apart \ {n} /\ UNCHANGED stray
       \/ stray' = stray \cup {n} /\ UNCHANGED <<file, apart>>

\* What becomes of the run, whatever becomes of the file
LeavesFile == run.at = "understanding" /\ run'.at \in Bare /\ UNCHANGED test

Handles ==
    /\ alive /\ UNCHANGED <<alive, policy>>
    /\ \/ /\ run.at = "downloading" /\ run'.at = "understanding" /\ run'.v = run.v
          /\ run'.got = made + 1 /\ Written(Here) /\ UNCHANGED test
       \/ /\ run.at = "understanding" /\ run.got \notin apart /\ Moved(Here)
          /\ UNCHANGED <<run, test>>
       \/ LeavesFile /\ LetsGo(Here, run.got)
       \/ /\ UNCHANGED <<run, test, made, left>>
          /\ \E x \in Paths, n \in Nat : Fired(x, n)
       \/ /\ test = NoTest /\ UNCHANGED run
          /\ \E v \in Videos : Written(TestPath(v)) /\ test' = [v |-> v, got |-> made + 1]
       \/ /\ test # NoTest /\ test.got \notin apart /\ Moved(There)
          /\ UNCHANGED <<run, test>>
       \/ /\ test # NoTest /\ test' = NoTest /\ UNCHANGED run
          /\ LetsGo(There, test.got)

LEMMA PathsType ==
    /\ run.v \in Videos => Here \in Paths
    /\ \A v \in Videos : TestPath(v) \in Paths
    /\ \A v : TestPath(v) # Here
  BY DEF Here, Paths, TestPath

LEMMA TestSited ==
    ASSUME TypeOK, test # NoTest
    PROVE  test.v \in Videos /\ test.got \in Nat /\ There \in Paths /\ There # Here
<1>1. test.v \in Videos /\ test.got \in Nat
  BY DEF TypeOK, TestType
<1> QED BY <1>1, PathsType DEF There

\* What happens to a file keeps the types of files and timers.
LEMMA MediaType ==
    ASSUME TypeOK, NEW x \in Paths, NEW n \in Nat,
           Written(x) \/ Moved(x) \/ LetsGo(x, n) \/ (UNCHANGED made /\ Fired(x, n))
    PROVE  /\ made' \in Nat /\ file' \in [Paths -> Nat] /\ apart' \in SUBSET Nat
           /\ timers' \in SUBSET (Paths \X Nat)
<1>1. /\ made \in Nat /\ file \in [Paths -> Nat] /\ apart \in SUBSET Nat
      /\ timers \in SUBSET (Paths \X Nat) /\ file[x] \in Nat
  BY DEF TypeOK
<1>2. CASE Written(x)
  BY <1>1, <1>2 DEF Written
<1>3. CASE Moved(x)
  BY <1>1, <1>3 DEF Moved
\* What is taken away leaves the type.
<1>8. ASSUME UNCHANGED made, timers' \subseteq timers, apart' \subseteq apart,
             file' = file \/ file' = [file EXCEPT ![x] = 0]
      PROVE  /\ made' \in Nat /\ file' \in [Paths -> Nat] /\ apart' \in SUBSET Nat
             /\ timers' \in SUBSET (Paths \X Nat)
  <2>1. file' \in [Paths -> Nat]
    BY <1>1, <1>8
  <2>2. apart' \in SUBSET Nat /\ timers' \in SUBSET (Paths \X Nat)
    BY <1>1, <1>8, Zenon
  <2> QED BY <1>1, <1>8, <2>1, <2>2
<1>4. CASE Removed(x, n)
  <2>1. /\ UNCHANGED <<made, timers>> /\ apart' \subseteq apart
        /\ file' = file \/ file' = [file EXCEPT ![x] = 0]
    BY <1>4 DEF Removed, Stuck
  <2> QED BY <1>8, <2>1
<1>5. CASE Retain(x, n)
  BY <1>1, <1>5 DEF Retain
<1>6. CASE Astray(n)
  BY <1>1, <1>6 DEF Astray
<1>7. CASE UNCHANGED made /\ Fired(x, n)
  <2>1. /\ timers' \subseteq timers /\ apart' \subseteq apart
        /\ file' = file \/ file' = [file EXCEPT ![x] = 0]
    BY <1>7 DEF Fired
  <2> QED BY <1>7, <1>8, <2>1
<1> QED BY <1>2, <1>3, <1>4, <1>5, <1>6, <1>7 DEF LetsGo

LEMMA HandlingHandles ==
    ASSUME TypeOK, Sited, Handling
    PROVE  TypeOK' /\ Sited' /\ Handles
<1> USE DEF policy
<1>0. /\ run \in RunType /\ mention \in Videos \cup {None} /\ made \in Nat
      /\ Free \in RunType /\ Free.at = "free" /\ Free.who = None /\ ~Free.took
      /\ Named \subseteq Videos /\ None \notin Videos /\ None \notin Tasks /\ Reply \notin Tasks
      /\ None # Reply
      /\ {"understanding", "judging"} \subseteq Stages
      /\ {"free", "probing", "judging"} \subseteq Bare
  BY WatchAssumption, FreeType DEF TypeOK, Stages, Bare, None, Reply
<1>1. ASSUME alive, UNCHANGED <<alive, policy>>, run' \in RunType,
             mention' \in Videos \cup {None}, test' \in TestType,
             made' \in Nat, file' \in [Paths -> Nat], apart' \in SUBSET Nat,
             timers' \in SUBSET (Paths \X Nat), watched' \in [Videos -> SUBSET AnyDigest]
      PROVE  TypeOK'
  BY <1>1 DEF TypeOK
<1>2. ASSUME NEW v \in Videos, NEW d \in AnyDigest
      PROVE  [watched EXCEPT ![v] = @ \cup {d}] \in [Videos -> SUBSET AnyDigest]
  BY DEF TypeOK
<1>3. watched \in [Videos -> SUBSET AnyDigest] /\ test \in TestType /\ NoTest \in TestType
      /\ file \in [Paths -> Nat] /\ timers \in SUBSET (Paths \X Nat) /\ run.got \in Nat
  BY DEF TypeOK, TestType, RunType
<1>4. CASE Download
  <2> DEFINE n == made + 1
  <2>1. /\ alive /\ run.at = "downloading" /\ Written(Here)
        /\ run' = [run EXCEPT !.at = "understanding", !.got = n]
        /\ UNCHANGED <<alive, queue, mention, test, watched, policy>>
    BY <1>4 DEF Download, At, memory
  <2>2. n \in Nat /\ run.v \in Videos
    BY <1>0, <2>1 DEF Sited
  <2>3. /\ run' \in RunType /\ run'.at = "understanding" /\ run'.got = n
        /\ run'.v = run.v /\ run'.who = run.who /\ run'.took = run.took
    <3> HIDE DEF n
    <3> QED BY <1>0, <2>1, <2>2 DEF RunType
  <2>4. TypeOK'
    BY <1>0, <1>1, <1>3, <2>1, <2>2, <2>3, PathsType, MediaType
  <2>5. Sited'
    BY <2>1, <2>3 DEF Sited
  <2>6. Handles
    BY <2>1, <2>3 DEF Handles
  <2> QED BY <2>4, <2>5, <2>6
<1>12. CASE Prepare
  <2>1. /\ alive /\ run.at = "understanding" /\ run.got \notin apart /\ Moved(Here)
        /\ UNCHANGED <<alive, run, queue, mention, test, watched, policy>>
    BY <1>12 DEF Prepare, At, memory
  <2>2. run.v \in Videos
    BY <2>1 DEF Sited
  <2>3. TypeOK'
    BY <1>0, <1>1, <1>3, <2>1, <2>2, PathsType, MediaType
  <2>4. Sited'
    BY <2>1 DEF Sited
  <2>5. Handles
    BY <2>1 DEF Handles
  <2> QED BY <2>3, <2>4, <2>5
<1>5. CASE Understand
  <2>1. /\ alive /\ run.at = "understanding" /\ run.who \in Tasks
        /\ LetsGo(Here, run.got)
        /\ watched' = [watched EXCEPT ![run.v] = @ \cup {"model"}]
        /\ run' = [run EXCEPT !.at = "judging", !.got = 0, !.basis = "model"]
        /\ UNCHANGED <<alive, queue, mention, test, policy>>
    BY <1>5 DEF Understand, Mine, At, LetsGo
  <2>2. "model" \in AnyDigest /\ run.v \in Videos
    BY <2>1 DEF AnyDigest, Sited
  <2>3. /\ run' \in RunType /\ run'.at = "judging"
        /\ run'.v = run.v /\ run'.who = run.who /\ run'.took = run.took
    BY <1>0, <2>1, <2>2 DEF RunType
  <2>4. TypeOK'
    BY <1>0, <1>1, <1>2, <1>3, <2>1, <2>2, <2>3, PathsType, MediaType
  <2>5. Sited'
    BY <2>1, <2>3 DEF Sited
  <2>6. Handles
    BY <1>0, <2>1, <2>3 DEF Handles, LeavesFile
  <2> QED BY <2>4, <2>5, <2>6
\* A reply is over.
<1>6. ASSUME alive, UNCHANGED <<alive, queue, test, policy>>, run.at = "understanding",
             run.who = Reply, run' = Free, mention' = None,
             watched' \in [Videos -> SUBSET AnyDigest], LetsGo(Here, run.got)
      PROVE  TypeOK' /\ Sited' /\ Handles
  <2>1. run.v \in Videos /\ Reply \notin queue
    BY <1>6 DEF Sited
  <2>2. TypeOK'
    BY <1>0, <1>1, <1>3, <1>6, <2>1, PathsType, MediaType
  <2>3. Sited'
    BY <1>0, <1>6, <2>1 DEF Sited
  <2>4. Handles
    BY <1>0, <1>6 DEF Handles, LeavesFile
  <2> QED BY <2>2, <2>3, <2>4
<1>7. CASE ReplyUnderstands
  <2>1. run.at = "understanding" /\ run.v \in Videos
    BY <1>7 DEF ReplyUnderstands, At, Sited
  <2>2. watched' \in [Videos -> SUBSET AnyDigest]
    BY <1>2, <1>7, <2>1 DEF ReplyUnderstands
  <2> QED BY <1>6, <1>7, <2>1, <2>2 DEF ReplyUnderstands, At, LetsGo
<1>8. CASE NotUnderstood
  <2>1. /\ alive /\ run.at = "understanding" /\ LetsGo(Here, run.got)
        /\ UNCHANGED <<alive, queue, test, watched, policy>>
    BY <1>8 DEF NotUnderstood, At, LetsGo
  <2>2. run.v \in Videos /\ run.who \in Tasks \cup {Reply}
    BY <1>0, <2>1 DEF Sited, RunType
  <2>3. CASE run.who = Reply
    BY <1>3, <1>6, <1>8, <2>1, <2>3 DEF NotUnderstood
  <2>4. CASE run.who # Reply
    <3>1. Skip /\ UNCHANGED mention
      BY <1>8, <2>4 DEF NotUnderstood
    <3>2. /\ run' \in RunType
          /\ \/ run' = Free
             \/ run'.at = "probing" /\ run'.v \in Videos /\ run'.who = run.who /\ ~run'.took
      BY <2>2, <2>4, <3>1, SkipType
    <3>3. TypeOK'
      BY <1>0, <1>1, <1>3, <2>1, <2>2, <3>1, <3>2, PathsType, MediaType
    <3>4. Sited'
      BY <1>0, <2>1, <2>2, <3>1, <3>2 DEF Sited
    <3>5. Handles
      BY <1>0, <2>1, <3>2 DEF Handles, LeavesFile
    <3> QED BY <3>3, <3>4, <3>5
  <2> QED BY <2>3, <2>4
<1>9. ASSUME NEW p \in timers, TimerFires(p[1], p[2])
      PROVE  TypeOK' /\ Sited' /\ Handles
  <2> DEFINE x == p[1]
             n == p[2]
  <2>1. x \in Paths /\ n \in Nat
    BY <1>3
  <2>2. /\ alive /\ Fired(x, n)
        /\ UNCHANGED <<alive, run, queue, mention, test, made, left, watched, policy>>
    BY <1>9 DEF TimerFires, Unchanged, Stuck, Fired, memory
  <2> HIDE DEF x, n
  <2>4. TypeOK'
    BY <1>0, <1>1, <1>3, <2>1, <2>2, MediaType
  <2>5. Sited'
    BY <2>2 DEF Sited
  <2>6. Handles
    BY <2>1, <2>2 DEF Handles
  <2> QED BY <2>4, <2>5, <2>6
<1>10. ASSUME NEW v \in Named, TestStart(v)
       PROVE  TypeOK' /\ Sited' /\ Handles
  <2>1. /\ alive /\ test = NoTest /\ test' = [v |-> v, got |-> made + 1] /\ v \in Videos
        /\ Written(TestPath(v))
        /\ UNCHANGED <<alive, run, queue, mention, watched, policy>>
    BY <1>0, <1>10 DEF TestStart, memory
  <2>5. test' \in TestType
    BY <1>0, <2>1 DEF TestType
  <2>2. TypeOK'
    BY <1>0, <1>1, <1>3, <2>1, <2>5, PathsType, MediaType
  <2>3. Sited'
    BY <2>1 DEF Sited
  <2>4. Handles
    BY <2>1 DEF Handles
  <2> QED BY <2>2, <2>3, <2>4
<1>11. CASE TestEnds
  <2>1. /\ alive /\ test # NoTest /\ test' = NoTest /\ LetsGo(There, test.got)
        /\ UNCHANGED <<alive, run, queue, mention, policy>>
    BY <1>11 DEF TestEnds, LetsGo
  <2>2. test.v \in Videos /\ test.got \in Nat /\ There \in Paths
    BY <2>1, TestSited
  <2>3. watched' \in [Videos -> SUBSET AnyDigest]
    BY <1>2, <1>3, <1>11, <2>2 DEF TestEnds
  <2>4. TypeOK'
    BY <1>0, <1>1, <1>3, <2>1, <2>2, <2>3, MediaType
  <2>5. Sited'
    BY <2>1 DEF Sited
  <2>6. Handles
    BY <2>1 DEF Handles
  <2> QED BY <2>4, <2>5, <2>6
<1>13. CASE TestPrepares
  <2>1. /\ alive /\ test # NoTest /\ test.got \notin apart /\ Moved(There)
        /\ UNCHANGED <<alive, run, queue, mention, test, watched, policy>>
    BY <1>13 DEF TestPrepares, memory
  <2>2. There \in Paths
    BY <2>1, TestSited
  <2>3. TypeOK'
    BY <1>0, <1>1, <1>3, <2>1, <2>2, MediaType
  <2>4. Sited'
    BY <2>1 DEF Sited
  <2>5. Handles
    BY <2>1 DEF Handles
  <2> QED BY <2>3, <2>4, <2>5
<1> QED BY <1>4, <1>5, <1>7, <1>8, <1>9, <1>10, <1>11, <1>12, <1>13 DEF Handling

-----------------------------------------------------------------------------
(* The steps of the policy: approved, called, recorded or forgotten.       *)

Dealing == Judge \/ (\E a \in Actions : NoIntent(a) \/ Call(a)) \/ Record \/ NotRecorded

One(b) == IF b THEN 1 ELSE 0
Plus(count, a, v, n) == [count EXCEPT ![a][v] = @ + n]

Approves ==
    /\ run.at = "judging" /\ run'.at = "acting" /\ run'.v = run.v
    /\ run'.plan \in Plans(run.v) /\ UNCHANGED policy
Drops ==
    /\ run.at = "acting" /\ run'.at = "acting" /\ run'.v = run.v
    /\ run'.plan \subseteq run.plan /\ UNCHANGED policy
CallsOut ==
    /\ run.at = "acting" /\ run'.at = "recording" /\ run'.v = run.v
    /\ run'.act \in run.plan /\ run'.plan = run.plan \ {run'.act}
    /\ <<run'.result, run'.took>> \in Outcomes
    /\ taken' = Plus(taken, run'.act, run.v, One(run'.took))
    /\ UNCHANGED <<log, spent, vague, unrecorded>>
Records ==
    /\ run.at = "recording"
    /\ \/ run'.at = "free"
       \/ run'.at = "acting" /\ run'.v = run.v /\ run'.plan = run.plan
    /\ log' = Plus(log, run.act, run.v, One(Counts(run.result)))
    /\ spent' = [spent EXCEPT ![run.act] = @ + One(run.result = "success")]
    /\ vague' = [vague EXCEPT ![run.act] = @ + One(run.result # "success" /\ run.took)]
    /\ UNCHANGED <<taken, unrecorded>>
Forgets ==
    /\ run'.at = "free" /\ ~run'.took
    /\ Forget /\ UNCHANGED <<log, spent, taken, vague>>

Deals ==
    /\ UNCHANGED <<alive, test, media>>
    /\ run.at # "understanding" /\ run'.at # "understanding"
    /\ \/ Approves \/ Drops \/ CallsOut \/ Records
       \/ run.at = "recording" /\ Forgets

\* A call is open for an action that was approved, and its answer is known.
Dealt ==
    run.at = "recording" =>
      /\ run.act \in Actions
      /\ <<run.result, run.took>> \in Outcomes

LEMMA CountsType ==
    ASSUME NEW count \in CountType, NEW a \in Actions, NEW v \in Videos, NEW n \in Nat
    PROVE  /\ Plus(count, a, v, n) \in CountType
           /\ Plus(count, a, v, n)[a] = [count[a] EXCEPT ![v] = @ + n]
  BY DEF CountType, Plus

LEMMA CountsAt ==
    ASSUME NEW count \in CountType, NEW a \in Actions, NEW v \in Videos, NEW n \in Nat,
           NEW b \in Actions, NEW w \in Videos
    PROVE  Plus(count, a, v, n)[b][w] = count[b][w] + (IF b = a /\ w = v THEN n ELSE 0)
  BY DEF CountType, Plus

LEMMA CountsOf ==
    ASSUME NEW count \in CountType, NEW a \in Actions, NEW v \in Videos, NEW n \in Nat,
           NEW b \in Actions, b # a
    PROVE  Plus(count, a, v, n)[b] = count[b]
  BY DEF CountType, Plus

LEMMA DealingDeals ==
    ASSUME TypeOK, Sited, Dealt, Dealing
    PROVE  TypeOK' /\ Sited' /\ Dealt' /\ Deals
<1>0. /\ run \in RunType /\ None \notin Tasks /\ Reply \notin Tasks
      /\ Free \in RunType /\ Free.at = "free" /\ Free.who = None /\ ~Free.took
      /\ {"acting", "recording"} \subseteq Stages
      /\ "acting" # "understanding" /\ "free" # "understanding" /\ None # Reply
  BY WatchAssumption, FreeType DEF TypeOK, Stages, None, Reply
<1>1. ASSUME run' \in RunType, UNCHANGED <<mention, test, media, memory>>,
             log' \in CountType, taken' \in CountType, unrecorded' \in CountType,
             spent' \in [Actions -> Nat], vague' \in [Actions -> Nat]
      PROVE  TypeOK'
  BY <1>1 DEF TypeOK, media, memory
<1>2. ASSUME UNCHANGED <<queue, mention>>, run.at \notin {"free", "choosing"},
             \/ run' = Free
             \/ /\ run'.who = run.who /\ run'.v = run.v
                /\ run'.took => run'.at = "recording"
      PROVE  Sited'
  <2>1. CASE run' = Free
    BY <1>0, <1>2, <2>1 DEF Sited
  <2>2. CASE run'.who = run.who /\ run'.v = run.v /\ (run'.took => run'.at = "recording")
    BY <1>2, <2>2 DEF Sited
  <2> QED BY <1>2, <2>1, <2>2
<1>3. /\ log \in CountType /\ taken \in CountType /\ unrecorded \in CountType
      /\ spent \in [Actions -> Nat] /\ vague \in [Actions -> Nat]
      /\ \A b : One(b) \in Nat
  BY DEF TypeOK, One
<1>4. CASE Judge
  <2>1. /\ run.at = "judging" /\ UNCHANGED <<alive, queue, mention, test, media, memory, policy>>
    BY <1>4 DEF Judge, Mine, At
  <2>2. PICK chosen \in Plans(run.v) : run' = [run EXCEPT !.at = "acting", !.plan = chosen]
    BY <1>4 DEF Judge
  <2>3. chosen \in SUBSET Actions
    BY DEF Plans
  <2>4. /\ run' \in RunType /\ run'.at = "acting" /\ run'.plan = chosen
        /\ run'.v = run.v /\ run'.who = run.who /\ run'.took = run.took
    BY <1>0, <2>2, <2>3 DEF RunType
  <2>5. ~run.took
    BY <2>1 DEF Sited
  <2>6. TypeOK'
    BY <1>1, <1>3, <2>1, <2>4 DEF policy
  <2>7. Sited'
    BY <1>2, <2>1, <2>4, <2>5
  <2> QED BY <2>1, <2>2, <2>4, <2>6, <2>7 DEF Deals, Approves, Dealt
<1>5. ASSUME NEW a \in Actions, NoIntent(a)
      PROVE  TypeOK' /\ Sited' /\ Dealt' /\ Deals
  <2> DEFINE chosen == run.plan \ {a}
  <2>1. /\ run.at = "acting" /\ run' = [run EXCEPT !.plan = chosen]
        /\ UNCHANGED <<alive, queue, mention, test, media, memory, policy>>
    BY <1>5 DEF NoIntent, Mine, At
  <2>2. chosen \in SUBSET Actions /\ chosen \subseteq run.plan
    BY <1>0 DEF RunType
  <2> HIDE DEF chosen
  <2>3. /\ run' \in RunType /\ run'.at = "acting" /\ run'.plan = chosen
        /\ run'.v = run.v /\ run'.who = run.who /\ run'.took = run.took
    BY <1>0, <2>1, <2>2 DEF RunType
  <2>4. ~run.took
    BY <2>1 DEF Sited
  <2>5. TypeOK'
    BY <1>1, <1>3, <2>1, <2>3 DEF policy
  <2>6. Sited'
    BY <1>2, <2>1, <2>3, <2>4
  <2> QED BY <2>1, <2>2, <2>3, <2>5, <2>6 DEF Deals, Drops, Dealt
<1>6. ASSUME NEW a \in Actions, Call(a)
      PROVE  TypeOK' /\ Sited' /\ Dealt' /\ Deals
  <2> DEFINE chosen == run.plan \ {a}
  <2>1. PICK o \in Outcomes :
          /\ run' = [run EXCEPT !.at = "recording", !.plan = chosen, !.act = a,
                                !.result = o[1], !.took = o[2]]
          /\ taken' = Plus(taken, a, run.v, One(o[2]))
    BY <1>6 DEF Call, Plus, One
  <2>2. /\ run.at = "acting" /\ a \in run.plan
        /\ UNCHANGED <<alive, queue, mention, test, media, memory, log, spent, vague, unrecorded>>
    BY <1>6 DEF Call, Mine, At
  <2>3. chosen \in SUBSET Actions /\ run.v \in Videos
    BY <1>0, <2>2 DEF RunType, Sited
  <2>4. o[1] \in Results /\ o[2] \in BOOLEAN /\ o = <<o[1], o[2]>>
    BY DEF Outcomes
  <2> HIDE DEF chosen
  <2>5. /\ run' \in RunType /\ run'.at = "recording" /\ run'.plan = chosen /\ run'.act = a
        /\ run'.result = o[1] /\ run'.took = o[2] /\ run'.v = run.v /\ run'.who = run.who
    BY <1>0, <2>1, <2>3, <2>4 DEF RunType
  <2>6. taken' \in CountType
    <3> DEFINE n == One(o[2])
    <3>1. n \in Nat /\ taken' = Plus(taken, a, run.v, n)
      BY <1>3, <2>1
    <3> HIDE DEF n
    <3> QED BY <1>3, <2>3, <3>1, CountsType
  <2>7. TypeOK'
    BY <1>1, <1>3, <2>2, <2>5, <2>6
  <2>8. Sited'
    BY <1>2, <2>2, <2>5
  <2>9. Dealt'
    BY <2>4, <2>5 DEF Dealt, Outcomes
  <2>10. CallsOut
    BY <2>1, <2>2, <2>4, <2>5 DEF CallsOut, chosen
  <2> QED BY <1>0, <2>2, <2>5, <2>7, <2>8, <2>9, <2>10 DEF Deals
<1>7. CASE Record
  <2>1. /\ run.at = "recording" /\ run.act \in Actions /\ run.v \in Videos
    BY <1>7 DEF Record, Mine, At, Dealt, Sited
  <2>2. /\ log' = Plus(log, run.act, run.v, One(Counts(run.result)))
        /\ spent' = [spent EXCEPT ![run.act] = @ + One(run.result = "success")]
        /\ vague' = [vague EXCEPT ![run.act] = @ + One(run.result # "success" /\ run.took)]
        /\ UNCHANGED <<alive, queue, mention, test, media, memory, taken, unrecorded>>
    BY <1>7 DEF Record, Plus, One
  <2>3. \/ run' = [run EXCEPT !.at = "acting", !.act = None, !.result = None, !.took = FALSE]
        \/ run' = Free
    BY <1>7 DEF Record, Broken, Leave
  <2>4. /\ run' \in RunType
        /\ \/ run' = Free /\ run'.at = "free"
           \/ /\ run'.at = "acting" /\ run'.v = run.v /\ run'.plan = run.plan
              /\ run'.who = run.who /\ ~run'.took
    <3>1. CASE run' = Free
      BY <1>0, <3>1
    <3>2. CASE run' = [run EXCEPT !.at = "acting", !.act = None, !.result = None, !.took = FALSE]
      BY <1>0, <3>2 DEF RunType
    <3> QED BY <2>3, <3>1, <3>2
  <2>5. log' \in CountType
    BY <1>3, <2>1, <2>2, CountsType
  <2>6. spent' \in [Actions -> Nat] /\ vague' \in [Actions -> Nat]
    <3> DEFINE s == One(run.result = "success")
               u == One(run.result # "success" /\ run.took)
    <3>1. s \in Nat /\ u \in Nat
      BY <1>3
    <3>2. spent' = [spent EXCEPT ![run.act] = @ + s] /\ vague' = [vague EXCEPT ![run.act] = @ + u]
      BY <2>2
    <3> HIDE DEF s, u
    <3> QED BY <1>3, <2>1, <3>1, <3>2
  <2>7. TypeOK'
    BY <1>1, <1>3, <2>2, <2>4, <2>5, <2>6
  <2>8. Sited'
    BY <1>2, <2>1, <2>2, <2>4
  <2>9. Dealt'
    BY <2>4 DEF Dealt
  <2>10. Records
    BY <2>1, <2>2, <2>4 DEF Records
  <2> QED BY <1>0, <2>1, <2>2, <2>4, <2>7, <2>8, <2>9, <2>10 DEF Deals
<1>8. CASE NotRecorded
  <2>1. /\ run.at = "recording" /\ run.act \in Actions /\ run.v \in Videos
    BY <1>8 DEF NotRecorded, Mine, At, Dealt, Sited
  <2>2. /\ run' = Free /\ Forget
        /\ UNCHANGED <<alive, queue, mention, test, media, memory, log, spent, taken, vague>>
    BY <1>8 DEF NotRecorded, Leave
  <2>3. unrecorded' \in CountType
    BY <1>3, <2>1, <2>2, CountsType DEF Forget, Plus
  <2>4. TypeOK'
    BY <1>0, <1>1, <1>3, <2>2, <2>3
  <2>5. Sited'
    BY <1>2, <2>1, <2>2
  <2> QED BY <1>0, <2>1, <2>2, <2>4, <2>5 DEF Deals, Forgets, Dealt
<1> QED BY <1>4, <1>5, <1>6, <1>7, <1>8 DEF Dealing

-----------------------------------------------------------------------------
(* The process ends, and starts again.                                     *)

\* Some of what was left behind is old enough to go.
Sweeps == apart' \subseteq apart /\ \A x \in Paths : file'[x] \in {0, file[x]}

LEMMA CrashForgets ==
    ASSUME TypeOK, Sited, Dealt, Crash
    PROVE  /\ TypeOK' /\ Sited' /\ Dealt' /\ Forgets
           /\ run' = Free /\ test' = NoTest /\ timers' = {} /\ left' = OnDisk
           /\ UNCHANGED <<made, file, apart>>
<1>1. /\ queue' = {} /\ mention' = None /\ run' = Free /\ test' = NoTest /\ timers' = {}
      /\ left' = OnDisk
      /\ Forget /\ UNCHANGED <<made, file, apart, watched, log, spent, taken, vague>>
  BY DEF Crash, memory
<1>2. /\ Free \in RunType /\ Free.at = "free" /\ Free.who = None /\ ~Free.took
      /\ None # Reply
  BY FreeType DEF None, Reply
<1>3. unrecorded' \in CountType
  <2>1. CASE run.took
    <3>1. run.act \in Actions /\ run.v \in Videos
      BY <2>1 DEF Sited, Dealt
    <3>2. unrecorded' = Plus(unrecorded, run.act, run.v, 1)
      BY <1>1, <2>1 DEF Forget, Plus
    <3> QED BY <3>1, <3>2, CountsType DEF TypeOK
  <2>2. CASE ~run.took
    BY <1>1, <2>2 DEF Forget, TypeOK
  <2> QED BY <2>1, <2>2
<1>4. TypeOK'
  BY <1>1, <1>2, <1>3 DEF TypeOK, TestType
<1> QED BY <1>1, <1>2, <1>4 DEF Sited, Dealt, Forgets

LEMMA BootSweeps ==
    ASSUME TypeOK, Sited, Dealt, Boot
    PROVE  /\ TypeOK' /\ Sited' /\ Dealt'
           /\ ~alive /\ UNCHANGED <<run, test, made, timers, left, stray, policy>>
           /\ Sweeps
<1>1. PICK old \in SUBSET left :
        /\ file' = [x \in Paths |-> IF file[x] \in old THEN 0 ELSE file[x]]
        /\ apart' = apart \ old
  BY DEF Boot
<1>2. /\ ~alive
      /\ UNCHANGED <<queue, mention, run, test, made, timers, left, stray, watched, policy>>
  BY DEF Boot, memory
<1>3. file' \in [Paths -> Nat] /\ apart' \in SUBSET Nat
  BY <1>1 DEF TypeOK
<1>4. TypeOK' /\ Sited' /\ Dealt'
  BY <1>2, <1>3 DEF TypeOK, Sited, Dealt, policy
<1> QED BY <1>1, <1>2, <1>4 DEF Sweeps

-----------------------------------------------------------------------------
(* Every step is one of these.                                             *)

Base == TypeOK /\ Sited /\ Dealt

LEMMA InitBase == Init => Base
<1> SUFFICES ASSUME Init PROVE Base
  OBVIOUS
<1>1. run = Free /\ mention = None /\ test = NoTest /\ queue = {}
  BY DEF Init
<1>2. Count \in CountType
  BY DEF Count, CountType
<1>3. TypeOK
  BY <1>1, <1>2, FreeType DEF Init, TypeOK, TestType
<1>4. None # Reply
  BY DEF None, Reply
<1> QED BY <1>1, <1>3, <1>4, FreeType DEF Base, Sited, Dealt

LEMMA NextKinds == Next => Resting \/ Handling \/ Dealing \/ Crash \/ Boot
  BY DEF Next, Resting, Handling, Dealing

LEMMA StutterBase ==
    ASSUME Base, UNCHANGED vars
    PROVE  Base'
  BY DEF Base, TypeOK, Sited, Dealt, vars, media, memory, policy

LEMMA NextBase ==
    ASSUME Base, [Next]_vars
    PROVE  /\ Base'
           /\ \/ Rests \/ Handles \/ Deals
              \/ Crash \/ Boot \/ UNCHANGED vars
<1>1. TypeOK /\ Sited /\ Dealt
  BY DEF Base
<1>2. CASE Resting
  <2>1. TypeOK' /\ Sited' /\ Rests
    BY <1>1, <1>2, RestingRests
  <2>2. Dealt'
    BY <1>1, <2>1 DEF Rests, Dealt, Bare
  <2> QED BY <2>1, <2>2 DEF Base
<1>3. CASE Handling
  <2>1. TypeOK' /\ Sited' /\ Handles
    BY <1>1, <1>3, HandlingHandles
  <2>2. Dealt'
    BY <1>1, <2>1 DEF Handles, LeavesFile, Dealt, Bare
  <2> QED BY <2>1, <2>2 DEF Base
<1>4. CASE Dealing
  BY <1>1, <1>4, DealingDeals DEF Base
<1>5. CASE Crash
  BY <1>1, <1>5, CrashForgets DEF Base
<1>6. CASE Boot
  BY <1>1, <1>6, BootSweeps DEF Base
<1>7. CASE UNCHANGED vars
  BY <1>7, StutterBase
<1> QED BY <1>2, <1>3, <1>4, <1>5, <1>6, <1>7, NextKinds

\* The run, the files and the counts keep their types, a reply at the lock has
\* its mention, and an answer of the platform is one the run waits to record
\* (scheduler_proactive_video.py:559-1120, scheduler_watch_video.py:60-176).
THEOREM WatchTyped == Spec => []Base
<1>1. Init => Base
  BY InitBase
<1>2. Base /\ [Next]_vars => Base'
  BY NextBase
<1> QED BY <1>1, <1>2, PTL DEF Spec

-----------------------------------------------------------------------------
(* The files.                                                              *)

\* Download n is being looked at, or was lost or left behind.
InHand(n) ==
    \/ run.at = "understanding" /\ n = run.got
    \/ test # NoTest /\ n = test.got
Held(n) == InHand(n) \/ n \in left \cup stray

Covered ==
    /\ \A x \in Paths : file[x] = 0 \/ Held(file[x]) \/ <<x, file[x]>> \in timers
    /\ \A n \in apart : Held(n) \/ (\E x \in Paths : <<x, n>> \in timers)

Numbered ==
    /\ \A x \in Paths : file[x] <= made
    /\ \A n \in apart : n <= made
    /\ \A x \in Paths, n \in Nat : <<x, n>> \in timers => n <= made

\* A download is numbered once, so a timer that saw another one never
\* matches it; that is why no timer holds the number of a file in use.
Owns(x, n) ==
    /\ n # 0 /\ n <= made /\ n \in {file[x]} \cup apart
    /\ \A y \in Paths : <<y, n>> \notin timers /\ (file[y] = n => y = x)

Filed ==
    /\ Covered /\ Numbered
    /\ run.at = "understanding" => Owns(Here, run.got)
    /\ test # NoTest => Owns(There, test.got)
    /\ run.at = "understanding" /\ test # NoTest => run.got # test.got
    /\ ~alive => run.at = "free" /\ test = NoTest

\* What covers the number that is at x covers x.
LEMMA CoveredFrom ==
    ASSUME file' \in [Paths -> Nat], apart' \in SUBSET Nat,
           \A x \in Paths, n \in Nat :
             file'[x] = n => n = 0 \/ Held(n)' \/ <<x, n>> \in timers',
           \A n \in Nat : n \in apart' => Held(n)' \/ (\E x \in Paths : <<x, n>> \in timers')
    PROVE  Covered'
  BY DEF Covered, Held, InHand

LEMMA CoversNumber ==
    ASSUME Covered, NEW x \in Paths, NEW n \in Nat, file[x] = n
    PROVE  n = 0 \/ Held(n) \/ <<x, n>> \in timers
  BY DEF Covered, Held, InHand

LEMMA WrittenFiled ==
    ASSUME TypeOK, Covered, Numbered, NEW y \in Paths, Written(y),
           NEW k \in Nat, k = made + 1, InHand(k)',
           \A n \in Nat : InHand(n) => InHand(n)'
    PROVE  /\ Covered' /\ Numbered' /\ Owns(y, k)'
           /\ \A x \in Paths, n \in Nat : x # y /\ Owns(x, n) => Owns(x, n)'
<1>1. /\ made \in Nat /\ file \in [Paths -> Nat] /\ apart \in SUBSET Nat
      /\ timers \in SUBSET (Paths \X Nat)
  BY DEF TypeOK
<1>2. /\ made' = k /\ UNCHANGED <<apart, timers, left, stray>> /\ file'[y] = k
      /\ \A x \in Paths : x # y => file'[x] = file[x]
  BY <1>1 DEF Written
<1>3. made < k /\ k # 0
  BY <1>1
<1>4. Numbered'
  BY <1>1, <1>2, <1>3 DEF Numbered
<1>5. \A n \in Nat : Held(n) => Held(n)'
  BY <1>2 DEF Held
<1>6. Held(k)'
  BY DEF Held
<1>7. Covered'
  <2>1. ASSUME NEW x \in Paths, NEW n \in Nat, file'[x] = n
        PROVE  n = 0 \/ Held(n)' \/ <<x, n>> \in timers'
    <3>1. CASE x = y
      BY <1>1, <1>2, <1>6, <2>1, <3>1
    <3>2. CASE x # y
      <4>1. file[x] = n
        BY <1>2, <2>1, <3>2
      <4> QED BY <1>2, <1>5, <4>1, CoversNumber
    <3> QED BY <3>1, <3>2
  <2>2. ASSUME NEW n \in Nat, n \in apart'
        PROVE  Held(n)' \/ (\E x \in Paths : <<x, n>> \in timers')
    BY <1>1, <1>2, <1>5, <2>2 DEF Covered
  <2>3. file' \in [Paths -> Nat] /\ apart' \in SUBSET Nat
    BY <1>1, <1>2 DEF Written
  <2> QED BY <2>1, <2>2, <2>3, CoveredFrom
<1>8. Owns(y, k)'
  BY <1>1, <1>2, <1>3 DEF Owns, Numbered
<1>9. ASSUME NEW x \in Paths, NEW n \in Nat, x # y, Owns(x, n)
      PROVE  Owns(x, n)'
  BY <1>1, <1>2, <1>3, <1>9 DEF Owns
<1> QED BY <1>4, <1>7, <1>8, <1>9

LEMMA MovedFiled ==
    ASSUME TypeOK, Covered, Numbered, NEW y \in Paths, NEW m \in Nat, Owns(y, m),
           m \notin apart, Moved(y), InHand(m)', \A n \in Nat : InHand(n) => InHand(n)'
    PROVE  /\ Covered' /\ Numbered'
           /\ \A x \in Paths, n \in Nat : Owns(x, n) => Owns(x, n)'
<1>1. /\ made \in Nat /\ file \in [Paths -> Nat] /\ apart \in SUBSET Nat
      /\ file[y] = m /\ m <= made /\ m # 0
  BY DEF TypeOK, Owns
<1>2. /\ UNCHANGED <<made, timers, left, stray>> /\ apart' = apart \cup {m} /\ file'[y] = 0
      /\ \A x \in Paths : x # y => file'[x] = file[x]
  BY <1>1 DEF Moved
<1>3. Numbered'
  BY <1>1, <1>2 DEF Numbered
<1>4. /\ \A n \in Nat : Held(n) => Held(n)'
      /\ Held(m)'
  BY <1>2 DEF Held
<1>5. Covered'
  <2>1. ASSUME NEW x \in Paths, NEW n \in Nat, file'[x] = n
        PROVE  n = 0 \/ Held(n)' \/ <<x, n>> \in timers'
    <3>1. CASE x = y
      BY <1>1, <1>2, <1>4, <2>1, <3>1
    <3>2. CASE x # y
      <4>1. file[x] = n
        BY <1>2, <2>1, <3>2
      <4> QED BY <1>2, <1>4, <4>1, CoversNumber
    <3> QED BY <3>1, <3>2
  <2>2. ASSUME NEW n \in Nat, n \in apart'
        PROVE  Held(n)' \/ (\E x \in Paths : <<x, n>> \in timers')
    BY <1>1, <1>2, <1>4, <2>2 DEF Covered
  <2>3. file' \in [Paths -> Nat] /\ apart' \in SUBSET Nat
    BY <1>1, <1>2 DEF Moved
  <2> QED BY <2>1, <2>2, <2>3, CoveredFrom
<1>6. ASSUME NEW x \in Paths, NEW n \in Nat, Owns(x, n)
      PROVE  Owns(x, n)'
  BY <1>1, <1>2, <1>6 DEF Owns
<1> QED BY <1>3, <1>5, <1>6

LEMMA LetGoFiled ==
    ASSUME TypeOK, Covered, Numbered, NEW y \in Paths, NEW m \in Nat, Owns(y, m),
           LetsGo(y, m), \A n \in Nat : InHand(n) /\ n # m => InHand(n)'
    PROVE  /\ Covered' /\ Numbered'
           /\ \A x \in Paths, n \in Nat : n # m /\ Owns(x, n) => Owns(x, n)'
<1>1. /\ made \in Nat /\ file \in [Paths -> Nat] /\ apart \in SUBSET Nat
      /\ m <= made /\ m # 0 /\ \A x \in Paths : file[x] = m => x = y
  BY DEF TypeOK, Owns
<1>6. file' \in [Paths -> Nat] /\ apart' \in SUBSET Nat
  BY MediaType
\* What is done with m leaves nothing else uncovered, and m itself only if it
\* is gone.
<1>2. ASSUME /\ UNCHANGED <<made, left>> /\ stray \subseteq stray' /\ timers \subseteq timers'
             /\ timers' \subseteq timers \cup {<<y, m>>}
             /\ apart \ {m} \subseteq apart' /\ apart' \subseteq apart
             /\ \A x \in Paths : file'[x] = file[x] \/ (file[x] = m /\ file'[x] = 0)
             /\ \/ m \in stray' \/ <<y, m>> \in timers'
                \/ m \notin apart' /\ \A x \in Paths : file'[x] # m
      PROVE  /\ Covered' /\ Numbered'
             /\ \A x \in Paths, n \in Nat : n # m /\ Owns(x, n) => Owns(x, n)'
  <2>1. Numbered'
    BY <1>1, <1>2 DEF Numbered
  <2>2. \A n \in Nat : Held(n) /\ n # m => Held(n)'
    BY <1>2 DEF Held
  <2>3. m \in stray' => Held(m)'
    BY DEF Held
  <2>4. ASSUME NEW x \in Paths, NEW n \in Nat, file'[x] = n
        PROVE  n = 0 \/ Held(n)' \/ <<x, n>> \in timers'
    <3>1. CASE n = m
      <4>1. x = y
        BY <1>1, <1>2, <2>4, <3>1
      <4> QED BY <1>2, <2>3, <2>4, <3>1, <4>1
    <3>2. CASE n # m /\ n # 0
      <4>1. file[x] = n
        BY <1>1, <1>2, <2>4, <3>2
      <4> QED BY <1>2, <2>2, <3>2, <4>1, CoversNumber
    <3> QED BY <3>1, <3>2
  <2>5. ASSUME NEW n \in Nat, n \in apart'
        PROVE  Held(n)' \/ (\E x \in Paths : <<x, n>> \in timers')
    BY <1>1, <1>2, <2>2, <2>3, <2>5 DEF Covered
  <2>6. Covered'
    <3>1. file' \in [Paths -> Nat] /\ apart' \in SUBSET Nat
      BY <1>6
    <3> QED BY <2>4, <2>5, <3>1, CoveredFrom
  <2>7. ASSUME NEW x \in Paths, NEW n \in Nat, n # m, Owns(x, n)
        PROVE  Owns(x, n)'
    BY <1>1, <1>2, <2>7 DEF Owns
  <2> QED BY <2>1, <2>6, <2>7
<1>3. CASE Removed(y, m)
  <2>1. CASE Stuck(m)
    BY <1>2, <1>3, <2>1 DEF Removed, Stuck
  <2>2. CASE /\ file' = IF file[y] = m THEN [file EXCEPT ![y] = 0] ELSE file
             /\ apart' = apart \ {m} /\ UNCHANGED <<troubles, stray>>
    <3>1. \A x \in Paths : /\ file'[x] = file[x] \/ (file[x] = m /\ file'[x] = 0)
                           /\ file'[x] # m
      BY <1>1, <2>2
    <3> QED BY <1>2, <1>3, <2>2, <3>1 DEF Removed
  <2> QED BY <1>3, <2>1, <2>2 DEF Removed
<1>4. CASE Retain(y, m)
  BY <1>2, <1>4 DEF Retain
<1>5. CASE Astray(m)
  BY <1>2, <1>5 DEF Astray
<1> QED BY <1>3, <1>4, <1>5 DEF LetsGo

LEMMA FiredFiled ==
    ASSUME TypeOK, Covered, Numbered, NEW y \in Paths, NEW m \in Nat, Fired(y, m),
           UNCHANGED <<made, left>>, \A n \in Nat : InHand(n) => InHand(n)'
    PROVE  /\ Covered' /\ Numbered'
           /\ \A x \in Paths, n \in Nat : Owns(x, n) => Owns(x, n)'
<1>1. /\ made \in Nat /\ file \in [Paths -> Nat] /\ apart \in SUBSET Nat
      /\ timers' = timers \ {<<y, m>>} /\ <<y, m>> \in timers
  BY DEF TypeOK, Fired
<1>2. ASSUME stray \subseteq stray', apart \ {m} \subseteq apart', apart' \subseteq apart,
             \/ m \in stray' /\ file' = file
             \/ /\ m \notin apart'
                /\ file' = IF file[y] = m THEN [file EXCEPT ![y] = 0] ELSE file
      PROVE  /\ Covered' /\ Numbered'
             /\ \A x \in Paths, n \in Nat : Owns(x, n) => Owns(x, n)'
  <2>1. \A x \in Paths : file'[x] = file[x] \/ (x = y /\ file[x] = m /\ file'[x] = 0)
    BY <1>1, <1>2
  <2>2. Numbered'
    BY <1>1, <1>2, <2>1 DEF Numbered
  <2>3. \A n \in Nat : Held(n) => Held(n)'
    BY <1>2 DEF Held
  <2>4. m \in stray' => Held(m)'
    BY DEF Held
  <2>5. ASSUME NEW x \in Paths, NEW n \in Nat, file'[x] = n
        PROVE  n = 0 \/ Held(n)' \/ <<x, n>> \in timers'
    <3>1. CASE n = 0
      BY <3>1
    <3>2. CASE n # 0 /\ <<x, n>> = <<y, m>>
      BY <1>1, <1>2, <2>4, <2>5, <3>2
    <3>3. CASE n # 0 /\ <<x, n>> # <<y, m>>
      <4>1. file[x] = n
        BY <2>1, <2>5, <3>3
      <4> QED BY <1>1, <2>3, <3>3, <4>1, CoversNumber
    <3> QED BY <3>1, <3>2, <3>3
  <2>6. ASSUME NEW n \in Nat, n \in apart'
        PROVE  Held(n)' \/ (\E x \in Paths : <<x, n>> \in timers')
    <3>1. CASE n = m
      BY <1>2, <2>4, <2>6, <3>1
    <3>2. CASE n # m
      BY <1>1, <1>2, <2>3, <2>6, <3>2 DEF Covered
    <3> QED BY <3>1, <3>2
  <2>7. Covered'
    <3>1. file' \in [Paths -> Nat] /\ apart' \in SUBSET Nat
      BY MediaType
    <3> QED BY <2>5, <2>6, <3>1, CoveredFrom
  <2>8. ASSUME NEW x \in Paths, NEW n \in Nat, Owns(x, n)
        PROVE  Owns(x, n)'
    <3>1. n # m
      BY <1>1, <2>8 DEF Owns
    <3> QED BY <1>1, <1>2, <2>1, <2>8, <3>1 DEF Owns
  <2> QED BY <2>2, <2>7, <2>8
<1> QED BY <1>1, <1>2 DEF Fired

LEMMA RestsFiled ==
    ASSUME TypeOK, Filed,
           UNCHANGED <<alive, test, media>>,
           run' = run \/ (alive /\ run.at # "understanding" /\ run'.at # "understanding")
    PROVE  Filed'
<1> USE DEF Filed, Covered, Numbered, Held, InHand, Owns, Here, There, TestPath
<1>1. UNCHANGED <<test, made, file, apart, timers, left, stray, alive>>
  BY DEF media
<1>2. CASE run' = run
  BY <1>1, <1>2
<1>3. CASE alive /\ run.at # "understanding" /\ run'.at # "understanding"
  BY <1>1, <1>3
<1> QED BY <1>2, <1>3

\* Whoever keeps its download keeps owning it.
LEMMA RunKeeps ==
    ASSUME run'.v = run.v, run'.got = run.got, Here \in Paths, run.got \in Nat,
           run.at = "understanding" => Owns(Here, run.got),
           run'.at = "understanding" => run.at = "understanding",
           Owns(Here, run.got) =>
             \A x \in Paths, n \in Nat : x = Here /\ n = run.got => Owns(x, n)'
    PROVE  (run.at = "understanding" => Owns(Here, run.got))'
<1> SUFFICES ASSUME run'.at = "understanding" PROVE Owns(Here, run.got)'
  OBVIOUS
<1>1. PICK x \in Paths, n \in Nat : x = Here /\ n = run.got
  OBVIOUS
<1>2. Owns(x, n)'
  BY <1>1
<1>3. Here' = x /\ run'.got = n
  BY <1>1 DEF Here
<1> QED BY <1>2, <1>3 DEF Owns

LEMMA TestKeeps ==
    ASSUME UNCHANGED test, There \in Paths, test.got \in Nat,
           \A x \in Paths, n \in Nat : x = There /\ n = test.got => Owns(x, n)'
    PROVE  Owns(There, test.got)'
<1>1. PICK x \in Paths, n \in Nat : x = There /\ n = test.got
  OBVIOUS
<1>2. Owns(x, n)'
  BY <1>1
<1>3. There' = x /\ test'.got = n
  BY <1>1 DEF There, TestPath
<1> QED BY <1>2, <1>3 DEF Owns

LEMMA HandlesFiled ==
    ASSUME TypeOK, Sited, Filed, Handles
    PROVE  Filed'
<1>0. /\ alive /\ alive' = alive /\ made \in Nat /\ run.got \in Nat
      /\ Covered /\ Numbered
      /\ run.at = "understanding" => Owns(Here, run.got)
      /\ test # NoTest => Owns(There, test.got)
      /\ run.at = "understanding" /\ test # NoTest => run.got # test.got
  BY DEF Handles, TypeOK, RunType, Filed
<1>6. /\ test # NoTest => There \in Paths /\ test.got \in Nat /\ There # Here
      /\ run.at \in {"downloading", "understanding"} => Here \in Paths
  BY TestSited, PathsType DEF Sited
\* The parts of the invariant
<1>7. ASSUME Covered', Numbered', (run.at = "understanding" => Owns(Here, run.got))',
             (test # NoTest => Owns(There, test.got))',
             (run.at = "understanding" /\ test # NoTest => run.got # test.got)'
      PROVE  Filed'
  BY <1>0, <1>7 DEF Filed
<1>1. CASE /\ run.at = "downloading" /\ run'.at = "understanding" /\ run'.v = run.v
           /\ run'.got = made + 1 /\ Written(Here) /\ UNCHANGED test
  <2> DEFINE k == made + 1
  <2>1. Here \in Paths /\ Here' = Here
    BY <1>1, <1>6 DEF Here
  <2>2. \A n \in Nat : InHand(n) => InHand(n)'
    BY <1>1 DEF InHand
  <2>3. k \in Nat /\ run'.got = k
    BY <1>0, <1>1
  <2>4. run'.at = "understanding" /\ k = run'.got
    BY <1>1, <2>3
  <2>5. PICK y \in Paths, m \in Nat : y = Here /\ m = k
    BY <2>1, <2>3
  <2>6. m = made + 1 /\ Written(y) /\ run'.got = m /\ Here' = y
    BY <1>1, <2>1, <2>3, <2>5
  <2> HIDE DEF k
  <2>7. InHand(m)'
    BY <1>1, <2>6 DEF InHand
  <2>8. /\ Covered' /\ Numbered' /\ Owns(y, m)'
        /\ \A x \in Paths, n \in Nat : x # y /\ Owns(x, n) => Owns(x, n)'
    BY <1>0, <2>2, <2>6, <2>7, WrittenFiled
  <2>9. (run.at = "understanding" => Owns(Here, run.got))'
    BY <2>6, <2>8 DEF Owns
  <2>10. ASSUME test # NoTest
         PROVE  Owns(There, test.got)' /\ test'.got # m
    <3>1. There \in Paths /\ test.got \in Nat /\ There # y /\ Owns(There, test.got)
      BY <1>0, <1>6, <2>5, <2>10
    <3>2. test.got # m
      BY <1>0, <2>6, <3>1 DEF Owns
    <3> QED BY <1>1, <2>8, <3>1, <3>2, TestKeeps
  <2> QED BY <1>1, <1>7, <2>6, <2>8, <2>9, <2>10
<1>2. CASE /\ run.at = "understanding" /\ run.got \notin apart /\ Moved(Here)
           /\ UNCHANGED <<run, test>>
  <2>1. PICK y \in Paths, m \in Nat : y = Here /\ m = run.got
    BY <1>0, <1>2, <1>6
  <2>2. Owns(y, m) /\ m \notin apart /\ Moved(y) /\ \A n : InHand(n) => InHand(n)'
    BY <1>0, <1>2, <2>1 DEF InHand
  <2>3. InHand(m)'
    BY <1>2, <2>1 DEF InHand
  <2>4. /\ Covered' /\ Numbered'
        /\ \A x \in Paths, n \in Nat : Owns(x, n) => Owns(x, n)'
    BY <1>0, <2>2, <2>3, MovedFiled
  <2>5. (run.at = "understanding" => Owns(Here, run.got))'
    BY <1>0, <1>2, <1>6, <2>4, RunKeeps
  <2>6. (test # NoTest => Owns(There, test.got))'
    BY <1>0, <1>2, <1>6, <2>4, TestKeeps
  <2> QED BY <1>0, <1>2, <1>7, <2>4, <2>5, <2>6
<1>3. CASE LeavesFile /\ LetsGo(Here, run.got)
  <2>1. run.at = "understanding" /\ run'.at # "understanding" /\ test' = test
    BY <1>3 DEF LeavesFile, Bare
  <2>2. PICK y \in Paths, m \in Nat : y = Here /\ m = run.got
    BY <1>0, <1>6, <2>1
  <2>3. Owns(y, m) /\ LetsGo(y, m) /\ \A n \in Nat : InHand(n) /\ n # m => InHand(n)'
    BY <1>0, <1>3, <2>1, <2>2 DEF InHand
  <2>4. /\ Covered' /\ Numbered'
        /\ \A x \in Paths, n \in Nat : n # m /\ Owns(x, n) => Owns(x, n)'
    BY <1>0, <2>3, LetGoFiled
  <2>5. (test # NoTest => Owns(There, test.got))'
    BY <1>0, <1>6, <2>1, <2>2, <2>4, TestKeeps
  <2> QED BY <1>7, <2>1, <2>4, <2>5
<1>4. CASE /\ UNCHANGED <<run, test, made, left>>
           /\ \E x \in Paths, n \in Nat : Fired(x, n)
  <2>1. PICK y \in Paths, m \in Nat : Fired(y, m)
    BY <1>4
  <2>2. \A n \in Nat : InHand(n) => InHand(n)'
    BY <1>4 DEF InHand
  <2>3. UNCHANGED <<made, left>>
    BY <1>4
  <2>4. /\ Covered' /\ Numbered'
        /\ \A x \in Paths, n \in Nat : Owns(x, n) => Owns(x, n)'
    BY <1>0, <2>1, <2>2, <2>3, FiredFiled
  <2>5. (run.at = "understanding" => Owns(Here, run.got))'
    <3>1. CASE run.at = "understanding"
      BY <1>0, <1>4, <1>6, <2>4, <3>1, RunKeeps
    <3>2. CASE run.at # "understanding"
      BY <1>4, <3>2
    <3> QED BY <3>1, <3>2
  <2>6. (test # NoTest => Owns(There, test.got))'
    BY <1>0, <1>4, <1>6, <2>4, TestKeeps
  <2> QED BY <1>0, <1>4, <1>7, <2>4, <2>5, <2>6
<1>5. CASE /\ test = NoTest /\ UNCHANGED run
           /\ \E v \in Videos : Written(TestPath(v)) /\ test' = [v |-> v, got |-> made + 1]
  <2>1. PICK v \in Videos : Written(TestPath(v)) /\ test' = [v |-> v, got |-> made + 1]
    BY <1>5
  <2>2. PICK y \in Paths, m \in Nat : y = TestPath(v) /\ m = made + 1
    BY <1>0, PathsType
  <2>3. /\ m = made + 1 /\ Written(y) /\ y # Here /\ test'.got = m /\ test'.v = v
        /\ test' # NoTest
    BY <2>1, <2>2, PathsType, WatchAssumption DEF NoTest
  <2>4. \A n \in Nat : InHand(n) => InHand(n)'
    BY <1>5 DEF InHand
  <2>5. InHand(m)'
    BY <2>3 DEF InHand
  <2>6. /\ Covered' /\ Numbered' /\ Owns(y, m)'
        /\ \A x \in Paths, n \in Nat : x # y /\ Owns(x, n) => Owns(x, n)'
    BY <1>0, <2>3, <2>4, <2>5, WrittenFiled
  <2>7. There' = y
    BY <2>2, <2>3 DEF There, TestPath
  <2>8. (test # NoTest => Owns(There, test.got))'
    BY <2>3, <2>6, <2>7 DEF Owns
  <2>9. (run.at = "understanding" => Owns(Here, run.got))'
    <3>1. CASE run.at = "understanding"
      BY <1>0, <1>5, <1>6, <2>3, <2>6, <3>1, RunKeeps
    <3>2. CASE run.at # "understanding"
      BY <1>5, <3>2
    <3> QED BY <3>1, <3>2
  <2>10. run.at = "understanding" => run.got # m
    BY <1>0, <2>3 DEF Owns
  <2> QED BY <1>5, <1>7, <2>3, <2>6, <2>8, <2>9, <2>10
<1>8. CASE /\ test # NoTest /\ test.got \notin apart /\ Moved(There)
           /\ UNCHANGED <<run, test>>
  <2>1. PICK y \in Paths, m \in Nat : y = There /\ m = test.got
    BY <1>6, <1>8
  <2>2. Owns(y, m) /\ m \notin apart /\ Moved(y) /\ \A n : InHand(n) => InHand(n)'
    BY <1>0, <1>8, <2>1 DEF InHand
  <2>3. InHand(m)'
    BY <1>8, <2>1 DEF InHand
  <2>4. /\ Covered' /\ Numbered'
        /\ \A x \in Paths, n \in Nat : Owns(x, n) => Owns(x, n)'
    BY <1>0, <2>2, <2>3, MovedFiled
  <2>5. (run.at = "understanding" => Owns(Here, run.got))'
    <3>1. CASE run.at = "understanding"
      BY <1>0, <1>6, <1>8, <2>4, <3>1, RunKeeps
    <3>2. CASE run.at # "understanding"
      BY <1>8, <3>2
    <3> QED BY <3>1, <3>2
  <2>6. (test # NoTest => Owns(There, test.got))'
    BY <1>0, <1>6, <1>8, <2>4, TestKeeps
  <2> QED BY <1>0, <1>7, <1>8, <2>4, <2>5, <2>6
<1>9. CASE /\ test # NoTest /\ test' = NoTest /\ UNCHANGED run
           /\ LetsGo(There, test.got)
  <2>1. PICK y \in Paths, m \in Nat : y = There /\ m = test.got
    BY <1>6, <1>9
  <2>2. Owns(y, m) /\ LetsGo(y, m) /\ \A n \in Nat : InHand(n) /\ n # m => InHand(n)'
    BY <1>0, <1>9, <2>1 DEF InHand
  <2>3. /\ Covered' /\ Numbered'
        /\ \A x \in Paths, n \in Nat : n # m /\ Owns(x, n) => Owns(x, n)'
    BY <1>0, <2>2, LetGoFiled
  <2>4. (run.at = "understanding" => Owns(Here, run.got))'
    <3>1. CASE run.at = "understanding"
      BY <1>0, <1>6, <1>9, <2>1, <2>3, <3>1, RunKeeps
    <3>2. CASE run.at # "understanding"
      BY <1>9, <3>2
    <3> QED BY <3>1, <3>2
  <2> QED BY <1>7, <1>9, <2>3, <2>4
<1> QED BY <1>1, <1>2, <1>3, <1>4, <1>5, <1>8, <1>9 DEF Handles

LEMMA CrashFiled ==
    ASSUME Base, Filed, Crash
    PROVE  Filed'
<1>1. /\ run' = Free /\ test' = NoTest /\ timers' = {} /\ UNCHANGED <<made, file, apart>>
      /\ left' = OnDisk
  BY CrashForgets DEF Base
<1>2. Covered'
  BY <1>1 DEF Covered, Held, OnDisk
<1>3. Numbered'
  BY <1>1 DEF Filed, Numbered
<1> QED BY <1>1, <1>2, <1>3, FreeType DEF Filed

LEMMA BootFiled ==
    ASSUME Base, Filed, Boot
    PROVE  Filed'
<1>1. /\ ~alive /\ UNCHANGED <<run, test, made, timers, left, stray>> /\ Sweeps
  BY BootSweeps DEF Base
<1>2. /\ run.at = "free" /\ test = NoTest /\ made \in Nat /\ \A x \in Paths : file[x] \in Nat
      /\ Covered /\ Numbered
  BY <1>1 DEF Filed, Base, TypeOK
<1>3. Numbered'
  BY <1>1, <1>2 DEF Numbered, Sweeps
<1>4. Covered'
  BY <1>1, <1>2 DEF Covered, Held, InHand, Sweeps
<1> QED BY <1>1, <1>2, <1>3, <1>4 DEF Filed

LEMMA NextFiled ==
    ASSUME Base, Filed, [Next]_vars
    PROVE  Base' /\ Filed'
<1>1. TypeOK /\ Sited /\ Dealt
  BY DEF Base
<1>2. Base' /\ (Rests \/ Handles \/ Deals \/ Crash \/ Boot \/ UNCHANGED vars)
  BY NextBase
<1>3. CASE Rests
  BY <1>1, <1>2, <1>3, RestsFiled DEF Rests, Bare
<1>4. CASE Handles
  BY <1>1, <1>2, <1>4, HandlesFiled
<1>5. CASE Deals
  <2>1. UNCHANGED <<alive, test, media>> /\ run.at # "understanding" /\ run'.at # "understanding"
    BY <1>5 DEF Deals
  <2>2. run.at # "free"
    BY <1>5 DEF Deals, Approves, Drops, CallsOut, Records, Forgets
  <2> QED BY <1>1, <1>2, <2>1, <2>2, RestsFiled DEF Filed
<1>6. CASE Crash
  BY <1>2, <1>6, CrashFiled
<1>7. CASE Boot
  BY <1>2, <1>7, BootFiled
<1>8. CASE UNCHANGED vars
  BY <1>1, <1>2, <1>8, RestsFiled DEF vars
<1> QED BY <1>2, <1>3, <1>4, <1>5, <1>6, <1>7, <1>8

LEMMA InitFiled == Init => Filed
<1> SUFFICES ASSUME Init PROVE Filed
  OBVIOUS
<1>1. /\ made = 0 /\ file = [x \in Paths |-> 0] /\ timers = {} /\ apart = {} /\ alive
      /\ run.at = "free" /\ test = NoTest
  BY FreeType DEF Init
<1> QED BY <1>1 DEF Filed, Covered, Numbered

LEMMA FiledAlways == Spec => [](Base /\ Filed)
<1>1. Init => Base /\ Filed
  BY InitBase, InitFiled
<1>2. Base /\ Filed /\ [Next]_vars => (Base /\ Filed)'
  BY NextFiled
<1> QED BY <1>1, <1>2, PTL DEF Spec

\* The file a run analyses is the one it downloaded, whatever timers, tests
\* and replies do meanwhile: each timer compares the download it saw
\* (scheduler_watch_video.py:132-152, cleanup.py:54-75).
THEOREM FileStaysAlways == Spec => []FileStays
<1>1. Base /\ Filed => FileStays
  BY DEF Filed, Owns, FileStays
<1> QED BY <1>1, FiledAlways, PTL

\* No download is forgotten: whoever stops using one removes it or sets a
\* timer on it, and what a dead process leaves is swept by a later start; but
\* for the video of a mention or a test whose analysis raised and for what
\* could not be removed, which only a later start finds
\* (scheduler_proactive_video.py:618-643, scheduler_watch_video.py:192,
\* cleanup.py:36, 89, 115-160).
THEOREM FileGoesAlways == Spec => []FileGoes
<1>1. Base /\ Filed => FileGoes
  BY DEF Filed, Covered, Held, InHand, FileGoes, InUse
<1> QED BY <1>1, FiledAlways, PTL

-----------------------------------------------------------------------------
(* The budgets.                                                            *)

LEMMA PlacesPlus ==
    ASSUME NEW c \in [Videos -> Nat], NEW v \in Videos, NEW n \in {0, 1},
           IsFiniteSet(Places(c))
    PROVE  /\ IsFiniteSet(Places([c EXCEPT ![v] = @ + n]))
           /\ Total(c) \in Nat
           /\ Total([c EXCEPT ![v] = @ + n]) = Total(c) + n
<1> DEFINE d == [c EXCEPT ![v] = @ + n]
           x == <<v, c[v] + 1>>
<1>0. Total(c) \in Nat
  BY FS_CardinalityType DEF Total
<1>1. CASE n = 0
  <2>1. d = c
    BY <1>1
  <2> HIDE DEF d
  <2>2. Places(d) = Places(c) /\ Total(d) = Total(c) + n
    BY <1>0, <1>1, <2>1
  <2> QED BY <1>0, <2>2 DEF d
<1>2. CASE n = 1
  <2>1. \A w \in Videos, k \in Nat : <<w, k>> \in Places(c) <=> k \in 1 .. c[w]
    BY DEF Places
  <2>2. x \notin Places(c)
    BY <2>1
  <2>3. \A w \in Videos : d[w] = IF w = v THEN c[w] + 1 ELSE c[w]
    BY <1>2
  <2>4. d \in [Videos -> Nat]
    BY <1>2
  <2> HIDE DEF d
  <2>5. Places(d) = Places(c) \cup {x}
    <3>1. \A w \in Videos : {w} \X (1 .. d[w])
            = IF w = v THEN ({w} \X (1 .. c[w])) \cup {x} ELSE {w} \X (1 .. c[w])
      <4>1. ASSUME NEW w \in Videos, w # v
            PROVE  d[w] = c[w]
        BY <2>3, <4>1
      <4>2. 1 .. d[v] = (1 .. c[v]) \cup {c[v] + 1}
        BY <2>3
      <4>3. {v} \X (1 .. d[v]) = ({v} \X (1 .. c[v])) \cup {x}
        BY <4>2
      <4> QED BY <4>1, <4>3
    <3>2. ASSUME NEW p \in Places(d)
          PROVE  p \in Places(c) \cup {x}
      BY <3>1 DEF Places
    <3>3. ASSUME NEW p \in Places(c) \cup {x}
          PROVE  p \in Places(d)
      BY <2>3, <3>1 DEF Places
    <3> QED BY <3>2, <3>3
  <2>6. IsFiniteSet(Places(d)) /\ Cardinality(Places(d)) = Cardinality(Places(c)) + 1
    BY <2>2, <2>5, FS_AddElement
  <2> QED BY <1>0, <1>2, <2>6 DEF Total, d
<1> QED BY <1>1, <1>2

LEMMA PlacesNone ==
    ASSUME NEW c \in [Videos -> {0}]
    PROVE  IsFiniteSet(Places(c)) /\ Total(c) = 0
<1>1. Places(c) = {}
  BY DEF Places
<1> QED BY <1>1, FS_EmptySet DEF Total

\* What the platform accepted and nobody has yet written down or forgotten
Open(a, v) == One(run.took /\ run.act = a /\ run.v = v)
OpenOf(a) == One(run.took /\ run.act = a)

\* Each acceptance is a success of the day, a vague one, one forgotten, or the
\* open call.
DayBalanced(a) ==
    /\ IsFiniteSet(Places(taken[a])) /\ IsFiniteSet(Places(unrecorded[a]))
    /\ Total(taken[a]) = spent[a] + vague[a] + Total(unrecorded[a]) + OpenOf(a)
    /\ spent[a] <= MaxPerDay

VideoBalanced(a, v) ==
    /\ taken[a][v] <= log[a][v] + unrecorded[a][v] + Open(a, v)
    /\ log[a][v] <= MaxPerVideo

\* The decision made before the first call still holds at the last one,
\* because only the run that has the lock adds to a count.
StillApproved ==
    /\ run.at \in {"acting", "recording"} => \A a \in run.plan : Approved(a, run.v)
    /\ run.at = "recording" => Approved(run.act, run.v) /\ run.act \notin run.plan

Balanced ==
    /\ \A a \in Actions : DayBalanced(a)
    /\ \A a \in Actions, v \in Videos : VideoBalanced(a, v)
    /\ StillApproved

LEMMA InitBalanced == Init => Balanced
<1> SUFFICES ASSUME Init PROVE Balanced
  OBVIOUS
<1>1. /\ taken = Count /\ log = Count /\ unrecorded = Count
      /\ spent = [a \in Actions |-> 0] /\ vague = [a \in Actions |-> 0]
      /\ run.at = "free" /\ ~run.took
  BY FreeType DEF Init
<1>2. MaxPerDay \in Nat /\ MaxPerVideo \in Nat
  BY WatchAssumption
<1>3. ASSUME NEW a \in Actions
      PROVE  DayBalanced(a)
  <2> DEFINE c == [v \in Videos |-> 0]
  <2>1. c \in [Videos -> {0}] /\ taken[a] = c /\ unrecorded[a] = c
    BY <1>1 DEF Count
  <2> HIDE DEF c
  <2>2. IsFiniteSet(Places(c)) /\ Total(c) = 0
    BY <2>1, PlacesNone
  <2> QED BY <1>1, <1>2, <2>1, <2>2 DEF DayBalanced, OpenOf, One
<1>4. ASSUME NEW a \in Actions, NEW v \in Videos
      PROVE  VideoBalanced(a, v)
  BY <1>1, <1>2 DEF VideoBalanced, Open, One, Count
<1> QED BY <1>1, <1>3, <1>4 DEF Balanced, StillApproved

\* With nothing open before and after, unchanged counts stay balanced.
LEMMA KeepsCounts ==
    ASSUME Balanced, UNCHANGED policy,
           run' = run \/ (~run.took /\ ~run'.took)
    PROVE  /\ \A a \in Actions : DayBalanced(a)'
           /\ \A a \in Actions, v \in Videos : VideoBalanced(a, v)'
<1>1. UNCHANGED <<log, spent, taken, vague, unrecorded>>
  BY DEF policy
<1>2. \A a, v : Open(a, v)' = Open(a, v) /\ OpenOf(a)' = OpenOf(a)
  BY DEF Open, OpenOf, One
<1>3. ASSUME NEW a \in Actions
      PROVE  DayBalanced(a)'
  <2>1. DayBalanced(a)
    BY DEF Balanced
  <2> QED BY <1>1, <1>2, <2>1 DEF DayBalanced
<1>4. ASSUME NEW a \in Actions, NEW v \in Videos
      PROVE  VideoBalanced(a, v)'
  <2>1. VideoBalanced(a, v)
    BY DEF Balanced
  <2> QED BY <1>1, <1>2, <2>1 DEF VideoBalanced
<1> QED BY <1>3, <1>4

LEMMA RestsBalanced ==
    ASSUME Base, Base', Balanced, UNCHANGED policy,
           \/ run' = run
           \/ run.at # "recording" /\ run'.at \notin {"acting", "recording"}
    PROVE  Balanced'
<1>1. UNCHANGED <<log, spent>>
  BY DEF policy
<1>2. run' = run \/ (~run.took /\ ~run'.took)
  BY DEF Base, Sited
<1>3. StillApproved'
  <2>1. CASE run' = run
    BY <1>1, <2>1 DEF Balanced, StillApproved, Approved, UnderBudget
  <2>2. CASE run'.at \notin {"acting", "recording"}
    BY <2>2 DEF StillApproved
  <2> QED BY <2>1, <2>2
<1> QED BY <1>2, <1>3, KeepsCounts DEF Balanced

LEMMA ApprovesBalanced ==
    ASSUME Base, Base', Balanced, Approves \/ Drops
    PROVE  Balanced'
<1>1. UNCHANGED policy /\ UNCHANGED <<log, spent>> /\ run'.at = "acting" /\ run'.v = run.v
  BY DEF Approves, Drops, policy
<1>2. ~run.took /\ ~run'.took
  BY DEF Base, Sited, Approves, Drops
<1>3. \A a \in run'.plan : Approved(a, run.v)
  <2>1. CASE Approves
    BY <2>1 DEF Approves, Plans
  <2>2. CASE Drops
    BY <2>2 DEF Drops, Balanced, StillApproved
  <2> QED BY <2>1, <2>2
<1>4. \A a \in run'.plan : Approved(a, run.v)'
  BY <1>1, <1>3 DEF Approved, UnderBudget
<1>5. StillApproved'
  BY <1>1, <1>4 DEF StillApproved
<1> QED BY <1>1, <1>2, <1>5, KeepsCounts DEF Balanced

LEMMA CallsBalanced ==
    ASSUME Base, Base', Balanced, CallsOut
    PROVE  Balanced'
<1> DEFINE b == run'.act
           n == One(run'.took)
<1>1. /\ run.at = "acting" /\ run'.at = "recording" /\ run'.v = run.v
      /\ b \in run.plan /\ run'.plan = run.plan \ {b}
      /\ taken' = Plus(taken, b, run.v, n)
      /\ UNCHANGED <<log, spent, vague, unrecorded>>
  BY DEF CallsOut
<1>2. /\ taken \in CountType /\ log \in CountType /\ unrecorded \in CountType
      /\ spent \in [Actions -> Nat] /\ vague \in [Actions -> Nat]
      /\ b \in Actions /\ run.v \in Videos /\ ~run.took
  BY <1>1 DEF Base, TypeOK, RunType, Sited
<1>3. n \in {0, 1} /\ n \in Nat
  BY DEF One
<1>4. \A a, v : /\ Open(a, v)' = IF a = b /\ v = run.v THEN n ELSE 0
                /\ OpenOf(a)' = IF a = b THEN n ELSE 0
                /\ Open(a, v) = 0 /\ OpenOf(a) = 0
  BY <1>1, <1>2 DEF Open, OpenOf, One
<1> HIDE DEF b, n
<1>5. /\ \A a \in Actions, w \in Videos :
            taken'[a][w] = taken[a][w] + (IF a = b /\ w = run.v THEN n ELSE 0)
      /\ \A a \in Actions : a # b => taken'[a] = taken[a]
      /\ taken'[b] = [taken[b] EXCEPT ![run.v] = @ + n]
  BY <1>1, <1>2, <1>3, CountsType, CountsAt, CountsOf
<1>6. ASSUME NEW a \in Actions
      PROVE  DayBalanced(a)'
  <2>1. /\ IsFiniteSet(Places(taken[a])) /\ IsFiniteSet(Places(unrecorded[a]))
        /\ Total(taken[a]) = spent[a] + vague[a] + Total(unrecorded[a])
        /\ spent[a] <= MaxPerDay
    <3>1. DayBalanced(a) /\ OpenOf(a) = 0 /\ spent[a] \in Nat /\ vague[a] \in Nat
      BY <1>2, <1>4 DEF Balanced
    <3>2. Total(unrecorded[a]) \in Nat
      BY <3>1, FS_CardinalityType DEF DayBalanced, Total
    <3> QED BY <3>1, <3>2 DEF DayBalanced
  <2>2. /\ IsFiniteSet(Places(taken'[a]))
        /\ Total(taken'[a]) = Total(taken[a]) + OpenOf(a)'
    <3>0. taken[a] \in [Videos -> Nat] /\ Total(taken[a]) \in Nat
      BY <1>2, <2>1, FS_CardinalityType DEF CountType, Total
    <3>1. CASE a = b
      BY <1>2, <1>3, <1>4, <1>5, <2>1, <3>0, <3>1, PlacesPlus
    <3>2. CASE a # b
      <4>1. taken'[a] = taken[a] /\ OpenOf(a)' = 0
        BY <1>4, <1>5, <3>2
      <4> QED BY <2>1, <3>0, <4>1
    <3> QED BY <3>1, <3>2
  <2>3. unrecorded'[a] = unrecorded[a] /\ spent'[a] = spent[a] /\ vague'[a] = vague[a]
    BY <1>1
  <2> QED BY <2>1, <2>2, <2>3 DEF DayBalanced
<1>7. ASSUME NEW a \in Actions, NEW v \in Videos
      PROVE  VideoBalanced(a, v)'
  <2>1. VideoBalanced(a, v) /\ Open(a, v) = 0
    BY <1>4 DEF Balanced
  <2>2. taken[a][v] \in Nat /\ log[a][v] \in Nat /\ unrecorded[a][v] \in Nat
    BY <1>2 DEF CountType
  <2>3. taken'[a][v] = taken[a][v] + Open(a, v)'
    BY <1>4, <1>5
  <2>4. Open(a, v)' \in Nat
    BY <1>3, <1>4
  <2> QED BY <1>1, <2>1, <2>2, <2>3, <2>4 DEF VideoBalanced
<1>8. StillApproved'
  <2>1. \A a \in run.plan : Approved(a, run.v)
    BY <1>1 DEF Balanced, StillApproved
  <2>2. \A a \in run.plan : Approved(a, run.v)'
    BY <1>1, <2>1 DEF Approved, UnderBudget
  <2> QED BY <1>1, <2>2 DEF StillApproved, b
<1> QED BY <1>6, <1>7, <1>8 DEF Balanced

LEMMA RecordsBalanced ==
    ASSUME Base, Base', Balanced, Records
    PROVE  Balanced'
<1> DEFINE b == run.act
           n == One(Counts(run.result))
           s == One(run.result = "success")
           u == One(run.result # "success" /\ run.took)
           o == One(run.took)
<1>1. /\ run.at = "recording" /\ run'.at \in {"free", "acting"}
      /\ run'.at = "acting" => run'.v = run.v /\ run'.plan = run.plan
      /\ log' = Plus(log, b, run.v, n)
      /\ spent' = [spent EXCEPT ![b] = @ + s]
      /\ vague' = [vague EXCEPT ![b] = @ + u]
      /\ UNCHANGED <<taken, unrecorded>>
  BY DEF Records
<1>2. /\ taken \in CountType /\ log \in CountType /\ unrecorded \in CountType
      /\ spent \in [Actions -> Nat] /\ vague \in [Actions -> Nat]
      /\ b \in Actions /\ run.v \in Videos /\ ~run'.took
  BY <1>1 DEF Base, TypeOK, RunType, Sited, Dealt
<1>3. <<run.result, run.took>> \in Outcomes
  BY <1>1 DEF Base, Dealt
<1>4. n \in {0, 1} /\ s \in {0, 1} /\ u \in {0, 1} /\ o = s + u /\ o <= n /\ o \in {0, 1}
  <2>1. run.took \in BOOLEAN /\ run.result \in Results
    BY <1>3 DEF Outcomes
  <2>2. (run.result = "success" => run.took) /\ (run.result = "failed" => ~run.took)
    BY <1>3 DEF Outcomes
  <2>3. CASE run.result = "success"
    BY <2>2, <2>3 DEF One, Counts
  <2>4. CASE run.result = "result_unknown"
    BY <2>1, <2>4 DEF One, Counts
  <2>5. CASE run.result = "failed"
    BY <2>2, <2>5 DEF One, Counts
  <2> QED BY <2>1, <2>3, <2>4, <2>5 DEF Results
<1>5. \A a, v : /\ Open(a, v) = IF a = b /\ v = run.v THEN o ELSE 0
                /\ OpenOf(a) = IF a = b THEN o ELSE 0
                /\ Open(a, v)' = 0 /\ OpenOf(a)' = 0
  BY <1>2 DEF Open, OpenOf, One
<1> HIDE DEF b, n, s, u, o
<1>6. \A a \in Actions, w \in Videos :
        log'[a][w] = log[a][w] + (IF a = b /\ w = run.v THEN n ELSE 0)
  <2>1. n \in Nat
    BY <1>4
  <2>2. \A a \in Actions, w \in Videos :
          Plus(log, b, run.v, n)[a][w] = log[a][w] + (IF a = b /\ w = run.v THEN n ELSE 0)
    BY <1>2, <2>1, CountsAt
  <2> QED BY <1>1, <2>2
<1>7. \A a \in Actions : /\ spent'[a] = IF a = b THEN spent[a] + s ELSE spent[a]
                         /\ vague'[a] = IF a = b THEN vague[a] + u ELSE vague[a]
  BY <1>1, <1>2
<1>8. Approved(b, run.v) /\ b \notin run.plan
  BY <1>1 DEF Balanced, StillApproved, b
<1>9. MaxPerDay \in Nat /\ MaxPerVideo \in Nat
  BY WatchAssumption
<1>10. ASSUME NEW a \in Actions
       PROVE  DayBalanced(a)'
  <2>1. DayBalanced(a) /\ spent[a] \in Nat /\ vague[a] \in Nat
    BY <1>2 DEF Balanced
  <2>2. Total(unrecorded[a]) \in Nat
    BY <2>1, FS_CardinalityType DEF DayBalanced, Total
  <2>3. taken'[a] = taken[a] /\ unrecorded'[a] = unrecorded[a]
    BY <1>1
  <2>4. CASE a = b
    <3>1. spent[a] < MaxPerDay
      BY <1>8, <2>4 DEF Approved, UnderBudget
    <3>2. /\ spent'[a] = spent[a] + s /\ vague'[a] = vague[a] + u
          /\ OpenOf(a) = o /\ OpenOf(a)' = 0
      BY <1>5, <1>7, <2>4
    <3>3. Total(taken'[a]) = spent'[a] + vague'[a] + Total(unrecorded'[a]) + OpenOf(a)'
      <4>1. Total(taken[a]) = spent[a] + vague[a] + Total(unrecorded[a]) + o
        BY <2>1, <3>2 DEF DayBalanced
      <4> QED BY <1>4, <2>1, <2>2, <2>3, <3>2, <4>1
    <3>4. spent'[a] <= MaxPerDay
      BY <1>4, <1>9, <2>1, <3>1, <3>2
    <3> QED BY <2>1, <2>3, <3>3, <3>4 DEF DayBalanced
  <2>5. CASE a # b
    <3>1. /\ spent'[a] = spent[a] /\ vague'[a] = vague[a]
          /\ OpenOf(a) = 0 /\ OpenOf(a)' = 0
      BY <1>5, <1>7, <2>5
    <3> QED BY <2>1, <2>3, <3>1 DEF DayBalanced
  <2> QED BY <2>4, <2>5
<1>11. ASSUME NEW a \in Actions, NEW v \in Videos
       PROVE  VideoBalanced(a, v)'
  <2>1. VideoBalanced(a, v)
    BY DEF Balanced
  <2>2. taken[a][v] \in Nat /\ log[a][v] \in Nat /\ unrecorded[a][v] \in Nat
    BY <1>2 DEF CountType
  <2>3. CASE a = b /\ v = run.v
    <3>1. log[a][v] < MaxPerVideo
      BY <1>8, <2>3 DEF Approved
    <3>2. log'[a][v] = log[a][v] + n /\ Open(a, v) = o /\ Open(a, v)' = 0
      BY <1>5, <1>6, <2>3
    <3>3. taken'[a][v] = taken[a][v] /\ unrecorded'[a][v] = unrecorded[a][v]
      BY <1>1
    <3>4. /\ taken[a][v] <= log[a][v] + unrecorded[a][v] + o
          /\ log[a][v] <= MaxPerVideo
      BY <2>1, <3>2 DEF VideoBalanced
    <3>5. /\ taken'[a][v] <= log'[a][v] + unrecorded'[a][v] + Open(a, v)'
          /\ log'[a][v] <= MaxPerVideo
      BY <1>4, <1>9, <2>2, <3>1, <3>2, <3>3, <3>4
    <3> QED BY <3>5 DEF VideoBalanced
  <2>4. CASE ~(a = b /\ v = run.v)
    <3>1. log'[a][v] = log[a][v] /\ Open(a, v) = 0 /\ Open(a, v)' = 0
      BY <1>5, <1>6, <2>2, <2>4
    <3> QED BY <1>1, <2>1, <3>1 DEF VideoBalanced
  <2> QED BY <2>3, <2>4
<1>12. StillApproved'
  <2>1. CASE run'.at = "free"
    BY <2>1 DEF StillApproved
  <2>2. CASE run'.at = "acting"
    <3>1. run'.v = run.v /\ run'.plan = run.plan /\ run.plan \subseteq Actions
      BY <1>1, <2>2 DEF Base, TypeOK, RunType
    <3>2. ASSUME NEW a \in run.plan
          PROVE  Approved(a, run.v)'
      <4>1. a \in Actions /\ a # b /\ Approved(a, run.v)
        BY <1>1, <1>8, <3>1 DEF Balanced, StillApproved
      <4>2. spent'[a] = spent[a] /\ log'[a][run.v] = log[a][run.v]
        <5>1. log[a][run.v] \in Nat
          BY <1>2, <4>1 DEF CountType
        <5> QED BY <1>2, <1>6, <1>7, <4>1, <5>1
      <4> QED BY <3>1, <4>1, <4>2 DEF Approved, UnderBudget
    <3> QED BY <2>2, <3>1, <3>2 DEF StillApproved, Approved
  <2> QED BY <1>1, <2>1, <2>2
<1> QED BY <1>10, <1>11, <1>12 DEF Balanced

LEMMA ForgetsBalanced ==
    ASSUME Base, Balanced, Forgets
    PROVE  Balanced'
<1> DEFINE b == run.act
           o == One(run.took)
<1>1. /\ run'.at = "free" /\ ~run'.took
      /\ UNCHANGED <<log, spent, vague, taken>>
  BY DEF Forgets
<1>2. /\ taken \in CountType /\ log \in CountType /\ unrecorded \in CountType
      /\ spent \in [Actions -> Nat] /\ vague \in [Actions -> Nat]
      /\ run.took => b \in Actions /\ run.v \in Videos
  BY DEF Base, TypeOK, Sited, Dealt
<1>3. o \in {0, 1} /\ (o = 1 <=> run.took)
  BY DEF One
<1>4. \A a, v : /\ Open(a, v) = IF a = b /\ v = run.v THEN o ELSE 0
                /\ OpenOf(a) = IF a = b THEN o ELSE 0
                /\ Open(a, v)' = 0 /\ OpenOf(a)' = 0
  BY <1>1 DEF Open, OpenOf, One
<1>5. IF run.took THEN unrecorded' = Plus(unrecorded, b, run.v, 1)
                  ELSE unrecorded' = unrecorded
  BY DEF Forgets, Forget, Plus
<1> HIDE DEF b, o
<1>6. \A a \in Actions, w \in Videos :
        unrecorded'[a][w] = unrecorded[a][w] + (IF a = b /\ w = run.v THEN o ELSE 0)
  <2>1. \A a \in Actions, w \in Videos : unrecorded[a][w] \in Nat
    BY <1>2 DEF CountType
  <2>2. CASE run.took
    <3>1. o = 1 /\ unrecorded' = Plus(unrecorded, b, run.v, 1) /\ b \in Actions /\ run.v \in Videos
      BY <1>2, <1>3, <1>5, <2>2
    <3>2. \A a \in Actions, w \in Videos :
            Plus(unrecorded, b, run.v, 1)[a][w]
              = unrecorded[a][w] + (IF a = b /\ w = run.v THEN 1 ELSE 0)
      BY <1>2, <3>1, CountsAt
    <3> QED BY <3>1, <3>2
  <2>3. CASE ~run.took
    BY <1>3, <1>5, <2>1, <2>3
  <2> QED BY <2>2, <2>3
<1>7. ASSUME NEW a \in Actions
      PROVE  DayBalanced(a)'
  <2>1. DayBalanced(a) /\ spent[a] \in Nat /\ vague[a] \in Nat
    BY <1>2 DEF Balanced
  <2>2. Total(unrecorded[a]) \in Nat
    BY <2>1, FS_CardinalityType DEF DayBalanced, Total
  <2>3. /\ IsFiniteSet(Places(unrecorded'[a]))
        /\ Total(unrecorded'[a]) = Total(unrecorded[a]) + OpenOf(a)
    <3>1. CASE run.took /\ a = b
      <4>1. unrecorded'[a] = [unrecorded[a] EXCEPT ![run.v] = @ + 1]
        <5>1. unrecorded' = Plus(unrecorded, a, run.v, 1) /\ run.v \in Videos
          BY <1>2, <1>5, <3>1
        <5>2. Plus(unrecorded, a, run.v, 1)[a] = [unrecorded[a] EXCEPT ![run.v] = @ + 1]
          BY <1>2, <5>1, CountsType
        <5> QED BY <5>1, <5>2
      <4>2. unrecorded[a] \in [Videos -> Nat] /\ run.v \in Videos /\ OpenOf(a) = 1
        BY <1>2, <1>3, <1>4, <3>1 DEF CountType
      <4> QED BY <2>1, <4>1, <4>2, PlacesPlus DEF DayBalanced
    <3>2. CASE ~(run.took /\ a = b)
      <4>1. unrecorded'[a] = unrecorded[a] /\ OpenOf(a) = 0
        <5>1. CASE run.took
          <6>1. /\ a # b /\ unrecorded' = Plus(unrecorded, b, run.v, 1)
                /\ b \in Actions /\ run.v \in Videos
            BY <1>2, <1>5, <3>2, <5>1
          <6>2. Plus(unrecorded, b, run.v, 1)[a] = unrecorded[a]
            BY <1>2, <6>1, CountsOf
          <6> QED BY <1>4, <6>1, <6>2
        <5>2. CASE ~run.took
          BY <1>3, <1>4, <1>5, <5>2
        <5> QED BY <5>1, <5>2
      <4> QED BY <2>1, <2>2, <4>1 DEF DayBalanced
    <3> QED BY <3>1, <3>2
  <2>4. OpenOf(a) \in Nat /\ OpenOf(a)' = 0
    BY <1>3, <1>4
  <2>5. taken'[a] = taken[a] /\ spent'[a] = spent[a] /\ vague'[a] = vague[a]
    BY <1>1
  <2>6. Total(taken'[a]) = spent'[a] + vague'[a] + Total(unrecorded'[a]) + OpenOf(a)'
    <3>1. Total(taken[a]) = spent[a] + vague[a] + Total(unrecorded[a]) + OpenOf(a)
      BY <2>1 DEF DayBalanced
    <3> QED BY <2>1, <2>2, <2>3, <2>4, <2>5, <3>1
  <2> QED BY <2>1, <2>3, <2>5, <2>6 DEF DayBalanced
<1>8. ASSUME NEW a \in Actions, NEW v \in Videos
      PROVE  VideoBalanced(a, v)'
  <2>1. VideoBalanced(a, v)
    BY DEF Balanced
  <2>2. taken[a][v] \in Nat /\ log[a][v] \in Nat /\ unrecorded[a][v] \in Nat
    BY <1>2 DEF CountType
  <2>3. unrecorded'[a][v] = unrecorded[a][v] + Open(a, v)
    BY <1>4, <1>6
  <2>4. Open(a, v) \in Nat /\ Open(a, v)' = 0
    BY <1>3, <1>4
  <2>5. taken'[a][v] = taken[a][v] /\ log'[a][v] = log[a][v]
    BY <1>1
  <2> QED BY <2>1, <2>2, <2>3, <2>4, <2>5 DEF VideoBalanced
<1>9. StillApproved'
  BY <1>1 DEF StillApproved
<1> QED BY <1>7, <1>8, <1>9 DEF Balanced

LEMMA NextBalanced ==
    ASSUME Base, Balanced, [Next]_vars
    PROVE  Base' /\ Balanced'
<1>1. Base' /\ (Rests \/ Handles \/ Deals \/ Crash \/ Boot \/ UNCHANGED vars)
  BY NextBase
<1>2. CASE Rests
  <2>1. /\ UNCHANGED policy
        /\ \/ run' = run
           \/ run.at # "recording" /\ run'.at \notin {"acting", "recording"}
    BY <1>2 DEF Rests, Bare, policy
  <2> QED BY <1>1, <2>1, RestsBalanced
<1>3. CASE Handles
  <2>1. /\ UNCHANGED policy
        /\ \/ run' = run
           \/ run.at # "recording" /\ run'.at \notin {"acting", "recording"}
    BY <1>3 DEF Handles, LeavesFile, Bare, policy
  <2> QED BY <1>1, <2>1, RestsBalanced
<1>4. CASE Deals
  <2>1. CASE Approves \/ Drops
    BY <1>1, <2>1, ApprovesBalanced
  <2>2. CASE CallsOut
    BY <1>1, <2>2, CallsBalanced
  <2>3. CASE Records
    BY <1>1, <2>3, RecordsBalanced
  <2>4. CASE Forgets
    BY <1>1, <2>4, ForgetsBalanced
  <2> QED BY <1>4, <2>1, <2>2, <2>3, <2>4 DEF Deals
<1>5. CASE Crash
  BY <1>1, <1>5, CrashForgets, ForgetsBalanced DEF Base
<1>6. CASE Boot
  BY <1>1, <1>6, BootSweeps, RestsBalanced DEF Base
<1>7. CASE UNCHANGED vars
  BY <1>1, <1>7, RestsBalanced DEF vars
<1> QED BY <1>1, <1>2, <1>3, <1>4, <1>5, <1>6, <1>7

LEMMA BalancedHolds ==
    ASSUME Base, Balanced
    PROVE  BudgetsHold
<1>0. /\ taken \in CountType /\ log \in CountType /\ unrecorded \in CountType
      /\ spent \in [Actions -> Nat] /\ vague \in [Actions -> Nat]
      /\ MaxPerDay \in Nat /\ MaxPerVideo \in Nat
  BY WatchAssumption DEF Base, TypeOK
<1>1. ASSUME run.took
      PROVE  Approved(run.act, run.v)
  BY <1>1 DEF Base, Sited, Balanced, StillApproved
<1>2. ASSUME NEW a \in Actions, NEW v \in Videos
      PROVE  taken[a][v] <= MaxPerVideo + unrecorded[a][v]
  <2>1. VideoBalanced(a, v)
    BY DEF Balanced
  <2>2. taken[a][v] \in Nat /\ log[a][v] \in Nat /\ unrecorded[a][v] \in Nat
    BY <1>0 DEF CountType
  <2>3. CASE Open(a, v) = 0
    BY <1>0, <2>1, <2>2, <2>3 DEF VideoBalanced
  <2>4. CASE Open(a, v) # 0
    <3>1. Open(a, v) = 1 /\ run.took /\ run.act = a /\ run.v = v
      BY <2>4 DEF Open, One
    <3>2. log[a][v] < MaxPerVideo
      BY <1>1, <3>1 DEF Approved
    <3> QED BY <1>0, <2>1, <2>2, <3>1, <3>2 DEF VideoBalanced
  <2> QED BY <2>3, <2>4
<1>3. ASSUME NEW a \in Actions
      PROVE  Total(taken[a]) <= MaxPerDay + vague[a] + Total(unrecorded[a])
  <2>1. DayBalanced(a) /\ spent[a] \in Nat /\ vague[a] \in Nat
    BY <1>0 DEF Balanced
  <2>2. Total(unrecorded[a]) \in Nat
    BY <2>1, FS_CardinalityType DEF DayBalanced, Total
  <2>3. CASE OpenOf(a) = 0
    BY <1>0, <2>1, <2>2, <2>3 DEF DayBalanced
  <2>4. CASE OpenOf(a) # 0
    <3>1. OpenOf(a) = 1 /\ run.took /\ run.act = a
      BY <2>4 DEF OpenOf, One
    <3>2. spent[a] < MaxPerDay
      BY <1>1, <3>1 DEF Approved, UnderBudget
    <3> QED BY <1>0, <2>1, <2>2, <3>1, <3>2 DEF DayBalanced
  <2> QED BY <2>3, <2>4
<1> QED BY <1>2, <1>3 DEF BudgetsHold, OncePerVideo, DayBudget

\* No video gets more coins and no day more of them than configured, but for
\* answers that were vague or could not be written down: the run that has the
\* lock is the only one that adds to what it decided on
\* (interaction_policy.py:155-175, 249-275, scheduler_proactive_video.py:
\* 1016-1120).
THEOREM BudgetsHoldAlways == Spec => []BudgetsHold
<1>1. Init => Base /\ Balanced
  BY InitBase, InitBalanced
<1>2. Base /\ Balanced /\ [Next]_vars => (Base /\ Balanced)'
  BY NextBalanced
<1>3. Base /\ Balanced => BudgetsHold
  BY BalancedHolds
<1> QED BY <1>1, <1>2, <1>3, PTL DEF Spec

-----------------------------------------------------------------------------
(* The companion's activities.                                             *)

\* Nothing is forgotten: an activity leaves the registry when it is closed,
\* and a new event closes its activity or belongs to a known one.
Registers ==
    /\ acts \subseteq acts' /\ lost \subseteq lost'
    /\ \A k \in open : k \in open' \cup lost' \/ Life!Closed(k)'
    /\ \A a \in acts' \ acts : Life!Closed(a[1])' \/ a[1] \in open' \cup lost'

LEMMA KnownStays ==
    ASSUME OpenIsKnown, Registers
    PROVE  OpenIsKnown'
<1> SUFFICES ASSUME NEW a \in acts'
             PROVE  Life!Closed(a[1])' \/ a[1] \in open' \cup lost'
  BY DEF OpenIsKnown, Life!OpenIsKnown
<1>1. CASE a \in acts
  <2>1. CASE Life!Closed(a[1])
    BY <2>1 DEF Registers, Life!Closed
  <2>2. CASE a[1] \in open \cup lost
    BY <2>2 DEF Registers
  <2> QED BY <1>1, <2>1, <2>2 DEF OpenIsKnown, Life!OpenIsKnown
<1>2. CASE a \notin acts
  BY <1>2 DEF Registers
<1> QED BY <1>1, <1>2

\* An activity that is closed, with whatever that does to the registry.
LEMMA ClosingRegisters ==
    ASSUME NEW k, NEW s \in {"completed", "failed"}, acts' = acts \cup {<<k, s>>},
           open' = open \ {k}, UNCHANGED lost
    PROVE  Registers
<1>1. Life!Closed(k)'
  BY DEF Life!Closed
<1>2. \A a \in acts' \ acts : a = <<k, s>>
  OBVIOUS
<1> QED BY <1>1, <1>2 DEF Registers

LEMMA QuietRegisters ==
    ASSUME UNCHANGED <<acts, lost>>, open \subseteq open'
    PROVE  Registers
BY DEF Registers

LEMMA OpensRegisters ==
    ASSUME NEW w, NEW todo, NEW me, Life!Opens(w, todo, me)
    PROVE  Registers
<1> DEFINE k == Life!KeyOf(w, Head(todo), me.book)
<1>1. CASE acts' = acts \cup {<<k, "intent">>} /\ open' = open \cup {k} /\ UNCHANGED lost
  <2> HIDE DEF k
  <2>1. \A a \in acts' \ acts : a[1] = k
    BY <1>1
  <2> QED BY <1>1, <2>1 DEF Registers
<1>2. ASSUME NEW committed \in SUBSET {k}, acts' = acts \cup (committed \X {"intent"}),
             lost' = lost \cup committed, UNCHANGED open
      PROVE  Registers
  <2> HIDE DEF k
  <2>1. \A a \in acts' \ acts : a[1] \in committed
    BY <1>2
  <2> QED BY <1>2, <2>1 DEF Registers
<1> QED BY <1>1, <1>2 DEF Life!Opens

LEMMA WorkRegisters ==
    ASSUME NEW w \in Life!Workers, Life!Work(w)
    PROVE  Registers
<1>1. CASE Life!Done(w) \/ Life!Shelve(w) \/ Life!Archive(w) \/ Life!Keep(w)
  BY <1>1, QuietRegisters DEF Life!Done, Life!Shelve, Life!Archive, Life!Keep
<1>2. CASE Life!Begin(w)
  BY <1>2, OpensRegisters DEF Life!Begin
<1>3. CASE Life!Follow(w)
  BY <1>3, OpensRegisters DEF Life!Follow
<1>4. CASE Life!TooShort(w)
  BY <1>4, ClosingRegisters, QuietRegisters DEF Life!TooShort
<1>5. CASE Life!Fail(w)
  BY <1>5, ClosingRegisters, QuietRegisters DEF Life!Fail
<1>6. CASE Life!Close(w)
  BY <1>6, ClosingRegisters, QuietRegisters DEF Life!Close
<1> QED BY <1>1, <1>2, <1>3, <1>4, <1>5, <1>6 DEF Life!Work

\* A crash empties the registry and gives up what was open.
LEMMA CrashKnown ==
    ASSUME OpenIsKnown, Life!Crash
    PROVE  OpenIsKnown'
<1> DEFINE intents == {k \in {a[1] : a \in acts} : ~Life!Closed(k)}
<1>1. PICK swept \in {{}, intents} :
        /\ acts' = acts \cup (swept \X {"failed"})
        /\ lost' = lost \cup intents
  BY DEF Life!Crash
<1>2. ASSUME NEW a \in acts'
      PROVE  Life!Closed(a[1])' \/ a[1] \in lost'
  <2>1. CASE a \in acts /\ Life!Closed(a[1])
    BY <1>1, <2>1 DEF Life!Closed
  <2>2. CASE a \in acts /\ ~Life!Closed(a[1])
    BY <1>1, <2>2
  <2>3. CASE a \in swept \X {"failed"}
    <3>1. a[1] \in intents
      BY <1>1, <2>3
    <3> QED BY <1>1, <3>1
  <2> QED BY <1>1, <2>1, <2>2, <2>3
<1> QED BY <1>2 DEF OpenIsKnown, Life!OpenIsKnown

LEMMA LifeKnown ==
    ASSUME OpenIsKnown, Life!Next
    PROVE  OpenIsKnown'
<1>1. CASE \/ Life!Tick \/ Life!Ask \/ Life!KeepStopgap \/ Life!Switch
           \/ Life!CoolingEnds \/ Life!Later
  <2>1. UNCHANGED <<acts, open, lost>>
    BY <1>1 DEF Life!Tick, Life!Ask, Life!KeepStopgap, Life!Switch, Life!CoolingEnds,
       Life!Later
  <2> QED BY <2>1, QuietRegisters, KnownStays
<1>2. CASE Life!Sweeping
  <2>1. CASE Life!Sweep
    <3>1. PICK k \in Life!Me("tick").left :
            \/ acts' = acts \cup {<<k, "failed">>} /\ open' = open \ {k}
            \/ open' = open \cup {k} /\ UNCHANGED acts
      BY <2>1 DEF Life!Sweep
    <3>2. UNCHANGED lost
      BY <2>1 DEF Life!Sweep
    <3>3. Registers
      BY <3>1, <3>2, ClosingRegisters, QuietRegisters
    <3> QED BY <3>3, KnownStays
  <2>2. CASE Life!Release
    BY <2>2, QuietRegisters, KnownStays DEF Life!Release
  <2> QED BY <1>2, <2>1, <2>2 DEF Life!Sweeping
<1>3. ASSUME NEW w \in Life!Workers, Life!Work(w)
      PROVE  OpenIsKnown'
  BY <1>3, WorkRegisters, KnownStays
<1>4. CASE Life!Crash
  BY <1>4, CrashKnown
<1> QED BY <1>1, <1>2, <1>3, <1>4 DEF Life!Next

\* An activity whose intent is open is known to the process, which will
\* close it, unless its context could not be built or a crash left it
\* (companion/service.py:840-1380).
THEOREM OpenIsKnownAlways == DaySpec => []OpenIsKnown
<1>1. DayInit => OpenIsKnown
  BY DEF DayInit, Life!Init, OpenIsKnown, Life!OpenIsKnown
<1>2. ASSUME OpenIsKnown, [DayNext]_allVars
      PROVE  OpenIsKnown'
  <2>1. CASE Life!Next
    BY <1>2, <2>1, LifeKnown
  <2>2. CASE UNCHANGED lifeVars
    BY <1>2, <2>2 DEF lifeVars, OpenIsKnown, Life!OpenIsKnown, Life!Closed
  <2> QED BY <1>2, <2>1, <2>2 DEF DayNext, InWatch, InSeries, allVars
<1> QED BY <1>1, <1>2, PTL DEF DaySpec


-----------------------------------------------------------------------------
(* What the companion shows.                                               *)

Fields == {"pc", "todo", "key", "text", "book", "pages", "left"}
Words == Texts \cup {""}

\* A book, or a copy of it, whose chunks are all among the texts d.
Shelved(b, d) ==
    /\ b = [f \in {"made", "chunks", "done"} |-> b[f]]
    /\ b.chunks \in Seq(Words)
    /\ \A i \in 1..Len(b.chunks) : <<<<"chunk", i - 1, 0>>, b.chunks[i]>> \in d

\* A worker's copies hold texts of d only; its own text is among them once
\* the archive has answered; and a chunk has the key of the place it takes.
Sound(m, d) ==
    /\ m = [f \in Fields |-> m[f]]
    /\ m.text \in Words
    /\ Shelved(m.book, d) /\ m.pages \subseteq d
    /\ m.pc \in {"close", "keep"} => <<m.key, m.text>> \in d
    /\ m.pc \in {"write", "close", "keep"} /\ Head(m.todo) = "chunk"
         => m.key = <<"chunk", Len(m.book.chunks), 0>>

\* What is shown is among the texts d, but for the stopgap of the plan's day.
Shown(texts, d, day) == \A t \in texts : t \in d \/ t = Life!Stopgap(day)

KeptInv ==
    /\ workers = [w \in Life!Workers |-> workers[w]]
    /\ \A w \in Life!Workers : Sound(workers[w], docs)
    /\ Shown(kept, docs, plan.day) /\ Shelved(book, docs)

\* A stopgap is a plan, not a page.
LEMMA StopgapIsPlan ==
    ASSUME NEW day
    PROVE  /\ Life!Stopgap(day)[1][1] = "stopgap"
           /\ Life!Stopgap(day) \in kept => Life!Stopgap(day) \in Life!Plans
           /\ Life!Stopgap(day) \notin Life!Pages
<1> DEFINE t == Life!Stopgap(day)
<1>1. t[1][1] = "stopgap"
  BY DEF Life!Stopgap
<1> HIDE DEF t
<1>2. (t \in kept => t \in Life!Plans) /\ t \notin Life!Pages
  BY <1>1 DEF Life!Plans, Life!Pages, Life!KeptOf
<1> QED BY <1>1, <1>2 DEF t

LEMMA MoreIsShelved ==
    ASSUME NEW b, NEW d, NEW e, d \subseteq e, Shelved(b, d)
    PROVE  Shelved(b, e)
BY DEF Shelved

LEMMA MoreIsSound ==
    ASSUME NEW m, NEW d, NEW e, d \subseteq e, Sound(m, d)
    PROVE  Sound(m, e)
<1>1. Shelved(m.book, d)
  BY DEF Sound
<1>2. Shelved(m.book, e)
  BY <1>1, MoreIsShelved
<1> QED BY <1>2 DEF Sound

\* A worker moves on with what it has.
LEMMA MovedIsSound ==
    ASSUME NEW m, NEW d, Sound(m, d), NEW place,
           place \in {"write", "close", "keep"} => m.pc \in {"write", "close", "keep"},
           place \in {"close", "keep"} => <<m.key, m.text>> \in d
    PROVE  Sound([m EXCEPT !.pc = place], d)
<1> DEFINE n == [m EXCEPT !.pc = place]
<1>1. /\ n = [f \in Fields |-> n[f]]
      /\ n.pc = place /\ n.todo = m.todo /\ n.key = m.key /\ n.text = m.text
      /\ n.book = m.book /\ n.pages = m.pages /\ n.left = m.left
  BY DEF Sound, Fields
<1> HIDE DEF n
<1> QED BY <1>1 DEF Sound

LEMMA EmptyIsShelved ==
    ASSUME NEW d
    PROVE  Shelved(Life!NoBook, d)
BY DEF Shelved, Life!NoBook

\* A worker with nothing in hand.
LEMMA IdleIsSound ==
    ASSUME NEW d, NEW n, n = [f \in Fields |-> n[f]], n.pc \in {"idle", "turn", "sweep"},
           n.text = "", n.book = Life!NoBook, n.pages = {}
    PROVE  Sound(n, d)
BY EmptyIsShelved DEF Sound, Words

LEMMA FreshIsSound ==
    ASSUME NEW d, NEW todo, NEW others
    PROVE  /\ Sound(Life!Idle, d)
           /\ Sound([Life!Idle EXCEPT !.pc = "turn", !.todo = todo], d)
           /\ Sound([Life!Idle EXCEPT !.pc = "sweep", !.left = others], d)
<1> DEFINE m == Life!Idle
           n == [m EXCEPT !.pc = "turn", !.todo = todo]
           o == [m EXCEPT !.pc = "sweep", !.left = others]
<1>1. /\ m = [f \in Fields |-> m[f]] /\ m.pc = "idle" /\ m.text = ""
      /\ m.book = Life!NoBook /\ m.pages = {}
  BY DEF Life!Idle, Fields
<1> HIDE DEF m
<1>2. /\ n = [f \in Fields |-> n[f]] /\ n.pc = "turn" /\ n.text = ""
      /\ n.book = Life!NoBook /\ n.pages = {}
  BY <1>1 DEF Fields
<1>3. /\ o = [f \in Fields |-> o[f]] /\ o.pc = "sweep" /\ o.text = ""
      /\ o.book = Life!NoBook /\ o.pages = {}
  BY <1>1 DEF Fields
<1> HIDE DEF n, o
<1>4. Sound(m, d) /\ Sound(n, d) /\ Sound(o, d)
  BY <1>1, <1>2, <1>3, IdleIsSound
<1> QED BY <1>4 DEF m, n, o

LEMMA EndedIsSound ==
    ASSUME NEW d, NEW w, NEW todo, NEW opened
    PROVE  Sound(Life!Ended(w, opened), d) /\ Sound(Life!Raised(w, todo, opened), d)
BY FreshIsSound DEF Life!Ended, Life!Raised

\* One worker changes and the texts only grow.
LEMMA WorkersStay ==
    ASSUME KeptInv, NEW w \in Life!Workers, NEW m, workers' = [workers EXCEPT ![w] = m],
           docs \subseteq docs', Sound(m, docs'), Shown(kept', docs', plan'.day),
           Shelved(book', docs')
    PROVE  KeptInv'
<1>1. workers' = [v \in Life!Workers |-> workers'[v]]
  BY DEF KeptInv
<1>2. ASSUME NEW v \in Life!Workers
      PROVE  Sound(workers'[v], docs')
  <2>1. CASE v = w
    BY <2>1 DEF KeptInv
  <2>2. CASE v # w
    <3>1. workers'[v] = workers[v] /\ Sound(workers[v], docs)
      BY <2>2 DEF KeptInv
    <3> QED BY <3>1, MoreIsSound
  <2> QED BY <2>1, <2>2
<1> QED BY <1>1, <1>2 DEF KeptInv
LEMMA StepKept ==
    ASSUME KeptInv, NEW w \in Life!Workers, NEW m, Life!Go(w, m), Sound(m, docs),
           UNCHANGED <<docs, kept, book, plan>>
    PROVE  KeptInv'
<1>1. /\ workers' = [workers EXCEPT ![w] = m] /\ docs' = docs
      /\ kept' = kept /\ book' = book /\ plan' = plan
      /\ Shown(kept, docs, plan.day) /\ Shelved(book, docs)
  BY DEF Life!Go, KeptInv
<1>2. Sound(m, docs') /\ Shown(kept', docs', plan'.day) /\ Shelved(book', docs')
  BY <1>1
<1> QED BY <1>1, <1>2, WorkersStay

\* begin_activity: the key of a chunk is its place in the copy it goes to.
LEMMA OpensKept ==
    ASSUME KeptInv, NEW w \in Life!Workers, NEW todo, NEW me, Sound(me, docs),
           Life!Opens(w, todo, me)
    PROVE  KeptInv'
<1> DEFINE k == Life!KeyOf(w, Head(todo), me.book)
           n == [me EXCEPT !.pc = "write", !.key = k, !.todo = todo]
<1>1. UNCHANGED <<docs, kept, book, plan>>
  BY DEF Life!Opens
<1>2. Head(todo) = "chunk" => k = <<"chunk", Len(me.book.chunks), 0>>
  BY DEF Life!KeyOf
<1>3. CASE Life!Go(w, n)
  <2> HIDE DEF k
  <2>1. /\ n = [f \in Fields |-> n[f]]
        /\ n.pc = "write" /\ n.todo = todo /\ n.key = k /\ n.text = me.text
        /\ n.book = me.book /\ n.pages = me.pages /\ n.left = me.left
    BY DEF Sound, Fields
  <2> HIDE DEF n
  <2>2. Sound(n, docs)
    BY <1>2, <2>1 DEF Sound
  <2> QED BY <1>1, <1>3, <2>2, StepKept
<1>4. CASE Life!Go(w, Life!Raised(w, todo, open))
  <2> DEFINE r == Life!Raised(w, todo, open)
  <2>1. Sound(r, docs)
    BY EndedIsSound
  <2> HIDE DEF r
  <2>2. Life!Go(w, r)
    BY <1>4 DEF r
  <2> QED BY <1>1, <2>1, <2>2, StepKept
<1> QED BY <1>3, <1>4 DEF Life!Opens

LEMMA BeginKept ==
    ASSUME KeptInv, NEW w \in Life!Workers, Life!Begin(w)
    PROVE  KeptInv'
<1> DEFINE m == Life!Me(w)
           n == [m EXCEPT !.book = book, !.pages = Life!Pages]
<1>1. PICK todo : Life!Opens(w, todo, n)
  BY DEF Life!Begin
<1>2. Sound(m, docs) /\ m.pc = "turn"
  BY DEF KeptInv, Life!Me, Life!Begin
<1>3. Life!Pages \subseteq docs /\ Shelved(book, docs)
  <2>1. Life!Pages \subseteq kept
    BY DEF Life!Pages, Life!KeptOf
  <2> QED BY <2>1, StopgapIsPlan DEF KeptInv, Shown
<1> HIDE DEF m
<1>4. /\ n = [f \in Fields |-> n[f]]
      /\ n.pc = "turn" /\ n.todo = m.todo /\ n.key = m.key /\ n.text = m.text
      /\ n.book = book /\ n.pages = Life!Pages /\ n.left = m.left
  BY <1>2 DEF Sound, Fields
<1> HIDE DEF n
<1>5. Sound(n, docs)
  BY <1>2, <1>3, <1>4 DEF Sound
<1> QED BY <1>1, <1>5, OpensKept

\* TooShort and Shelve: the copy is written back as it was read.
LEMMA TooShortKept ==
    ASSUME KeptInv, NEW w \in Life!Workers, Life!TooShort(w)
    PROVE  KeptInv'
<1> DEFINE m == Life!Me(w)
<1>1. PICK place \in {"shelve", "turn"} : \E rest :
        Life!Go(w, [m EXCEPT !.pc = place, !.todo = rest])
  BY DEF Life!TooShort
<1>2. PICK todo : Life!Go(w, [m EXCEPT !.pc = place, !.todo = todo])
  BY <1>1
<1>3. UNCHANGED <<docs, kept, book, plan>> /\ Sound(m, docs)
  BY DEF Life!TooShort, Life!files, KeptInv, Life!Me
<1> HIDE DEF m
<1> DEFINE n == [m EXCEPT !.pc = place, !.todo = todo]
<1>4. /\ n = [f \in Fields |-> n[f]]
      /\ n.pc = place /\ n.todo = todo /\ n.key = m.key /\ n.text = m.text
      /\ n.book = m.book /\ n.pages = m.pages /\ n.left = m.left
  BY <1>3 DEF Sound, Fields
<1>5. Life!Go(w, n)
  BY <1>2
<1> HIDE DEF n
<1>6. Sound(n, docs)
  BY <1>3, <1>4 DEF Sound
<1> QED BY <1>3, <1>5, <1>6, StepKept

LEMMA ShelveKept ==
    ASSUME KeptInv, NEW w \in Life!Workers, Life!Shelve(w)
    PROVE  KeptInv'
<1> DEFINE todo == Life!Me(w).todo
           n == [Life!Idle EXCEPT !.pc = "turn", !.todo = todo]
<1>1. /\ book' = workers[w].book /\ UNCHANGED <<kept, docs, plan>>
      /\ workers' = [workers EXCEPT ![w] = n]
  BY DEF Life!Shelve, Life!Me, Life!Go
<1>2. Shelved(book', docs') /\ Shown(kept', docs', plan'.day)
  BY <1>1 DEF KeptInv, Sound
<1> HIDE DEF todo
<1>3. Sound(n, docs')
  BY FreshIsSound
<1> HIDE DEF n
<1> QED BY <1>1, <1>2, <1>3, WorkersStay

\* _archive_text: only a text the brain has committed is taken further.
LEMMA ArchiveKept ==
    ASSUME KeptInv, NEW w \in Life!Workers, Life!Archive(w)
    PROVE  KeptInv'
<1> DEFINE m == Life!Me(w)
<1>0. Sound(m, docs) /\ m.pc = "write" /\ UNCHANGED <<kept, book, plan>>
  BY DEF Life!Archive, Life!files, KeptInv, Life!Me
<1>1. PICK text \in Texts :
        \/ /\ docs' = docs \cup {<<m.key, text>>}
           /\ Life!Go(w, [m EXCEPT !.pc = "close", !.text = text])
        \/ UNCHANGED docs /\ Life!Go(w, [m EXCEPT !.pc = "fail"])
  BY DEF Life!Archive
<1> HIDE DEF m
<1>2. CASE UNCHANGED docs /\ Life!Go(w, [m EXCEPT !.pc = "fail"])
  <2> DEFINE n == [m EXCEPT !.pc = "fail"]
  <2>1. Sound(n, docs)
    BY <1>0, MovedIsSound
  <2>2. Life!Go(w, n)
    BY <1>2
  <2> HIDE DEF n
  <2> QED BY <1>0, <1>2, <2>1, <2>2, StepKept
<1>3. CASE /\ docs' = docs \cup {<<m.key, text>>}
           /\ Life!Go(w, [m EXCEPT !.pc = "close", !.text = text])
  <2> DEFINE n == [m EXCEPT !.pc = "close", !.text = text]
             d == docs \cup {<<m.key, text>>}
  <2>1. /\ n = [f \in Fields |-> n[f]]
        /\ n.pc = "close" /\ n.todo = m.todo /\ n.key = m.key /\ n.text = text
        /\ n.book = m.book /\ n.pages = m.pages /\ n.left = m.left
    BY <1>0 DEF Sound, Fields
  <2>2. docs' = d /\ workers' = [workers EXCEPT ![w] = n] /\ docs \subseteq d
    BY <1>3 DEF Life!Go
  <2>3. <<m.key, text>> \in d
    OBVIOUS
  <2> HIDE DEF n, d
  <2>4. Sound(m, d)
    BY <1>0, <2>2, MoreIsSound
  <2>5. Sound(n, d)
    BY <1>0, <2>1, <2>3, <2>4 DEF Sound, Words
  <2>6. Shelved(book, d) /\ Shown(kept, d, plan.day)
    BY <2>2, MoreIsShelved DEF KeptInv, Shown
  <2> QED BY <1>0, <2>2, <2>5, <2>6, WorkersStay
<1> QED BY <1>1, <1>2, <1>3

LEMMA FailKept ==
    ASSUME KeptInv, NEW w \in Life!Workers, Life!Fail(w)
    PROVE  KeptInv'
<1> DEFINE n == Life!Raised(w, Life!Me(w).todo, open')
<1>1. Life!Go(w, n) /\ UNCHANGED <<docs, kept, book, plan>>
  BY DEF Life!Fail, Life!files
<1>2. Sound(n, docs)
  BY EndedIsSound
<1> HIDE DEF n
<1> QED BY <1>1, <1>2, StepKept

LEMMA CloseKept ==
    ASSUME KeptInv, NEW w \in Life!Workers, Life!Close(w)
    PROVE  KeptInv'
<1> DEFINE m == Life!Me(w)
           n == [m EXCEPT !.pc = "keep"]
<1>1. Life!Go(w, n) /\ m.pc = "close" /\ UNCHANGED <<docs, kept, book, plan>>
  BY DEF Life!Close, Life!files
<1>2. Sound(m, docs)
  BY DEF KeptInv, Life!Me
<1> HIDE DEF m
<1>3. <<m.key, m.text>> \in docs
  BY <1>1, <1>2 DEF Sound
<1>4. Sound(n, docs)
  BY <1>1, <1>2, <1>3, MovedIsSound
<1> HIDE DEF n
<1> QED BY <1>1, <1>4, StepKept

\* The chunk that was archived goes to the end of the copy.
LEMMA ChunkShelved ==
    ASSUME NEW b, NEW d, NEW text \in Words, NEW whole, Shelved(b, d),
           <<<<"chunk", Len(b.chunks), 0>>, text>> \in d
    PROVE  Shelved([b EXCEPT !.chunks = Append(b.chunks, text), !.done = whole], d)
<1> DEFINE c == [b EXCEPT !.chunks = Append(b.chunks, text), !.done = whole]
<1>1. c = [f \in {"made", "chunks", "done"} |-> c[f]] /\ c.chunks = Append(b.chunks, text)
  BY DEF Shelved
<1> HIDE DEF c
<1> DEFINE s == b.chunks
           t == Append(s, text)
<1>2. s \in Seq(Words)
  BY DEF Shelved
<1>3. \A i \in 1..Len(s) : <<<<"chunk", i - 1, 0>>, s[i]>> \in d
  BY DEF Shelved
<1> HIDE DEF s
<1>4. /\ t \in Seq(Words) /\ Len(t) = Len(s) + 1 /\ Len(s) \in Nat
      /\ t[Len(s) + 1] = text /\ \A i \in 1..Len(s) : t[i] = s[i]
  BY <1>2
<1>5. <<<<"chunk", Len(s), 0>>, text>> \in d
  BY DEF s
<1> HIDE DEF t
<1>6. ASSUME NEW i \in 1..Len(t)
      PROVE  <<<<"chunk", i - 1, 0>>, t[i]>> \in d
  <2>1. CASE i \in 1..Len(s)
    <3>1. t[i] = s[i]
      BY <1>4, <2>1
    <3> QED BY <1>3, <2>1, <3>1
  <2>2. CASE i = Len(s) + 1
    <3>1. i - 1 = Len(s) /\ t[i] = text
      BY <1>4, <2>2
    <3> QED BY <1>5, <3>1
  <2> QED BY <1>4, <2>1, <2>2
<1>7. c.chunks = t
  BY <1>1 DEF t, s
<1>8. Shelved(c, d)
  BY <1>1, <1>4, <1>6, <1>7 DEF Shelved
<1> QED BY <1>8 DEF c

LEMMA BookMade ==
    ASSUME NEW b, NEW d, NEW begun, Shelved(b, d)
    PROVE  Shelved([b EXCEPT !.made = begun], d)
<1> DEFINE c == [b EXCEPT !.made = begun]
<1>1. c = [f \in {"made", "chunks", "done"} |-> c[f]] /\ c.chunks = b.chunks
  BY DEF Shelved
<1> HIDE DEF c
<1>2. Shelved(c, d)
  BY <1>1 DEF Shelved
<1> QED BY <1>2 DEF c

\* The forced call goes on with its copy.
LEMMA AfterIsSound ==
    ASSUME NEW w \in Life!Workers, Sound(Life!Me(w), docs)
    PROVE  Sound(Life!After(w), docs)
<1> DEFINE m == Life!Me(w)
           begun == m.book.made \/ Life!Job(w) = "project"
           b == [m.book EXCEPT !.made = begun]
<1>1. Sound(m, docs)
  OBVIOUS
<1>2. Shelved(b, docs)
  <2>1. Shelved(m.book, docs)
    BY <1>1 DEF Sound
  <2> HIDE DEF m, begun
  <2> QED BY <2>1, BookMade
<1>3. ASSUME NEW todo
      PROVE  Sound([m EXCEPT !.pc = "next", !.todo = todo, !.text = "", !.book = b], docs)
  <2> HIDE DEF m, b
  <2> DEFINE n == [m EXCEPT !.pc = "next", !.todo = todo, !.text = "", !.book = b]
  <2>1. /\ n = [f \in Fields |-> n[f]]
        /\ n.pc = "next" /\ n.text = "" /\ n.book = b /\ n.pages = m.pages
    BY <1>1 DEF Sound, Fields
  <2> HIDE DEF n
  <2>2. Sound(n, docs)
    BY <1>1, <1>2, <2>1 DEF Sound, Words
  <2> QED BY <2>2 DEF n
<1>4. ASSUME NEW todo
      PROVE  Sound([Life!Idle EXCEPT !.pc = "turn", !.todo = todo], docs)
  BY FreshIsSound
<1> DEFINE rest == IF w = "tick" THEN Life!NoChunk(Tail(m.todo)) ELSE Tail(m.todo)
           on == rest # <<>> /\ Head(rest) \in {"entry", "chunk"}
<1>5. Life!After(w) = IF on THEN [m EXCEPT !.pc = "next", !.todo = rest, !.text = "", !.book = b]
                      ELSE [Life!Idle EXCEPT !.pc = "turn", !.todo = rest]
  BY DEF Life!After
<1> HIDE DEF rest, on, b, m
<1>6. CASE on
  BY <1>3, <1>5, <1>6
<1>7. CASE ~on
  BY <1>4, <1>5, <1>7
<1> QED BY <1>6, <1>7

\* What is kept is the text the archive took, beside what was kept, or read, before.
LEMMA FilesKept ==
    ASSUME KeptInv, NEW w \in Life!Workers, Life!Me(w).pc = "keep",
           \/ Life!KeepPlan(w) \/ Life!KeepDetail(w) \/ Life!KeepDream(w) \/ Life!KeepEntry(w)
           \/ Life!KeepNote(w) \/ Life!KeepProject(w) \/ Life!KeepChunk(w)
    PROVE  Shown(kept', docs, plan'.day) /\ Shelved(book', docs)
<1> DEFINE m == Life!Me(w)
<1>1. Sound(m, docs)
  BY DEF KeptInv, Life!Me
<1>2. /\ Life!Text(w) \in docs /\ m.pages \subseteq docs
      /\ Shown(kept, docs, plan.day) /\ Shelved(book, docs) /\ Shelved(m.book, docs)
  BY <1>1 DEF KeptInv, Sound, Life!Text
<1>3. CASE Life!KeepPlan(w)
  <2>1. kept' = (kept \ Life!Plans) \cup {Life!Text(w)} /\ UNCHANGED book
    BY <1>3 DEF Life!KeepPlan
  <2>2. \A t \in kept \ Life!Plans : t \in docs
    BY <1>2, StopgapIsPlan DEF Shown
  <2> QED BY <1>2, <2>1, <2>2 DEF Shown
<1>6. CASE \/ Life!KeepDetail(w) \/ Life!KeepDream(w) \/ Life!KeepEntry(w)
           \/ Life!KeepNote(w)
  <2>1. kept' \subseteq kept \cup m.pages \cup {Life!Text(w)} /\ UNCHANGED <<book, plan>>
    BY <1>6 DEF Life!KeepDetail, Life!KeepDream, Life!KeepEntry, Life!KeepNote, Life!Instead
  <2> HIDE DEF m
  <2> QED BY <1>2, <2>1 DEF Shown
<1>4. CASE Life!KeepProject(w)
  <2>1. /\ kept' = kept \cup {Life!Text(w)} /\ plan' = plan
        /\ book' = [m.book EXCEPT !.made = TRUE]
    BY <1>4 DEF Life!KeepProject
  <2>2. Shown(kept', docs, plan'.day)
    BY <1>2, <2>1 DEF Shown
  <2> HIDE DEF m
  <2> QED BY <1>2, <2>1, <2>2, BookMade
<1>5. CASE Life!KeepChunk(w)
  <2> DEFINE whole == Life!Finishes(w)
  <2>1. /\ Head(m.todo) = "chunk" /\ UNCHANGED <<kept, plan>>
        /\ book' = [m.book EXCEPT !.chunks = Append(m.book.chunks, m.text), !.done = whole]
    BY <1>5 DEF Life!KeepChunk, Life!Job
  <2>2. m.pc = "keep"
    OBVIOUS
  <2> HIDE DEF m, whole
  <2>3. m.key = <<"chunk", Len(m.book.chunks), 0>> /\ m.text \in Words
    BY <1>1, <2>1, <2>2 DEF Sound
  <2>4. <<m.key, m.text>> \in docs
    BY <1>1, <2>2 DEF Sound
  <2> QED BY <1>2, <2>1, <2>3, <2>4, ChunkShelved
<1> QED BY <1>3, <1>4, <1>5, <1>6

LEMMA KeepKept ==
    ASSUME KeptInv, NEW w \in Life!Workers, Life!Keep(w)
    PROVE  KeptInv'
<1>1. Life!Me(w).pc = "keep" /\ UNCHANGED docs
  BY DEF Life!Keep
<1>2. CASE Life!Go(w, Life!Raised(w, Life!Me(w).todo, open)) /\ UNCHANGED Life!files
  <2> DEFINE n == Life!Raised(w, Life!Me(w).todo, open)
  <2>1. Sound(n, docs)
    BY EndedIsSound
  <2>2. Life!Go(w, n) /\ UNCHANGED <<kept, book, plan>>
    BY <1>2 DEF Life!files
  <2> HIDE DEF n
  <2> QED BY <1>1, <2>1, <2>2, StepKept
<1>3. CASE /\ Life!Go(w, Life!After(w))
           /\ \/ Life!KeepPlan(w) \/ Life!KeepDetail(w) \/ Life!KeepDream(w)
              \/ Life!KeepEntry(w) \/ Life!KeepNote(w) \/ Life!KeepProject(w)
              \/ Life!KeepChunk(w)
  <2> DEFINE n == Life!After(w)
  <2>1. Sound(Life!Me(w), docs)
    BY DEF KeptInv, Life!Me
  <2>2. Sound(n, docs)
    BY <2>1, AfterIsSound
  <2>3. Shown(kept', docs, plan'.day) /\ Shelved(book', docs)
    BY <1>1, <1>3, FilesKept
  <2>4. workers' = [workers EXCEPT ![w] = n]
    BY <1>3 DEF Life!Go
  <2> HIDE DEF n
  <2> QED BY <1>1, <2>2, <2>3, <2>4, WorkersStay
<1> QED BY <1>2, <1>3 DEF Life!Keep

LEMMA TickKept ==
    ASSUME KeptInv, Life!Tick \/ Life!Ask \/ Life!Sweeping
    PROVE  KeptInv'
<1>1. "tick" \in Life!Workers /\ "panel" \in Life!Workers
  BY DEF Life!Workers
<1>2. UNCHANGED <<docs, kept, book, plan>>
  BY DEF Life!Tick, Life!Ask, Life!Sweeping, Life!Sweep, Life!Release, Life!files
<1>3. ASSUME NEW w \in Life!Workers, NEW n, Life!Go(w, n), Sound(n, docs)
      PROVE  KeptInv'
  BY <1>2, <1>3, StepKept
<1>4. CASE Life!Tick
  <2>1. CASE Life!Go("tick", Life!Ended("tick", open))
    BY <1>1, <1>3, <2>1, EndedIsSound
  <2>2. CASE Life!Go("tick", [Life!Idle EXCEPT !.pc = "turn", !.todo = Life!Stages])
    BY <1>1, <1>3, <2>2, FreshIsSound
  <2> QED BY <1>4, <2>1, <2>2 DEF Life!Tick
<1>5. CASE Life!Ask
  BY <1>1, <1>3, <1>5, FreshIsSound DEF Life!Ask
<1>6. CASE Life!Release
  BY <1>1, <1>3, <1>6, FreshIsSound DEF Life!Release
<1>7. CASE Life!Sweep
  <2> DEFINE m == Life!Me("tick")
  <2>1. Sound(m, docs) /\ m.pc = "sweep"
    BY <1>1, <1>7 DEF KeptInv, Life!Me, Life!Sweep
  <2>2. PICK others : Life!Go("tick", [m EXCEPT !.left = others])
    BY <1>7 DEF Life!Sweep
  <2> HIDE DEF m
  <2> DEFINE n == [m EXCEPT !.left = others]
  <2>3. /\ n = [f \in Fields |-> n[f]] /\ n.pc = "sweep" /\ n.text = m.text
        /\ n.book = m.book /\ n.pages = m.pages
    BY <2>1 DEF Sound, Fields
  <2> HIDE DEF n
  <2>4. Sound(n, docs)
    BY <2>1, <2>3 DEF Sound
  <2> QED BY <1>1, <1>3, <2>2, <2>4 DEF n
<1> QED BY <1>4, <1>5, <1>6, <1>7 DEF Life!Sweeping

LEMMA DoneKept ==
    ASSUME KeptInv, NEW w \in Life!Workers, Life!Done(w)
    PROVE  KeptInv'
<1> DEFINE n == Life!Ended(w, open)
<1>1. Life!Go(w, n) /\ UNCHANGED <<docs, kept, book, plan>>
  BY DEF Life!Done, Life!files
<1>2. Sound(n, docs)
  BY EndedIsSound
<1> HIDE DEF n
<1> QED BY <1>1, <1>2, StepKept

LEMMA FollowKept ==
    ASSUME KeptInv, NEW w \in Life!Workers, Life!Follow(w)
    PROVE  KeptInv'
<1>1. Sound(Life!Me(w), docs)
  BY DEF KeptInv, Life!Me
<1> QED BY <1>1, OpensKept DEF Life!Follow

\* The stopgap takes the place of the day's plan.
LEMMA StopgapKept ==
    ASSUME KeptInv, Life!KeepStopgap
    PROVE  KeptInv'
<1>1. "panel" \in Life!Workers
  BY DEF Life!Workers
<1>2. /\ workers' = [workers EXCEPT !["panel"] = Life!Idle] /\ UNCHANGED <<docs, book>>
      /\ Shelved(book, docs) /\ Shown(kept, docs, plan.day)
  BY DEF Life!KeepStopgap, Life!Go, KeptInv
<1>3. Shown(kept', docs, plan'.day)
  <2>1. CASE UNCHANGED <<plan, kept>>
    BY <1>2, <2>1
  <2>2. CASE /\ plan' = [day |-> clock.day, from |-> "fallback"]
             /\ kept' = (kept \ Life!Plans) \cup {Life!Stopgap(clock.day)}
    <3>1. \A t \in kept \ Life!Plans : t \in docs
      BY <1>2, StopgapIsPlan DEF Shown
    <3> QED BY <2>2, <3>1 DEF Shown
  <2> QED BY <2>1, <2>2 DEF Life!KeepStopgap
<1>4. Sound(Life!Idle, docs)
  BY FreshIsSound
<1> QED BY <1>1, <1>2, <1>3, <1>4, WorkersStay

LEMMA LifeKept ==
    ASSUME KeptInv, Life!Next
    PROVE  KeptInv'
<1>1. CASE Life!Tick \/ Life!Ask \/ Life!Sweeping
  BY <1>1, TickKept
<1>2. CASE Life!Switch \/ Life!CoolingEnds \/ Life!Later
  <2>1. UNCHANGED <<workers, docs, kept, book, plan>>
    BY <1>2 DEF Life!Switch, Life!CoolingEnds, Life!Later, Life!files
  <2> QED BY <2>1 DEF KeptInv
<1>3. CASE Life!Crash
  <2>1. UNCHANGED <<docs, kept, book, plan>> /\ workers' = [w \in Life!Workers |-> Life!Idle]
    BY <1>3 DEF Life!Crash, Life!files
  <2>2. Sound(Life!Idle, docs)
    BY FreshIsSound
  <2> QED BY <2>1, <2>2 DEF KeptInv
<1>4. ASSUME NEW w \in Life!Workers, Life!Work(w)
      PROVE  KeptInv'
  BY <1>4, DoneKept, BeginKept, FollowKept, TooShortKept, ShelveKept, ArchiveKept,
     FailKept, CloseKept, KeepKept DEF Life!Work
<1>5. CASE Life!KeepStopgap
  BY <1>5, StopgapKept
<1> QED BY <1>1, <1>2, <1>3, <1>4, <1>5 DEF Life!Next

\* Whatever the companion shows as its own the brain has committed first,
\* also when the tick and the panel's request write the same file back
\* (companion/service.py:506-648, 3297); only a plan asked for while the
\* schedule is off is shown and not archived (2643-2712), until the next one
\* takes its place.
THEOREM KeptIsArchivedAlways == DaySpec => []KeptIsArchived
<1>1. DayInit => KeptInv
  BY FreshIsSound, EmptyIsShelved DEF DayInit, Life!Init, KeptInv, Shown
<1>2. ASSUME KeptInv, [DayNext]_allVars
      PROVE  KeptInv'
  <2>1. CASE Life!Next
    BY <1>2, <2>1, LifeKept
  <2>2. CASE UNCHANGED lifeVars
    BY <1>2, <2>2 DEF lifeVars, KeptInv
  <2> QED BY <1>2, <2>1, <2>2 DEF DayNext, InWatch, InSeries, allVars
<1>3. KeptInv => KeptIsArchived
  BY DEF KeptInv, Shown, Shelved, KeptIsArchived, Life!KeptIsArchived
<1> QED BY <1>1, <1>2, <1>3, PTL DEF DaySpec


-----------------------------------------------------------------------------
(* The series.                                                             *)

RunnerFields == {"at", "todo", "ep", "text", "act", "result"}
Keys == Episodes \X Acts

\* Where a runner holds the lock of its act.
Busy == {"intending", "checking", "posting", "concluding"}

Placed(m) ==
    /\ m = [f \in RunnerFields |-> m[f]]
    /\ m.todo \subseteq Episodes
    /\ m.at \notin {"idle", "choosing", "next"} => m.ep \in Episodes
    /\ m.at \in {"finding", "archiving", "acting"} \cup Busy => m.text \in Says
    /\ m.at = "acting" => m.act \in Acts \cup {"end"}
    /\ m.at \in Busy => m.act \in Acts
    /\ m.at = "concluding" => m.result \in {"completed", "failed", "result_unknown"}

SeriesTyped ==
    /\ runner = [r \in Runners |-> runner[r]]
    /\ \A r \in Runners : Placed(runner[r])
    /\ lock = [k \in Keys |-> lock[k]]
    /\ accepted \in [Keys -> Nat]
    /\ event = [k \in Keys |-> event[k]]
    /\ \A k \in Keys : event[k] = [s \in Series!States |-> event[k][s]]

Refused(k) == event[k]["failed"] # "none" \/ event[k]["rejected"] # "none"
Untried(k) == accepted[k] = 0 /\ ~Refused(k)

\* An act without an intent was never tried, one that was refused is not on
\* the platform, and none is there twice.
KeySafe(k) ==
    /\ accepted[k] <= 1
    /\ event[k]["intent"] = "none" => Untried(k)
    /\ k[2] # "follow" /\ Refused(k) => accepted[k] = 0

\* A runner inside an act holds its lock; once its intent is stored it is the
\* only one to try the act, and what it concludes is what happened.
RunnerSafe(r) ==
    LET k == Series!Key(r) IN
    runner[r].at \in Busy =>
      /\ lock[k] = r
      /\ runner[r].at # "intending" => event[k]["intent"] # "none"
      /\ runner[r].at \in {"checking", "posting"} => Untried(k)
      /\ runner[r].at = "concluding" /\ runner[r].result = "failed" /\ runner[r].act # "follow"
           => accepted[k] = 0

SeriesInv ==
    /\ SeriesTyped
    /\ \A k \in Keys : KeySafe(k)
    /\ \A r \in Runners : RunnerSafe(r)

\* _perform_interactions: the next act of the list, or the end.
LEMMA NextActType ==
    ASSUME NEW a \in {"start", "like", "comment", "follow"}
    PROVE  Series!NextAct[a] \in Acts \cup {"end"}
<1> DEFINE late == IF "follow" \in Acts THEN "follow" ELSE "end"
           mid == IF "comment" \in Acts THEN "comment" ELSE late
           g == [b \in {"start", "like", "comment", "follow"} |->
                   IF b = "follow" THEN "end" ELSE IF b = "comment" THEN late
                   ELSE IF b = "like" THEN mid
                   ELSE IF "like" \in Acts THEN "like" ELSE mid]
           F(f) == [b \in DOMAIN Series!After |->
                      IF Series!After[b] = "end" \/ Series!After[b] \in Acts
                        THEN Series!After[b] ELSE f[Series!After[b]]]
<1>1. DOMAIN Series!After = {"start", "like", "comment", "follow"}
  BY DEF Series!After
<1>2. /\ Series!After["start"] = "like" /\ Series!After["like"] = "comment"
      /\ Series!After["comment"] = "follow" /\ Series!After["follow"] = "end"
  BY DEF Series!After
<1>3. /\ g["follow"] = "end" /\ g["comment"] = late /\ g["like"] = mid
      /\ g["start"] = IF "like" \in Acts THEN "like" ELSE mid
  OBVIOUS
<1>4. g = F(g)
  BY <1>1, <1>2, <1>3
<1>5. Series!NextAct = F(Series!NextAct)
  BY <1>4 DEF Series!NextAct
<1>6. \A b \in DOMAIN Series!After :
        Series!NextAct[b] = IF Series!After[b] = "end" \/ Series!After[b] \in Acts
                              THEN Series!After[b] ELSE Series!NextAct[Series!After[b]]
  BY <1>5
<1> HIDE DEF g, F
<1>7. Series!NextAct["follow"] \in Acts \cup {"end"}
  BY <1>1, <1>2, <1>6
<1>8. Series!NextAct["comment"] \in Acts \cup {"end"}
  BY <1>1, <1>2, <1>6, <1>7
<1>9. Series!NextAct["like"] \in Acts \cup {"end"}
  BY <1>1, <1>2, <1>6, <1>8
<1> QED BY <1>1, <1>2, <1>6, <1>7, <1>8, <1>9

LEMMA IdlePlaced == Placed(Series!Idle)
<1> DEFINE m == Series!Idle
<1>1. m = [f \in RunnerFields |-> m[f]] /\ m.at = "idle" /\ m.todo = {}
  BY DEF Series!Idle, RunnerFields
<1> HIDE DEF m
<1>2. Placed(m)
  BY <1>1 DEF Placed, Busy
<1> QED BY <1>2 DEF m

LEMMA RunnersTyped ==
    ASSUME SeriesTyped, NEW r \in Runners, NEW m, Placed(m),
           runner' = [runner EXCEPT ![r] = m]
    PROVE  /\ runner' = [q \in Runners |-> runner'[q]]
           /\ runner'[r] = m
           /\ \A q \in Runners \ {r} : runner'[q] = runner[q]
           /\ \A q \in Runners : Placed(runner'[q])
<1>1. runner = [q \in Runners |-> runner[q]] /\ \A q \in Runners : Placed(runner[q])
  BY DEF SeriesTyped
<1>2. /\ runner' = [q \in Runners |-> runner'[q]] /\ runner'[r] = m
      /\ \A q \in Runners \ {r} : runner'[q] = runner[q]
  BY <1>1
<1> QED BY <1>1, <1>2

LEMMA KeyType ==
    ASSUME SeriesTyped, NEW r \in Runners, runner[r].at \in Busy
    PROVE  /\ Series!Key(r) \in Keys /\ Series!Key(r)[2] = runner[r].act
           /\ runner[r].ep \in Episodes /\ runner[r].act \in Acts
           /\ Series!TextOf(r) # "none" /\ Placed(runner[r])
<1>1. Placed(runner[r])
  BY DEF SeriesTyped
<1>2. runner[r].ep \in Episodes /\ runner[r].act \in Acts /\ runner[r].text \in Says
  BY <1>1 DEF Placed, Busy
<1> QED BY <1>1, <1>2, DayAssumption DEF Series!Key, Series!TextOf, Keys, Series!None

\* Two runners inside acts are inside different ones.
LEMMA OneHolder ==
    ASSUME SeriesInv, NEW r \in Runners, NEW q \in Runners, q # r,
           runner[r].at \in Busy, runner[q].at \in Busy
    PROVE  Series!Key(q) # Series!Key(r)
<1>1. RunnerSafe(r) /\ RunnerSafe(q)
  BY DEF SeriesInv
<1> QED BY <1>1 DEF RunnerSafe

\* A runner goes to a place outside every act: nothing is posted, the lock it
\* may have held is free, and it may have written an outcome.
Recorded(r) ==
    \/ UNCHANGED event
    \/ /\ runner[r].at \in Busy /\ event[Series!Key(r)]["intent"] # "none"
       /\ \E s \in Series!States \ {"intent"} : \E text :
            /\ event' = [event EXCEPT ![Series!Key(r)][s] = text]
            /\ s \in {"failed", "rejected"} /\ runner[r].act # "follow"
                 => accepted[Series!Key(r)] = 0

Unlocked(r) ==
    \/ UNCHANGED lock
    \/ runner[r].at \in Busy /\ lock' = [lock EXCEPT ![Series!Key(r)] = "none"]

LEMMA RecordedKeys ==
    ASSUME SeriesInv, NEW r \in Runners, Recorded(r), UNCHANGED accepted
    PROVE  /\ event' = [k \in Keys |-> event'[k]]
           /\ \A k \in Keys : event'[k] = [s \in Series!States |-> event'[k][s]]
           /\ \A k \in Keys : KeySafe(k)'
           /\ \A k \in Keys : event'[k]["intent"] = event[k]["intent"]
           /\ \A k \in Keys : k # Series!Key(r) \/ runner[r].at \notin Busy => event'[k] = event[k]
<1>1. /\ SeriesTyped /\ \A k \in Keys : KeySafe(k)
  BY DEF SeriesInv
<1>2. CASE UNCHANGED event
  BY <1>1, <1>2 DEF SeriesTyped, KeySafe, Untried, Refused
<1>3. CASE ~UNCHANGED event
  <2>1. runner[r].at \in Busy
    BY <1>3 DEF Recorded
  <2>2. PICK k \in Keys : k = Series!Key(r) /\ k[2] = runner[r].act
    BY <1>1, <2>1, KeyType
  <2>3. PICK s \in Series!States \ {"intent"} : \E x :
          /\ event' = [event EXCEPT ![k][s] = x]
          /\ s \in {"failed", "rejected"} /\ runner[r].act # "follow" => accepted[k] = 0
    BY <1>3, <2>2 DEF Recorded
  <2>4. PICK text : event' = [event EXCEPT ![k][s] = text]
    BY <2>3
  <2>5. event[k]["intent"] # "none"
    BY <1>3, <2>2 DEF Recorded
  <2>6. /\ event = [j \in Keys |-> event[j]]
        /\ \A j \in Keys : event[j] = [t \in Series!States |-> event[j][t]]
    BY <1>1 DEF SeriesTyped
  <2>7. /\ event' = [j \in Keys |-> event'[j]]
        /\ event'[k] = [event[k] EXCEPT ![s] = text]
        /\ \A j \in Keys \ {k} : event'[j] = event[j]
    BY <2>4, <2>6
  <2>8. /\ event'[k] = [t \in Series!States |-> event'[k][t]]
        /\ event'[k][s] = text
        /\ \A t \in Series!States \ {s} : event'[k][t] = event[k][t]
    BY <2>4, <2>6, <2>7
  <2>9. event'[k]["intent"] = event[k]["intent"]
    BY <2>3, <2>8 DEF Series!States
  <2>10. KeySafe(k)'
    <3>1. KeySafe(k)
      BY <1>1
    <3>2. CASE s \in {"failed", "rejected"}
      BY <2>2, <2>3, <2>9, <2>5, <3>1, <3>2 DEF KeySafe
    <3>3. CASE s \notin {"failed", "rejected"}
      <4>1. /\ event'[k]["failed"] = event[k]["failed"]
            /\ event'[k]["rejected"] = event[k]["rejected"]
        BY <2>8, <3>3 DEF Series!States
      <4> QED BY <2>9, <3>1, <4>1 DEF KeySafe, Untried, Refused
    <3> QED BY <3>2, <3>3
  <2>11. \A j \in Keys \ {k} : KeySafe(j)'
    BY <1>1, <2>7 DEF KeySafe, Untried, Refused
  <2>12. \A j \in Keys : event'[j] = [t \in Series!States |-> event'[j][t]]
    BY <2>6, <2>7, <2>8
  <2> QED BY <2>1, <2>2, <2>7, <2>9, <2>10, <2>11, <2>12
<1> QED BY <1>2, <1>3

LEMMA Leaves ==
    ASSUME SeriesInv, NEW r \in Runners, NEW m, Placed(m), m.at \notin Busy,
           runner' = [runner EXCEPT ![r] = m], Unlocked(r), Recorded(r), UNCHANGED accepted
    PROVE  SeriesInv'
<1>1. /\ SeriesTyped /\ \A q \in Runners : RunnerSafe(q)
  BY DEF SeriesInv
<1>2. /\ runner' = [q \in Runners |-> runner'[q]] /\ runner'[r] = m
      /\ \A q \in Runners \ {r} : runner'[q] = runner[q]
      /\ \A q \in Runners : Placed(runner'[q])
  BY <1>1, RunnersTyped
<1>3. /\ event' = [k \in Keys |-> event'[k]]
      /\ \A k \in Keys : event'[k] = [s \in Series!States |-> event'[k][s]]
      /\ \A k \in Keys : KeySafe(k)'
      /\ \A k \in Keys : event'[k]["intent"] = event[k]["intent"]
      /\ \A k \in Keys : k # Series!Key(r) \/ runner[r].at \notin Busy => event'[k] = event[k]
  BY RecordedKeys
<1>4. lock' = [k \in Keys |-> lock'[k]]
  BY <1>1 DEF SeriesTyped, Unlocked
<1>5. SeriesTyped'
  BY <1>1, <1>2, <1>3, <1>4 DEF SeriesTyped
<1>6. ASSUME NEW q \in Runners, q # r, runner[q].at \in Busy
      PROVE  RunnerSafe(q)'
  <2> DEFINE k == Series!Key(q)
  <2>1. k \in Keys /\ RunnerSafe(q) /\ k' = k /\ runner'[q] = runner[q]
    BY <1>1, <1>2, <1>6, KeyType DEF Series!Key
  <2>2. runner[r].at \in Busy => k # Series!Key(r)
    BY <1>6, OneHolder
  <2>3. event'[k] = event[k]
    BY <1>3, <2>1, <2>2
  <2>4. lock'[k] = lock[k]
    BY <1>1, <2>1, <2>2 DEF Unlocked, SeriesTyped
  <2>5. /\ Series!Key(q)' = Series!Key(q)
    BY <2>1
  <2> HIDE DEF k
  <2> QED BY <2>1, <2>3, <2>4, <2>5 DEF RunnerSafe, Untried, Refused, k
<1>7. ASSUME NEW q \in Runners
      PROVE  RunnerSafe(q)'
  BY <1>2, <1>6 DEF RunnerSafe
<1> QED BY <1>3, <1>5, <1>7 DEF SeriesInv

\* An exception ends the check; so does its good end.
LEMMA EndsSafe ==
    ASSUME SeriesInv, NEW r \in Runners, Series!Failed(r) \/ Series!Succeeded(r),
           Unlocked(r), UNCHANGED <<event, accepted>>
    PROVE  SeriesInv'
<1> DEFINE m == Series!Idle
<1>1. Placed(m) /\ m.at \notin Busy
  BY IdlePlaced DEF Series!Idle, Busy
<1>2. runner' = [runner EXCEPT ![r] = m]
  BY DEF Series!Failed, Series!Succeeded
<1>3. Recorded(r)
  BY DEF Recorded
<1> HIDE DEF m
<1> QED BY <1>1, <1>2, <1>3, Leaves

\* A runner outside every act changes its place, its episode and its words.
LEMMA WalksSafe ==
    ASSUME SeriesInv, NEW r \in Runners, NEW m, Placed(m), m.at \notin Busy,
           runner' = [runner EXCEPT ![r] = m], UNCHANGED <<lock, event, accepted>>
    PROVE  SeriesInv'
BY Leaves DEF Unlocked, Recorded

\* An outcome is stored and the runner goes on to the next act, or the
\* exception ends the check; the lock is free either way.
LEMMA ConcludesSafe ==
    ASSUME SeriesInv, NEW r \in Runners, runner[r].at \in Busy,
           NEW state \in Series!States \ {"intent"},
           event[Series!Key(r)]["intent"] # "none",
           state \in {"failed", "rejected"} /\ runner[r].act # "follow"
             => accepted[Series!Key(r)] = 0,
           Series!Conclude(r, state), UNCHANGED accepted
    PROVE  SeriesInv'
<1>1. lock' = [lock EXCEPT ![Series!Key(r)] = "none"]
  BY DEF Series!Conclude, Series!GivesUp, Series!None
<1>2. Unlocked(r)
  BY <1>1 DEF Unlocked
<1>3. CASE Series!GivesUp(r)
  BY <1>2, <1>3, EndsSafe DEF Series!GivesUp
<1>4. CASE /\ Series!Stored(Series!Key(r), state, Series!TextOf(r))
           /\ runner' = [runner EXCEPT ![r].at = "acting", ![r].act = Series!NextAct[@],
                                       ![r].result = Series!None]
  <2> DEFINE m == [runner[r] EXCEPT !.at = "acting", !.act = Series!NextAct[@],
                                    !.result = Series!None]
             next == Series!NextAct[runner[r].act]
  <2>1. runner' = [runner EXCEPT ![r] = m]
    BY <1>4
  <2>2. Placed(runner[r]) /\ runner[r].act \in Acts
    BY KeyType DEF SeriesInv
  <2>3. next \in Acts \cup {"end"}
    BY <2>2, NextActType, DayAssumption
  <2> HIDE DEF next
  <2>4. /\ m = [f \in RunnerFields |-> m[f]] /\ m.at = "acting" /\ m.act = next
        /\ m.todo = runner[r].todo /\ m.ep = runner[r].ep /\ m.text = runner[r].text
    BY <2>2 DEF Placed, RunnerFields, next
  <2> HIDE DEF m
  <2>5. Placed(m) /\ m.at \notin Busy
    BY <2>2, <2>3, <2>4 DEF Placed, Busy
  <2>6. Recorded(r)
    BY <1>4 DEF Recorded, Series!Stored
  <2> QED BY <1>2, <2>1, <2>5, <2>6, Leaves
<1> QED BY <1>3, <1>4 DEF Series!Conclude

LEMMA CheckSafe ==
    ASSUME SeriesInv, NEW r \in Runners,
           Series!Check(r) \/ Series!List(r) \/ Series!Choose(r)
    PROVE  SeriesInv'
<1>1. UNCHANGED <<lock, event, accepted>>
  BY DEF Series!Check, Series!List, Series!Choose
<1>2. Placed(runner[r])
  BY DEF SeriesInv, SeriesTyped
<1>3. CASE Series!Succeeded(r)
  BY <1>1, <1>3, EndsSafe DEF Unlocked
<1>4. CASE Series!Check(r) /\ Series!Move(r, "choosing")
  <2> DEFINE m == [runner[r] EXCEPT !.at = "choosing"]
  <2>1. runner' = [runner EXCEPT ![r] = m]
    BY <1>4 DEF Series!Move
  <2>2. m = [f \in RunnerFields |-> m[f]] /\ m.at = "choosing" /\ m.todo = runner[r].todo
    BY <1>2 DEF Placed, RunnerFields
  <2> HIDE DEF m
  <2>3. Placed(m) /\ m.at \notin Busy
    BY <1>2, <2>2 DEF Placed, Busy
  <2> QED BY <1>1, <2>1, <2>3, WalksSafe
<1>5. CASE runner' = [runner EXCEPT ![r].at = "next", ![r].todo = Episodes \ completed]
  <2> DEFINE m == [runner[r] EXCEPT !.at = "next", !.todo = Episodes \ completed]
  <2>1. runner' = [runner EXCEPT ![r] = m]
    BY <1>5
  <2>2. m = [f \in RunnerFields |-> m[f]] /\ m.at = "next" /\ m.todo = Episodes \ completed
    BY <1>2 DEF Placed, RunnerFields
  <2> HIDE DEF m
  <2>3. Placed(m) /\ m.at \notin Busy
    BY <1>2, <2>2 DEF Placed, Busy
  <2> QED BY <1>1, <2>1, <2>3, WalksSafe
<1>6. ASSUME NEW e \in runner[r].todo,
             runner' = [runner EXCEPT ![r] = [Series!Idle EXCEPT !.at = "downloading",
                                  !.ep = e, !.todo = runner[r].todo \ {e}]]
      PROVE  SeriesInv'
  <2> DEFINE i == Series!Idle
             todo == runner[r].todo \ {e}
             m == [i EXCEPT !.at = "downloading", !.ep = e, !.todo = todo]
  <2>1. runner' = [runner EXCEPT ![r] = m]
    BY <1>6
  <2>2. Placed(i) /\ e \in Episodes /\ todo \subseteq Episodes
    BY <1>2, IdlePlaced DEF Placed
  <2> HIDE DEF i, todo
  <2>3. m = [f \in RunnerFields |-> m[f]] /\ m.at = "downloading" /\ m.ep = e /\ m.todo = todo
    BY <2>2 DEF Placed, RunnerFields
  <2> HIDE DEF m
  <2>4. Placed(m) /\ m.at \notin Busy
    BY <2>2, <2>3 DEF Placed, Busy
  <2> QED BY <1>1, <2>1, <2>4, WalksSafe
<1> QED BY <1>3, <1>4, <1>5, <1>6 DEF Series!Check, Series!List, Series!Choose

\* To another place outside an act, or on into the acts.
LEMMA MovesSafe ==
    ASSUME SeriesInv, NEW r \in Runners, UNCHANGED <<lock, event, accepted>>,
           runner[r].at \in {"downloading", "looking"},
           NEW place \in {"looking", "recalling"}, Series!Move(r, place)
    PROVE  SeriesInv'
<1> DEFINE m == [runner[r] EXCEPT !.at = place]
<1>1. runner' = [runner EXCEPT ![r] = m] /\ Placed(runner[r])
  BY DEF Series!Move, SeriesInv, SeriesTyped
<1>2. /\ m = [f \in RunnerFields |-> m[f]] /\ m.at = place
      /\ m.todo = runner[r].todo /\ m.ep = runner[r].ep
  BY <1>1 DEF Placed, RunnerFields
<1> HIDE DEF m
<1>3. Placed(m) /\ m.at \notin Busy
  BY <1>1, <1>2 DEF Placed, Busy
<1> QED BY <1>1, <1>3, WalksSafe

LEMMA ActingSafe ==
    ASSUME SeriesInv, NEW r \in Runners, UNCHANGED <<lock, event, accepted>>,
           runner[r].at \in {"finding", "archiving"},
           Series!Acting(r) \/ Series!Move(r, "archiving")
    PROVE  SeriesInv'
<1>1. Placed(runner[r])
  BY DEF SeriesInv, SeriesTyped
<1>2. CASE Series!Move(r, "archiving")
  <2> DEFINE m == [runner[r] EXCEPT !.at = "archiving"]
  <2>1. runner' = [runner EXCEPT ![r] = m]
    BY <1>2 DEF Series!Move
  <2>2. /\ m = [f \in RunnerFields |-> m[f]] /\ m.at = "archiving"
        /\ m.todo = runner[r].todo /\ m.ep = runner[r].ep /\ m.text = runner[r].text
    BY <1>1 DEF Placed, RunnerFields
  <2> HIDE DEF m
  <2>3. Placed(m) /\ m.at \notin Busy
    BY <1>1, <2>2 DEF Placed, Busy
  <2> QED BY <2>1, <2>3, WalksSafe
<1>3. CASE Series!Acting(r)
  <2>1. PICK a \in {Series!NextAct["start"], "end"} :
          runner' = [runner EXCEPT ![r].at = "acting", ![r].act = a]
    BY <1>3 DEF Series!Acting
  <2>2. a \in Acts \cup {"end"}
    BY <2>1, NextActType
  <2> DEFINE m == [runner[r] EXCEPT !.at = "acting", !.act = a]
  <2>3. runner' = [runner EXCEPT ![r] = m]
    BY <2>1
  <2>4. /\ m = [f \in RunnerFields |-> m[f]] /\ m.at = "acting" /\ m.act = a
        /\ m.todo = runner[r].todo /\ m.ep = runner[r].ep /\ m.text = runner[r].text
    BY <1>1 DEF Placed, RunnerFields
  <2> HIDE DEF m
  <2>5. Placed(m) /\ m.at \notin Busy
    BY <1>1, <2>2, <2>4 DEF Placed, Busy
  <2> QED BY <2>3, <2>5, WalksSafe
<1> QED BY <1>2, <1>3

LEMMA WatchSafe ==
    ASSUME SeriesInv, NEW r \in Runners,
           \/ Series!Download(r) \/ Series!Look(r) \/ Series!Judge(r) \/ Series!Find(r)
           \/ Series!Archive(r) \/ Series!Complete(r)
    PROVE  SeriesInv'
<1>1. UNCHANGED <<lock, event, accepted>>
  BY DEF Series!Download, Series!Look, Series!Judge, Series!Find, Series!Archive,
     Series!Complete
<1>2. CASE Series!Failed(r)
  BY <1>1, <1>2, EndsSafe DEF Unlocked
<1>3. CASE Series!Download(r)
  BY <1>1, <1>2, <1>3, MovesSafe DEF Series!Download, Series!At
<1>4. CASE Series!Look(r)
  BY <1>1, <1>2, <1>4, MovesSafe DEF Series!Look, Series!At
<1>5. CASE Series!Find(r)
  BY <1>1, <1>5, ActingSafe DEF Series!Find, Series!At
<1>6. CASE Series!Archive(r)
  BY <1>1, <1>2, <1>6, ActingSafe DEF Series!Archive, Series!At
<1>7. CASE Series!Judge(r)
  <2>1. ASSUME NEW x \in Says, runner' = [runner EXCEPT ![r].at = "finding", ![r].text = x]
        PROVE  SeriesInv'
    <3> DEFINE m == [runner[r] EXCEPT !.at = "finding", !.text = x]
    <3>1. runner' = [runner EXCEPT ![r] = m] /\ Placed(runner[r]) /\ runner[r].at = "recalling"
      BY <1>7, <2>1 DEF Series!Judge, Series!At, SeriesInv, SeriesTyped
    <3>2. /\ m = [f \in RunnerFields |-> m[f]] /\ m.at = "finding" /\ m.text = x
          /\ m.todo = runner[r].todo /\ m.ep = runner[r].ep
      BY <3>1 DEF Placed, RunnerFields
    <3> HIDE DEF m
    <3>3. Placed(m) /\ m.at \notin Busy
      BY <2>1, <3>1, <3>2 DEF Placed, Busy
    <3> QED BY <1>1, <3>1, <3>3, WalksSafe
  <2> QED BY <1>2, <1>7, <2>1 DEF Series!Judge
<1>8. CASE Series!Complete(r)
  <2>1. CASE Series!Move(r, "next")
    <3> DEFINE m == [runner[r] EXCEPT !.at = "next"]
    <3>1. runner' = [runner EXCEPT ![r] = m] /\ Placed(runner[r])
      BY <2>1 DEF Series!Move, SeriesInv, SeriesTyped
    <3>2. m = [f \in RunnerFields |-> m[f]] /\ m.at = "next" /\ m.todo = runner[r].todo
      BY <3>1 DEF Placed, RunnerFields
    <3> HIDE DEF m
    <3>3. Placed(m) /\ m.at \notin Busy
      BY <3>1, <3>2 DEF Placed, Busy
    <3> QED BY <1>1, <3>1, <3>3, WalksSafe
  <2> QED BY <1>2, <1>8, <2>1 DEF Series!Complete
<1> QED BY <1>3, <1>4, <1>5, <1>6, <1>7, <1>8

\* A step inside an act touches this act alone.
LEMMA TriesSafe ==
    ASSUME SeriesInv, NEW r \in Runners, NEW k \in Keys, k = Series!Key(r),
           NEW m, Placed(m), m.at \in Busy, <<m.ep, m.act>> = k,
           runner' = [runner EXCEPT ![r] = m], SeriesTyped',
           \A q \in Runners \ {r} : runner[q].at \in Busy => Series!Key(q) # k,
           \A j \in Keys \ {k} : /\ event'[j] = event[j] /\ accepted'[j] = accepted[j]
                                 /\ lock'[j] = lock[j],
           lock'[k] = r,
           KeySafe(k)',
           m.at # "intending" => event'[k]["intent"] # "none",
           m.at \in {"checking", "posting"} => Untried(k)',
           m.at = "concluding" /\ m.result = "failed" /\ m.act # "follow" => accepted'[k] = 0
    PROVE  SeriesInv'
<1>1. SeriesTyped /\ (\A j \in Keys : KeySafe(j)) /\ \A q \in Runners : RunnerSafe(q)
  BY DEF SeriesInv
<1>2. /\ runner'[r] = m
      /\ \A q \in Runners \ {r} : runner'[q] = runner[q]
  BY <1>1, RunnersTyped
<1>3. ASSUME NEW j \in Keys
      PROVE  KeySafe(j)'
  <2>1. CASE j # k
    BY <1>1, <2>1 DEF KeySafe, Untried, Refused
  <2> QED BY <2>1
<1>4. RunnerSafe(r)'
  <2>1. Series!Key(r)' = k
    BY <1>2 DEF Series!Key
  <2> QED BY <1>2, <2>1 DEF RunnerSafe, Untried, Refused
<1>5. ASSUME NEW q \in Runners \ {r}
      PROVE  RunnerSafe(q)'
  <2>1. CASE runner[q].at \in Busy
    <3>1. PICK j \in Keys : j = Series!Key(q)
      BY <1>1, <2>1, KeyType
    <3>2. j # k /\ Series!Key(q)' = j /\ runner'[q] = runner[q] /\ RunnerSafe(q)
      BY <1>1, <1>2, <2>1, <3>1 DEF Series!Key
    <3> QED BY <3>1, <3>2 DEF RunnerSafe, Untried, Refused
  <2>2. CASE runner[q].at \notin Busy
    BY <1>2, <2>2 DEF RunnerSafe
  <2> QED BY <2>1, <2>2
<1> QED BY <1>3, <1>4, <1>5 DEF SeriesInv

LEMMA LockSafe ==
    ASSUME SeriesInv, NEW r \in Runners, Series!Lock(r)
    PROVE  SeriesInv'
<1> DEFINE m == [runner[r] EXCEPT !.at = "intending"]
<1>1. SeriesTyped /\ (\A j \in Keys : KeySafe(j)) /\ \A q \in Runners : RunnerSafe(q)
  BY DEF SeriesInv
<1>2. /\ runner' = [runner EXCEPT ![r] = m] /\ Placed(runner[r]) /\ runner[r].at = "acting"
      /\ runner[r].act # "end" /\ lock[Series!Key(r)] = "none"
      /\ lock' = [lock EXCEPT ![Series!Key(r)] = r]
      /\ UNCHANGED <<event, accepted>>
  BY <1>1 DEF Series!Lock, Series!At, Series!Move, SeriesTyped, Series!None
<1>3. /\ m = [f \in RunnerFields |-> m[f]] /\ m.at = "intending" /\ m.act = runner[r].act
      /\ m.todo = runner[r].todo /\ m.ep = runner[r].ep /\ m.text = runner[r].text
  BY <1>2 DEF Placed, RunnerFields
<1> HIDE DEF m
<1>4. runner[r].act \in Acts /\ runner[r].ep \in Episodes
  BY <1>2 DEF Placed
<1>5. Placed(m) /\ m.at \in Busy
  BY <1>2, <1>3, <1>4 DEF Placed, Busy
<1>6. PICK k \in Keys : k = Series!Key(r) /\ k = <<m.ep, m.act>>
  BY <1>3, <1>4 DEF Series!Key, Keys
<1>7. ASSUME NEW q \in Runners \ {r}, runner[q].at \in Busy
      PROVE  Series!Key(q) # k
  <2>1. lock[Series!Key(q)] = q /\ q # "none"
    BY <1>1, <1>7, DayAssumption DEF RunnerSafe, Series!None
  <2> QED BY <1>2, <1>6, <2>1
<1>8. /\ lock' = [j \in Keys |-> lock'[j]] /\ lock'[k] = r
      /\ \A j \in Keys \ {k} : lock'[j] = lock[j]
  BY <1>1, <1>2, <1>6 DEF SeriesTyped
<1>9. SeriesTyped'
  <2>1. runner' = [q \in Runners |-> runner'[q]] /\ \A q \in Runners : Placed(runner'[q])
    BY <1>1, <1>2, <1>5, RunnersTyped
  <2> QED BY <1>1, <1>2, <1>8, <2>1 DEF SeriesTyped
<1>10. KeySafe(k)'
  BY <1>1, <1>2 DEF KeySafe, Untried, Refused
<1> QED BY <1>2, <1>3, <1>5, <1>6, <1>7, <1>8, <1>9, <1>10, TriesSafe

LEMMA IntendSafe ==
    ASSUME SeriesInv, NEW r \in Runners, Series!Intend(r)
    PROVE  SeriesInv'
<1>1. SeriesTyped /\ (\A j \in Keys : KeySafe(j)) /\ \A q \in Runners : RunnerSafe(q)
  BY DEF SeriesInv
<1>2. runner[r].at = "intending" /\ runner[r].at \in Busy /\ UNCHANGED accepted
  BY DEF Series!Intend, Series!At, Busy
<1>3. CASE Series!Attempted(Series!Key(r)) /\ Series!Conclude(r, "deferred")
  BY <1>2, <1>3, ConcludesSafe DEF Series!Attempted, Series!States, Series!None
<1>4. CASE Series!GivesUp(r)
  BY <1>2, <1>4, EndsSafe DEF Series!GivesUp, Unlocked, Series!None
<1>5. CASE /\ ~Series!Attempted(Series!Key(r)) /\ UNCHANGED lock
           /\ Series!Stored(Series!Key(r), "intent", Series!TextOf(r))
           /\ Series!Move(r, "checking")
  <2> DEFINE m == [runner[r] EXCEPT !.at = "checking"]
             text == Series!TextOf(r)
  <2>1. PICK k \in Keys : k = Series!Key(r) /\ text # "none"
    BY <1>1, <1>2, KeyType
  <2>2. /\ runner' = [runner EXCEPT ![r] = m] /\ Placed(runner[r]) /\ lock[k] = r
        /\ event[k]["intent"] = "none" /\ event' = [event EXCEPT ![k]["intent"] = text]
    BY <1>1, <1>2, <1>5, <2>1 DEF Series!Move, SeriesTyped, Series!Attempted,
       Series!Stored, RunnerSafe, Series!None
  <2>3. /\ m = [f \in RunnerFields |-> m[f]] /\ m.at = "checking" /\ m.act = runner[r].act
        /\ m.todo = runner[r].todo /\ m.ep = runner[r].ep /\ m.text = runner[r].text
    BY <2>2 DEF Placed, RunnerFields
  <2> HIDE DEF m, text
  <2>4. Placed(m) /\ m.at \in Busy /\ <<m.ep, m.act>> = k
    BY <1>2, <2>1, <2>2, <2>3 DEF Placed, Busy, Series!Key
  <2>5. \A q \in Runners \ {r} : runner[q].at \in Busy => Series!Key(q) # k
    BY <1>2, <2>1, OneHolder
  <2>6. /\ event = [j \in Keys |-> event[j]]
        /\ \A j \in Keys : event[j] = [t \in Series!States |-> event[j][t]]
    BY <1>1 DEF SeriesTyped
  <2>7. /\ event' = [j \in Keys |-> event'[j]]
        /\ event'[k] = [event[k] EXCEPT !["intent"] = text]
        /\ \A j \in Keys \ {k} : event'[j] = event[j]
    BY <2>2, <2>6
  <2>8. /\ event'[k] = [t \in Series!States |-> event'[k][t]]
        /\ event'[k]["intent"] = text
        /\ event'[k]["failed"] = event[k]["failed"]
        /\ event'[k]["rejected"] = event[k]["rejected"]
    BY <2>6, <2>7 DEF Series!States
  <2>9. SeriesTyped'
    <3>1. runner' = [q \in Runners |-> runner'[q]] /\ \A q \in Runners : Placed(runner'[q])
      BY <1>1, <2>2, <2>4, RunnersTyped
    <3>2. \A j \in Keys : event'[j] = [t \in Series!States |-> event'[j][t]]
      BY <2>6, <2>7, <2>8
    <3> QED BY <1>1, <1>2, <1>5, <2>7, <3>1, <3>2 DEF SeriesTyped
  <2>10. Untried(k)
    BY <1>1, <2>2 DEF KeySafe
  <2>11. Untried(k)' /\ accepted'[k] = 0
    BY <1>2, <2>8, <2>10 DEF Untried, Refused
  <2>12. KeySafe(k)'
    BY <2>11 DEF KeySafe
  <2>13. /\ \A j \in Keys \ {k} : /\ event'[j] = event[j] /\ accepted'[j] = accepted[j]
                                  /\ lock'[j] = lock[j]
         /\ lock'[k] = r /\ event'[k]["intent"] # "none"
    BY <1>2, <1>5, <2>1, <2>2, <2>7, <2>8
  <2>14. m.at # "concluding"
    BY <2>3
  <2> QED BY <2>1, <2>2, <2>4, <2>5, <2>9, <2>11, <2>12, <2>13, <2>14, TriesSafe
<1> QED BY <1>3, <1>4, <1>5 DEF Series!Intend

LEMMA ScreenSafe ==
    ASSUME SeriesInv, NEW r \in Runners, Series!Screen(r)
    PROVE  SeriesInv'
<1>1. SeriesTyped /\ (\A j \in Keys : KeySafe(j)) /\ \A q \in Runners : RunnerSafe(q)
  BY DEF SeriesInv
<1>2. runner[r].at = "checking" /\ runner[r].at \in Busy /\ UNCHANGED accepted
  BY DEF Series!Screen, Series!At, Busy
<1>3. PICK k \in Keys : k = Series!Key(r)
  BY <1>1, <1>2, KeyType
<1>4. lock[k] = r /\ event[k]["intent"] # "none" /\ Untried(k)
  BY <1>1, <1>2, <1>3 DEF RunnerSafe
<1>5. CASE Series!Conclude(r, "rejected")
  BY <1>2, <1>3, <1>4, <1>5, ConcludesSafe DEF Untried, Series!States
<1>6. CASE Series!Move(r, "posting") /\ UNCHANGED <<event, lock>>
  <2> DEFINE m == [runner[r] EXCEPT !.at = "posting"]
  <2>1. runner' = [runner EXCEPT ![r] = m] /\ Placed(runner[r])
    BY <1>1, <1>6 DEF Series!Move, SeriesTyped
  <2>2. /\ m = [f \in RunnerFields |-> m[f]] /\ m.at = "posting" /\ m.act = runner[r].act
        /\ m.todo = runner[r].todo /\ m.ep = runner[r].ep /\ m.text = runner[r].text
    BY <2>1 DEF Placed, RunnerFields
  <2> HIDE DEF m
  <2>3. Placed(m) /\ m.at \in Busy /\ <<m.ep, m.act>> = k
    BY <1>2, <1>3, <2>1, <2>2 DEF Placed, Busy, Series!Key
  <2>4. \A q \in Runners \ {r} : runner[q].at \in Busy => Series!Key(q) # k
    BY <1>2, <1>3, OneHolder
  <2>5. SeriesTyped'
    <3>1. runner' = [q \in Runners |-> runner'[q]] /\ \A q \in Runners : Placed(runner'[q])
      BY <1>1, <2>1, <2>3, RunnersTyped
    <3> QED BY <1>1, <1>2, <1>6, <3>1 DEF SeriesTyped
  <2>6. KeySafe(k)' /\ Untried(k)'
    BY <1>1, <1>2, <1>4, <1>6 DEF KeySafe, Untried, Refused
  <2>7. m.at # "concluding"
    BY <2>2
  <2> QED BY <1>2, <1>3, <1>4, <1>6, <2>1, <2>3, <2>4, <2>5, <2>6, <2>7, TriesSafe
<1> QED BY <1>5, <1>6 DEF Series!Screen

\* The platform takes it or not, and what is remembered of the answer never
\* turns a like or a comment it took into a failure.
LEMMA PostSafe ==
    ASSUME SeriesInv, NEW r \in Runners, Series!Post(r)
    PROVE  SeriesInv'
<1>1. SeriesTyped /\ (\A j \in Keys : KeySafe(j)) /\ \A q \in Runners : RunnerSafe(q)
  BY DEF SeriesInv
<1>2. runner[r].at = "posting" /\ runner[r].at \in Busy /\ UNCHANGED <<event, lock>>
  BY DEF Series!Post, Series!At, Busy
<1>3. PICK k \in Keys : k = Series!Key(r)
  BY <1>1, <1>2, KeyType
<1>4. lock[k] = r /\ event[k]["intent"] # "none" /\ Untried(k)
  BY <1>1, <1>2, <1>3 DEF RunnerSafe
<1>5. PICK granted \in BOOLEAN, gone \in BOOLEAN :
        /\ accepted' = [accepted EXCEPT ![k] = @ + (IF granted THEN 1 ELSE 0)]
        /\ \E x \in IF gone THEN Series!Answers(r)
                    ELSE {IF granted THEN "completed" ELSE "failed"} :
             runner' = [runner EXCEPT ![r].at = "concluding", ![r].result = x]
  BY <1>3 DEF Series!Post
<1>6. PICK x : /\ x \in IF gone THEN Series!Answers(r)
                        ELSE {IF granted THEN "completed" ELSE "failed"}
               /\ runner' = [runner EXCEPT ![r].at = "concluding", ![r].result = x]
  BY <1>5
<1>7. /\ x \in {"completed", "failed", "result_unknown"}
      /\ x = "failed" /\ runner[r].act # "follow" => ~granted
  BY <1>6 DEF Series!Answers
<1> DEFINE m == [runner[r] EXCEPT !.at = "concluding", !.result = x]
<1>8. runner' = [runner EXCEPT ![r] = m] /\ Placed(runner[r])
  BY <1>1, <1>6 DEF SeriesTyped
<1>9. /\ m = [f \in RunnerFields |-> m[f]] /\ m.at = "concluding" /\ m.act = runner[r].act
      /\ m.todo = runner[r].todo /\ m.ep = runner[r].ep /\ m.text = runner[r].text
      /\ m.result = x
  BY <1>8 DEF Placed, RunnerFields
<1> HIDE DEF m
<1>10. Placed(m) /\ m.at \in Busy /\ <<m.ep, m.act>> = k
  BY <1>2, <1>3, <1>7, <1>8, <1>9 DEF Placed, Busy, Series!Key
<1>11. \A q \in Runners \ {r} : runner[q].at \in Busy => Series!Key(q) # k
  BY <1>2, <1>3, OneHolder
<1>12. /\ accepted \in [Keys -> Nat] /\ accepted[k] = 0
  BY <1>1, <1>4 DEF SeriesTyped, Untried
<1>13. /\ accepted' \in [Keys -> Nat] /\ accepted'[k] = IF granted THEN 1 ELSE 0
       /\ \A j \in Keys \ {k} : accepted'[j] = accepted[j]
  BY <1>5, <1>12
<1>14. SeriesTyped'
  <2>1. runner' = [q \in Runners |-> runner'[q]] /\ \A q \in Runners : Placed(runner'[q])
    BY <1>1, <1>8, <1>10, RunnersTyped
  <2> QED BY <1>1, <1>2, <1>13, <2>1 DEF SeriesTyped
<1>15. KeySafe(k)'
  BY <1>2, <1>4, <1>13 DEF KeySafe, Untried, Refused
<1>16. m.at \notin {"checking", "posting"} /\ event'[k]["intent"] # "none"
  BY <1>2, <1>4, <1>9
<1>17. m.result = "failed" /\ m.act # "follow" => accepted'[k] = 0
  BY <1>7, <1>9, <1>13
<1> QED BY <1>2, <1>3, <1>4, <1>8, <1>10, <1>11, <1>13, <1>14, <1>15, <1>16, <1>17, TriesSafe

LEMMA OutcomeSafe ==
    ASSUME SeriesInv, NEW r \in Runners, Series!Outcome(r)
    PROVE  SeriesInv'
<1> DEFINE state == runner[r].result
<1>1. runner[r].at = "concluding" /\ runner[r].at \in Busy /\ UNCHANGED accepted
  BY DEF Series!Outcome, Series!At, Busy
<1>2. RunnerSafe(r) /\ Placed(runner[r])
  BY DEF SeriesInv, SeriesTyped
<1>3. state \in {"completed", "failed", "result_unknown"}
  BY <1>1, <1>2 DEF Placed
<1>4. /\ event[Series!Key(r)]["intent"] # "none"
      /\ state = "failed" /\ runner[r].act # "follow" => accepted[Series!Key(r)] = 0
  BY <1>1, <1>2 DEF RunnerSafe
<1>5. Series!Conclude(r, state)
  BY DEF Series!Outcome
<1> HIDE DEF state
<1>6. state \in Series!States \ {"intent"}
  BY <1>3 DEF Series!States
<1> QED BY <1>1, <1>3, <1>4, <1>5, <1>6, ConcludesSafe

\* A crash while a call is out: the platform may have taken it, and the
\* intent that was stored before it stays.
LEMMA SeriesCrashSafe ==
    ASSUME SeriesInv, Series!Crash
    PROVE  SeriesInv'
<1>1. SeriesTyped /\ (\A j \in Keys : KeySafe(j)) /\ \A q \in Runners : RunnerSafe(q)
  BY DEF SeriesInv
<1>2. /\ runner' = [r \in Runners |-> Series!Idle]
      /\ lock' = [k \in Keys |-> "none"] /\ UNCHANGED event
  BY DEF Series!Crash, Keys, Series!None
<1>3. \A r \in Runners : Placed(runner'[r]) /\ runner'[r].at = "idle"
  BY <1>2, IdlePlaced DEF Series!Idle
<1>4. \A r \in Runners : RunnerSafe(r)'
  BY <1>3 DEF RunnerSafe, Busy
<1>5. accepted' \in [Keys -> Nat] /\ \A k \in Keys : KeySafe(k)'
  <2>1. CASE UNCHANGED accepted
    BY <1>1, <1>2, <2>1 DEF KeySafe, Untried, Refused, SeriesTyped
  <2>2. CASE ~UNCHANGED accepted
    <3>1. PICK r \in Runners :
            /\ runner[r].at = "posting"
            /\ accepted' = [accepted EXCEPT ![Series!Key(r)] = @ + 1]
      BY <2>2 DEF Series!Crash, Series!At
    <3>2. PICK k \in Keys : k = Series!Key(r)
      BY <1>1, <3>1, KeyType DEF Busy
    <3>3. event[k]["intent"] # "none" /\ Untried(k)
      BY <1>1, <3>1, <3>2 DEF RunnerSafe, Busy
    <3>4. accepted \in [Keys -> Nat] /\ accepted[k] = 0
      BY <1>1, <3>3 DEF SeriesTyped, Untried
    <3>5. /\ accepted' \in [Keys -> Nat] /\ accepted'[k] = 1
          /\ \A j \in Keys \ {k} : accepted'[j] = accepted[j]
      BY <3>1, <3>2, <3>4
    <3>6. KeySafe(k)'
      BY <1>2, <3>3, <3>5 DEF KeySafe, Untried, Refused
    <3>7. \A j \in Keys \ {k} : KeySafe(j)'
      BY <1>1, <1>2, <3>5 DEF KeySafe, Untried, Refused
    <3> QED BY <3>5, <3>6, <3>7
  <2> QED BY <2>1, <2>2
<1>6. SeriesTyped'
  BY <1>1, <1>2, <1>3, <1>5 DEF SeriesTyped
<1> QED BY <1>4, <1>5, <1>6 DEF SeriesInv

LEMMA SeriesStays ==
    ASSUME SeriesInv, UNCHANGED <<runner, lock, event, accepted>>
    PROVE  SeriesInv'
BY DEF SeriesInv, SeriesTyped, KeySafe, RunnerSafe, Untried, Refused, Series!Key

LEMMA SeriesSafe ==
    ASSUME SeriesInv, Series!Next
    PROVE  SeriesInv'
<1>1. CASE Series!Cooled \/ Series!Tomorrow
  BY <1>1, SeriesStays DEF Series!Cooled, Series!Tomorrow
<1>2. CASE Series!Crash
  BY <1>2, SeriesCrashSafe
<1>3. ASSUME NEW r \in Runners, Series!Check(r) \/ Series!Step(r)
      PROVE  SeriesInv'
  BY <1>3, CheckSafe, WatchSafe, LockSafe, IntendSafe, ScreenSafe, PostSafe, OutcomeSafe
     DEF Series!Step
<1> QED BY <1>1, <1>2, <1>3 DEF Series!Next

LEMMA InitSeries == DayInit => SeriesInv
<1> SUFFICES ASSUME DayInit PROVE SeriesInv
  OBVIOUS
<1>1. /\ runner = [r \in Runners |-> Series!Idle]
      /\ lock = [k \in Keys |-> "none"]
      /\ accepted = [k \in Keys |-> 0]
      /\ event = [k \in Keys |-> [s \in Series!States |-> "none"]]
  BY DEF DayInit, Series!Init, Keys, Series!None
<1>2. \A r \in Runners : Placed(runner[r]) /\ runner[r].at = "idle"
  BY <1>1, IdlePlaced DEF Series!Idle
<1>3. \A r \in Runners : RunnerSafe(r)
  BY <1>2 DEF RunnerSafe, Busy
<1>4. \A k \in Keys : KeySafe(k)
  BY <1>1 DEF KeySafe, Untried, Refused, Series!States
<1> QED BY <1>1, <1>2, <1>3, <1>4 DEF SeriesInv, SeriesTyped

\* However often an episode is taken up again, by the check of the day, by an
\* operator's beside it, or after a crash between an act and its record, the
\* platform gets each act once; and a like or a comment recorded as failed or
\* rejected is not on the platform (bangumi.py:1125-1277).
THEOREM ActedOnceAlways == DaySpec => []ActedOnce
<1>1. DayInit => SeriesInv
  BY InitSeries
<1>2. ASSUME SeriesInv, [DayNext]_allVars
      PROVE  SeriesInv'
  <2>1. CASE Series!Next
    BY <1>2, <2>1, SeriesSafe
  <2>2. CASE UNCHANGED seriesVars
    BY <1>2, <2>2, SeriesStays DEF seriesVars
  <2> QED BY <1>2, <2>1, <2>2 DEF DayNext, InWatch, InLife, allVars
<1>3. SeriesInv => ActedOnce
  BY DEF SeriesInv, SeriesTyped, KeySafe, Refused, Keys, ActedOnce, Series!ActedOnce,
     Series!FailureIsReal, Series!None
<1> QED BY <1>1, <1>2, <1>3, PTL DEF DaySpec
=============================================================================
