------------------------- MODULE PublishingProofs ---------------------------
(***************************************************************************)
(* Theorems about what is published, for any tasks, coroutines and bounds. *)
(* DraftPublish: the review implements ReviewGate, what is posted was      *)
(* approved, and nothing is posted that nobody asked for.  DirectPost:     *)
(* a pause stops what was not checked, a task that will be tried again is  *)
(* not online, and within a day the limiter's windows and table count what *)
(* was published.  WeeklySummary: a week's success does not lie.           *)
(***************************************************************************)
EXTENDS MCPublishing, FiniteSetTheorems, SequenceTheorems, TLAPS

DraftStatus == {"absent", "awaiting_review", "rejected", "approved", "publishing",
                "retry_wait", "result_unknown", "failed", "expired", "published"}

\* Before a reviewer approves a draft, and if none ever does.
Ungranted == {"absent", "awaiting_review", "rejected"}

DraftType == [status : DraftStatus, revision : Nat, expiresAt : Int, updatedAt : Int]
Places == {"none", "ready", "checking", "posting", "posted", "backing", "filing",
           "doubting", "leaving", "archiving"}
Coroutine == [at : Places, tracked : BOOLEAN]
RunType == [Task -> [Copy -> Coroutine]]

TypeOK ==
    /\ now \in Nat
    /\ draft \in DraftType
    /\ run \in RunType
    /\ posts \in Nat /\ commands \in Nat /\ reopened \in Nat

\* A coroutine on its way to the platform, and one the platform has answered.
Coroutines == Task \X Copy
Place(p) == run[p[1]][p[2]].at
Going == {p \in Coroutines : Place(p) \in {"checking", "posting"}}
Back == {p \in Coroutines : Place(p) = "posted"}
Busy == {"checking", "posting", "posted"}

-----------------------------------------------------------------------------
(* What a step can do, told by what it does to the draft, the histories    *)
(* and the coroutines on their way.                                        *)

\* p moves to a place, or nobody new is on the way.
Moves(p, place) ==
    \A q \in Coroutines : Place(q)' = IF q = p THEN place ELSE Place(q)
Calms == \A q \in Coroutines : Place(q)' = Place(q) \/ Place(q)' \notin Busy

KeepsText == draft'.revision = draft.revision

\* A handler that fails reopens a draft it does not hold, or has posted.
Lapses ==
    /\ Calms /\ UNCHANGED <<review, posts, posted>> /\ reopened' = reopened + 1
    /\ draft.status = "publishing" /\ draft'.status = "retry_wait" /\ KeepsText

\* Nothing, or the draft is given up.
Rests ==
    /\ Calms /\ UNCHANGED <<approvals, platform>> /\ commands' \in {commands, commands + 1}
    /\ \/ draft' = draft
       \/ /\ KeepsText /\ draft.status \notin Ungranted
          /\ draft'.status \in {"expired", "result_unknown", "failed"}

\* It is written, edited or rejected.
Edits ==
    /\ Calms /\ UNCHANGED <<review, platform>>
    /\ draft.status \in {"absent", "awaiting_review"}
    /\ \/ draft'.status = "awaiting_review" /\ draft'.revision = draft.revision + 1
       \/ /\ draft'.status = "rejected"
          /\ draft'.revision \in {draft.revision, draft.revision + 1}

\* A reviewer approves what it says.
Grants ==
    /\ Calms /\ UNCHANGED platform /\ commands' = commands + 1
    /\ draft.status = "awaiting_review" /\ draft'.status = "approved" /\ KeepsText
    /\ approvals' = approvals \cup {draft.revision}

\* A request for another attempt.
Resets ==
    /\ Calms /\ UNCHANGED <<approvals, platform>> /\ commands' = commands + 1
    /\ draft.status \notin Ungranted /\ draft'.status = "approved" /\ KeepsText

\* A coroutine takes the lock of the publication,
Takes(p) ==
    /\ Place(p) \notin Busy /\ Moves(p, "checking") /\ UNCHANGED <<review, platform>>
    /\ draft.status \in {"approved", "retry_wait"}
    /\ draft'.status = "publishing" /\ KeepsText

\* goes on,
Passes(p) ==
    /\ Place(p) = "checking" /\ Moves(p, "posting")
    /\ UNCHANGED <<draft, review, platform>>

\* gives up, and the draft waits if it was still being published,
Yields(p) ==
    /\ p \in Going /\ Calms /\ Place(p)' \notin Busy /\ UNCHANGED <<review, platform>>
    /\ \/ draft' = draft
       \/ draft.status = "publishing" /\ draft'.status = "retry_wait" /\ KeepsText

\* posts,
Posts(p) ==
    /\ Place(p) = "posting" /\ Moves(p, "posted") /\ UNCHANGED <<draft, review, reopened>>
    /\ posts' = posts + 1 /\ posted' = posted \cup {draft.revision}

\* and files the answer.
Answers(p) ==
    /\ Place(p) = "posted" /\ Calms /\ UNCHANGED <<review, platform>>
    /\ \/ draft' = draft
       \/ draft.status = "publishing" /\ draft'.status = "published" /\ KeepsText

Effect ==
    \/ Rests \/ Edits \/ Grants \/ Resets \/ Lapses
    \/ \E p \in Coroutines : Takes(p) \/ Passes(p) \/ Yields(p) \/ Posts(p) \/ Answers(p)

-----------------------------------------------------------------------------
(* The coroutines.                                                         *)

LEMMA GotoMoves ==
    ASSUME TypeOK, NEW t \in Task, NEW k \in Copy, NEW place \in Places, Goto(t, k, place)
    PROVE  run' \in RunType /\ Moves(<<t, k>>, place)
<1>1. run' = [run EXCEPT ![t] = [run[t] EXCEPT ![k] = [run[t][k] EXCEPT !.at = place]]]
  BY DEF Goto, TypeOK, RunType
<1>2. [run[t][k] EXCEPT !.at = place] \in Coroutine
      /\ [run[t][k] EXCEPT !.at = place].at = place
  BY DEF TypeOK, RunType, Coroutine
<1> DEFINE c == [run[t][k] EXCEPT !.at = place]
<1> HIDE DEF c
<1>3. run' \in RunType
  BY <1>1, <1>2 DEF TypeOK, RunType, c
<1>4. ASSUME NEW u \in Task, NEW l \in Copy
      PROVE  run'[u][l].at = IF u = t /\ l = k THEN place ELSE run[u][l].at
  BY <1>1, <1>2 DEF TypeOK, RunType, c
<1> QED BY <1>3, <1>4 DEF Moves, Place, Coroutines

LEMMA ReturnCalms ==
    ASSUME TypeOK, NEW t \in Task, NEW k \in Copy, Return(t, k)
    PROVE  run' \in RunType /\ Calms /\ Place(<<t, k>>)' = "none"
<1>1. run' = [run EXCEPT ![t] = [run[t] EXCEPT ![k] = Gone]]
  BY DEF Return, TypeOK, RunType
<1>2. Gone \in Coroutine /\ Gone.at = "none"
  BY DEF Gone, Coroutine, Places
<1>3. run' \in RunType
  BY <1>1, <1>2 DEF TypeOK, RunType
<1>4. ASSUME NEW u \in Task, NEW l \in Copy
      PROVE  run'[u][l].at = IF u = t /\ l = k THEN "none" ELSE run[u][l].at
  BY <1>1, <1>2 DEF TypeOK, RunType
<1> QED BY <1>3, <1>4 DEF Calms, Place, Coroutines, Busy

LEMMA SpawnCalms ==
    ASSUME TypeOK, NEW t \in Task, NEW k \in Copy, NEW tracked \in BOOLEAN,
           Spawn(t, k, tracked)
    PROVE  run' \in RunType /\ Calms
<1> DEFINE c == [at |-> "ready", tracked |-> tracked]
<1>1. run' = [run EXCEPT ![t] = [run[t] EXCEPT ![k] = c]]
  BY DEF Spawn, TypeOK, RunType
<1>2. c \in Coroutine /\ c.at = "ready"
  BY DEF Coroutine, Places
<1> HIDE DEF c
<1>3. run' \in RunType
  BY <1>1, <1>2 DEF TypeOK, RunType
<1>4. ASSUME NEW u \in Task, NEW l \in Copy
      PROVE  run'[u][l].at = IF u = t /\ l = k THEN "ready" ELSE run[u][l].at
  BY <1>1, <1>2 DEF TypeOK, RunType
<1> QED BY <1>3, <1>4 DEF Calms, Place, Coroutines, Busy

LEMMA ResumeCalms ==
    ASSUME TypeOK, Resume
    PROVE  run' \in RunType /\ Calms
<1> DEFINE ready == [at |-> "ready", tracked |-> TRUE]
           first(t) == IF IsCutShort(task[t]) THEN ready ELSE Gone
<1>1. PICK k \in Copy : run' = [t \in Task |-> [run[t] EXCEPT ![k] = first(t)]]
  BY DEF Resume
<1>2. ASSUME NEW t \in Task
      PROVE  first(t) \in Coroutine /\ first(t).at \in {"ready", "none"}
  BY DEF Gone, Coroutine, Places
<1> HIDE DEF first
<1>3. run' \in RunType
  BY <1>1, <1>2 DEF TypeOK, RunType
<1>4. ASSUME NEW u \in Task, NEW l \in Copy
      PROVE  run'[u][l].at = run[u][l].at \/ run'[u][l].at \in {"ready", "none"}
  BY <1>1, <1>2 DEF TypeOK, RunType
<1> QED BY <1>3, <1>4 DEF Calms, Place, Coroutines, Busy

LEMMA DieCalms ==
    ASSUME CoroutinesDie
    PROVE  run' \in RunType /\ Calms
<1>1. Gone \in Coroutine /\ Gone.at = "none"
  BY DEF Gone, Coroutine, Places
<1> QED BY <1>1 DEF CoroutinesDie, Busy, RunType, Calms, Place, Coroutines, Busy

-----------------------------------------------------------------------------
(* The statements of the draft's store.                                    *)

LEMMA ToStatus ==
    ASSUME NEW d \in DraftType, NEW s \in DraftStatus, NEW n \in Int
    PROVE  /\ To(d, s, n) \in DraftType
           /\ To(d, s, n).status = s
           /\ To(d, s, n).revision = d.revision
  BY DEF To, DraftType

LEMMA StoreMoves ==
    ASSUME NEW d \in DraftType, NEW n \in Int
    PROVE  /\ \A s \in {"published", "retry_wait", "result_unknown"} :
                /\ Settled(d, s, n) \in DraftType
                /\ \/ Settled(d, s, n) = d
                   \/ /\ d.status = "publishing"
                      /\ Settled(d, s, n).status = s
                      /\ Settled(d, s, n).revision = d.revision
           /\ /\ MarkedFailed(d, n) \in DraftType
              /\ \/ MarkedFailed(d, n) = d
                 \/ /\ d.status \notin Ungranted
                    /\ MarkedFailed(d, n).status = "failed"
                    /\ MarkedFailed(d, n).revision = d.revision
           /\ /\ Recovered(d, n) \in DraftType
              /\ \/ Recovered(d, n) = d
                 \/ /\ d.status \notin Ungranted
                    /\ Recovered(d, n).status \in {"expired", "result_unknown"}
                    /\ Recovered(d, n).revision = d.revision
<1>1. \A s \in {"published", "retry_wait", "result_unknown", "failed", "expired"} :
         s \in DraftStatus
  BY DEF DraftStatus
<1>2. \A s \in {"published", "retry_wait", "result_unknown", "failed", "expired"} :
         /\ To(d, s, n) \in DraftType
         /\ To(d, s, n).status = s
         /\ To(d, s, n).revision = d.revision
  BY <1>1, ToStatus
<1>3. \A s \in {"published", "retry_wait", "result_unknown"} :
         \/ Settled(d, s, n) = d
         \/ d.status = "publishing" /\ Settled(d, s, n) = To(d, s, n)
  BY DEF Settled
<1>4. \/ MarkedFailed(d, n) = d
      \/ d.status \notin Ungranted /\ MarkedFailed(d, n) = To(d, "failed", n)
  BY DEF MarkedFailed, Ungranted
<1>5. \/ Recovered(d, n) = d
      \/ d.status \notin Ungranted /\ Recovered(d, n) = To(d, "expired", n)
      \/ d.status \notin Ungranted /\ Recovered(d, n) = To(d, "result_unknown", n)
  BY DEF Recovered, Ungranted
<1> QED BY <1>2, <1>3, <1>4, <1>5

LEMMA Writings ==
    ASSUME NEW d \in DraftType, NEW n \in Int, NEW passed \in BOOLEAN
    PROVE  /\ Updated(d, n) \in DraftType
           /\ Updated(d, n).revision = d.revision + 1
           /\ Updated(d, n).status = d.status
           /\ CreatedDraft(passed, n) \in DraftType
           /\ CreatedDraft(passed, n).revision = 1
           /\ CreatedDraft(passed, n).status \in {"awaiting_review", "rejected"}
<1>1. /\ Updated(d, n) \in DraftType
      /\ Updated(d, n).revision = d.revision + 1
      /\ Updated(d, n).status = d.status
  <2> DEFINE r == d.revision + 1
  <2>1. r \in Nat
    BY DEF DraftType
  <2>2. Updated(d, n) = [d EXCEPT !.revision = r, !.updatedAt = n]
    BY DEF Updated
  <2> HIDE DEF r
  <2>3. Updated(d, n) \in DraftType /\ Updated(d, n).revision = r /\ Updated(d, n).status = d.status
    BY <2>1, <2>2 DEF DraftType
  <2> QED BY <2>3 DEF r
<1>2. /\ CreatedDraft(passed, n) \in DraftType
      /\ CreatedDraft(passed, n).revision = 1
      /\ CreatedDraft(passed, n).status \in {"awaiting_review", "rejected"}
  <2> DEFINE e == IF Expiry = 0 THEN NoExpiry ELSE n + Expiry
             s == IF passed THEN "awaiting_review" ELSE "rejected"
  <2>1. e \in Int /\ s \in DraftStatus /\ s \in {"awaiting_review", "rejected"}
    BY DraftAssumption DEF NoExpiry, DraftStatus
  <2>2. CreatedDraft(passed, n) =
           [status |-> s, revision |-> 1, expiresAt |-> e, updatedAt |-> n]
    BY DEF CreatedDraft
  <2> HIDE DEF e, s
  <2> QED BY <2>1, <2>2 DEF DraftType
<1> QED BY <1>1, <1>2

-----------------------------------------------------------------------------
(* Every action has one of the effects and keeps the types.                *)

LEMMA ProcessEffect ==
    ASSUME TypeOK,
           \/ Boot \/ Crash \/ Tick \/ RecoverStuck
           \/ \E t \in Task : RetryPass(t) \/ Watchdog(t) \/ CancelTask(t) \/ RetryTask(t)
    PROVE  TypeOK' /\ Rests
<1> USE DEF platform, review, rows
<1>1. run' = run => run' \in RunType /\ Calms
  BY DEF TypeOK, Calms, Place
<1>2. draft \in DraftType /\ now \in Nat /\ now \in Int /\ posts \in Nat /\ commands \in Nat
  BY DEF TypeOK
<1>3. ASSUME NEW t \in Task, Redispatch(t)
      PROVE  run' \in RunType /\ Calms
  BY <1>3, SpawnCalms DEF Redispatch
<1>4. ASSUME run' \in RunType /\ Calms, draft' \in {draft, Recovered(draft, now)},
             UNCHANGED <<approvals, platform>>, commands' \in {commands, commands + 1},
             now' \in Nat
      PROVE  TypeOK' /\ Rests
  <2>0. /\ Recovered(draft, now) \in DraftType
        /\ \/ Recovered(draft, now) = draft
           \/ /\ draft.status \notin Ungranted
              /\ Recovered(draft, now).status \in {"expired", "result_unknown"}
              /\ Recovered(draft, now).revision = draft.revision
    BY <1>2, StoreMoves
  <2>1. TypeOK'
    BY <1>2, <1>4, <2>0 DEF TypeOK
  <2>2. \/ draft' = draft
        \/ /\ KeepsText /\ draft.status \notin Ungranted
           /\ draft'.status \in {"expired", "result_unknown", "failed"}
    BY <1>4, <2>0 DEF KeepsText
  <2> QED BY <1>4, <2>1, <2>2 DEF Rests
<1>5. CASE Boot
  BY <1>2, <1>4, <1>5, ResumeCalms DEF Boot
<1>6. CASE Crash
  BY <1>2, <1>4, <1>6, DieCalms DEF Crash
<1>7. CASE Tick
  BY <1>1, <1>2, <1>4, <1>7 DEF Tick, TimePasses
<1>8. CASE RecoverStuck
  BY <1>1, <1>2, <1>4, <1>8 DEF RecoverStuck
<1>9. ASSUME NEW t \in Task, RetryPass(t)
      PROVE  TypeOK' /\ Rests
  BY <1>2, <1>3, <1>4, <1>9 DEF RetryPass, RetryOverdue
<1>10. ASSUME NEW t \in Task, Watchdog(t)
       PROVE  TypeOK' /\ Rests
  BY <1>1, <1>2, <1>4, <1>10 DEF Watchdog, FailOrphan
<1>11. ASSUME NEW t \in Task, CancelTask(t)
       PROVE  TypeOK' /\ Rests
  BY <1>1, <1>2, <1>4, <1>11 DEF CancelTask, Cancel
<1>12. ASSUME NEW t \in Task, RetryTask(t)
       PROVE  TypeOK' /\ Rests
  BY <1>2, <1>3, <1>4, <1>12 DEF RetryTask
<1> QED BY <1>5, <1>6, <1>7, <1>8, <1>9, <1>10, <1>11, <1>12

LEMMA PanelEffect ==
    ASSUME TypeOK,
           \/ CreateDraft \/ PatchDraft \/ RejectDraft
           \/ \E t \in Task : ApproveDraft(t) \/ RetryDraft(t)
    PROVE  TypeOK' /\ (Rests \/ Edits \/ Grants \/ Resets)
<1> USE DEF platform, review, rows
<1>1. run' = run => run' \in RunType /\ Calms
  BY DEF TypeOK, Calms, Place
<1>2. draft \in DraftType /\ now \in Nat /\ now \in Int /\ posts \in Nat /\ commands \in Nat
  BY DEF TypeOK
<1>3. ASSUME NEW t \in Task, NewTask(t)
      PROVE  run' \in RunType /\ Calms
  BY <1>1, <1>3, SpawnCalms DEF NewTask
<1>4. draft.revision \in Nat
  BY <1>2 DEF DraftType
<1>5. CASE CreateDraft
  <2>1. PICK passed \in BOOLEAN : draft' = CreatedDraft(passed, now)
    BY <1>5 DEF CreateDraft
  <2>2. /\ CreatedDraft(passed, now) \in DraftType
        /\ CreatedDraft(passed, now).revision = 1
        /\ CreatedDraft(passed, now).status \in {"awaiting_review", "rejected"}
    BY <1>2, Writings
  <2>3. draft.status = "absent" /\ draft.revision = 0
    BY <1>5 DEF CreateDraft, NoDraft
  <2>4. TypeOK'
    BY <1>1, <1>2, <1>5, <2>1, <2>2 DEF CreateDraft, TypeOK
  <2>5. Edits
    BY <1>1, <1>5, <2>1, <2>2, <2>3 DEF CreateDraft, Edits
  <2> QED BY <2>4, <2>5
<1>6. CASE PatchDraft
  <2>1. draft.status = "awaiting_review" /\ draft' = Updated(draft, now)
    BY <1>6 DEF PatchDraft, CanUpdate
  <2>2. /\ Updated(draft, now) \in DraftType
        /\ Updated(draft, now).revision = draft.revision + 1
        /\ Updated(draft, now).status = draft.status
    BY <1>2, Writings
  <2>3. TypeOK'
    BY <1>1, <1>2, <1>6, <2>1, <2>2 DEF PatchDraft, TypeOK
  <2>4. Edits
    BY <1>1, <1>6, <2>1, <2>2 DEF PatchDraft, Edits
  <2> QED BY <2>3, <2>4
<1>7. CASE RejectDraft
  <2>1. draft.status = "awaiting_review" /\ draft' = To(draft, "rejected", now)
    BY <1>7 DEF RejectDraft, CanReject
  <2>2. "rejected" \in DraftStatus
    BY DEF DraftStatus
  <2>3. TypeOK'
    BY <1>1, <1>2, <1>7, <2>1, <2>2, ToStatus DEF RejectDraft, TypeOK
  <2>4. Edits
    BY <1>1, <1>2, <1>7, <2>1, <2>2, ToStatus DEF RejectDraft, Edits
  <2> QED BY <2>3, <2>4
<1>8. "approved" \in DraftStatus
  BY DEF DraftStatus
<1>9. ASSUME NEW t \in Task, ApproveDraft(t)
      PROVE  TypeOK' /\ Grants
  <2>1. PICK expected \in Seen :
           CanApprove(draft, expected) /\ approvals' = approvals \cup {expected}
    BY <1>9 DEF ApproveDraft
  <2>2. draft.status = "awaiting_review" /\ approvals' = approvals \cup {draft.revision}
    BY <2>1 DEF CanApprove
  <2>3. TypeOK'
    BY <1>2, <1>3, <1>8, <1>9, ToStatus DEF ApproveDraft, TypeOK
  <2>4. Grants
    BY <1>2, <1>3, <1>8, <1>9, <2>2, ToStatus DEF ApproveDraft, Grants, KeepsText
  <2> QED BY <2>3, <2>4
<1>10. ASSUME NEW t \in Task, RetryDraft(t)
       PROVE  TypeOK' /\ Resets
  <2>1. run' \in RunType /\ Calms
    BY <1>1, <1>3, <1>10 DEF RetryDraft
  <2>2. draft.status \notin Ungranted
    BY <1>10 DEF RetryDraft, CanReset, Ungranted
  <2>3. draft' \in DraftType /\ draft'.status = "approved" /\ KeepsText
    BY <1>2, <1>8, <1>10, ToStatus DEF RetryDraft, KeepsText
  <2>4. TypeOK'
    BY <1>2, <1>10, <2>1, <2>3 DEF RetryDraft, TypeOK
  <2> QED BY <1>10, <2>1, <2>2, <2>3, <2>4 DEF RetryDraft, Resets
<1> QED BY <1>5, <1>6, <1>7, <1>9, <1>10

\* What a coroutine does that neither takes the lock nor talks to the platform.
LEMMA AsideEffect ==
    ASSUME TypeOK, NEW t \in Task, NEW k \in Copy,
           \/ Refuse(t, k) \/ BackedOff(t, k) \/ Filed(t, k) \/ NoAnswer(t, k)
           \/ Doubted(t, k) \/ Archived(t, k)
    PROVE  TypeOK' /\ Rests
<1> USE DEF world, platform, review
<1>1. /\ draft \in DraftType /\ now \in Nat /\ now \in Int /\ posts \in Nat /\ commands \in Nat
      /\ reopened \in Nat
  BY DEF TypeOK
<1>2. ASSUME run' \in RunType /\ Calms, UNCHANGED <<world, platform>>,
             draft' \in {draft, MarkedFailed(draft, now), Settled(draft, "result_unknown", now)}
      PROVE  TypeOK' /\ Rests
  <2>0. /\ Settled(draft, "result_unknown", now) \in DraftType
        /\ MarkedFailed(draft, now) \in DraftType
        /\ \/ Settled(draft, "result_unknown", now) = draft
           \/ /\ draft.status = "publishing"
              /\ Settled(draft, "result_unknown", now).status = "result_unknown"
              /\ Settled(draft, "result_unknown", now).revision = draft.revision
        /\ \/ MarkedFailed(draft, now) = draft
           \/ /\ draft.status \notin Ungranted
              /\ MarkedFailed(draft, now).status = "failed"
              /\ MarkedFailed(draft, now).revision = draft.revision
    BY <1>1, StoreMoves
  <2>1. draft' \in DraftType
    BY <1>2, <1>1, <2>0
  <2>2. CASE draft' = draft
    BY <1>1, <1>2, <2>1, <2>2 DEF TypeOK, Rests
  <2>3. CASE draft' # draft
    <3>1. /\ KeepsText /\ draft.status \notin Ungranted
          /\ draft'.status \in {"expired", "result_unknown", "failed"}
      BY <1>2, <2>0, <2>3 DEF KeepsText, Ungranted
    <3> QED BY <1>1, <1>2, <2>1, <3>1 DEF TypeOK, Rests
  <2> QED BY <2>2, <2>3
<1>3. CASE Refuse(t, k)
  BY <1>2, <1>3, ReturnCalms DEF Refuse, FailTask
<1>4. CASE BackedOff(t, k)
  BY <1>2, <1>4, ReturnCalms DEF BackedOff, Finish
<1>5. CASE Filed(t, k)
  BY <1>2, <1>5, ReturnCalms DEF Filed
<1>6. CASE NoAnswer(t, k)
  <2>1. PICK place \in {"doubting", "leaving"} : Goto(t, k, place)
    BY <1>6 DEF NoAnswer
  <2>2. run' \in RunType /\ Moves(<<t, k>>, place)
    BY <2>1, GotoMoves DEF Places
  <2>3. Calms
    BY <2>2 DEF Moves, Calms, Busy
  <2>4. /\ draft' \in {draft, Settled(draft, "result_unknown", now)}
        /\ UNCHANGED <<world, platform>>
    BY <1>6 DEF NoAnswer
  <2> QED BY <1>2, <2>2, <2>3, <2>4
<1>7. CASE Doubted(t, k)
  BY <1>2, <1>7, ReturnCalms DEF Doubted, Finish
<1>8. CASE Archived(t, k)
  BY <1>2, <1>8, ReturnCalms DEF Archived, Finish
<1> QED BY <1>3, <1>4, <1>5, <1>6, <1>7, <1>8

\* What the outer handler does to the draft.
LEMMA HandleEffect ==
    ASSUME TypeOK, NEW t \in Task, NEW k \in Copy, Handle(t, k), Return(t, k), UNCHANGED world
    PROVE  TypeOK' /\ (Rests \/ Lapses \/ Yields(<<t, k>>))
<1> USE DEF world, platform, review
<1> DEFINE p == <<t, k>>
<1>1. /\ draft \in DraftType /\ now \in Nat /\ now \in Int /\ posts \in Nat /\ commands \in Nat
      /\ reopened \in Nat /\ p \in Coroutines
  BY DEF TypeOK, Coroutines
<1>2. run' \in RunType /\ Calms
  BY ReturnCalms
<1>3. Place(p)' = "none"
  <2>1. run' = [run EXCEPT ![t][k] = Gone] /\ run \in RunType
    BY DEF Return, TypeOK
  <2>2. run'[t][k] = Gone
    BY <2>1 DEF RunType
  <2> QED BY <2>2 DEF Place, Gone
<1>4. CASE draft' \in {draft, Settled(draft, "result_unknown", now)} /\ UNCHANGED platform
  <2>1. /\ Settled(draft, "result_unknown", now) \in DraftType
        /\ \/ Settled(draft, "result_unknown", now) = draft
           \/ /\ draft.status = "publishing"
              /\ Settled(draft, "result_unknown", now).status = "result_unknown"
              /\ Settled(draft, "result_unknown", now).revision = draft.revision
    BY <1>1, StoreMoves
  <2>2. /\ draft' \in DraftType
        /\ \/ draft' = draft
           \/ /\ KeepsText /\ draft.status \notin Ungranted
              /\ draft'.status \in {"expired", "result_unknown", "failed"}
    BY <1>1, <1>4, <2>1 DEF KeepsText, Ungranted
  <2> QED BY <1>1, <1>2, <1>4, <2>2 DEF TypeOK, Rests
<1>5. CASE /\ draft.status = "publishing" /\ draft' = Settled(draft, "retry_wait", now)
           /\ UNCHANGED <<posts, posted>>
           /\ IF Place(p) \in {"checking", "posting"} THEN UNCHANGED reopened
              ELSE reopened' = reopened + 1
  <2>1. draft' \in DraftType /\ draft'.status = "retry_wait" /\ KeepsText
    <3>1. "retry_wait" \in DraftStatus
      BY DEF DraftStatus
    <3>2. /\ To(draft, "retry_wait", now) \in DraftType
          /\ To(draft, "retry_wait", now).status = "retry_wait"
          /\ To(draft, "retry_wait", now).revision = draft.revision
      BY <1>1, <3>1, ToStatus
    <3> QED BY <1>5, <3>2 DEF Settled, KeepsText
  <2>2. CASE Place(p) \in {"checking", "posting"} /\ UNCHANGED platform
    <3>1. p \in Going /\ Place(p)' \notin Busy
      BY <1>1, <1>3, <2>2 DEF Going, Busy
    <3>2. Yields(p)
      BY <1>2, <1>5, <2>1, <2>2, <3>1 DEF Yields
    <3> QED BY <1>1, <1>2, <2>1, <2>2, <3>2 DEF TypeOK
  <2>3. CASE reopened' = reopened + 1 /\ UNCHANGED <<posts, posted>>
    BY <1>1, <1>2, <1>5, <2>1, <2>3 DEF TypeOK, Lapses
  <2> QED BY <1>5, <2>2, <2>3
<1> QED BY <1>4, <1>5 DEF Handle, Place

LEMMA RaiseEffect ==
    ASSUME TypeOK, NEW t \in Task, NEW k \in Copy, Raise(t, k)
    PROVE  TypeOK' /\ (Rests \/ Lapses \/ Yields(<<t, k>>))
  BY HandleEffect DEF Raise, Finish

LEMMA EnterEffect ==
    ASSUME TypeOK, NEW t \in Task, NEW k \in Copy, Enter(t, k)
    PROVE  TypeOK' /\ (Rests \/ Lapses \/ Yields(<<t, k>>) \/ Takes(<<t, k>>))
<1> USE DEF world, platform, review
<1>1. /\ draft \in DraftType /\ now \in Nat /\ now \in Int /\ posts \in Nat /\ commands \in Nat
      /\ reopened \in Nat /\ UNCHANGED world /\ At(t, k, "ready")
  BY DEF TypeOK, Enter
<1>2. CASE Return(t, k) /\ draft' \in {draft, MarkedFailed(draft, now)} /\ UNCHANGED platform
  <2>1. run' \in RunType /\ Calms
    BY <1>2, ReturnCalms
  <2>0. /\ MarkedFailed(draft, now) \in DraftType
        /\ \/ MarkedFailed(draft, now) = draft
           \/ /\ draft.status \notin Ungranted
              /\ MarkedFailed(draft, now).status = "failed"
              /\ MarkedFailed(draft, now).revision = draft.revision
    BY <1>1, StoreMoves
  <2>2. /\ draft' \in DraftType
        /\ \/ draft' = draft
           \/ /\ KeepsText /\ draft.status \notin Ungranted
              /\ draft'.status = "failed"
    BY <1>1, <1>2, <2>0 DEF KeepsText
  <2> QED BY <1>1, <1>2, <2>1, <2>2 DEF TypeOK, Rests
<1>3. CASE /\ CanMarkPublishing(draft) /\ draft' = To(draft, "publishing", now)
           /\ Goto(t, k, "checking") /\ UNCHANGED platform
  <2>1. run' \in RunType /\ Moves(<<t, k>>, "checking")
    BY <1>3, GotoMoves DEF Places
  <2>2. draft' \in DraftType /\ draft'.status = "publishing" /\ KeepsText
    <3>1. "publishing" \in DraftStatus
      BY DEF DraftStatus
    <3>2. /\ To(draft, "publishing", now) \in DraftType
          /\ To(draft, "publishing", now).status = "publishing"
          /\ To(draft, "publishing", now).revision = draft.revision
      BY <1>1, <3>1, ToStatus
    <3> QED BY <1>3, <3>2 DEF KeepsText
  <2>3. Place(<<t, k>>) \notin Busy
    BY <1>1 DEF At, Place, Busy
  <2>4. draft.status \in {"approved", "retry_wait"}
    BY <1>3 DEF CanMarkPublishing
  <2> QED BY <1>1, <1>3, <2>1, <2>2, <2>3, <2>4 DEF TypeOK, Takes
<1>4. CASE Handle(t, k) /\ Return(t, k)
  BY <1>1, <1>4, HandleEffect
<1> QED BY <1>2, <1>3, <1>4 DEF Enter

LEMMA TravelEffect ==
    ASSUME TypeOK, NEW t \in Task, NEW k \in Copy,
           \/ Pass(t, k) \/ BackOff(t, k) \/ Hold(t, k) \/ Publish(t, k)
           \/ Refused(t, k) \/ Answered(t, k)
    PROVE  /\ TypeOK'
           /\ \/ Passes(<<t, k>>) \/ Yields(<<t, k>>) \/ Posts(<<t, k>>) \/ Answers(<<t, k>>)
<1> USE DEF world, platform, review
<1> DEFINE p == <<t, k>>
<1>1. /\ draft \in DraftType /\ now \in Nat /\ now \in Int /\ posts \in Nat /\ commands \in Nat
      /\ reopened \in Nat /\ p \in Coroutines
  BY DEF TypeOK, Coroutines
<1>2. \A place : At(t, k, place) => Place(p) = place
  BY DEF At, Place
<1>3. CASE Pass(t, k)
  <2>1. run' \in RunType /\ Moves(p, "posting")
    BY <1>3, GotoMoves DEF Pass, Places
  <2>2. TypeOK'
    BY <1>1, <1>3, <2>1 DEF Pass, TypeOK
  <2> QED BY <1>2, <1>3, <2>1, <2>2 DEF Pass, Passes
<1>4. ASSUME NEW place \in {"backing", "filing"}, Goto(t, k, place),
             draft' \in {draft, Settled(draft, "retry_wait", now)}, UNCHANGED <<world, platform>>,
             At(t, k, "checking") \/ At(t, k, "posting")
      PROVE  TypeOK' /\ Yields(p)
  <2>1. run' \in RunType /\ Moves(p, place)
    BY <1>4, GotoMoves DEF Places
  <2>2. Calms /\ Place(p)' \notin Busy
    BY <1>1, <2>1 DEF Moves, Calms, Busy
  <2>0. /\ Settled(draft, "retry_wait", now) \in DraftType
        /\ \/ Settled(draft, "retry_wait", now) = draft
           \/ /\ draft.status = "publishing"
              /\ Settled(draft, "retry_wait", now).status = "retry_wait"
              /\ Settled(draft, "retry_wait", now).revision = draft.revision
    BY <1>1, StoreMoves
  <2>3. /\ draft' \in DraftType
        /\ \/ draft' = draft
           \/ draft.status = "publishing" /\ draft'.status = "retry_wait" /\ KeepsText
    <3>1. CASE draft' = draft
      BY <1>1, <3>1
    <3>2. CASE draft' = Settled(draft, "retry_wait", now)
      BY <2>0, <3>2 DEF KeepsText
    <3> QED BY <1>4, <3>1, <3>2
  <2>4. p \in Going
    BY <1>1, <1>2, <1>4 DEF Going
  <2>5. TypeOK'
    BY <1>1, <1>4, <2>1, <2>3 DEF TypeOK
  <2> QED BY <1>4, <2>2, <2>3, <2>4, <2>5 DEF Yields
<1>5. CASE BackOff(t, k)
  BY <1>4, <1>5 DEF BackOff
<1>6. CASE Hold(t, k)
  <2>1. /\ Goto(t, k, "filing") /\ draft' \in {draft, Settled(draft, "retry_wait", now)}
        /\ UNCHANGED <<world, platform>> /\ At(t, k, "checking")
    BY <1>6 DEF Hold
  <2> QED BY <1>4, <2>1
<1>7. CASE Refused(t, k)
  BY <1>4, <1>7 DEF Refused
<1>8. CASE Publish(t, k)
  <2>1. run' \in RunType /\ Moves(p, "posted")
    BY <1>8, GotoMoves DEF Publish, Places
  <2>2. TypeOK'
    BY <1>1, <1>8, <2>1 DEF Publish, TypeOK
  <2> QED BY <1>2, <1>8, <2>1, <2>2 DEF Publish, Posts
<1>9. CASE Answered(t, k)
  <2>1. run' \in RunType /\ Moves(p, "archiving")
    BY <1>9, GotoMoves DEF Answered, Places
  <2>2. Calms
    BY <2>1 DEF Moves, Calms, Busy
  <2>0. /\ Settled(draft, "published", now) \in DraftType
        /\ \/ Settled(draft, "published", now) = draft
           \/ /\ draft.status = "publishing"
              /\ Settled(draft, "published", now).status = "published"
              /\ Settled(draft, "published", now).revision = draft.revision
    BY <1>1, StoreMoves
  <2>3. /\ draft' \in DraftType
        /\ \/ draft' = draft
           \/ draft.status = "publishing" /\ draft'.status = "published" /\ KeepsText
    BY <1>9, <2>0 DEF Answered, KeepsText
  <2>4. TypeOK'
    BY <1>1, <1>9, <2>1, <2>3 DEF Answered, TypeOK
  <2> QED BY <1>2, <1>9, <2>2, <2>3, <2>4 DEF Answered, Answers
<1> QED BY <1>3, <1>5, <1>6, <1>7, <1>8, <1>9

LEMMA NextEffect ==
    ASSUME TypeOK, Next
    PROVE  TypeOK' /\ Effect
<1>1. ASSUME NEW t \in Task, NEW k \in Copy, Step(t, k)
      PROVE  TypeOK' /\ Effect
  <2>1. <<t, k>> \in Coroutines
    BY DEF Coroutines
  <2> QED BY <1>1, <2>1, AsideEffect, RaiseEffect, EnterEffect, TravelEffect DEF Step, Effect
<1> QED BY <1>1, ProcessEffect, PanelEffect DEF Next, Effect

-----------------------------------------------------------------------------
(* The coroutines on their way, as sets.                                   *)

LEMMA CalmSets ==
    ASSUME Calms
    PROVE  Going' \subseteq Going /\ Back' \subseteq Back
  BY DEF Calms, Going, Back, Busy

LEMMA MoveSets ==
    ASSUME NEW p \in Coroutines
    PROVE  /\ Takes(p) => Going' = Going \cup {p} /\ Back' = Back
           /\ Passes(p) => Going' = Going /\ Back' = Back
           /\ Yields(p) => p \in Going /\ Going' \subseteq Going \ {p} /\ Back' \subseteq Back
           /\ Posts(p) => p \in Going /\ Going' = Going \ {p} /\ Back' = Back \cup {p}
           /\ Answers(p) => p \in Back /\ Going' \subseteq Going /\ Back' \subseteq Back
<1>1. Takes(p) => Going' = Going \cup {p} /\ Back' = Back
  BY DEF Takes, Moves, Going, Back, Busy
<1>2. Passes(p) => Going' = Going /\ Back' = Back
  BY DEF Passes, Moves, Going, Back
<1>3. Yields(p) => p \in Going /\ Going' \subseteq Going \ {p} /\ Back' \subseteq Back
  <2>1. Yields(p) => p \notin Going'
    BY DEF Yields, Going, Busy
  <2> QED BY <2>1, CalmSets DEF Yields
<1>4. Posts(p) => p \in Going /\ Going' = Going \ {p} /\ Back' = Back \cup {p}
  BY DEF Posts, Moves, Going, Back
<1>5. Answers(p) => p \in Back /\ Going' \subseteq Going /\ Back' \subseteq Back
  BY CalmSets DEF Answers, Back
<1> QED BY <1>1, <1>2, <1>3, <1>4, <1>5

-----------------------------------------------------------------------------
(* The inductive invariant.                                                *)

\* Only an approved draft is handled by a coroutine; its text is the approved
\* one, and nothing else was posted.
GateInv ==
    /\ draft.status \in Ungranted <=> approvals = {}
    /\ approvals # {} => draft.revision \in approvals
    /\ posted \subseteq approvals
    /\ Going \cup Back # {} => approvals # {}

\* A draft is marked as published by a coroutine that has posted it.
AnswerInv == Back # {} \/ draft.status = "published" => posts > 0

\* Every request pays for one post: it lies with the draft while that waits
\* for a coroutine, goes to the one that takes the lock, and is used up by the
\* post or, if the coroutine gives up while it still has the lock, returned.
\* A handler that reopens the draft behind it grants one that nobody asked for.
Waiting == IF draft.status \in {"approved", "retry_wait"} THEN 1 ELSE 0
CreditInv ==
    /\ IsFiniteSet(Going) /\ IsFiniteSet(Back)
    /\ posts + Cardinality(Going) + Waiting <= commands + reopened
    /\ Cardinality(Back) <= posts

Inv == TypeOK /\ GateInv /\ AnswerInv /\ CreditInv

LEMMA InitInv == Init => Inv
<1> SUFFICES ASSUME Init PROVE Inv
  OBVIOUS
<1>1. \A q \in Coroutines : Place(q) = "none"
  BY DEF Init, EmptyTable, Coroutines, Place, Gone
<1>2. TypeOK
  BY DEF Init, TypeOK, NoDraft, NoExpiry, DraftType, DraftStatus, EmptyTable, RunType,
         Coroutine, Gone, Places
<1>3. Going = {} /\ Back = {}
  BY <1>1 DEF Going, Back
<1>4. GateInv /\ AnswerInv
  BY <1>3 DEF Init, GateInv, AnswerInv, NoDraft, Ungranted
<1>5. CreditInv
  BY <1>3, FS_EmptySet DEF Init, CreditInv, Waiting, NoDraft
<1> QED BY <1>2, <1>4, <1>5 DEF Inv

LEMMA GateKept ==
    ASSUME TypeOK, TypeOK', GateInv, Effect
    PROVE  GateInv'
<1> USE DEF platform, review
<1>1. CASE Rests
  BY <1>1, CalmSets DEF Rests, KeepsText, GateInv, Ungranted
<1>2. CASE Edits
  BY <1>2, CalmSets DEF Edits, GateInv, Ungranted
<1>3. CASE Grants
  BY <1>3, CalmSets DEF Grants, KeepsText, GateInv, Ungranted
<1>4. CASE Resets
  BY <1>4, CalmSets DEF Resets, KeepsText, GateInv, Ungranted
<1>5. ASSUME NEW p \in Coroutines, Takes(p)
      PROVE  GateInv'
  BY <1>5, MoveSets DEF Takes, KeepsText, GateInv, Ungranted
<1>6. ASSUME NEW p \in Coroutines, Passes(p)
      PROVE  GateInv'
  BY <1>6, MoveSets DEF Passes, GateInv, Ungranted
<1>7. ASSUME NEW p \in Coroutines, Yields(p)
      PROVE  GateInv'
  BY <1>7, MoveSets DEF Yields, KeepsText, GateInv, Ungranted
<1>8. ASSUME NEW p \in Coroutines, Posts(p)
      PROVE  GateInv'
  BY <1>8, MoveSets DEF Posts, GateInv, Ungranted
<1>10. CASE Lapses
  BY <1>10, CalmSets DEF Lapses, KeepsText, GateInv, Ungranted
<1>9. ASSUME NEW p \in Coroutines, Answers(p)
      PROVE  GateInv'
  BY <1>9, MoveSets DEF Answers, KeepsText, GateInv, Ungranted
<1> QED BY <1>1, <1>2, <1>3, <1>4, <1>5, <1>6, <1>7, <1>8, <1>9, <1>10 DEF Effect

LEMMA AnswerKept ==
    ASSUME TypeOK, AnswerInv, Effect
    PROVE  AnswerInv'
<1> USE DEF platform, review
<1>1. posts \in Nat
  BY DEF TypeOK
<1>2. CASE Rests \/ Edits \/ Grants \/ Resets \/ Lapses
  BY <1>2, CalmSets DEF Rests, Edits, Grants, Resets, Lapses, AnswerInv
<1>3. ASSUME NEW p \in Coroutines, Takes(p) \/ Passes(p) \/ Yields(p)
      PROVE  AnswerInv'
  BY <1>3, MoveSets DEF Takes, Passes, Yields, AnswerInv
<1>4. ASSUME NEW p \in Coroutines, Posts(p)
      PROVE  AnswerInv'
  BY <1>1, <1>4 DEF Posts, AnswerInv
<1>5. ASSUME NEW p \in Coroutines, Answers(p)
      PROVE  AnswerInv'
  BY <1>5, MoveSets DEF Answers, AnswerInv
<1> QED BY <1>2, <1>3, <1>4, <1>5 DEF Effect

\* A set that gains or loses a member is that much larger or smaller.
LEMMA Counts ==
    ASSUME NEW S, NEW T, IsFiniteSet(S), NEW p
    PROVE  /\ Cardinality(S) \in Nat
           /\ T \subseteq S => IsFiniteSet(T) /\ Cardinality(T) <= Cardinality(S)
           /\ T = S \cup {p} => IsFiniteSet(T) /\ Cardinality(T) <= Cardinality(S) + 1
           /\ p \in S /\ T \subseteq S \ {p} =>
                IsFiniteSet(T) /\ Cardinality(T) <= Cardinality(S) - 1
<1>1. Cardinality(S) \in Nat
  BY FS_CardinalityType
<1>2. T \subseteq S => IsFiniteSet(T) /\ Cardinality(T) <= Cardinality(S)
  BY FS_Subset
<1>3. T = S \cup {p} => IsFiniteSet(T) /\ Cardinality(T) <= Cardinality(S) + 1
  BY <1>1, FS_AddElement
<1>4. ASSUME p \in S, T \subseteq S \ {p}
      PROVE  IsFiniteSet(T) /\ Cardinality(T) <= Cardinality(S) - 1
  <2>1. IsFiniteSet(S \ {p}) /\ Cardinality(S \ {p}) = Cardinality(S) - 1
    BY <1>4, FS_RemoveElement
  <2> QED BY <1>4, <2>1, FS_Subset
<1> QED BY <1>1, <1>2, <1>3, <1>4

LEMMA CreditKept ==
    ASSUME TypeOK, TypeOK', GateInv, CreditInv, Effect
    PROVE  CreditInv'
<1> USE DEF platform, review
<1> DEFINE n == Cardinality(Going)
           m == Cardinality(Back)
<1>1. /\ posts \in Nat /\ commands \in Nat /\ posts' \in Nat /\ commands' \in Nat
      /\ reopened \in Nat /\ reopened' \in Nat
      /\ IsFiniteSet(Going) /\ IsFiniteSet(Back)
      /\ posts + n + Waiting <= commands + reopened /\ m <= posts
  BY DEF TypeOK, CreditInv
<1>2. n \in Nat /\ m \in Nat /\ Waiting \in {0, 1} /\ Waiting' \in {0, 1}
  BY <1>1, FS_CardinalityType DEF Waiting
<1>3. ASSUME Going' \subseteq Going, Back' \subseteq Back
      PROVE  /\ IsFiniteSet(Going') /\ IsFiniteSet(Back')
             /\ Cardinality(Going') \in Nat /\ Cardinality(Going') <= n
             /\ Cardinality(Back') \in Nat /\ Cardinality(Back') <= m
  BY <1>1, <1>3, FS_Subset, FS_CardinalityType
<1> HIDE DEF n, m
<1>4. CASE Rests \/ Edits \/ Resets
  <2>1. commands' \in {commands, commands + 1} /\ posts' = posts /\ reopened' = reopened
    BY <1>4 DEF Rests, Edits, Resets
  <2>2. Waiting' <= Waiting \/ commands' = commands + 1
    BY <1>2, <1>4 DEF Rests, Edits, Resets, Waiting, Ungranted
  <2>3. Going' \subseteq Going /\ Back' \subseteq Back
    BY <1>4, CalmSets DEF Rests, Edits, Resets
  <2> QED BY <1>1, <1>2, <1>3, <2>1, <2>2, <2>3 DEF CreditInv
<1>5. CASE Grants
  <2>1. commands' = commands + 1 /\ posts' = posts /\ reopened' = reopened /\ Waiting = 0
    BY <1>5 DEF Grants, Waiting
  <2>2. Going' \subseteq Going /\ Back' \subseteq Back
    BY <1>5, CalmSets DEF Grants
  <2> QED BY <1>1, <1>2, <1>3, <2>1, <2>2 DEF CreditInv
<1>6. ASSUME NEW p \in Coroutines, Takes(p)
      PROVE  CreditInv'
  <2>1. commands' = commands /\ posts' = posts /\ reopened' = reopened /\ Waiting = 1 /\ Waiting' = 0
    BY <1>6 DEF Takes, Waiting
  <2>2. Going' = Going \cup {p} /\ Back' = Back
    BY <1>6, MoveSets
  <2>3. IsFiniteSet(Going') /\ Cardinality(Going') \in Nat /\ Cardinality(Going') <= n + 1
    BY <1>1, <2>2, Counts, FS_CardinalityType DEF n
  <2> QED BY <1>1, <1>2, <2>1, <2>2, <2>3 DEF CreditInv, m
<1>7. ASSUME NEW p \in Coroutines, Passes(p)
      PROVE  CreditInv'
  <2>1. commands' = commands /\ posts' = posts /\ reopened' = reopened /\ Waiting' = Waiting
    BY <1>7 DEF Passes, Waiting
  <2> QED BY <1>1, <1>7, <2>1, MoveSets DEF CreditInv, n, m
<1>8. ASSUME NEW p \in Coroutines, Yields(p)
      PROVE  CreditInv'
  <2>1. commands' = commands /\ posts' = posts /\ reopened' = reopened /\ Waiting' <= Waiting + 1
    BY <1>2, <1>8 DEF Yields
  <2>2. p \in Going /\ Going' \subseteq Going \ {p} /\ Back' \subseteq Back
    BY <1>8, MoveSets
  <2>3. IsFiniteSet(Going') /\ Cardinality(Going') \in Nat /\ Cardinality(Going') <= n - 1
    BY <1>1, <2>2, Counts, FS_CardinalityType DEF n
  <2>4. IsFiniteSet(Back') /\ Cardinality(Back') \in Nat /\ Cardinality(Back') <= m
    BY <1>1, <2>2, FS_Subset, FS_CardinalityType DEF m
  <2> QED BY <1>1, <1>2, <2>1, <2>3, <2>4 DEF CreditInv
<1>9. ASSUME NEW p \in Coroutines, Posts(p)
      PROVE  CreditInv'
  <2>1. commands' = commands /\ posts' = posts + 1 /\ reopened' = reopened /\ Waiting' = Waiting
    BY <1>9 DEF Posts, Waiting
  <2>2. p \in Going /\ Going' = Going \ {p} /\ Back' = Back \cup {p}
    BY <1>9, MoveSets
  <2>3. IsFiniteSet(Going') /\ Cardinality(Going') \in Nat /\ Cardinality(Going') <= n - 1
    BY <1>1, <2>2, Counts, FS_CardinalityType DEF n
  <2>4. IsFiniteSet(Back') /\ Cardinality(Back') \in Nat /\ Cardinality(Back') <= m + 1
    BY <1>1, <2>2, Counts, FS_CardinalityType DEF m
  <2> QED BY <1>1, <1>2, <2>1, <2>3, <2>4 DEF CreditInv
<1>10. ASSUME NEW p \in Coroutines, Answers(p)
       PROVE  CreditInv'
  <2>1. commands' = commands /\ posts' = posts /\ reopened' = reopened /\ Waiting' <= Waiting
    BY <1>2, <1>10 DEF Answers, Waiting
  <2>2. Going' \subseteq Going /\ Back' \subseteq Back
    BY <1>10, MoveSets
  <2> QED BY <1>1, <1>2, <1>3, <2>1, <2>2 DEF CreditInv
<1>11. CASE Lapses
  <2>1. /\ commands' = commands /\ posts' = posts /\ reopened' = reopened + 1
        /\ Waiting' <= Waiting + 1
    BY <1>2, <1>11 DEF Lapses
  <2>2. Going' \subseteq Going /\ Back' \subseteq Back
    BY <1>11, CalmSets DEF Lapses
  <2> QED BY <1>1, <1>2, <1>3, <2>1, <2>2 DEF CreditInv
<1> QED BY <1>4, <1>5, <1>6, <1>7, <1>8, <1>9, <1>10, <1>11 DEF Effect

LEMMA Stutters == Inv /\ UNCHANGED vars => Inv'
  BY DEF vars, rows, review, platform, Inv, TypeOK, GateInv, AnswerInv, CreditInv, Waiting,
         Going, Back, Place, Coroutines

LEMMA Invariance == Spec => []Inv
<1>1. Inv /\ Next => Inv'
  BY NextEffect, GateKept, AnswerKept, CreditKept DEF Inv
<1> QED BY <1>1, InitInv, Stutters, PTL DEF Spec

-----------------------------------------------------------------------------
(* The theorems.                                                           *)

\* The rows of the draft's store keep their shape.
THEOREM DraftsTyped == Spec => []TypeOK
  BY Invariance, PTL DEF Inv

\* Whatever reviewers, tasks, restarts and recoveries do at the same time, the
\* platform gets nothing but revisions that a reviewer approved, because
\* approve_draft compares the revision (storage.py) and no statement edits a
\* draft afterwards; and only a coroutine that posted writes "published".
THEOREM ApprovedAlways == Spec => []OnlyApproved
<1>1. Inv => OnlyApproved
  BY DEF Inv, GateInv, AnswerInv, OnlyApproved, PostsWhatWasApproved, PublishedWasPosted
<1> QED BY <1>1, Invariance, PTL

\* However often tasks are retried, recovered and interrupted, nothing is
\* posted more often than people asked and failing handlers reopened the draft
\* together; and after one request, until it is reopened, mark_publishing lets
\* one coroutine at a time near the platform.  The credit of a request is
\* what a dead process takes with it: a draft found in publishing goes to
\* result_unknown and back to nobody until a person asks again.
THEOREM PostedOnceAlways == Spec => []PostedOnce
<1>1. Inv => PostedPerCommand
  <2> SUFFICES ASSUME Inv PROVE PostedPerCommand
    OBVIOUS
  <2>1. /\ Cardinality(Going) \in Nat /\ Waiting \in Nat /\ posts \in Nat /\ commands \in Nat
        /\ reopened \in Nat
    BY FS_CardinalityType DEF Inv, CreditInv, TypeOK, Waiting
  <2> QED BY <2>1 DEF Inv, CreditInv, PostedPerCommand
<1>2. Inv => PublishingIsExclusive
  <2> DEFINE near == {p \in Task \X Copy :
                        run[p[1]][p[2]].at \in {"checking", "posting", "posted"}}
  <2> SUFFICES ASSUME Inv, commands + reopened <= 1
               PROVE  Cardinality(near) <= 1
    BY DEF PublishingIsExclusive
  <2>1. /\ Cardinality(Going) \in Nat /\ Cardinality(Back) \in Nat /\ Waiting \in Nat
        /\ posts \in Nat /\ commands \in Nat /\ IsFiniteSet(Going) /\ IsFiniteSet(Back)
        /\ reopened \in Nat
    BY FS_CardinalityType DEF Inv, CreditInv, TypeOK, Waiting
  <2>2. Cardinality(Going) + Cardinality(Back) <= 1
    BY <2>1 DEF Inv, CreditInv
  <2>3. near = Going \cup Back
    BY DEF Going, Back, Place, Coroutines
  <2>4. Cardinality(Going \cup Back) <= Cardinality(Going) + Cardinality(Back)
    <3>1. IsFiniteSet(Going \cap Back)
      BY <2>1, FS_Intersection
    <3>2. Cardinality(Going \cap Back) \in Nat
      BY <3>1, FS_CardinalityType
    <3>3. Cardinality(Going \cup Back)
            = Cardinality(Going) + Cardinality(Back) - Cardinality(Going \cap Back)
      BY <2>1, FS_Union
    <3> QED BY <2>1, <3>2, <3>3
  <2>5. Cardinality(Going \cup Back) \in Nat
    <3>1. IsFiniteSet(Going \cup Back)
      BY <2>1, FS_Union
    <3> QED BY <3>1, FS_CardinalityType
  <2> HIDE DEF near
  <2> QED BY <2>1, <2>2, <2>3, <2>4, <2>5
<1>3. Inv => PostedOnce
  BY <1>1, <1>2 DEF PostedOnce
<1> QED BY <1>3, Invariance, PTL

LEMMA Phases ==
    /\ approvals # {} => phase = "granted"
    /\ approvals = {} /\ draft.status \in {"rejected", "expired"} => phase = "closed"
    /\ approvals = {} /\ draft.status \notin {"rejected", "expired"} => phase = "open"
  BY DEF phase

\* The review, with its tasks, coroutines, clock, crashes and recoveries,
\* implements ReviewGate: every step of it edits, grants, closes or posts as
\* the gate allows, or changes nothing the gate speaks of.
THEOREM GateKeptAlways == Spec => KeepsGate
<1> USE DEF platform, review
<1>1. Init => Gate!Init
  BY DEF Init, Gate!Init, phase, NoDraft
<1>2. ASSUME Inv, Effect
      PROVE  [Gate!Next]_<<[phase |-> phase, revision |-> draft.revision], posted>>
  <2> DEFINE g == [phase |-> phase, revision |-> draft.revision]
  <2>1. draft.revision \in Nat
    BY <1>2 DEF Inv, TypeOK, DraftType
  <2>2. /\ phase = "open" <=> draft.status \in {"absent", "awaiting_review"}
        /\ phase = "granted" <=> approvals # {}
    BY <1>2 DEF Inv, GateInv, phase, Ungranted
  <2>3. CASE Rests
    BY <1>2, <2>3 DEF Rests, KeepsText, Inv, GateInv, Ungranted, phase
  <2>4. CASE Edits
    <3>1. approvals = {} /\ phase = "open" /\ UNCHANGED posted
      BY <1>2, <2>4 DEF Edits, Inv, GateInv, Ungranted, phase
    <3>2. CASE draft'.status = "awaiting_review" /\ draft'.revision = draft.revision + 1
      <4>1. phase' = "open"
        BY <2>4, <3>1, <3>2 DEF Edits, phase
      <4>2. Gate!Edit
        BY <3>1, <3>2, <4>1 DEF Gate!Edit
      <4> QED BY <3>1, <4>2 DEF Gate!Next
    <3>3. CASE /\ draft'.status = "rejected"
               /\ draft'.revision \in {draft.revision, draft.revision + 1}
      <4>1. phase' = "closed"
        BY <2>4, <3>1, <3>3 DEF Edits, phase
      <4>2. Gate!Close
        BY <3>1, <3>3, <4>1 DEF Gate!Close
      <4> QED BY <3>1, <4>2 DEF Gate!Next
    <3> QED BY <2>4, <3>2, <3>3 DEF Edits
  <2>5. CASE Grants
    <3>1. phase = "open" /\ phase' = "granted" /\ UNCHANGED posted /\ KeepsText
      BY <1>2, <2>5 DEF Grants, Inv, GateInv, Ungranted, phase
    <3>2. Gate!Grant
      BY <3>1 DEF Gate!Grant, KeepsText
    <3> QED BY <3>1, <3>2 DEF Gate!Next
  <2>6. CASE Resets
    BY <1>2, <2>6 DEF Resets, KeepsText, Inv, GateInv, Ungranted, phase
  <2>7. ASSUME NEW p \in Coroutines, Takes(p) \/ Passes(p) \/ Yields(p) \/ Answers(p)
        PROVE  UNCHANGED <<g, posted>>
    <3>1. p \in Going \cup Back \/ draft.status \in {"approved", "retry_wait"}
      BY <2>7, MoveSets DEF Takes, Passes, Going, Place
    <3>2. approvals # {}
      BY <1>2, <3>1 DEF Inv, GateInv, Ungranted
    <3> QED BY <2>7, <3>2 DEF Takes, Passes, Yields, Answers, KeepsText, phase
  <2>8. ASSUME NEW p \in Coroutines, Posts(p)
        PROVE  Gate!Next
    <3>1. phase = "granted"
      BY <1>2, <2>8, MoveSets DEF Inv, GateInv, phase
    <3>2. UNCHANGED g /\ posted' = posted \cup {draft.revision}
      BY <2>8 DEF Posts, phase
    <3> QED BY <3>1, <3>2 DEF Gate!Next, Gate!Post
  <2>9. CASE Lapses
    <3>1. approvals # {}
      BY <1>2, <2>9 DEF Lapses, Inv, GateInv, Ungranted
    <3> QED BY <2>9, <3>1 DEF Lapses, KeepsText, phase
  <2> QED BY <1>2, <2>3, <2>4, <2>5, <2>6, <2>7, <2>8, <2>9 DEF Effect
<1>3. Inv /\ [Next]_vars =>
        [Gate!Next]_<<[phase |-> phase, revision |-> draft.revision], posted>>
  <2>1. UNCHANGED vars => UNCHANGED <<[phase |-> phase, revision |-> draft.revision], posted>>
    BY DEF vars, phase
  <2> QED BY <1>2, <2>1, NextEffect DEF Inv
<1> QED BY <1>1, <1>3, Invariance, PTL DEF Spec, KeepsGate, Gate!Spec

-----------------------------------------------------------------------------
(* A dynamic that is posted without a review.                              *)

PostPlaces == {"idle", "writing", "drawing", "posting", "posted", "filing"}
PostTyped ==
    /\ up \in BOOLEAN /\ global \in BOOLEAN /\ enabled \in BOOLEAN
    /\ account \in [db : BOOLEAN, mem : BOOLEAN]
    /\ at \in [Dynamic!Work -> PostPlaces]
    /\ status \in [Dynamics -> {"claimed", "running", "retry_wait", "failed", "succeeded",
                                "result_unknown"}]

\* A process that is down has nothing under way.
NothingDown == ~up => \A p \in Dynamic!Work : at[p] = Dynamic!Home(p)

\* A task that is worked on is running, and is not online before its post.
Attempted ==
    \A p \in Dynamics :
        /\ at[p] # "idle" => status[p] = "running"
        /\ at[p] \in {"writing", "drawing", "posting", "filing"} => p \notin online
        /\ status[p] \in {"retry_wait", "claimed"} => p \notin online

PostInv == PostTyped /\ NothingDown /\ Attempted /\ Dynamic!PauseStopsUnchecked

LEMMA HomeOf ==
    /\ \A p \in Dynamics : p \in Dynamic!Work /\ Dynamic!Home(p) = "idle"
    /\ \A p \in Dynamic!Work : Dynamic!Home(p) \in {"idle", "writing"}
    /\ \A p \in Dynamic!Work \ Dynamics : Dynamic!Home(p) = "writing"
  BY DEF Dynamic!Home, Dynamic!Work

\* What a step does to the places, the statuses and the pauses: the item p moves,
\* alone; a pause that begins lets go on what is past its check.
MovesTo(p, place) == at' = [at EXCEPT ![p] = place]
StatusOf(p, s) == status' = [status EXCEPT ![p] = s]
PausesKept == UNCHANGED <<global, account, cleared>>
PauseBegins == Dynamic!PauseAccount

LEMMA PauseTyped ==
    ASSUME PostInv, PauseBegins
    PROVE  /\ account' \in [db : BOOLEAN, mem : BOOLEAN] /\ global' = global
           /\ Dynamic!PastCheck \subseteq cleared'
<1>1. \/ account' = [db |-> TRUE, mem |-> TRUE]
      \/ account' = [account EXCEPT !.mem = TRUE]
  BY DEF PauseBegins, Dynamic!PauseAccount
<1>2. account' \in [db : BOOLEAN, mem : BOOLEAN]
  <2>1. account \in [db : BOOLEAN, mem : BOOLEAN] /\ TRUE \in BOOLEAN
    BY DEF PostInv, PostTyped
  <2>2. [account EXCEPT !.mem = TRUE] \in [db : BOOLEAN, mem : BOOLEAN]
    BY <2>1
  <2>3. [db |-> TRUE, mem |-> TRUE] \in [db : BOOLEAN, mem : BOOLEAN]
    BY <2>1
  <2> QED BY <1>1, <2>2, <2>3
<1> QED BY <1>2 DEF PauseBegins, Dynamic!PauseAccount, Dynamic!Order, PostInv,
        Dynamic!PauseStopsUnchecked

\* Leaving the check behind, or not reaching it, keeps the promise of a pause.
LEMMA PauseHolds ==
    ASSUME PostInv, Dynamic!PastCheck' \subseteq Dynamic!PastCheck, PausesKept \/ PauseBegins
    PROVE  Dynamic!PauseStopsUnchecked'
<1>1. CASE PausesKept
  BY <1>1 DEF PausesKept, PostInv, Dynamic!PauseStopsUnchecked, Dynamic!Paused
<1>2. CASE PauseBegins
  BY <1>2, PauseTyped DEF Dynamic!PauseStopsUnchecked
<1> QED BY <1>1, <1>2

\* p moves to a place that is not past the check, or was past it already.
LEMMA StepKeeps ==
    ASSUME PostInv, up, UNCHANGED <<up, enabled>>, NEW p \in Dynamic!Work,
           NEW place \in PostPlaces, MovesTo(p, place),
           place \in {"drawing", "posting"} =>
              at[p] \in {"drawing", "posting"} \/ ~Dynamic!Paused,
           PausesKept \/ (PauseBegins /\ place \notin {"drawing", "posting"}),
           \A q \in Dynamics : q # p => status'[q] = status[q] /\ (q \in online' <=> q \in online),
           status' \in [Dynamics -> {"claimed", "running", "retry_wait", "failed", "succeeded",
                                     "result_unknown"}],
           p \in Dynamics =>
             /\ place # "idle" => status'[p] = "running"
             /\ place \in {"writing", "drawing", "posting", "filing"} => p \notin online'
             /\ status'[p] \in {"retry_wait", "claimed"} => p \notin online'
    PROVE  PostInv'
<1>1. /\ at' \in [Dynamic!Work -> PostPlaces] /\ at'[p] = place
      /\ \A q \in Dynamic!Work : q # p => at'[q] = at[q]
  BY DEF PostInv, PostTyped, MovesTo
<1>2. PostTyped'
  BY <1>1, PauseTyped DEF PostInv, PostTyped, PausesKept
<1>3. NothingDown'
  BY DEF NothingDown
<1>4. Attempted'
  BY <1>1, HomeOf DEF PostInv, Attempted
<1>5. Dynamic!PauseStopsUnchecked'
  <2>1. CASE place \notin {"drawing", "posting"} \/ at[p] \in {"drawing", "posting"}
    <3>1. Dynamic!PastCheck' \subseteq Dynamic!PastCheck
      BY <1>1, <2>1 DEF Dynamic!PastCheck
    <3> QED BY <3>1, PauseHolds
  <2>2. CASE place \in {"drawing", "posting"} /\ ~Dynamic!Paused
    BY <2>2 DEF PausesKept, Dynamic!PauseStopsUnchecked, Dynamic!Paused
  <2> QED BY <2>1, <2>2
<1> QED BY <1>2, <1>3, <1>4, <1>5 DEF PostInv

PostStatus == {"claimed", "running", "retry_wait", "failed", "succeeded", "result_unknown"}

LEMMA TaskMoves ==
    ASSUME PostInv, NEW p \in Dynamics, NEW s \in PostStatus, Dynamic!To(p, s)
    PROVE  /\ status' \in [Dynamics -> PostStatus] /\ status'[p] = s /\ online' = online
           /\ \A q \in Dynamics : q # p => status'[q] = status[q]
  BY DEF Dynamic!To, PostInv, PostTyped, PostStatus

LEMMA TaskFails ==
    ASSUME PostInv, NEW p \in Dynamics, NEW r \in BOOLEAN, Dynamic!Failed(p, r)
    PROVE  /\ status' \in [Dynamics -> PostStatus] /\ status'[p] \in {"retry_wait", "failed"}
           /\ online' = online
           /\ \A q \in Dynamics : q # p => status'[q] = status[q]
<1> DEFINE s == IF r /\ attempts[p] + 1 < MaxAttempts THEN "retry_wait" ELSE "failed"
<1>1. s \in PostStatus /\ s \in {"retry_wait", "failed"}
  BY DEF PostStatus
<1>2. status' = [status EXCEPT ![p] = s] /\ online' = online
  BY DEF Dynamic!Failed
<1> HIDE DEF s
<1> QED BY <1>1, <1>2 DEF PostInv, PostTyped, PostStatus

LEMMA TasksKept ==
    ASSUME PostInv, UNCHANGED <<status, online>>
    PROVE  status' \in [Dynamics -> PostStatus]
  BY DEF PostInv, PostTyped, PostStatus

\* A task that is worked on and fails, before or after a refusal of the platform.
LEMMA FailKeeps ==
    ASSUME PostInv, up, UNCHANGED <<up, enabled>>, NEW p \in Dynamics, NEW r \in BOOLEAN,
           at[p] \in {"idle", "writing", "filing"}, p \notin online,
           Dynamic!Failed(p, r), MovesTo(p, "idle"), PausesKept \/ PauseBegins
    PROVE  PostInv'
<1>1. p \in Dynamic!Work /\ "idle" \in PostPlaces
  BY HomeOf DEF PostPlaces
<1>2. /\ status' \in [Dynamics -> PostStatus] /\ status'[p] \in {"retry_wait", "failed"}
      /\ online' = online
      /\ \A q \in Dynamics : q # p => status'[q] = status[q]
  BY TaskFails
<1>3. PausesKept \/ (PauseBegins /\ "idle" \notin {"drawing", "posting"})
  OBVIOUS
<1> QED BY <1>1, <1>2, <1>3, StepKeeps DEF PostStatus

\* A task that is left with a status of which nothing more comes.
LEMMA LeaveKeeps ==
    ASSUME PostInv, up, UNCHANGED <<up, enabled>>, NEW p \in Dynamics,
           NEW s \in {"result_unknown", "succeeded"},
           Dynamic!To(p, s), MovesTo(p, "idle"), PausesKept \/ PauseBegins
    PROVE  PostInv'
<1>1. p \in Dynamic!Work /\ "idle" \in PostPlaces
  BY HomeOf DEF PostPlaces
<1>2. s \in PostStatus
  BY DEF PostStatus
<1>3. /\ status' \in [Dynamics -> PostStatus] /\ status'[p] = s /\ online' = online
      /\ \A q \in Dynamics : q # p => status'[q] = status[q]
  BY <1>2, TaskMoves
<1>4. PausesKept \/ (PauseBegins /\ "idle" \notin {"drawing", "posting"})
  OBVIOUS
<1> QED BY <1>1, <1>3, <1>4, StepKeeps DEF PostStatus

\* An item that moves while no task changes.
LEMMA GoKeeps ==
    ASSUME PostInv, up, UNCHANGED <<up, enabled, status, online>>, NEW p \in Dynamic!Work,
           NEW place \in PostPlaces, MovesTo(p, place),
           place \in {"drawing", "posting"} =>
              at[p] \in {"drawing", "posting"} \/ ~Dynamic!Paused,
           PausesKept \/ (PauseBegins /\ place \notin {"drawing", "posting"}),
           p \in Dynamics =>
              /\ at[p] \in {"writing", "drawing", "posting"}
              /\ place \in {"writing", "drawing", "posting", "filing"}
    PROVE  PostInv'
<1>1. status' \in [Dynamics -> PostStatus]
  BY TasksKept
<1>2. p \in Dynamics => status'[p] = "running" /\ p \notin online'
  BY DEF PostInv, Attempted
<1> QED BY <1>1, <1>2, StepKeeps DEF PostStatus

LEMMA StartTask ==
    ASSUME PostInv, NEW p \in Dynamics, Dynamic!Start(p) PROVE PostInv'
<1>1. up /\ at[p] = "idle" /\ status[p] = "claimed" /\ UNCHANGED <<up, enabled>> /\ PausesKept
  BY DEF Dynamic!Start, Dynamic!process, Dynamic!operator, Dynamic!pauses, PausesKept
<1>2. p \in Dynamic!Work /\ p \notin online /\ at \in [Dynamic!Work -> PostPlaces]
  BY <1>1, HomeOf DEF PostInv, Attempted, PostTyped
<1>3. CASE Dynamic!Paused
  <2>1. Dynamic!Failed(p, TRUE) /\ at' = at
    BY <1>3 DEF Dynamic!Start
  <2>2. MovesTo(p, "idle")
    BY <1>1, <1>2, <2>1 DEF MovesTo
  <2> QED BY <1>1, <1>2, <2>1, <2>2, FailKeeps
<1>4. CASE ~Dynamic!Paused
  <2>1. Dynamic!To(p, "running") /\ MovesTo(p, "writing")
    BY <1>4 DEF Dynamic!Start, Dynamic!Goto, MovesTo
  <2>2. "running" \in PostStatus /\ "writing" \in PostPlaces
    BY DEF PostStatus, PostPlaces
  <2>3. /\ status' \in [Dynamics -> PostStatus] /\ status'[p] = "running" /\ online' = online
        /\ \A q \in Dynamics : q # p => status'[q] = status[q]
    BY <2>1, <2>2, TaskMoves
  <2> QED BY <1>1, <1>2, <2>1, <2>2, <2>3, StepKeeps DEF PostStatus
<1> QED BY <1>3, <1>4

LEMMA FailingTask ==
    ASSUME PostInv, NEW p \in Dynamics,
           Dynamic!NoActivity(p) \/ Dynamic!NoText(p) \/ Dynamic!Rejected(p)
    PROVE  PostInv'
<1>1. /\ up /\ at[p] = "writing" /\ UNCHANGED <<up, enabled>>
      /\ PausesKept \/ PauseBegins
      /\ MovesTo(p, "idle") /\ \E r \in BOOLEAN : Dynamic!Failed(p, r)
  BY DEF Dynamic!NoActivity, Dynamic!NoText, Dynamic!Rejected, Dynamic!process,
     Dynamic!operator, Dynamic!pauses, PausesKept, PauseBegins, MovesTo, Dynamic!Goto
<1>2. p \notin online
  BY <1>1 DEF PostInv, Attempted
<1> QED BY <1>1, <1>2, FailKeeps

LEMMA ReserveKeeps ==
    ASSUME PostInv, NEW p \in Dynamic!Work, Dynamic!Reserve(p) PROVE PostInv'
<1> DEFINE place == IF p \in Dynamics THEN "drawing" ELSE "posting"
<1>1. /\ up /\ at[p] = "writing" /\ ~Dynamic!Paused /\ UNCHANGED <<up, enabled, status, online>>
      /\ PausesKept /\ MovesTo(p, place)
  BY DEF Dynamic!Reserve, Dynamic!MayPass, Dynamic!process, Dynamic!pauses, Dynamic!tasks,
     PausesKept, Dynamic!Goto, MovesTo
<1>2. place \in PostPlaces /\ place \in {"writing", "drawing", "posting", "filing"}
  BY DEF PostPlaces
<1> HIDE DEF place
<1> QED BY <1>1, <1>2, GoKeeps

LEMMA LimitedKeeps ==
    ASSUME PostInv, NEW p \in Dynamic!Work, Dynamic!Limited(p) PROVE PostInv'
<1>1. up /\ at[p] = "writing" /\ UNCHANGED <<up, enabled>> /\ MovesTo(p, Dynamic!Home(p))
  BY DEF Dynamic!Limited, Dynamic!process, Dynamic!operator, Dynamic!Goto, MovesTo
<1>2. CASE p \in Dynamics
  <2>1. Dynamic!Failed(p, TRUE) /\ (PausesKept \/ PauseBegins) /\ MovesTo(p, "idle")
    BY <1>1, <1>2, HomeOf DEF Dynamic!Limited, Dynamic!pauses, PausesKept, PauseBegins
  <2>2. p \notin online
    BY <1>1, <1>2 DEF PostInv, Attempted
  <2> QED BY <1>1, <1>2, <2>1, <2>2, FailKeeps
<1>3. CASE p \notin Dynamics
  <2>1. PausesKept /\ UNCHANGED <<status, online>> /\ MovesTo(p, "writing")
        /\ "writing" \in PostPlaces
    BY <1>1, <1>3, HomeOf DEF Dynamic!Limited, Dynamic!pauses, Dynamic!tasks, PausesKept,
       PostPlaces
  <2> QED BY <1>1, <1>3, <2>1, GoKeeps
<1> QED BY <1>2, <1>3

LEMMA IllustrateKeeps ==
    ASSUME PostInv, NEW p \in Dynamic!Work, Dynamic!Illustrate(p) PROVE PostInv'
<1>1. /\ up /\ at[p] = "drawing" /\ UNCHANGED <<up, enabled, status, online>> /\ PausesKept
      /\ MovesTo(p, "posting") /\ "posting" \in PostPlaces
  BY DEF Dynamic!Illustrate, Dynamic!process, Dynamic!operator, Dynamic!pauses, Dynamic!tasks,
     PausesKept, Dynamic!Goto, MovesTo, PostPlaces
<1> QED BY <1>1, GoKeeps

LEMMA PostKeeps ==
    ASSUME PostInv, NEW p \in Dynamic!Work, Dynamic!Post(p) PROVE PostInv'
<1>1. /\ up /\ at[p] = "posting" /\ UNCHANGED <<up, enabled, status>> /\ PausesKept
      /\ MovesTo(p, "posted") /\ "posted" \in PostPlaces
      /\ online' = IF p \in Dynamics THEN online \cup {p} ELSE online
  BY DEF Dynamic!Post, Dynamic!process, Dynamic!operator, Dynamic!pauses,
     PausesKept, Dynamic!Goto, MovesTo, PostPlaces
<1>2. status' \in [Dynamics -> PostStatus]
  BY <1>1 DEF PostInv, PostTyped, PostStatus
<1>3. p \in Dynamics => status'[p] = "running"
  BY <1>1 DEF PostInv, Attempted
<1> QED BY <1>1, <1>2, <1>3, StepKeeps DEF PostStatus

LEMMA NoAnswerKeeps ==
    ASSUME PostInv, NEW p \in Dynamic!Work, Dynamic!NoAnswer(p) \/ Dynamic!Answered(p)
    PROVE  PostInv'
<1>1. /\ up /\ at[p] \in {"posting", "posted"} /\ UNCHANGED <<up, enabled>>
      /\ MovesTo(p, Dynamic!Home(p))
  BY DEF Dynamic!NoAnswer, Dynamic!Answered, Dynamic!process, Dynamic!operator, Dynamic!Goto,
     MovesTo
<1>2. CASE p \in Dynamics
  <2>1. (PausesKept \/ PauseBegins) /\ MovesTo(p, "idle")
        /\ \E s \in {"result_unknown", "succeeded"} : Dynamic!To(p, s)
    BY <1>1, <1>2, HomeOf DEF Dynamic!NoAnswer, Dynamic!Answered, Dynamic!pauses, PausesKept,
       PauseBegins
  <2> QED BY <1>1, <1>2, <2>1, LeaveKeeps
<1>3. CASE p \notin Dynamics
  <2>1. PausesKept /\ UNCHANGED <<status, online>> /\ MovesTo(p, "writing")
        /\ "writing" \in PostPlaces
    BY <1>1, <1>3, HomeOf DEF Dynamic!NoAnswer, Dynamic!Answered, Dynamic!pauses, Dynamic!tasks,
       PausesKept, PostPlaces
  <2> QED BY <1>1, <1>3, <2>1, GoKeeps
<1> QED BY <1>2, <1>3

LEMMA RefusedKeeps ==
    ASSUME PostInv, NEW p \in Dynamic!Work, Dynamic!Refused(p) PROVE PostInv'
<1> DEFINE place == IF p \in Dynamics THEN "filing" ELSE Dynamic!Home(p)
<1>1. /\ up /\ at[p] = "posting" /\ UNCHANGED <<up, enabled, status, online>>
      /\ PausesKept \/ PauseBegins
      /\ MovesTo(p, place)
  BY DEF Dynamic!Refused, Dynamic!process, Dynamic!operator, Dynamic!pauses, Dynamic!tasks,
     PausesKept, PauseBegins, Dynamic!Goto, MovesTo
<1>2. place \in PostPlaces /\ place \in {"writing", "filing"}
  BY HomeOf DEF PostPlaces
<1> HIDE DEF place
<1> QED BY <1>1, <1>2, GoKeeps

LEMMA FileKeeps ==
    ASSUME PostInv, NEW p \in Dynamics, Dynamic!File(p) PROVE PostInv'
<1>1. up /\ at[p] = "filing" /\ UNCHANGED <<up, enabled>> /\ MovesTo(p, "idle")
  BY DEF Dynamic!File, Dynamic!Filing, Dynamic!process, Dynamic!operator, Dynamic!Goto, MovesTo
<1>2. p \notin online
  BY <1>1 DEF PostInv, Attempted
<1>3. CASE Dynamic!Failed(p, TRUE) /\ UNCHANGED Dynamic!pauses
  BY <1>1, <1>2, <1>3, FailKeeps DEF Dynamic!pauses, PausesKept
<1>4. CASE Dynamic!To(p, "result_unknown") /\ Dynamic!PauseAccount
  BY <1>1, <1>4, LeaveKeeps DEF PauseBegins
<1> QED BY <1>3, <1>4 DEF Dynamic!File

LEMMA RetryKeeps ==
    ASSUME PostInv, NEW p \in Dynamics, Dynamic!Retry(p) PROVE PostInv'
<1>1. /\ status[p] = "retry_wait" /\ Dynamic!To(p, "claimed") /\ UNCHANGED <<up, enabled, at>>
      /\ PausesKept
  BY DEF Dynamic!Retry, Dynamic!process, Dynamic!operator, Dynamic!pauses, PausesKept
<1>2. "claimed" \in PostStatus
  BY DEF PostStatus
<1>3. /\ status' \in [Dynamics -> PostStatus] /\ status'[p] = "claimed" /\ online' = online
      /\ \A q \in Dynamics : q # p => status'[q] = status[q]
  BY <1>1, <1>2, TaskMoves
<1>4. Dynamic!PauseStopsUnchecked'
  <2>1. Dynamic!PastCheck' = Dynamic!PastCheck
    BY <1>1 DEF Dynamic!PastCheck
  <2> QED BY <1>1, <2>1, PauseHolds
<1>5. PostTyped' /\ NothingDown'
  BY <1>1, <1>3 DEF PostInv, PostTyped, PostStatus, NothingDown, PausesKept
<1>6. Attempted'
  BY <1>1, <1>3 DEF PostInv, Attempted
<1> QED BY <1>4, <1>5, <1>6 DEF PostInv

\* The operator pauses and resumes, reloads; the clock runs.
LEMMA OperatorKeeps ==
    ASSUME PostInv, Dynamic!Pause \/ Dynamic!Resume \/ Dynamic!ResumeAccount \/ Dynamic!Reload
                    \/ Dynamic!Tick
    PROVE  PostInv'
<1>1. UNCHANGED <<up, at, status, online>>
  BY DEF Dynamic!Pause, Dynamic!Resume, Dynamic!ResumeAccount, Dynamic!Reload, Dynamic!Tick,
     Dynamic!process, Dynamic!tasks
<1>2. /\ global' \in BOOLEAN /\ enabled' \in BOOLEAN
      /\ account' \in [db : BOOLEAN, mem : BOOLEAN]
  <2>1. CASE Dynamic!Pause \/ Dynamic!Resume \/ Dynamic!Reload \/ Dynamic!Tick
    BY <2>1 DEF PostInv, PostTyped, Dynamic!Pause, Dynamic!Resume, Dynamic!Reload, Dynamic!Tick,
       Dynamic!pauses, Dynamic!operator
  <2>2. CASE Dynamic!ResumeAccount
    <3>1. account \in [db : BOOLEAN, mem : BOOLEAN] /\ FALSE \in BOOLEAN
      BY DEF PostInv, PostTyped
    <3>2. [account EXCEPT !.mem = FALSE] \in [db : BOOLEAN, mem : BOOLEAN]
          /\ [db |-> FALSE, mem |-> FALSE] \in [db : BOOLEAN, mem : BOOLEAN]
      BY <3>1
    <3> QED BY <2>2, <3>2 DEF PostInv, PostTyped, Dynamic!ResumeAccount
  <2> QED BY <2>1, <2>2
<1>3. Dynamic!PastCheck' = Dynamic!PastCheck
  BY <1>1 DEF Dynamic!PastCheck
<1>4. Dynamic!PauseStopsUnchecked'
  <2>1. CASE Dynamic!Pause
    BY <1>3, <2>1 DEF Dynamic!Pause, Dynamic!Order, PostInv, Dynamic!PauseStopsUnchecked
  <2>2. CASE Dynamic!Resume \/ Dynamic!Reload \/ Dynamic!Tick
    BY <1>3, <2>2 DEF Dynamic!Resume, Dynamic!Reload, Dynamic!Tick, Dynamic!pauses,
       Dynamic!Paused, PostInv, Dynamic!PauseStopsUnchecked
  <2>3. CASE Dynamic!ResumeAccount
    BY <1>3, <2>3 DEF Dynamic!ResumeAccount, Dynamic!Paused, PostInv, Dynamic!PauseStopsUnchecked
  <2> QED BY <2>1, <2>2, <2>3
<1>5. PostTyped' /\ NothingDown' /\ Attempted'
  BY <1>1, <1>2 DEF PostInv, PostTyped, NothingDown, Attempted
<1> QED BY <1>4, <1>5 DEF PostInv

LEMMA NobodyPastCheck ==
    ASSUME \A p \in Dynamic!Work : at[p] = Dynamic!Home(p) PROVE Dynamic!PastCheck = {}
  BY HomeOf DEF Dynamic!PastCheck

LEMMA PostCrash == ASSUME PostInv, Dynamic!Crash PROVE PostInv'
<1>1. /\ up' = FALSE /\ at' = [p \in Dynamic!Work |-> Dynamic!Home(p)]
      /\ account' = [account EXCEPT !.mem = FALSE]
      /\ UNCHANGED <<enabled, global, cleared, status, online>>
  BY DEF Dynamic!Crash, Dynamic!tasks
<1>2. \A p \in Dynamic!Work : at'[p] = Dynamic!Home(p)
  BY <1>1
<1>3. account' \in [db : BOOLEAN, mem : BOOLEAN]
  <2>1. account \in [db : BOOLEAN, mem : BOOLEAN] /\ FALSE \in BOOLEAN
    BY DEF PostInv, PostTyped
  <2> QED BY <1>1, <2>1
<1>4. at' \in [Dynamic!Work -> PostPlaces]
  BY <1>1, HomeOf DEF PostPlaces
<1>5. PostTyped'
  BY <1>1, <1>3, <1>4 DEF PostInv, PostTyped
<1>6. NothingDown'
  BY <1>2 DEF NothingDown, Dynamic!Home
<1>7. Attempted'
  BY <1>1, <1>2, HomeOf DEF PostInv, Attempted
<1>8. Dynamic!PastCheck' = {}
  BY <1>2, HomeOf DEF Dynamic!PastCheck
<1> QED BY <1>5, <1>6, <1>7, <1>8 DEF PostInv, Dynamic!PauseStopsUnchecked

LEMMA PostBoot == ASSUME PostInv, Dynamic!Boot PROVE PostInv'
<1>1. /\ ~up /\ up' = TRUE /\ account' = [account EXCEPT !.mem = account.db]
      /\ status' = [p \in Dynamics |-> IF status[p] = "running" THEN "claimed" ELSE status[p]]
      /\ online' = {p \in online : status[p] # "running"}
      /\ UNCHANGED <<enabled, global, at>>
  BY DEF Dynamic!Boot
<1>2. account' \in [db : BOOLEAN, mem : BOOLEAN]
  <2>1. account \in [db : BOOLEAN, mem : BOOLEAN] /\ account.db \in BOOLEAN
    BY DEF PostInv, PostTyped
  <2> QED BY <1>1, <2>1
<1>3. status' \in [Dynamics -> PostStatus]
  BY <1>1 DEF PostInv, PostTyped, PostStatus
<1>4. PostTyped'
  BY <1>1, <1>2, <1>3 DEF PostInv, PostTyped, PostStatus
<1>5. \A p \in Dynamic!Work : at[p] = Dynamic!Home(p)
  BY <1>1 DEF PostInv, NothingDown
<1>6. Attempted'
  BY <1>1, <1>5, HomeOf DEF PostInv, Attempted
<1>7. Dynamic!PastCheck' = {}
  <2>1. Dynamic!PastCheck = {}
    BY <1>5, NobodyPastCheck
  <2> QED BY <1>1, <2>1 DEF Dynamic!PastCheck
<1>8. NothingDown'
  BY <1>1 DEF NothingDown
<1> QED BY <1>4, <1>6, <1>7, <1>8 DEF PostInv, Dynamic!PauseStopsUnchecked

LEMMA PostStep == ASSUME PostInv, Dynamic!Next PROVE PostInv'
  BY StartTask, FailingTask, FileKeeps, RetryKeeps, ReserveKeeps, LimitedKeeps, IllustrateKeeps,
     PostKeeps, NoAnswerKeeps, RefusedKeeps, OperatorKeeps, PostCrash, PostBoot DEF Dynamic!Next

LEMMA PostAlways == PublishingSpec => []PostInv
<1>1. PublishingInit => PostInv
  <2> SUFFICES ASSUME PublishingInit PROVE PostInv
    OBVIOUS
  <2>1. /\ up = TRUE /\ global = FALSE /\ enabled = TRUE /\ online = {} /\ cleared = {}
        /\ account = [db |-> FALSE, mem |-> FALSE]
        /\ status = [p \in Dynamics |-> "claimed"]
        /\ at = [p \in Dynamic!Work |-> Dynamic!Home(p)]
    BY DEF PublishingInit, Dynamic!Init
  <2>2. PostTyped
    BY <2>1, HomeOf DEF PostTyped, PostPlaces
  <2>3. \A p \in Dynamic!Work : at[p] = Dynamic!Home(p)
    BY <2>1
  <2>4. NothingDown /\ Attempted
    BY <2>1, <2>3, HomeOf DEF NothingDown, Attempted
  <2>5. Dynamic!PastCheck = {}
    BY <2>3, NobodyPastCheck
  <2> QED BY <2>2, <2>4, <2>5 DEF PostInv, Dynamic!PauseStopsUnchecked
<1>2. ASSUME PostInv, [PublishingNext]_allVars PROVE PostInv'
  <2>1. CASE InPost /\ Dynamic!Next
    BY <1>2, <2>1, PostStep
  <2>2. CASE InDrafts \/ InWeek \/ UNCHANGED allVars
    <3>1. UNCHANGED <<up, global, enabled, account, status, at, cleared, online>>
      BY <2>2 DEF InDrafts, InWeek, allVars, postVars
    <3> QED BY <1>2, <3>1 DEF PostInv, PostTyped, NothingDown, Attempted,
            Dynamic!PauseStopsUnchecked, Dynamic!Paused, Dynamic!PastCheck
  <2> QED BY <1>2, <2>1, <2>2 DEF PublishingNext
<1> QED BY <1>1, <1>2, PTL DEF PublishingSpec

\* A pause, whoever sets it and whether the process has been restarted since,
\* stops every publication that has not passed its check when it begins.
THEOREM PauseStopsUncheckedAlways == PublishingSpec => []PauseStopsUnchecked
<1>1. PostInv => PauseStopsUnchecked
  BY DEF PostInv, PauseStopsUnchecked
<1> QED BY <1>1, PostAlways, PTL

\* A task that will be tried again was not published by the attempt that
\* failed.
THEOREM RetriedIsNotOnlineAlways == PublishingSpec => []RetriedIsNotOnline
<1>1. PostInv => RetriedIsNotOnline
  BY DEF PostInv, Attempted, RetriedIsNotOnline, Dynamic!RetriedIsNotOnline
<1> QED BY <1>1, PostAlways, PTL

-----------------------------------------------------------------------------
(* The weekly summary.                                                     *)

WeekStatus == Week!TaskStatus \cup {"absent"}
WeekRow == [status : WeekStatus, attempt : Nat, scheduledAt : Int, notBefore : Int,
            leaseUntil : Int, nextRetryAt : Int]

\* The check holds a row only while it waits, and a process that is down waits
\* for nothing.
WeekInv ==
    /\ now \in Nat /\ row \in WeekRow /\ held \in BOOLEAN /\ sound \in BOOLEAN
    /\ loop \in {"idle", "writing", "archived"}
    /\ loop = "idle" => ~held
    /\ ~alive => loop = "idle"
    /\ loop = "archived" => archived
    /\ WeekIsHonest

\* A row and what a statement makes of it.
LEMMA WeekNames ==
    {"absent", "scheduled", "claimed", "running", "retry_wait", "succeeded", "failed", "expired",
     "interrupted", "result_unknown"} \subseteq WeekStatus
  BY DEF WeekStatus, Week!TaskStatus

LEMMA CreatedWeek ==
    ASSUME NEW n \in Nat
    PROVE  Week!CreatedRow(n) \in WeekRow /\ Week!CreatedRow(n).status = "scheduled"
<1>1. Week!Never \in Int /\ n \in Int /\ "scheduled" \in WeekStatus
  BY WeekNames DEF Week!Never
<1> QED BY <1>1 DEF Week!CreatedRow, WeekRow

LEMMA WeekStatements ==
    ASSUME NEW r \in WeekRow, NEW n \in Nat
    PROVE  /\ Week!ClaimRow(r, n) \in WeekRow /\ Week!ClaimRow(r, n).status = "claimed"
           /\ Week!StartRow(r) \in WeekRow /\ Week!StartRow(r).status = "running"
           /\ Week!SucceedRow(r) \in WeekRow /\ Week!SucceedRow(r).status = "succeeded"
           /\ Week!CancelRow(r) \in WeekRow /\ Week!CancelRow(r).status = "failed"
           /\ Week!RetryRow(r, n) \in WeekRow /\ Week!RetryRow(r, n).status = "scheduled"
           /\ Week!ExpireRow(r) \in WeekRow /\ Week!ExpireRow(r).status = "expired"
           /\ Week!InterruptRow(r) \in WeekRow /\ Week!InterruptRow(r).status = "interrupted"
<1>1. Week!Never \in Int /\ n \in Int /\ n + LeaseTime \in Int
  BY StoreAssumption DEF Week!Never
<1>2. {"scheduled", "claimed", "running", "succeeded", "failed", "expired", "interrupted"}
        \subseteq WeekStatus
  BY WeekNames
<1>4. Week!ClaimRow(r, n) \in WeekRow /\ Week!ClaimRow(r, n).status = "claimed"
  <2> DEFINE until == n + LeaseTime
  <2>1. until \in Int /\ "claimed" \in WeekStatus
    BY <1>1, <1>2
  <2>2. Week!ClaimRow(r, n) = [r EXCEPT !.status = "claimed", !.leaseUntil = until]
    BY DEF Week!ClaimRow
  <2> HIDE DEF until
  <2> QED BY <2>1, <2>2 DEF WeekRow
<1>5. Week!StartRow(r) \in WeekRow /\ Week!StartRow(r).status = "running"
  BY <1>1, <1>2 DEF Week!StartRow, WeekRow
<1>6. Week!SucceedRow(r) \in WeekRow /\ Week!SucceedRow(r).status = "succeeded"
  BY <1>1, <1>2 DEF Week!SucceedRow, WeekRow
<1>7. Week!CancelRow(r) \in WeekRow /\ Week!CancelRow(r).status = "failed"
  BY <1>1, <1>2 DEF Week!CancelRow, WeekRow
<1>8. Week!RetryRow(r, n) \in WeekRow /\ Week!RetryRow(r, n).status = "scheduled"
  BY <1>1, <1>2 DEF Week!RetryRow, WeekRow
<1>9. Week!ExpireRow(r) \in WeekRow /\ Week!ExpireRow(r).status = "expired"
  BY <1>1, <1>2 DEF Week!ExpireRow, WeekRow
<1>10. Week!InterruptRow(r) \in WeekRow /\ Week!InterruptRow(r).status = "interrupted"
  BY <1>1, <1>2 DEF Week!InterruptRow, WeekRow
<1> QED BY <1>4, <1>5, <1>6, <1>7, <1>8, <1>9, <1>10

\* fail() without backoff, for good or to be retried
LEMMA FailStatement ==
    ASSUME NEW r \in WeekRow, NEW n \in Nat, NEW again \in BOOLEAN
    PROVE  /\ Week!FailRow(r, n, again, 0) \in WeekRow
           /\ Week!FailRow(r, n, again, 0).status \in {"failed", "retry_wait"}
<1> DEFINE tries == r.attempt + 1
           spent == [r EXCEPT !.attempt = tries, !.leaseUntil = Week!Never]
           given == [spent EXCEPT !.status = "failed", !.nextRetryAt = Week!Never]
           later == [spent EXCEPT !.status = "retry_wait", !.nextRetryAt = n]
<1>1. /\ tries \in Nat /\ Week!Never \in Int /\ n \in Int
      /\ "failed" \in WeekStatus /\ "retry_wait" \in WeekStatus
  BY WeekNames DEF Week!Never, WeekRow
<1>2. Week!FailRow(r, n, again, 0) \in {given, later}
  <2>1. n + 0 = n
    OBVIOUS
  <2> QED BY <2>1 DEF Week!FailRow
<1> HIDE DEF tries
<1>3. spent \in WeekRow
  BY <1>1 DEF WeekRow
<1> HIDE DEF spent
<1>4. given \in WeekRow /\ given.status = "failed"
  BY <1>1, <1>3 DEF WeekRow
<1>5. later \in WeekRow /\ later.status = "retry_wait"
  BY <1>1, <1>3 DEF WeekRow
<1> HIDE DEF given, later
<1> QED BY <1>2, <1>4, <1>5

\* The row changes under nobody who holds it, and succeeds for nobody else.
LEMMA RowFree ==
    ASSUME WeekInv, row' \in WeekRow,
           held /\ sound => row.status # "running" \/ row'.status = "running",
           row'.status # "succeeded" \/ row' = row \/ archived \/ quiet,
           UNCHANGED <<now, alive, archived, loop, held, quiet, sound>>
    PROVE  WeekInv'
  BY DEF WeekInv, WeekIsHonest, Week!HolderKeepsRow, Week!SuccessIsArchived

LEMMA WeekBoot == ASSUME WeekInv, Week!Boot PROVE WeekInv'
<1>1. /\ ~alive /\ alive' = TRUE /\ row' = Week!BootedRow
      /\ UNCHANGED <<now, archived, loop, held, quiet, sound>>
  BY DEF Week!Boot
<1>2. row \in WeekRow /\ now \in Nat /\ ~held
  BY <1>1 DEF WeekInv
<1>3. row' \in WeekRow /\ (row'.status # "succeeded" \/ row' = row)
  <2> DEFINE i == Week!InterruptRow(row)
  <2>1. i \in WeekRow
    BY <1>2, WeekStatements
  <2> HIDE DEF i
  <2>2. Week!RetryRow(i, now) \in WeekRow /\ Week!RetryRow(i, now).status = "scheduled"
    BY <1>2, <2>1, WeekStatements
  <2>3. Week!ExpireRow(row) \in WeekRow /\ Week!ExpireRow(row).status = "expired"
    BY <1>2, WeekStatements
  <2>4. row' \in {Week!RetryRow(i, now), Week!ExpireRow(row), row}
    BY <1>1 DEF Week!BootedRow, i
  <2> QED BY <1>2, <2>2, <2>3, <2>4
<1> QED BY <1>1, <1>2, <1>3 DEF WeekInv, WeekIsHonest, Week!HolderKeepsRow,
        Week!SuccessIsArchived

\* The passes, and the requests of an operator.
LEMMA Visitors ==
    ASSUME WeekInv, Week!RetryPass \/ Week!Watchdog \/ Week!RetryRequest \/ Week!CancelRequest
    PROVE  WeekInv'
<1>1. UNCHANGED <<now, alive, archived, loop, held, quiet, sound>>
      /\ row \in WeekRow /\ now \in Nat
  BY DEF Week!RetryPass, Week!Watchdog, Week!RetryRequest, Week!CancelRequest, WeekInv
<1>2. CASE Week!RetryPass
  <2> DEFINE r == Week!RetryRow(row, now)
             c == Week!ClaimRow(r, now)
  <2>1. r \in WeekRow
    BY <1>1, WeekStatements
  <2> HIDE DEF r
  <2>2. c \in WeekRow
    BY <1>1, <2>1, WeekStatements
  <2> HIDE DEF c
  <2>3. row' = Week!FailRow(c, now, FALSE, 0) /\ row.status # "running"
    BY <1>2 DEF Week!RetryPass, Week!RetryDue, r, c
  <2>4. row' \in WeekRow /\ row'.status \in {"failed", "retry_wait"}
    BY <1>1, <2>2, <2>3, FailStatement
  <2> QED BY <1>1, <2>3, <2>4, RowFree
<1>3. CASE Week!Watchdog
  <2>1. row' = Week!FailRow(row, now, TRUE, 0) /\ ~held
    BY <1>3 DEF Week!Watchdog, WeekInv
  <2>2. row' \in WeekRow /\ row'.status \in {"failed", "retry_wait"}
    BY <1>1, <2>1, FailStatement
  <2> QED BY <1>1, <2>1, <2>2, RowFree
<1>4. CASE Week!RetryRequest
  <2> DEFINE r == Week!RetryRow(row, now)
  <2>1. r \in WeekRow
    BY <1>1, WeekStatements
  <2> HIDE DEF r
  <2>2. Week!ClaimRow(r, now) \in WeekRow /\ Week!ClaimRow(r, now).status = "claimed"
    BY <1>1, <2>1, WeekStatements
  <2>3. row' = Week!ClaimRow(r, now) /\ row.status # "running"
    BY <1>4 DEF Week!RetryRequest, Week!CanRetry, Week!RetryableStatus, r
  <2> QED BY <1>1, <2>2, <2>3, RowFree
<1>5. CASE Week!CancelRequest
  <2>1. Week!CancelRow(row) \in WeekRow /\ Week!CancelRow(row).status = "failed"
    BY <1>1, WeekStatements
  <2>2. row' = Week!CancelRow(row) /\ row.status # "running"
    BY <1>5 DEF Week!CancelRequest, Week!CanCancel
  <2> QED BY <1>1, <2>1, <2>2, RowFree
<1> QED BY <1>2, <1>3, <1>4, <1>5

\* What the check may find itself with.
LEMMA StartedRow ==
    ASSUME NEW r \in WeekRow, NEW n \in Nat
    PROVE  /\ Week!StartRow(Week!ClaimRow(r, n)) \in WeekRow
           /\ Week!StartRow(Week!ClaimRow(r, n)).status = "running"
<1> DEFINE c == Week!ClaimRow(r, n)
<1>1. c \in WeekRow
  BY WeekStatements
<1> HIDE DEF c
<1>2. Week!StartRow(c) \in WeekRow /\ Week!StartRow(c).status = "running"
  BY <1>1, WeekStatements
<1> QED BY <1>2 DEF c

LEMMA TakenRow ==
    ASSUME WeekInv, NEW t \in Week!Taken
    PROVE  /\ t.row \in WeekRow /\ t.held \in BOOLEAN
           /\ t.held => t.row.status = "running"
           /\ t.row.status = "succeeded" => t.row = row
<1> DEFINE c == Week!CreatedRow(now)
           a == Week!StartRow(Week!ClaimRow(c, now))
           b == Week!StartRow(Week!ClaimRow(row, now))
<1>1. row \in WeekRow /\ now \in Nat
  BY DEF WeekInv
<1>2. c \in WeekRow
  BY <1>1, CreatedWeek
<1> HIDE DEF c
<1>3. a \in WeekRow /\ a.status = "running" /\ b \in WeekRow /\ b.status = "running"
  BY <1>1, <1>2, StartedRow
<1>4. t \in {[row |-> a, held |-> TRUE], [row |-> b, held |-> TRUE], [row |-> row, held |-> FALSE]}
  BY DEF Week!Taken, c
<1> HIDE DEF a, b
<1>5. \/ (t.row = a \/ t.row = b) /\ t.held = TRUE
      \/ t.row = row /\ t.held = FALSE
  BY <1>4
<1>6. CASE (t.row = a \/ t.row = b) /\ t.held = TRUE
  BY <1>3, <1>6
<1>7. CASE t.row = row /\ t.held = FALSE
  BY <1>1, <1>7
<1> QED BY <1>5, <1>6, <1>7

LEMMA BotchedRow ==
    ASSUME WeekInv, NEW t \in Week!Botched
    PROVE  /\ t.row \in WeekRow /\ t.held \in BOOLEAN
           /\ t.row.status = "succeeded" => t.row = row
<1> DEFINE c == Week!CreatedRow(now)
           a == Week!ClaimRow(c, now)
           b == Week!ClaimRow(row, now)
<1>1. row \in WeekRow /\ now \in Nat
  BY DEF WeekInv
<1>2. c \in WeekRow /\ c.status = "scheduled"
  BY <1>1, CreatedWeek
<1>3. t \in {[row |-> row, held |-> FALSE], [row |-> c, held |-> TRUE], [row |-> a, held |-> TRUE],
             [row |-> b, held |-> FALSE]}
  BY DEF Week!Botched
<1> HIDE DEF c
<1>4. a \in WeekRow /\ a.status = "claimed" /\ b \in WeekRow /\ b.status = "claimed"
  BY <1>1, <1>2, WeekStatements
<1> HIDE DEF a, b
<1>5. t.held = TRUE \/ t.held = FALSE
  BY <1>3
<1>6. t.row = row \/ t.row = c \/ t.row = a \/ t.row = b
  BY <1>3
<1> QED BY <1>1, <1>2, <1>4, <1>5, <1>6

\* What succeed() and fail() leave.
LEMMA Outcomes ==
    ASSUME NEW r \in WeekRow, now \in Nat
    PROVE  /\ Week!Succeeded(r) \in WeekRow /\ Week!Failed(r) \in WeekRow
           /\ Week!Failed(r).status = "succeeded" => Week!Failed(r) = r
<1>1. Week!SucceedRow(r) \in WeekRow
  BY WeekStatements
<1>2. /\ Week!FailRow(r, now, TRUE, 0) \in WeekRow
      /\ Week!FailRow(r, now, TRUE, 0).status \in {"failed", "retry_wait"}
  BY FailStatement
<1> QED BY <1>1, <1>2 DEF Week!Succeeded, Week!Failed

\* A week that is skipped: no row is held.
LEMMA SkipKeeps ==
    ASSUME WeekInv, ~held, quiet' = TRUE, row' \in WeekRow, sound' \in BOOLEAN,
           UNCHANGED <<now, alive, archived, loop, held>>
    PROVE  WeekInv'
  BY DEF WeekInv, WeekIsHonest, Week!HolderKeepsRow, Week!SuccessIsArchived

LEMMA CheckKeeps ==
    ASSUME WeekInv, Week!Skip \/ Week!Write \/ Week!Botch PROVE WeekInv'
<1>1. row \in WeekRow /\ now \in Nat /\ sound \in BOOLEAN
  BY DEF WeekInv
<1>2. CASE Week!Skip
  <2>1. quiet' = TRUE /\ UNCHANGED <<now, alive, archived, loop, held, sound>> /\ ~held
    BY <1>2 DEF Week!Skip, Week!SkipWith, Week!CanCheck, WeekInv
  <2>2. PICK t \in Week!Taken : row' = IF t.held THEN Week!Succeeded(t.row) ELSE t.row
    BY <1>2 DEF Week!Skip, Week!SkipWith
  <2>3. row' \in WeekRow
    BY <1>1, <2>2, TakenRow, Outcomes
  <2> QED BY <1>1, <2>1, <2>3, SkipKeeps
<1>3. CASE Week!WriteWith(Week!Taken) /\ UNCHANGED sound
  <2>1. PICK t \in Week!Taken : row' = t.row /\ held' = t.held
    BY <1>3 DEF Week!WriteWith
  <2>2. /\ loop' = "writing" /\ alive /\ UNCHANGED <<now, alive, archived, quiet, sound>>
    BY <1>3 DEF Week!WriteWith, Week!CanCheck
  <2>3. row' \in WeekRow /\ held' \in BOOLEAN /\ (held' => row'.status = "running")
    BY <2>1, TakenRow
  <2>4. row'.status = "succeeded" => row' = row
    BY <2>1, TakenRow
  <2> QED BY <2>2, <2>3, <2>4 DEF WeekInv, WeekIsHonest, Week!HolderKeepsRow,
          Week!SuccessIsArchived
<1>4. CASE Week!WriteWith(Week!Botched) /\ sound' = FALSE
  <2>1. PICK t \in Week!Botched : row' = t.row /\ held' = t.held
    BY <1>4 DEF Week!WriteWith
  <2>2. /\ loop' = "writing" /\ alive /\ UNCHANGED <<now, alive, archived, quiet>>
    BY <1>4 DEF Week!WriteWith, Week!CanCheck
  <2>3. row' \in WeekRow /\ held' \in BOOLEAN /\ (row'.status = "succeeded" => row' = row)
    BY <2>1, BotchedRow
  <2> QED BY <1>4, <2>2, <2>3 DEF WeekInv, WeekIsHonest, Week!HolderKeepsRow,
          Week!SuccessIsArchived
<1>5. CASE Week!SkipWith({t.row : t \in Week!Taken \cup Week!Botched}) /\ sound' = FALSE
  <2>1. /\ quiet' = TRUE /\ UNCHANGED <<now, alive, archived, loop, held>> /\ ~held
    BY <1>5 DEF Week!SkipWith, Week!CanCheck, WeekInv
  <2>2. PICK t \in Week!Taken \cup Week!Botched : row' = t.row
    BY <1>5 DEF Week!SkipWith
  <2>3. row' \in WeekRow
    BY <2>2, TakenRow, BotchedRow
  <2> QED BY <1>5, <2>1, <2>3, SkipKeeps
<1> QED BY <1>2, <1>3, <1>4, <1>5 DEF Week!Write, Week!Botch

LEMMA WeekOutcome ==
    ASSUME WeekInv, Week!Unrecorded \/ Week!NotWritten \/ Week!Archive \/ Week!Finish
    PROVE  WeekInv'
<1>1. row \in WeekRow /\ now \in Nat
  BY DEF WeekInv
<1>2. CASE Week!Unrecorded
  BY <1>2 DEF Week!Unrecorded, WeekInv, WeekIsHonest, Week!HolderKeepsRow, Week!SuccessIsArchived
<1>3. CASE Week!Archive
  BY <1>3 DEF Week!Archive, WeekInv, WeekIsHonest, Week!HolderKeepsRow, Week!SuccessIsArchived
<1>4. CASE Week!NotWritten
  <2>1. row' \in WeekRow /\ (row'.status = "succeeded" => row' = row)
    BY <1>1, <1>4, Outcomes DEF Week!NotWritten
  <2> QED BY <1>4, <2>1 DEF Week!NotWritten, WeekInv, WeekIsHonest, Week!HolderKeepsRow,
          Week!SuccessIsArchived
<1>5. CASE Week!Finish
  <2>1. row' \in WeekRow
    BY <1>1, <1>5, Outcomes DEF Week!Finish
  <2> QED BY <1>5, <2>1 DEF Week!Finish, WeekInv, WeekIsHonest, Week!HolderKeepsRow,
          Week!SuccessIsArchived
<1> QED BY <1>2, <1>3, <1>4, <1>5

LEMMA WeekStep == ASSUME WeekInv, Week!Next PROVE WeekInv'
<1>1. CASE Week!Tick \/ Week!MondayEnds
  BY <1>1 DEF Week!Tick, Week!MondayEnds, WeekInv, WeekIsHonest, Week!HolderKeepsRow,
     Week!SuccessIsArchived
<1>2. CASE Week!Crash
  BY <1>2 DEF Week!Crash, WeekInv, WeekIsHonest, Week!HolderKeepsRow, Week!SuccessIsArchived
<1> QED BY <1>1, <1>2, WeekBoot, Visitors, CheckKeeps, WeekOutcome DEF Week!Next

\* In the other behaviours the week has no row.
WeekKnown ==
    /\ part = "week" => WeekInv
    /\ part # "week" => ~held /\ row.status = "absent"

\* A row that says the summary succeeded does not lie: the event of the week is
\* archived, or the week was skipped as one without activity.  And while a check
\* that holds the row waits, no request, pass or restart takes it away.
THEOREM WeekIsHonestAlways == PublishingSpec => []WeekIsHonest
<1>1. PublishingInit => WeekKnown
  <2> SUFFICES ASSUME PublishingInit PROVE WeekKnown
    OBVIOUS
  <2>1. /\ now = 0 /\ ~alive /\ row = Week!NoRow /\ ~archived /\ loop = "idle" /\ held = FALSE
        /\ sound = TRUE
    BY DEF PublishingInit, Week!Init
  <2>2. Week!NoRow \in WeekRow /\ Week!NoRow.status = "absent"
    <3>1. Week!CreatedRow(0) \in WeekRow /\ "absent" \in WeekStatus
      BY CreatedWeek, WeekNames
    <3> QED BY <3>1 DEF Week!NoRow, WeekRow
  <2> QED BY <2>1, <2>2 DEF WeekKnown, WeekInv, WeekIsHonest, Week!HolderKeepsRow,
          Week!SuccessIsArchived
<1>2. ASSUME WeekKnown, [PublishingNext]_allVars PROVE WeekKnown'
  <2>1. CASE InWeek /\ Week!Next
    BY <1>2, <2>1, WeekStep DEF WeekKnown, InWeek
  <2>2. CASE InDrafts \/ InPost
    <3>1. part # "week" /\ UNCHANGED <<part, row, held>>
      BY <2>2 DEF InDrafts, InPost, weekVars
    <3> QED BY <1>2, <3>1 DEF WeekKnown
  <2>3. CASE UNCHANGED allVars
    <3>1. UNCHANGED <<part, now, alive, row, archived, loop, held, quiet, sound>>
      BY <2>3 DEF allVars, processVars, weekVars
    <3>2. WeekInv => WeekInv'
      BY <3>1 DEF WeekInv, WeekIsHonest, Week!HolderKeepsRow, Week!SuccessIsArchived
    <3> QED BY <1>2, <3>1, <3>2 DEF WeekKnown
  <2> QED BY <1>2, <2>1, <2>2, <2>3 DEF PublishingNext
<1>3. WeekKnown => WeekIsHonest
  BY DEF WeekKnown, WeekInv, WeekIsHonest, Week!HolderKeepsRow, Week!SuccessIsArchived
<1> QED BY <1>1, <1>2, <1>3, PTL DEF PublishingSpec

-----------------------------------------------------------------------------
(* The quota of a dynamic that is posted without a review.                 *)

Times == 0..PostNow
Window == Seq(Times)
Windows == [Dynamic!Keys -> Window]
Fields == {"minute", "day", "total", "rows"}

QuotaTyped ==
    /\ clock \in Times
    /\ lim = [f \in Fields |-> lim[f]]
    /\ lim.day \in Windows /\ lim.rows \in Windows /\ lim.total \in Window
    /\ kept \in [Dynamic!Keys -> Nat]
    /\ lost \in Nat /\ unlimited \in Nat /\ unreturned \in Nat /\ unread \in Nat
    /\ at = [p \in Dynamic!Work |-> at[p]]

\* What is under way past the check is paid for.
Paying(k) == {p \in Dynamic!PastCheck : Dynamic!Key(p) = k}
Paid ==
    \A k \in Dynamic!Keys :
        IsFiniteSet(Paying(k)) /\ Cardinality(Paying(k)) <= kept[k]

\* A count of what was published and the entries that stand for it, but for so
\* many that are missing.
Matches(count, entries, missing) ==
    count <= entries + missing /\ entries <= count + unreturned

\* The windows count what was published, and so do the rows they would be read
\* from after a restart: the key's own, and all together.  In the windows what
\* a failing load left out is missing too.
Length(queues) == [k \in Dynamic!Keys |-> Len(queues[k])]
WindowsMatch ==
    /\ \A k \in Dynamic!Keys :
         /\ Matches(kept[k], Len(lim.day[k]), Dynamic!Excess)
         /\ Matches(kept[k], Len(lim.rows[k]), Dynamic!Uncounted)
    /\ Matches(Dynamic!Both(kept), Len(lim.total), Dynamic!Excess)
    /\ Matches(Dynamic!Both(kept), Dynamic!Both(Length(lim.rows)), Dynamic!Uncounted)

QuotaInv == QuotaTyped /\ Paid /\ WindowsMatch /\ Dynamic!QuotaHolds

\* A set of numbers has a least one: their initial segments have a smallest.
LEMMA Least ==
    ASSUME NEW S, S \subseteq Nat, S # {}
    PROVE  \E x \in S : \A y \in S : x <= y
<1> DEFINE segments == {0..x : x \in S}
<1>1. IsWellFoundedOn(StrictSubsetOrdering(Nat), FiniteSubsetsOf(Nat))
  BY FS_StrictSubsetOrderingWellFounded
<1>2. segments \subseteq FiniteSubsetsOf(Nat) /\ segments # {}
  <2>1. \A x \in S : 0..x \subseteq Nat /\ IsFiniteSet(0..x)
    BY FS_Interval
  <2> QED
    BY <2>1 DEF FiniteSubsetsOf
<1>3. PICK T \in segments : \A U \in segments : <<U, T>> \notin StrictSubsetOrdering(Nat)
  <2> HIDE DEF segments
  <2> QED
    BY <1>1, <1>2, WFMin
<1>4. PICK x \in S : T = 0..x
  BY <1>3
<1>5. ASSUME NEW y \in S, y < x PROVE FALSE
  <2>1. 0..y \in SUBSET Nat /\ 0..x \in SUBSET Nat /\ 0..y \subseteq 0..x /\ 0..y # 0..x
    BY <1>5
  <2>2. <<0..y, T>> \in StrictSubsetOrdering(Nat)
    BY <1>4, <2>1 DEF StrictSubsetOrdering
  <2> QED
    BY <1>3, <2>2
<1> QED
  BY <1>5

LEMMA Greatest ==
    ASSUME NEW n \in Nat, NEW S, S \subseteq 0..n, S # {}
    PROVE  \E x \in S : \A y \in S : x >= y
<1>1. {n - x : x \in S} \subseteq Nat /\ {n - x : x \in S} # {}
  <2>1. \A x \in S : n - x \in Nat
    OBVIOUS
  <2> QED
    BY <2>1
<1>2. PICK m \in {n - x : x \in S} : \A y \in {n - x : x \in S} : m <= y
  BY <1>1, Least
<1>3. PICK x \in S : m = n - x
  BY <1>2
<1>4. ASSUME NEW y \in S PROVE x >= y
  <2>1. n - x <= n - y
    BY <1>2, <1>3
  <2> QED
    BY <2>1
<1> QED
  BY <1>4

\* A queue that is cut at a place is a queue that is shorter by one.
LEMMA Removed ==
    ASSUME NEW q \in Window, NEW i \in DOMAIN q
    PROVE  Dynamic!RemoveAt(q, i) \in Window /\ Len(Dynamic!RemoveAt(q, i)) = Len(q) - 1
<1> DEFINE before == SubSeq(q, 1, i - 1)
           after == SubSeq(q, i + 1, Len(q))
<1>1. i \in 1..Len(q) /\ Len(q) \in Nat /\ q \in Seq(Times)
  BY DEF Window
<1>2. before \in Seq(Times) /\ Len(before) = i - 1
  BY <1>1, SubSeqProperties
<1>3. after \in Seq(Times) /\ Len(after) = Len(q) - i
  BY <1>1, SubSeqProperties
<1>4. Dynamic!RemoveAt(q, i) = before \o after
  BY DEF Dynamic!RemoveAt
<1> HIDE DEF before, after
<1>5. before \o after \in Seq(Times) /\ Len(before \o after) = Len(before) + Len(after)
  BY <1>2, <1>3, ConcatProperties
<1> QED
  BY <1>1, <1>2, <1>3, <1>4, <1>5 DEF Window

Shorter(r, q) == r \in Window /\ Len(r) = IF Len(q) = 0 THEN 0 ELSE Len(q) - 1

LEMMA Dropped ==
    ASSUME NEW q \in Window, NEW t
    PROVE  Shorter(Dynamic!Drop(q, t), q)
<1>1. Len(q) \in Nat /\ DOMAIN q = 1..Len(q) /\ (q = <<>> <=> Len(q) = 0)
  BY DEF Window
<1>2. CASE q = <<>>
  BY <1>1, <1>2 DEF Dynamic!Drop, Shorter
<1>3. CASE q # <<>>
  <2> DEFINE same == {i \in DOMAIN q : q[i] = t}
  <2>1. Dynamic!LastAt(q, t) \in DOMAIN q
    <3>1. CASE same = {}
      BY <1>1, <1>3, <3>1 DEF Dynamic!LastAt
    <3>2. CASE same # {}
      <4>1. same \subseteq 0..Len(q)
        BY <1>1
      <4>2. \E x \in same : \A y \in same : x >= y
        <5> HIDE DEF same
        <5> QED
          BY <1>1, <3>2, <4>1, Greatest
      <4>3. Dynamic!Max(same) \in same
        BY <4>2 DEF Dynamic!Max
      <4>4. Dynamic!LastAt(q, t) = Dynamic!Max(same)
        BY <3>2 DEF Dynamic!LastAt
      <4> QED
        BY <4>3, <4>4
    <3> QED
      BY <3>1, <3>2
  <2>2. Dynamic!Drop(q, t) = Dynamic!RemoveAt(q, Dynamic!LastAt(q, t))
    BY <1>3 DEF Dynamic!Drop
  <2> QED
    BY <1>1, <1>3, <2>1, <2>2, Removed DEF Shorter
<1> QED
  BY <1>2, <1>3

LEMMA FrontOf ==
    ASSUME NEW q \in Window, q # <<>>
    PROVE  Shorter(Dynamic!Front(q), q)
<1> DEFINE n == Len(q) - 1
           front == SubSeq(q, 1, n)
<1>1. q \in Seq(Times) /\ Len(q) \in Nat /\ Len(q) # 0
  BY DEF Window
<1>2. n \in Nat /\ n = Len(q) - 1 /\ \A i \in 1..n : q[i] \in Times
  BY <1>1
<1>3. front \in Seq(Times) /\ Len(front) = IF 1 <= n THEN n - 1 + 1 ELSE 0
  <2> HIDE DEF n
  <2> QED
    BY <1>2, SubSeqProperties
<1>4. Dynamic!Front(q) = front
  BY DEF Dynamic!Front
<1> HIDE DEF front, n
<1>5. Len(front) = n
  BY <1>2, <1>3
<1> QED
  BY <1>1, <1>2, <1>3, <1>4, <1>5 DEF Shorter, Window

\* Within a day nothing expires.
LEMMA NothingExpired ==
    ASSUME PostNow <= Day, NEW q \in Window, NEW c \in Times
    PROVE  Dynamic!Live(q, Day, c) = q
<1>1. PostNow \in Nat /\ Day \in Nat /\ q \in Seq(Times) /\ Len(q) \in Nat
  BY PublishingAssumption DEF Dynamic!PostAssumption, Dynamic!LimiterAssumption, Window
<1>2. \A i \in 1..Len(q) : q[i] \in Nat /\ ~(q[i] < c - Day)
  <2> SUFFICES ASSUME NEW i \in 1..Len(q) PROVE q[i] \in Nat /\ ~(q[i] < c - Day)
    OBVIOUS
  <2>1. q[i] \in Times
    BY <1>1
  <2> QED
    BY <1>1, <2>1 DEF Times
<1> DEFINE Stops(n) == /\ \A i \in 1..n : q[i] < c - Day
                       /\ n < Len(q) => q[n + 1] >= c - Day
           old == CHOOSE n \in 0..Len(q) : Stops(n)
<1>3. Stops(0) /\ 0 \in 0..Len(q)
  <2>1. 0 < Len(q) => 0 + 1 \in 1..Len(q)
    BY <1>1
  <2>2. 0 < Len(q) => q[0 + 1] >= c - Day
    BY <1>1, <1>2, <2>1 DEF Times
  <2> QED
    BY <1>1, <2>2
<1>4. old \in 0..Len(q) /\ Stops(old)
  <2> HIDE DEF Stops
  <2> QED
    BY <1>3
<1>5. old = 0
  <2> HIDE DEF old
  <2> SUFFICES ASSUME old # 0 PROVE FALSE
    OBVIOUS
  <2>1. 1 \in 1..old /\ 1 \in 1..Len(q)
    BY <1>1, <1>4
  <2> QED
    BY <1>2, <1>4, <2>1
<1>6. Dynamic!Live(q, Day, c) = SubSeq(q, old + 1, Len(q))
  BY DEF Dynamic!Live
<1> HIDE DEF old
<1>7. Dynamic!Live(q, Day, c) = SubSeq(q, 1, Len(q))
  BY <1>5, <1>6
<1> QED
  BY <1>1, <1>7, SubSeqFull

LEMMA CardinalityIs ==
    ASSUME NEW S
    PROVE  Dynamic!Cardinality(S) = Cardinality(S)
  BY DEF Dynamic!Cardinality, Cardinality

\* Brought into order, a queue has its length and its times.
LEMMA InOrder ==
    ASSUME NEW q \in Window
    PROVE  Dynamic!Ordered(q) \in Window /\ Len(Dynamic!Ordered(q)) = Len(q)
<1> DEFINE upTo(t) == {j \in DOMAIN q : q[j] <= t}
           high(i) == {t \in Dynamic!Range(q) : Dynamic!Cardinality(upTo(t)) >= i}
<1>1. PostNow \in Nat /\ Len(q) \in Nat /\ DOMAIN q = 1..Len(q)
      /\ \A j \in DOMAIN q : q[j] \in Times
  BY PublishingAssumption DEF Dynamic!PostAssumption, Window
<1>2. Dynamic!Range(q) = {q[j] : j \in DOMAIN q} /\ Dynamic!Range(q) \subseteq Times
  BY <1>1 DEF Dynamic!Range
<1>3. ASSUME NEW i \in DOMAIN q PROVE Dynamic!Min(high(i)) \in Times
  <2>1. Dynamic!Range(q) # {} /\ Dynamic!Range(q) \subseteq 0..PostNow
    BY <1>2, <1>3 DEF Times
  <2>2. PICK t \in Dynamic!Range(q) : \A u \in Dynamic!Range(q) : t >= u
    BY <1>1, <2>1, Greatest
  <2>3. upTo(t) = 1..Len(q)
    BY <1>1, <1>2, <2>2
  <2>4. Dynamic!Cardinality(1..Len(q)) = Len(q)
    BY <1>1, FS_Interval, CardinalityIs
  <2>5. t \in high(i)
    <3>1. Dynamic!Cardinality(upTo(t)) = Len(q)
      BY <2>3, <2>4
    <3> HIDE DEF upTo
    <3> QED
      BY <1>1, <1>3, <3>1
  <2>6. high(i) \subseteq Nat /\ high(i) \subseteq Times
    BY <1>2, <1>1 DEF Times
  <2>7. \E x \in high(i) : \A y \in high(i) : x <= y
    <3> DEFINE S == high(i)
    <3>1. S \subseteq Nat /\ S # {}
      BY <2>5, <2>6
    <3> HIDE DEF S
    <3>2. \E x \in S : \A y \in S : x <= y
      BY <3>1, Least
    <3> QED
      BY <3>2 DEF S
  <2>8. Dynamic!Min(high(i)) \in high(i)
    <3> DEFINE S == high(i)
    <3>1. \E x \in S : \A y \in S : x <= y
      BY <2>7
    <3> HIDE DEF S
    <3>2. Dynamic!Min(S) \in S
      BY <3>1 DEF Dynamic!Min
    <3> QED
      BY <3>2 DEF S
  <2> QED
    BY <2>6, <2>8
<1>4. Dynamic!Ordered(q) = [i \in 1..Len(q) |-> Dynamic!Min(high(i))]
  BY <1>1 DEF Dynamic!Ordered
<1> HIDE DEF high
<1>5. Dynamic!Ordered(q) \in [1..Len(q) -> Times]
  BY <1>1, <1>3, <1>4
<1>6. Dynamic!Ordered(q) \in Seq(Times)
  BY <1>1, <1>5, SeqDef
<1> QED
  BY <1>1, <1>5, <1>6 DEF Window

LEMMA TrimmedIs ==
    ASSUME PostNow <= Day, QuotaTyped, NEW k \in Dynamic!Keys,
           NEW t, t = Dynamic!Trimmed(lim, k, clock)
    PROVE  /\ t = [f \in Fields |-> t[f]]
           /\ t.day = lim.day /\ t.total = lim.total /\ t.rows = lim.rows
<1> DEFINE minute == Dynamic!Live(lim.minute[k], Minute, clock)
           day == Dynamic!Live(lim.day[k], Day, clock)
           total == Dynamic!Live(lim.total, Day, clock)
<1>1. day = lim.day[k] /\ total = lim.total
  BY NothingExpired DEF QuotaTyped, Windows
<1>2. \/ t = [lim EXCEPT !.minute[k] = minute]
      \/ t = [lim EXCEPT !.minute[k] = minute, !.day[k] = day]
      \/ t = [lim EXCEPT !.minute[k] = minute, !.day[k] = day, !.total = total]
  BY DEF Dynamic!Trimmed
<1>3. [lim.day EXCEPT ![k] = lim.day[k]] = lim.day
  BY DEF QuotaTyped, Windows
<1> HIDE DEF minute, day, total
<1>4. lim = [f \in Fields |-> lim[f]]
  BY DEF QuotaTyped
<1>5. CASE t = [lim EXCEPT !.minute[k] = minute]
  BY <1>4, <1>5 DEF Fields
<1>6. CASE t = [lim EXCEPT !.minute[k] = minute, !.day[k] = day]
  BY <1>1, <1>3, <1>4, <1>6 DEF Fields
<1>7. CASE t = [lim EXCEPT !.minute[k] = minute, !.day[k] = day, !.total = total]
  BY <1>1, <1>3, <1>4, <1>7 DEF Fields
<1> QED
  BY <1>2, <1>5, <1>6, <1>7

LEMMA ReservedIs ==
    ASSUME PostNow <= Day, QuotaTyped, NEW k \in Dynamic!Keys, NEW written \in BOOLEAN,
           NEW r, r = Dynamic!Reserved(lim, k, clock, written)
    PROVE  /\ r = [f \in Fields |-> r[f]]
           /\ r.day = [lim.day EXCEPT ![k] = Append(lim.day[k], clock)]
           /\ r.total = Append(lim.total, clock)
           /\ r.rows = [lim.rows EXCEPT ![k] =
                          IF written THEN Append(lim.rows[k], clock) ELSE lim.rows[k]]
<1> DEFINE t == Dynamic!Trimmed(lim, k, clock)
<1>1. /\ t = [f \in Fields |-> t[f]]
      /\ t.day = lim.day /\ t.total = lim.total /\ t.rows = lim.rows
  BY TrimmedIs
<1>2. r = [t EXCEPT !.minute[k] = Append(@, clock), !.day[k] = Append(@, clock),
                    !.total = Append(@, clock),
                    !.rows[k] = IF written THEN Append(@, clock) ELSE @]
  BY DEF Dynamic!Reserved
<1> HIDE DEF t
<1>3. /\ r = [f \in Fields |-> r[f]]
      /\ r.day = [t.day EXCEPT ![k] = Append(t.day[k], clock)]
      /\ r.total = Append(t.total, clock)
      /\ r.rows = [t.rows EXCEPT ![k] =
                     IF written THEN Append(t.rows[k], clock) ELSE t.rows[k]]
  BY <1>1, <1>2 DEF Fields
<1> QED
  BY <1>1, <1>3

\* A refund takes one entry from the key's windows, from the total and, if it can
\* be deleted, from the key's rows, where they have one.
RowsRefunded(after, before, deleted) ==
    after \in Window /\ IF deleted THEN Shorter(after, before) ELSE after = before
Refunds(r, k, deleted) ==
    /\ r = [f \in Fields |-> r[f]]
    /\ r.day \in Windows /\ r.rows \in Windows
    /\ Shorter(r.day[k], lim.day[k])
    /\ RowsRefunded(r.rows[k], lim.rows[k], deleted)
    /\ \A j \in Dynamic!Keys : j # k => r.day[j] = lim.day[j] /\ r.rows[j] = lim.rows[j]
    /\ Shorter(r.total, lim.total)

LEMMA RefundedIs ==
    ASSUME QuotaTyped, NEW k \in Dynamic!Keys, NEW deleted \in BOOLEAN,
           NEW r, r = Dynamic!Refunded(lim, k, deleted)
    PROVE  Refunds(r, k, deleted)
<1>1. /\ lim = [f \in Fields |-> lim[f]] /\ lim.day \in Windows /\ lim.rows \in Windows
      /\ lim.total \in Window /\ lim.day[k] \in Window /\ lim.rows[k] \in Window
  BY DEF QuotaTyped, Windows
<1>2. \A q \in Window : Shorter(IF q = <<>> THEN q ELSE Dynamic!Front(q), q)
  <2> SUFFICES ASSUME NEW q \in Window
               PROVE  Shorter(IF q = <<>> THEN q ELSE Dynamic!Front(q), q)
    OBVIOUS
  <2>1. CASE q = <<>>
    BY <2>1 DEF Shorter
  <2>2. CASE q # <<>>
    BY <2>2, FrontOf
  <2> QED
    BY <2>1, <2>2
<1>3. ASSUME NEW d \in Window, NEW m, NEW tot \in Window, NEW left \in Window,
             r = [lim EXCEPT !.day[k] = d, !.minute[k] = m, !.total = tot, !.rows[k] = left],
             Shorter(d, lim.day[k]), Shorter(tot, lim.total),
             RowsRefunded(left, lim.rows[k], deleted)
      PROVE  Refunds(r, k, deleted)
  <2>1. /\ r = [f \in Fields |-> r[f]]
        /\ r.day = [lim.day EXCEPT ![k] = d]
        /\ r.rows = [lim.rows EXCEPT ![k] = left]
        /\ r.total = tot
    BY <1>1, <1>3 DEF Fields
  <2>2. r.day \in Windows /\ r.rows \in Windows /\ r.day[k] = d /\ r.rows[k] = left
        /\ \A j \in Dynamic!Keys : j # k => r.day[j] = lim.day[j] /\ r.rows[j] = lim.rows[j]
    BY <1>1, <2>1 DEF Windows
  <2> QED
    BY <1>3, <2>1, <2>2 DEF Refunds
<1>4. CASE lim.day[k] = <<>>
  <2> DEFINE tot == IF lim.total = <<>> THEN lim.total ELSE Dynamic!Front(lim.total)
             left == IF deleted /\ lim.rows[k] # <<>> THEN Dynamic!Front(lim.rows[k])
                                                      ELSE lim.rows[k]
  <2>1. /\ Shorter(tot, lim.total) /\ Shorter(lim.day[k], lim.day[k])
        /\ RowsRefunded(left, lim.rows[k], deleted)
    <3>1. Shorter(tot, lim.total) /\ Shorter(lim.day[k], lim.day[k])
      BY <1>1, <1>2, <1>4 DEF Shorter
    <3>2. RowsRefunded(left, lim.rows[k], deleted)
      BY <1>1, <1>2 DEF Shorter, RowsRefunded
    <3> QED
      BY <3>1, <3>2
  <2>2. r = [lim EXCEPT !.total = tot, !.rows[k] = left]
    BY <1>4 DEF Dynamic!Refunded
  <2> HIDE DEF tot, left
  <2>3. /\ r = [f \in Fields |-> r[f]]
        /\ r.day = lim.day
        /\ r.rows = [lim.rows EXCEPT ![k] = left]
        /\ r.total = tot
    BY <1>1, <2>2 DEF Fields
  <2>4. left \in Window
    BY <2>1 DEF RowsRefunded
  <2>5. r.rows \in Windows /\ r.rows[k] = left
        /\ \A j \in Dynamic!Keys : j # k => r.rows[j] = lim.rows[j]
    BY <1>1, <2>3, <2>4 DEF Windows
  <2> QED
    BY <1>1, <2>1, <2>3, <2>5 DEF Refunds
<1>5. CASE lim.day[k] # <<>>
  <2> DEFINE t == Dynamic!Last(lim.day[k])
             d == Dynamic!Front(lim.day[k])
             m == Dynamic!Drop(lim.minute[k], t)
             tot == Dynamic!Drop(lim.total, t)
             left == IF deleted THEN Dynamic!Drop(lim.rows[k], t) ELSE lim.rows[k]
  <2>1. Shorter(tot, lim.total) /\ RowsRefunded(left, lim.rows[k], deleted)
    <3>1. Shorter(tot, lim.total) /\ Shorter(Dynamic!Drop(lim.rows[k], t), lim.rows[k])
      BY <1>1, Dropped
    <3> QED
      BY <1>1, <3>1 DEF RowsRefunded, Shorter
  <2>2. Shorter(d, lim.day[k])
    BY <1>1, <1>5, FrontOf
  <2>3. r = [lim EXCEPT !.day[k] = d, !.minute[k] = m, !.total = tot, !.rows[k] = left]
    BY <1>1, <1>5 DEF Dynamic!Refunded, Fields
  <2> HIDE DEF t, d, m, tot, left
  <2>4. d \in Window /\ tot \in Window /\ left \in Window
    BY <2>1, <2>2 DEF Shorter, RowsRefunded
  <2> QED
    BY <1>3, <2>1, <2>2, <2>3, <2>4
<1> QED
  BY <1>4, <1>5

LEMMA LoadedIs ==
    ASSUME PostNow <= Day, QuotaTyped, NEW r, r = Dynamic!Loaded(lim, clock)
    PROVE  /\ r = [f \in Fields |-> r[f]]
           /\ r.day = lim.rows /\ r.rows = lim.rows
           /\ r.total \in Window /\ Len(r.total) = Dynamic!Both(Length(lim.rows))
<1> DEFINE recent == [k \in Dynamic!Keys |-> Dynamic!Live(lim.rows[k], Day, clock)]
<1>1. /\ lim.rows \in Windows /\ clock \in Times
      /\ "dynamic" \in Dynamic!Keys /\ "reply" \in Dynamic!Keys
  BY DEF QuotaTyped, Dynamic!Keys
<1>2. recent = lim.rows
  <2>1. \A k \in Dynamic!Keys : Dynamic!Live(lim.rows[k], Day, clock) = lim.rows[k]
    BY <1>1, NothingExpired DEF Windows
  <2> QED
    BY <1>1, <2>1 DEF Windows
<1> DEFINE all == lim.rows["dynamic"] \o lim.rows["reply"]
<1>3. /\ r = [minute |-> [k \in Dynamic!Keys |-> Dynamic!Live(recent[k], Minute, clock)],
              day |-> recent, total |-> Dynamic!Ordered(recent["dynamic"] \o recent["reply"]),
              rows |-> recent]
  BY DEF Dynamic!Loaded
<1> HIDE DEF recent
<1>4. /\ r = [f \in Fields |-> r[f]] /\ r.day = lim.rows /\ r.rows = lim.rows
      /\ r.total = Dynamic!Ordered(all)
  BY <1>2, <1>3 DEF Fields
<1>5. /\ all \in Window
      /\ Len(all) = Len(lim.rows["dynamic"]) + Len(lim.rows["reply"])
  <2>1. lim.rows["dynamic"] \in Seq(Times) /\ lim.rows["reply"] \in Seq(Times)
    BY <1>1 DEF Windows, Window
  <2> QED
    BY <2>1, ConcatProperties DEF Window
<1> HIDE DEF all
<1>6. Dynamic!Ordered(all) \in Window /\ Len(Dynamic!Ordered(all)) = Len(all)
  BY <1>5, InOrder
<1> QED
  BY <1>1, <1>4, <1>5, <1>6 DEF Dynamic!Both, Length

\* A load that fails leaves the windows empty and the rows as they are.
LEMMA UnloadedIs ==
    ASSUME PostNow <= Day, QuotaTyped, NEW r,
           \E swept \in BOOLEAN : r = Dynamic!Unloaded(lim, clock, swept)
    PROVE  /\ r = [f \in Fields |-> r[f]]
           /\ r.rows = lim.rows /\ r.total = <<>>
           /\ r.day = [k \in Dynamic!Keys |-> <<>>]
<1> DEFINE recent == [k \in Dynamic!Keys |-> Dynamic!Live(lim.rows[k], Day, clock)]
           left(swept) == IF swept THEN recent ELSE lim.rows
<1>1. lim.rows \in Windows /\ clock \in Times
  BY DEF QuotaTyped
<1>2. recent = lim.rows
  <2>1. \A k \in Dynamic!Keys : Dynamic!Live(lim.rows[k], Day, clock) = lim.rows[k]
    BY <1>1, NothingExpired DEF Windows
  <2> QED
    BY <1>1, <2>1 DEF Windows
<1>3. PICK swept \in BOOLEAN : r = Dynamic!Unloaded(lim, clock, swept)
  OBVIOUS
<1>4. r = [Dynamic!Empty EXCEPT !.rows = left(swept)]
  BY <1>3 DEF Dynamic!Unloaded
<1>5. left(swept) = lim.rows
  BY <1>2
<1> HIDE DEF left, recent
<1> QED
  BY <1>4, <1>5 DEF Dynamic!Empty, Fields

LEMMA KeysAre ==
    /\ "dynamic" \in Dynamic!Keys /\ "reply" \in Dynamic!Keys
    /\ \A k \in Dynamic!Keys : k = "dynamic" \/ k = "reply"
    /\ \A p \in Dynamic!Work : Dynamic!Key(p) \in Dynamic!Keys
  BY DEF Dynamic!Keys, Dynamic!Key

\* The key and both together count one more, one less, or the same.
LEMMA BothMore ==
    ASSUME NEW f \in [Dynamic!Keys -> Int], NEW g \in [Dynamic!Keys -> Int],
           NEW k \in Dynamic!Keys, \A j \in Dynamic!Keys : j # k => g[j] = f[j]
    PROVE  Dynamic!Both(g) - Dynamic!Both(f) = g[k] - f[k]
  BY KeysAre DEF Dynamic!Both

\* A step that touches neither the windows nor the counts, and leaves the check
\* behind rather than passes it.
QuotaSame == UNCHANGED <<lim, kept, lost, unlimited, unreturned, unread>>

LEMMA PaidStill ==
    ASSUME Paid, UNCHANGED kept, Dynamic!PastCheck' \subseteq Dynamic!PastCheck,
           kept \in [Dynamic!Keys -> Nat]
    PROVE  Paid'
<1> SUFFICES ASSUME NEW k \in Dynamic!Keys
             PROVE  IsFiniteSet(Paying(k)') /\ Cardinality(Paying(k)') <= kept[k]
  BY DEF Paid
<1>1. IsFiniteSet(Paying(k)) /\ Cardinality(Paying(k)) <= kept[k]
  BY DEF Paid
<1>2. Paying(k)' \subseteq Paying(k)
  BY DEF Paying, Dynamic!Key
<1>3. /\ IsFiniteSet(Paying(k)') /\ Cardinality(Paying(k)') <= Cardinality(Paying(k))
      /\ Cardinality(Paying(k)) \in Nat /\ Cardinality(Paying(k)') \in Nat
  BY <1>1, <1>2, FS_Subset, FS_CardinalityType
<1> QED
  BY <1>1, <1>3

LEMMA QuotaStill ==
    ASSUME QuotaInv, QuotaSame, Dynamic!PastCheck' \subseteq Dynamic!PastCheck,
           clock' \in Times, at' = [p \in Dynamic!Work |-> at'[p]]
    PROVE  QuotaInv'
<1>1. QuotaTyped'
  BY DEF QuotaInv, QuotaTyped, QuotaSame
<1>2. Paid'
  BY PaidStill DEF QuotaInv, QuotaTyped, QuotaSame
<1>3. WindowsMatch'
  BY DEF QuotaInv, WindowsMatch, Matches, QuotaSame, Dynamic!Excess, Dynamic!Uncounted
<1>4. Dynamic!QuotaHolds'
  BY DEF QuotaInv, Dynamic!QuotaHolds, QuotaSame, Dynamic!Excess, Dynamic!Uncounted
<1> QED
  BY <1>1, <1>2, <1>3, <1>4 DEF QuotaInv

LEMMA GoneTo ==
    ASSUME QuotaTyped, NEW p \in Dynamic!Work, NEW place, Dynamic!Goto(p, place)
    PROVE  /\ at' = [q \in Dynamic!Work |-> at'[q]] /\ at'[p] = place
           /\ \A q \in Dynamic!Work : q # p => at'[q] = at[q]
           /\ (place \in {"drawing", "posting"} => p \in Dynamic!PastCheck)
                => Dynamic!PastCheck' \subseteq Dynamic!PastCheck
<1>1. /\ at' = [q \in Dynamic!Work |-> at'[q]] /\ at'[p] = place
      /\ \A q \in Dynamic!Work : q # p => at'[q] = at[q]
  BY DEF QuotaTyped, Dynamic!Goto
<1> QED
  BY <1>1 DEF Dynamic!PastCheck

\* The windows and the counts stay, and nothing passes the check.
LEMMA Unpaid ==
    ASSUME QuotaInv, NEW p \in Dynamic!Work, NEW place, Dynamic!Goto(p, place),
           place \in {"drawing", "posting"} => p \in Dynamic!PastCheck,
           QuotaSame, UNCHANGED clock
    PROVE  QuotaInv'
<1>1. QuotaTyped
  BY DEF QuotaInv
<1>2. at' = [q \in Dynamic!Work |-> at'[q]] /\ Dynamic!PastCheck' \subseteq Dynamic!PastCheck
  BY <1>1, GoneTo
<1>3. clock' \in Times
  BY <1>1 DEF QuotaTyped
<1> QED
  BY <1>2, <1>3, QuotaStill

LEMMA StaysPut ==
    ASSUME QuotaInv, QuotaSame, UNCHANGED at, clock' \in Times
    PROVE  QuotaInv'
<1>1. at' = [q \in Dynamic!Work |-> at'[q]] /\ Dynamic!PastCheck' \subseteq Dynamic!PastCheck
  BY DEF QuotaInv, QuotaTyped, Dynamic!PastCheck
<1> QED
  BY <1>1, QuotaStill

LEMMA WorkIs ==
    /\ \A p \in Dynamics : p \in Dynamic!Work
    /\ \A p \in Dynamic!Work : Dynamic!Home(p) \notin {"drawing", "posting"}
  BY DEF Dynamic!Work, Dynamic!Home

LEMMA TaskSteps ==
    ASSUME QuotaInv, NEW p \in Dynamics,
           \/ Dynamic!Start(p) \/ Dynamic!NoActivity(p) \/ Dynamic!NoText(p)
           \/ Dynamic!Rejected(p) \/ Dynamic!File(p) \/ Dynamic!Retry(p)
    PROVE  QuotaInv'
<1>1. QuotaSame /\ UNCHANGED clock
  BY DEF Dynamic!Start, Dynamic!NoActivity, Dynamic!NoText, Dynamic!Rejected, Dynamic!File,
     Dynamic!Retry, Dynamic!process, Dynamic!quota, QuotaSame
<1>2. UNCHANGED at \/ Dynamic!Goto(p, "writing") \/ Dynamic!Goto(p, "idle")
  BY DEF Dynamic!Start, Dynamic!NoActivity, Dynamic!NoText, Dynamic!Rejected, Dynamic!File,
     Dynamic!Retry
<1>3. p \in Dynamic!Work /\ clock' \in Times
  BY <1>1, WorkIs DEF QuotaInv, QuotaTyped
<1>4. CASE UNCHANGED at
  BY <1>1, <1>3, <1>4, StaysPut
<1>5. CASE Dynamic!Goto(p, "writing")
  BY <1>1, <1>3, <1>5, Unpaid
<1>6. CASE Dynamic!Goto(p, "idle")
  BY <1>1, <1>3, <1>6, Unpaid
<1> QED
  BY <1>2, <1>4, <1>5, <1>6

LEMMA PlatformSteps ==
    ASSUME QuotaInv, NEW p \in Dynamic!Work,
           \/ Dynamic!Illustrate(p) \/ Dynamic!Post(p) \/ Dynamic!NoAnswer(p)
           \/ Dynamic!Answered(p)
    PROVE  QuotaInv'
<1>1. QuotaSame /\ UNCHANGED clock
  BY DEF Dynamic!Illustrate, Dynamic!Post, Dynamic!NoAnswer, Dynamic!Answered,
     Dynamic!process, Dynamic!quota, QuotaSame
<1>2. \/ p \in Dynamic!PastCheck /\ Dynamic!Goto(p, "posting")
      \/ Dynamic!Goto(p, "posted")
      \/ Dynamic!Goto(p, Dynamic!Home(p))
  BY DEF Dynamic!Illustrate, Dynamic!Post, Dynamic!NoAnswer, Dynamic!Answered,
     Dynamic!PastCheck
<1> QED
  BY <1>1, <1>2, WorkIs, Unpaid

LEMMA OperatorSteps ==
    ASSUME QuotaInv,
           \/ Dynamic!Pause \/ Dynamic!Resume \/ Dynamic!ResumeAccount \/ Dynamic!Reload
           \/ Dynamic!Tick
    PROVE  QuotaInv'
<1>1. QuotaSame /\ UNCHANGED at
  BY DEF Dynamic!Pause, Dynamic!Resume, Dynamic!ResumeAccount, Dynamic!Reload,
     Dynamic!Tick, Dynamic!quota, QuotaSame
<1>2. clock' \in Times
  <2>1. UNCHANGED clock \/ (clock < PostNow /\ clock' = clock + 1)
    BY DEF Dynamic!Pause, Dynamic!Resume, Dynamic!ResumeAccount, Dynamic!Reload,
       Dynamic!Tick, Dynamic!process
  <2>2. clock \in 0..PostNow /\ PostNow \in Nat
    BY PublishingAssumption DEF Dynamic!PostAssumption, QuotaInv, QuotaTyped, Times
  <2> QED
    BY <2>1, <2>2 DEF Times
<1> QED
  BY <1>1, <1>2, StaysPut

LEMMA CrashStays ==
    ASSUME QuotaInv, Dynamic!Crash PROVE QuotaInv'
<1>1. /\ QuotaSame /\ UNCHANGED clock
      /\ at' = [p \in Dynamic!Work |-> Dynamic!Home(p)]
  BY DEF Dynamic!Crash, Dynamic!quota, QuotaSame
<1>2. at' = [p \in Dynamic!Work |-> at'[p]] /\ Dynamic!PastCheck' \subseteq Dynamic!PastCheck
  BY <1>1, WorkIs DEF Dynamic!PastCheck
<1>3. clock' \in Times
  BY <1>1 DEF QuotaInv, QuotaTyped
<1> QED
  BY <1>1, <1>2, <1>3, QuotaStill

LEMMA Natural ==
    ASSUME QuotaInv
    PROVE  /\ Dynamic!Excess \in Nat /\ Dynamic!Uncounted \in Nat /\ unreturned \in Nat
           /\ PerDay \in Nat /\ GlobalQuota \in Nat
           /\ Dynamic!Both(kept) \in Nat /\ Len(lim.total) \in Nat
           /\ Dynamic!Both(Length(lim.rows)) \in Nat
           /\ Length(lim.rows) \in [Dynamic!Keys -> Nat]
           /\ \A k \in Dynamic!Keys :
                kept[k] \in Nat /\ Len(lim.day[k]) \in Nat /\ Len(lim.rows[k]) \in Nat
<1>1. /\ PerDay \in Nat /\ GlobalQuota \in Nat
  BY PublishingAssumption DEF Dynamic!LimiterAssumption
<1>2. /\ lost \in Nat /\ unlimited \in Nat /\ unreturned \in Nat /\ unread \in Nat
      /\ kept \in [Dynamic!Keys -> Nat]
  BY DEF QuotaInv, QuotaTyped
<1>3. /\ lim.total \in Seq(Times)
      /\ \A k \in Dynamic!Keys : lim.day[k] \in Seq(Times) /\ lim.rows[k] \in Seq(Times)
  BY DEF QuotaInv, QuotaTyped, Windows, Window
<1>4. /\ Len(lim.total) \in Nat
      /\ \A k \in Dynamic!Keys : Len(lim.day[k]) \in Nat /\ Len(lim.rows[k]) \in Nat
  BY <1>3, LenProperties
<1>5. Length(lim.rows) \in [Dynamic!Keys -> Nat]
  BY <1>4 DEF Length
<1>6. \A f \in [Dynamic!Keys -> Nat] : Dynamic!Both(f) \in Nat
  BY KeysAre DEF Dynamic!Both
<1>7. Dynamic!Excess \in Nat /\ Dynamic!Uncounted \in Nat
  BY <1>2 DEF Dynamic!Excess, Dynamic!Uncounted
<1> QED
  BY <1>1, <1>2, <1>4, <1>5, <1>6, <1>7

\* Entries that are counted afresh: as they were, as many as the rows, or none
\* while no more rows than were ever left out.
Recounts(entries, written, after) ==
    after = entries \/ after = written \/ (after = 0 /\ written <= unread')

LEMMA RecountedOnce ==
    ASSUME NEW count \in Nat, NEW entries \in Nat, NEW written \in Nat, NEW after,
           unread \in Nat, unread' \in Nat, unread' >= unread, unreturned \in Nat,
           Dynamic!Uncounted \in Nat, UNCHANGED <<lost, unlimited, unreturned>>,
           Matches(count, entries, Dynamic!Excess),
           Matches(count, written, Dynamic!Uncounted),
           Recounts(entries, written, after)
    PROVE  count <= after + Dynamic!Excess' /\ after <= count + unreturned'
<1> DEFINE missing == Dynamic!Uncounted
           before == unread
           more == unread'
           owed == unreturned
<1>1. /\ Dynamic!Excess = missing + before /\ Dynamic!Excess' = missing + more
      /\ unreturned' = owed
  BY DEF Dynamic!Excess, Dynamic!Uncounted
<1>2. /\ missing \in Nat /\ before \in Nat /\ more \in Nat /\ more >= before /\ owed \in Nat
      /\ count <= entries + (missing + before) /\ entries <= count + owed
      /\ count <= written + missing /\ written <= count + owed
      /\ after = entries \/ after = written \/ (after = 0 /\ written <= more)
  BY <1>1 DEF Matches, Recounts
<1> HIDE DEF missing, before, more, owed
<1>3. count <= after + (missing + more) /\ after <= count + owed
  BY <1>2
<1> QED
  BY <1>1, <1>3

\* Another set of windows with the same counts.
LEMMA Recounted ==
    ASSUME QuotaInv, UNCHANGED <<clock, kept, lost, unlimited, unreturned>>,
           unread' \in Nat, unread' >= unread,
           at' = [p \in Dynamic!Work |-> at'[p]],
           Dynamic!PastCheck' \subseteq Dynamic!PastCheck,
           lim' = [f \in Fields |-> lim'[f]],
           lim'.day \in Windows, lim'.rows = lim.rows, lim'.total \in Window,
           \A k \in Dynamic!Keys :
              Recounts(Len(lim.day[k]), Len(lim.rows[k]), Len(lim'.day[k])),
           Recounts(Len(lim.total), Dynamic!Both(Length(lim.rows)), Len(lim'.total))
    PROVE  QuotaInv'
<1>1. QuotaTyped'
  BY DEF QuotaInv, QuotaTyped
<1>2. Paid'
  BY PaidStill DEF QuotaInv, QuotaTyped
<1>3. unread \in Nat /\ lost \in Nat /\ unlimited \in Nat
  BY DEF QuotaInv, QuotaTyped
<1>4. WindowsMatch'
  <2>1. /\ \A k \in Dynamic!Keys :
             /\ Matches(kept[k], Len(lim.day[k]), Dynamic!Excess)
             /\ Matches(kept[k], Len(lim.rows[k]), Dynamic!Uncounted)
        /\ Matches(Dynamic!Both(kept), Len(lim.total), Dynamic!Excess)
        /\ Matches(Dynamic!Both(kept), Dynamic!Both(Length(lim.rows)), Dynamic!Uncounted)
    BY DEF QuotaInv, WindowsMatch
  <2>2. \A k \in Dynamic!Keys :
           /\ kept[k] <= Len(lim'.day[k]) + Dynamic!Excess'
           /\ Len(lim'.day[k]) <= kept[k] + unreturned'
    BY <1>3, <2>1, Natural, RecountedOnce
  <2>3. /\ Dynamic!Both(kept) <= Len(lim'.total) + Dynamic!Excess'
        /\ Len(lim'.total) <= Dynamic!Both(kept) + unreturned'
    BY <1>3, <2>1, Natural, RecountedOnce
  <2>4. Length(lim.rows)' = Length(lim.rows) /\ Dynamic!Uncounted' = Dynamic!Uncounted
    BY DEF Length, Dynamic!Uncounted
  <2>5. /\ kept' = kept /\ lim'.rows = lim.rows /\ unreturned' = unreturned
        /\ Dynamic!Both(kept)' = Dynamic!Both(kept)
        /\ Dynamic!Both(Length(lim.rows))' = Dynamic!Both(Length(lim.rows))
    BY <2>4 DEF Dynamic!Both, Length
  <2> QED
    BY <2>1, <2>2, <2>3, <2>4, <2>5 DEF WindowsMatch, Matches
<1>5. Dynamic!QuotaHolds'
  <2> DEFINE excess == Dynamic!Excess
             more == Dynamic!Excess'
             both == Dynamic!Both(kept)
  <2>1. /\ excess \in Nat /\ both \in Nat /\ PerDay \in Nat /\ GlobalQuota \in Nat
        /\ \A k \in Dynamic!Keys : kept[k] \in Nat
    BY Natural
  <2>2. more \in Nat /\ more >= excess
    BY <1>3 DEF Dynamic!Excess, Dynamic!Uncounted
  <2>3. (\A k \in Dynamic!Keys : kept[k] <= PerDay + excess) /\ both <= GlobalQuota + excess
    BY DEF QuotaInv, Dynamic!QuotaHolds
  <2> HIDE DEF excess, more, both
  <2>4. (\A k \in Dynamic!Keys : kept[k] <= PerDay + more) /\ both <= GlobalQuota + more
    BY <2>1, <2>2, <2>3
  <2> QED
    BY <2>4 DEF more, both, Dynamic!QuotaHolds, Dynamic!Both, Dynamic!Excess, Dynamic!Uncounted
<1> QED
  BY <1>1, <1>2, <1>4, <1>5 DEF QuotaInv

LEMMA BootReads ==
    ASSUME PostNow <= Day, QuotaInv, Dynamic!Boot PROVE QuotaInv'
<1> DEFINE Reads == lim' = Dynamic!Loaded(lim, clock) /\ unread' = unread
           Fails == \E swept \in BOOLEAN : lim' = Dynamic!Unloaded(lim, clock, swept)
           left == Dynamic!Both(Length(lim.rows))
<1>1. /\ UNCHANGED <<clock, at, kept, lost, unlimited, unreturned>>
      /\ Reads \/ (Fails /\ unread' = IF left > unread THEN left ELSE unread)
  BY DEF Dynamic!Boot, Length
<1>2. QuotaTyped
  BY DEF QuotaInv
<1>3. at' = [p \in Dynamic!Work |-> at'[p]] /\ Dynamic!PastCheck' \subseteq Dynamic!PastCheck
  BY <1>1, <1>2 DEF QuotaTyped, Dynamic!PastCheck
<1>4. unread \in Nat /\ left \in Nat
  BY <1>2, Natural DEF QuotaTyped
<1>5. ASSUME Reads PROVE QuotaInv'
  <2>1. /\ lim' = [f \in Fields |-> lim'[f]]
        /\ lim'.day = lim.rows /\ lim'.rows = lim.rows
        /\ lim'.total \in Window /\ Len(lim'.total) = left
    BY <1>2, <1>5, LoadedIs
  <2>2. lim'.day \in Windows
    BY <1>2, <2>1 DEF QuotaTyped
  <2>3. /\ \A k \in Dynamic!Keys :
             Recounts(Len(lim.day[k]), Len(lim.rows[k]), Len(lim'.day[k]))
        /\ Recounts(Len(lim.total), left, Len(lim'.total))
    BY <2>1 DEF Recounts
  <2>4. unread' \in Nat /\ unread' >= unread
    BY <1>4, <1>5
  <2> QED
    BY <1>1, <1>3, <2>1, <2>2, <2>3, <2>4, Recounted
<1>6. ASSUME Fails, unread' = IF left > unread THEN left ELSE unread PROVE QuotaInv'
  <2>1. /\ lim' = [f \in Fields |-> lim'[f]]
        /\ lim'.rows = lim.rows /\ lim'.total = <<>>
        /\ lim'.day = [k \in Dynamic!Keys |-> <<>>]
    BY <1>2, <1>6, UnloadedIs
  <2>2. lim'.day \in Windows /\ lim'.total \in Window /\ Len(<<>>) = 0
    BY <2>1 DEF Windows, Window
  <2>3. unread' \in Nat /\ unread' >= unread /\ left <= unread'
    <3> HIDE DEF left
    <3> QED
      BY <1>4, <1>6
  <2>4. \A k \in Dynamic!Keys : Len(lim.rows[k]) <= left
    <3>1. \A k \in Dynamic!Keys : Len(lim.rows[k]) \in Nat /\ Length(lim.rows)[k] = Len(lim.rows[k])
      BY Natural DEF Length
    <3> QED
      BY <3>1, KeysAre DEF Dynamic!Both
  <2>5. \A k \in Dynamic!Keys : Len(lim.rows[k]) \in Nat
    BY Natural
  <2>6. \A k \in Dynamic!Keys :
           Recounts(Len(lim.day[k]), Len(lim.rows[k]), Len(lim'.day[k]))
    <3> HIDE DEF left
    <3> SUFFICES ASSUME NEW k \in Dynamic!Keys
                 PROVE  Len(lim'.day[k]) = 0 /\ Len(lim.rows[k]) <= unread'
      BY DEF Recounts
    <3>1. Len(lim'.day[k]) = 0
      BY <2>1, <2>2
    <3>2. Len(lim.rows[k]) <= left /\ Len(lim.rows[k]) \in Nat
      BY <2>4, <2>5
    <3> QED
      BY <1>4, <2>3, <3>1, <3>2
  <2>7. Recounts(Len(lim.total), left, Len(lim'.total))
    BY <2>1, <2>2, <2>3 DEF Recounts
  <2> QED
    BY <1>1, <1>3, <2>1, <2>2, <2>3, <2>6, <2>7, Recounted
<1> QED
  BY <1>1, <1>5, <1>6

LEMMA LimitedStep ==
    ASSUME PostNow <= Day, QuotaInv, NEW p \in Dynamic!Work, Dynamic!Limited(p)
    PROVE  QuotaInv'
<1>1. /\ UNCHANGED <<clock, kept, lost, unlimited, unreturned, unread>>
      /\ lim' = Dynamic!Trimmed(lim, Dynamic!Key(p), clock)
      /\ Dynamic!Goto(p, Dynamic!Home(p))
  BY DEF Dynamic!Limited, Dynamic!process
<1>2. QuotaTyped
  BY DEF QuotaInv
<1>3. at' = [q \in Dynamic!Work |-> at'[q]] /\ Dynamic!PastCheck' \subseteq Dynamic!PastCheck
  BY <1>1, <1>2, WorkIs, GoneTo
<1>4. Dynamic!Key(p) \in Dynamic!Keys
  BY KeysAre
<1>5. /\ lim' = [f \in Fields |-> lim'[f]]
      /\ lim'.day = lim.day /\ lim'.total = lim.total /\ lim'.rows = lim.rows
  BY <1>1, <1>2, <1>4, TrimmedIs
<1>6. lim'.day \in Windows /\ lim'.rows \in Windows /\ lim'.total \in Window
  BY <1>2, <1>5 DEF QuotaTyped
<1>7. \A k \in Dynamic!Keys : Recounts(Len(lim.day[k]), Len(lim.rows[k]), Len(lim'.day[k]))
  BY <1>5 DEF Recounts
<1>8. Recounts(Len(lim.total), Dynamic!Both(Length(lim.rows)), Len(lim'.total))
  BY <1>5 DEF Recounts
<1>9. unread' \in Nat /\ unread' >= unread
  BY <1>1, <1>2 DEF QuotaTyped
<1> QED
  BY <1>1, <1>3, <1>5, <1>6, <1>7, <1>8, <1>9, Recounted

\* One publication more is under way past the check, and one more is paid for.
LEMMA PaidMore ==
    ASSUME QuotaTyped, Paid, NEW p \in Dynamic!Work, NEW place,
           Dynamic!Goto(p, place),
           kept' = [kept EXCEPT ![Dynamic!Key(p)] = @ + 1]
    PROVE  Paid'
<1>1. SUFFICES ASSUME NEW k \in Dynamic!Keys
               PROVE  IsFiniteSet(Paying(k)') /\ Cardinality(Paying(k)') <= kept'[k]
  BY DEF Paid
<1>2. /\ IsFiniteSet(Paying(k)) /\ Cardinality(Paying(k)) <= kept[k]
      /\ kept[k] \in Nat
  BY DEF Paid, QuotaTyped
<1>3. \A q \in Dynamic!Work : q # p => at'[q] = at[q]
  BY GoneTo
<1>4. CASE k = Dynamic!Key(p)
  <2>1. Paying(k)' \subseteq Paying(k) \cup {p}
    BY <1>3 DEF Paying, Dynamic!PastCheck, Dynamic!Key
  <2>2. /\ IsFiniteSet(Paying(k) \cup {p}) /\ Cardinality(Paying(k)) \in Nat
        /\ Cardinality(Paying(k) \cup {p}) <= Cardinality(Paying(k)) + 1
    <3>1. /\ IsFiniteSet(Paying(k) \cup {p})
          /\ Cardinality(Paying(k) \cup {p}) =
               IF p \in Paying(k) THEN Cardinality(Paying(k)) ELSE Cardinality(Paying(k)) + 1
      BY <1>2, FS_AddElement
    <3>2. Cardinality(Paying(k)) \in Nat
      BY <1>2, FS_CardinalityType
    <3> QED
      BY <3>1, <3>2
  <2>3. /\ IsFiniteSet(Paying(k)') /\ Cardinality(Paying(k)') \in Nat
        /\ Cardinality(Paying(k)') <= Cardinality(Paying(k) \cup {p})
        /\ Cardinality(Paying(k) \cup {p}) \in Nat
    BY <2>1, <2>2, FS_Subset, FS_CardinalityType
  <2>4. kept'[k] = kept[k] + 1
    BY <1>4 DEF QuotaTyped
  <2> QED
    BY <1>2, <2>2, <2>3, <2>4
<1>5. CASE k # Dynamic!Key(p)
  <2>1. Paying(k)' \subseteq Paying(k)
    BY <1>3, <1>5 DEF Paying, Dynamic!PastCheck, Dynamic!Key
  <2>2. /\ IsFiniteSet(Paying(k)') /\ Cardinality(Paying(k)') \in Nat
        /\ Cardinality(Paying(k)') <= Cardinality(Paying(k)) /\ Cardinality(Paying(k)) \in Nat
    BY <1>2, <2>1, FS_Subset, FS_CardinalityType
  <2>3. kept'[k] = kept[k]
    BY <1>5 DEF QuotaTyped
  <2> QED
    BY <1>2, <2>2, <2>3
<1> QED
  BY <1>4, <1>5

\* What is refused was under way past the check, and is paid for no more.
LEMMA PaidLess ==
    ASSUME QuotaTyped, Paid, NEW p \in Dynamic!Work, NEW place,
           at[p] = "posting", place \notin {"drawing", "posting"},
           Dynamic!Goto(p, place),
           kept' = [kept EXCEPT ![Dynamic!Key(p)] = @ - 1]
    PROVE  Paid' /\ kept[Dynamic!Key(p)] >= 1
<1> DEFINE key == Dynamic!Key(p)
<1>0. key \in Dynamic!Keys /\ kept[key] \in Nat
  BY KeysAre DEF QuotaTyped
<1>1. p \in Paying(key)
  BY DEF Paying, Dynamic!PastCheck
<1>2. /\ IsFiniteSet(Paying(key)) /\ Cardinality(Paying(key)) <= kept[key]
  BY <1>0 DEF Paid
<1>3. /\ IsFiniteSet(Paying(key) \ {p}) /\ Cardinality(Paying(key)) \in Nat
      /\ Cardinality(Paying(key) \ {p}) \in Nat
      /\ Cardinality(Paying(key) \ {p}) = Cardinality(Paying(key)) - 1
  BY <1>1, <1>2, FS_RemoveElement, FS_CardinalityType
<1>4. kept[key] >= 1
  BY <1>0, <1>2, <1>3
<1>5. at'[p] = place /\ \A q \in Dynamic!Work : q # p => at'[q] = at[q]
  BY GoneTo
<1>6. ASSUME NEW k \in Dynamic!Keys
      PROVE  IsFiniteSet(Paying(k)') /\ Cardinality(Paying(k)') <= kept'[k]
  <2>1. CASE k = key
    <3>1. Paying(key)' \subseteq Paying(key) \ {p}
      BY <1>5 DEF Paying, Dynamic!PastCheck, Dynamic!Key
    <3>2. /\ IsFiniteSet(Paying(key)') /\ Cardinality(Paying(key)') \in Nat
          /\ Cardinality(Paying(key)') <= Cardinality(Paying(key) \ {p})
      BY <1>3, <3>1, FS_Subset, FS_CardinalityType
    <3>3. kept'[k] = kept[k] - 1
      BY <2>1 DEF QuotaTyped
    <3>4. IsFiniteSet(Paying(k)') /\ Cardinality(Paying(k)') \in Nat
          /\ Cardinality(Paying(k)') <= Cardinality(Paying(key)) - 1
      BY <1>3, <2>1, <3>2
    <3> QED
      BY <1>0, <1>2, <1>3, <2>1, <3>3, <3>4
  <2>2. CASE k # key
    <3>0. /\ IsFiniteSet(Paying(k)) /\ Cardinality(Paying(k)) <= kept[k]
          /\ kept[k] \in Nat
      BY DEF Paid, QuotaTyped
    <3>1. Paying(k)' \subseteq Paying(k)
      BY <1>5, <2>2 DEF Paying, Dynamic!PastCheck, Dynamic!Key
    <3>2. /\ IsFiniteSet(Paying(k)') /\ Cardinality(Paying(k)') \in Nat
          /\ Cardinality(Paying(k)') <= Cardinality(Paying(k)) /\ Cardinality(Paying(k)) \in Nat
      BY <3>0, <3>1, FS_Subset, FS_CardinalityType
    <3>3. kept'[k] = kept[k]
      BY <2>2 DEF QuotaTyped
    <3> QED
      BY <3>0, <3>2, <3>3
  <2> QED
    BY <2>1, <2>2
<1>7. Paid'
  BY <1>6 DEF Paid
<1> QED
  BY <1>4, <1>7

\* What passed the check has an entry more, or counts as one that is missing.
Enters(before, after, missing, more) ==
    \/ after = before + 1 /\ more \in {missing, missing + 1}
    \/ after = before /\ more = missing + 1

LEMMA Entered ==
    ASSUME QuotaInv, UNCHANGED unreturned, NEW count \in Nat,
           NEW before \in Nat, NEW after \in Nat, NEW missing \in Nat, NEW more,
           Matches(count, before, missing), Enters(before, after, missing, more)
    PROVE  count + 1 <= after + more /\ after <= count + 1 + unreturned'
<1> DEFINE owed == unreturned
<1>1. owed \in Nat
  BY Natural
<1>2. /\ count <= before + missing /\ before <= count + owed
      /\ unreturned' = owed
      /\ \/ after = before + 1 /\ more \in {missing, missing + 1}
         \/ after = before /\ more = missing + 1
  BY DEF Matches, Enters
<1> HIDE DEF owed
<1>3. count + 1 <= after + more /\ after <= count + 1 + owed
  BY <1>1, <1>2
<1> QED
  BY <1>2, <1>3

\* The key's windows and the total take what passed, and had room for it.
Admits(k) ==
    /\ UNCHANGED <<unreturned, unread>>
    /\ kept' = [kept EXCEPT ![k] = @ + 1]
    /\ \A j \in Dynamic!Keys : j # k =>
         Len(lim'.day[j]) = Len(lim.day[j]) /\ Len(lim'.rows[j]) = Len(lim.rows[j])
    /\ Enters(Len(lim.day[k]), Len(lim'.day[k]), Dynamic!Excess, Dynamic!Excess')
    /\ Enters(Len(lim.rows[k]), Len(lim'.rows[k]), Dynamic!Uncounted, Dynamic!Uncounted')
    /\ Enters(Len(lim.total), Len(lim'.total), Dynamic!Excess, Dynamic!Excess')
    /\ Dynamic!Uncounted' >= Dynamic!Uncounted
    /\ \/ Dynamic!Excess' = Dynamic!Excess + 1
       \/ Len(lim.day[k]) < PerDay /\ Len(lim.total) < GlobalQuota

LEMMA MoreExcess ==
    ASSUME QuotaInv, NEW k, Admits(k)
    PROVE  /\ Dynamic!Uncounted' \in Nat
           /\ Dynamic!Excess' \in Nat /\ Dynamic!Excess' >= Dynamic!Excess
<1> DEFINE missing == Dynamic!Uncounted
           gone == Dynamic!Uncounted'
<1>1. missing \in Nat /\ unread \in Nat /\ unread' = unread /\ gone >= missing
  BY Natural DEF QuotaInv, QuotaTyped, Admits
<1>2. gone \in Nat
  BY <1>1 DEF Admits, Enters
<1>3. Dynamic!Excess = missing + unread /\ Dynamic!Excess' = gone + unread
  BY <1>1 DEF Dynamic!Excess
<1>4. gone + unread \in Nat /\ gone + unread >= missing + unread
  <2> HIDE DEF missing, gone
  <2> QED
    BY <1>1, <1>2
<1> HIDE DEF missing
<1> QED
  BY <1>2, <1>3, <1>4

LEMMA AdmitsKeeps ==
    ASSUME QuotaInv, QuotaTyped', Paid', NEW k \in Dynamic!Keys, Admits(k)
    PROVE  QuotaInv'
<1>1. /\ kept \in [Dynamic!Keys -> Nat] /\ kept' \in [Dynamic!Keys -> Nat]
      /\ kept'[k] = kept[k] + 1
      /\ \A j \in Dynamic!Keys : j # k => kept'[j] = kept[j]
  BY DEF QuotaInv, QuotaTyped, Admits
<1>2. \A f \in [Dynamic!Keys -> Nat] : Dynamic!Both(f) \in Nat
  BY KeysAre DEF Dynamic!Both
<1>3. Dynamic!Both(kept') = Dynamic!Both(kept) + 1
  <2>1. Dynamic!Both(kept') - Dynamic!Both(kept) = kept'[k] - kept[k]
    BY <1>1, BothMore
  <2>2. Dynamic!Both(kept') \in Nat /\ Dynamic!Both(kept) \in Nat
    BY <1>1, <1>2
  <2> QED
    BY <1>1, <2>1, <2>2
<1>4. /\ Len(lim'.total) \in Nat
      /\ \A j \in Dynamic!Keys : Len(lim'.day[j]) \in Nat /\ Len(lim'.rows[j]) \in Nat
  <2>1. /\ lim'.total \in Seq(Times)
        /\ \A j \in Dynamic!Keys : lim'.day[j] \in Seq(Times) /\ lim'.rows[j] \in Seq(Times)
    BY DEF QuotaTyped, Windows, Window
  <2> QED
    BY <2>1, LenProperties
<1>5. Length(lim'.rows) \in [Dynamic!Keys -> Nat]
  BY <1>4 DEF Length
<1>6. Enters(Dynamic!Both(Length(lim.rows)), Dynamic!Both(Length(lim'.rows)),
             Dynamic!Uncounted, Dynamic!Uncounted')
  <2> DEFINE old == Length(lim.rows)
             new == Length(lim'.rows)
  <2>1. old \in [Dynamic!Keys -> Nat] /\ new \in [Dynamic!Keys -> Nat]
    BY <1>5, Natural
  <2>2. /\ old[k] = Len(lim.rows[k]) /\ new[k] = Len(lim'.rows[k])
        /\ \A j \in Dynamic!Keys : j # k => new[j] = old[j]
    BY DEF Length, Admits
  <2>3. Enters(old[k], new[k], Dynamic!Uncounted, Dynamic!Uncounted')
    BY <2>2 DEF Admits
  <2> HIDE DEF old, new
  <2>4. Dynamic!Both(new) - Dynamic!Both(old) = new[k] - old[k]
    <3>1. old \in [Dynamic!Keys -> Int] /\ new \in [Dynamic!Keys -> Int]
      BY <2>1
    <3> QED
      BY <2>2, <3>1, BothMore
  <2>5. Dynamic!Both(new) \in Nat /\ Dynamic!Both(old) \in Nat
    BY <1>2, <2>1
  <2>6. Enters(Dynamic!Both(old), Dynamic!Both(new), Dynamic!Uncounted, Dynamic!Uncounted')
    BY <2>1, <2>3, <2>4, <2>5 DEF Enters
  <2> QED
    BY <2>6 DEF old, new
<1>7. WindowsMatch'
  <2>1. \A j \in Dynamic!Keys :
           /\ Matches(kept[j], Len(lim.day[j]), Dynamic!Excess)
           /\ Matches(kept[j], Len(lim.rows[j]), Dynamic!Uncounted)
    BY DEF QuotaInv, WindowsMatch
  <2>2. /\ kept[k] + 1 <= Len(lim'.day[k]) + Dynamic!Excess'
        /\ Len(lim'.day[k]) <= kept[k] + 1 + unreturned'
    BY <1>1, <1>4, <2>1, Natural, Entered DEF Admits
  <2>3. /\ kept[k] + 1 <= Len(lim'.rows[k]) + Dynamic!Uncounted'
        /\ Len(lim'.rows[k]) <= kept[k] + 1 + unreturned'
    BY <1>1, <1>4, <2>1, Natural, Entered DEF Admits
  <2>4. ASSUME NEW j \in Dynamic!Keys, j # k
        PROVE  /\ kept[j] <= Len(lim'.day[j]) + Dynamic!Excess'
               /\ Len(lim'.day[j]) <= kept[j] + unreturned'
               /\ kept[j] <= Len(lim'.rows[j]) + Dynamic!Uncounted'
               /\ Len(lim'.rows[j]) <= kept[j] + unreturned'
    <3> DEFINE excess == Dynamic!Excess
               more == Dynamic!Excess'
               missing == Dynamic!Uncounted
               gone == Dynamic!Uncounted'
               d == Len(lim.day[j])
               w == Len(lim.rows[j])
    <3>1. /\ kept[j] <= d + excess /\ d <= kept[j] + unreturned
          /\ kept[j] <= w + missing /\ w <= kept[j] + unreturned
      BY <2>1 DEF Matches
    <3>2. gone >= missing /\ unreturned' = unreturned
          /\ Len(lim'.day[j]) = d /\ Len(lim'.rows[j]) = w
      BY <2>4 DEF Admits
    <3>3. /\ excess \in Nat /\ missing \in Nat /\ d \in Nat /\ w \in Nat
          /\ kept[j] \in Nat /\ unreturned \in Nat
      BY Natural
    <3>4. gone \in Nat /\ more \in Nat /\ more >= excess
      BY <3>3, MoreExcess
    <3> HIDE DEF excess, more, missing, gone, d, w
    <3>5. kept[j] <= d + more /\ kept[j] <= w + gone
      BY <3>1, <3>2, <3>3, <3>4
    <3> QED
      BY <3>1, <3>2, <3>5 DEF more, gone
  <2>5. \A j \in Dynamic!Keys :
           /\ kept'[j] <= Len(lim'.day[j]) + Dynamic!Excess'
           /\ Len(lim'.day[j]) <= kept'[j] + unreturned'
           /\ kept'[j] <= Len(lim'.rows[j]) + Dynamic!Uncounted'
           /\ Len(lim'.rows[j]) <= kept'[j] + unreturned'
    BY <1>1, <2>2, <2>3, <2>4
  <2>6. Matches(Dynamic!Both(kept), Len(lim.total), Dynamic!Excess)
        /\ Matches(Dynamic!Both(kept), Dynamic!Both(Length(lim.rows)), Dynamic!Uncounted)
    BY DEF QuotaInv, WindowsMatch
  <2>7. /\ Dynamic!Both(kept) + 1 <= Len(lim'.total) + Dynamic!Excess'
        /\ Len(lim'.total) <= Dynamic!Both(kept) + 1 + unreturned'
    BY <1>4, <2>6, Natural, Entered DEF Admits
  <2>8. /\ Dynamic!Both(kept) + 1 <= Dynamic!Both(Length(lim'.rows)) + Dynamic!Uncounted'
        /\ Dynamic!Both(Length(lim'.rows)) <= Dynamic!Both(kept) + 1 + unreturned'
    <3>1. Dynamic!Both(Length(lim'.rows)) \in Nat
      BY <1>2, <1>5
    <3> QED
      BY <1>6, <2>6, <3>1, Natural, Entered DEF Admits
  <2> QED
    BY <1>3, <2>5, <2>7, <2>8
       DEF WindowsMatch, Matches, Length, Dynamic!Both, Dynamic!Excess, Dynamic!Uncounted
<1>8. Dynamic!QuotaHolds'
  <2> DEFINE excess == Dynamic!Excess
             more == Dynamic!Excess'
             both == Dynamic!Both(kept)
             d == Len(lim.day[k])
             w == Len(lim.total)
  <2>1. /\ excess \in Nat /\ both \in Nat /\ d \in Nat /\ w \in Nat
        /\ PerDay \in Nat /\ GlobalQuota \in Nat /\ \A j \in Dynamic!Keys : kept[j] \in Nat
    BY Natural
  <2>2. more \in Nat /\ more >= excess
        /\ (more = excess + 1 \/ (d < PerDay /\ w < GlobalQuota))
    <3>1. more \in Nat /\ more >= excess
      BY MoreExcess
    <3> QED
      BY <3>1 DEF Admits
  <2>3. /\ \A j \in Dynamic!Keys : kept[j] <= PerDay + excess
        /\ both <= GlobalQuota + excess
        /\ kept[k] <= d + excess /\ both <= w + excess
    BY DEF QuotaInv, Dynamic!QuotaHolds, WindowsMatch, Matches
  <2> HIDE DEF excess, more, both, d, w
  <2>4. kept[k] + 1 <= PerDay + more /\ both + 1 <= GlobalQuota + more
        /\ \A j \in Dynamic!Keys : kept[j] <= PerDay + more
    BY <2>1, <2>2, <2>3
  <2>5. \A j \in Dynamic!Keys : kept'[j] <= PerDay + more
    BY <1>1, <2>4
  <2>6. Dynamic!Both(kept') <= GlobalQuota + more
    BY <1>3, <2>4 DEF both
  <2> QED
    BY <2>5, <2>6 DEF more, Dynamic!QuotaHolds, Dynamic!Both, Dynamic!Excess, Dynamic!Uncounted
<1> QED
  BY <1>7, <1>8 DEF QuotaInv

LEMMA ReserveStep ==
    ASSUME PostNow <= Day, QuotaInv, NEW p \in Dynamic!Work, Dynamic!Reserve(p)
    PROVE  QuotaInv'
<1> DEFINE key == Dynamic!Key(p)
           Off == unlimited' = unlimited + 1 /\ UNCHANGED <<lim, lost>>
           Gets(written) ==
             /\ Dynamic!HasRoom(lim, key, clock)
             /\ lim' = Dynamic!Reserved(lim, key, clock, written)
             /\ lost' = IF written THEN lost ELSE lost + 1
             /\ UNCHANGED unlimited
<1>1. /\ UNCHANGED <<clock, unreturned, unread>>
      /\ kept' = [kept EXCEPT ![key] = @ + 1]
      /\ \E place \in {"drawing", "posting"} : Dynamic!Goto(p, place)
  BY DEF Dynamic!Reserve, Dynamic!process
<1>2. Off \/ \E written \in BOOLEAN : Gets(written)
  <2>1. Off \/ Gets(TRUE) \/ Gets(FALSE)
    BY DEF Dynamic!Reserve
  <2> QED
    BY <2>1
<1>3. QuotaTyped /\ Paid /\ key \in Dynamic!Keys /\ clock \in Times
  BY KeysAre DEF QuotaInv, QuotaTyped
<1>4. at' = [q \in Dynamic!Work |-> at'[q]] /\ Paid'
  <2>1. PICK place \in {"drawing", "posting"} : Dynamic!Goto(p, place)
    BY <1>1
  <2>2. at' = [q \in Dynamic!Work |-> at'[q]]
    BY <1>3, <2>1, GoneTo
  <2>3. Paid'
    BY <1>1, <1>3, <2>1, PaidMore
  <2> QED
    BY <2>2, <2>3
<1>5. kept' \in [Dynamic!Keys -> Nat]
  BY <1>1, <1>3 DEF QuotaTyped
<1> HIDE DEF key
<1>6. CASE Off
  <2>1. QuotaTyped'
    BY <1>1, <1>3, <1>4, <1>5, <1>6 DEF QuotaTyped
  <2>2. /\ Dynamic!Excess' = Dynamic!Excess + 1 /\ Dynamic!Excess \in Nat
        /\ Dynamic!Uncounted' = Dynamic!Uncounted + 1 /\ Dynamic!Uncounted \in Nat
    BY <1>1, <1>3, <1>6 DEF Dynamic!Excess, Dynamic!Uncounted, QuotaTyped
  <2>3. /\ Enters(Len(lim.day[key]), Len(lim'.day[key]), Dynamic!Excess, Dynamic!Excess')
        /\ Enters(Len(lim.rows[key]), Len(lim'.rows[key]), Dynamic!Uncounted, Dynamic!Uncounted')
        /\ Enters(Len(lim.total), Len(lim'.total), Dynamic!Excess, Dynamic!Excess')
    BY <1>6, <2>2 DEF Enters
  <2>4. Admits(key)
    BY <1>1, <1>6, <2>2, <2>3 DEF Admits
  <2> QED
    BY <1>3, <1>4, <2>1, <2>4, AdmitsKeeps
<1>7. CASE \E written \in BOOLEAN : Gets(written)
  <2>1. PICK written \in BOOLEAN : Gets(written)
    BY <1>7
  <2>2. /\ lim' = [f \in Fields |-> lim'[f]]
        /\ lim'.day = [lim.day EXCEPT ![key] = Append(lim.day[key], clock)]
        /\ lim'.total = Append(lim.total, clock)
        /\ lim'.rows = [lim.rows EXCEPT ![key] =
                          IF written THEN Append(lim.rows[key], clock) ELSE lim.rows[key]]
    BY <1>3, <2>1, ReservedIs
  <2>3. /\ lim.day \in Windows /\ lim.rows \in Windows
        /\ lim.total \in Seq(Times) /\ lim.day[key] \in Seq(Times) /\ lim.rows[key] \in Seq(Times)
    BY <1>3 DEF QuotaTyped, Windows, Window
  <2>4. \A q \in Seq(Times) : Append(q, clock) \in Seq(Times) /\ Len(Append(q, clock)) = Len(q) + 1
    BY <1>3, AppendProperties
  <2>5. lim'.day \in Windows /\ lim'.rows \in Windows /\ lim'.total \in Window
    BY <1>3, <2>2, <2>3, <2>4 DEF Windows, Window
  <2>6. QuotaTyped'
    <3>1. lost' \in Nat /\ unlimited' \in Nat
      BY <1>3, <2>1 DEF QuotaTyped
    <3> QED
      BY <1>1, <1>3, <1>4, <1>5, <2>2, <2>5, <3>1 DEF QuotaTyped
  <2>7. /\ Len(lim'.day[key]) = Len(lim.day[key]) + 1
        /\ Len(lim'.rows[key]) = IF written THEN Len(lim.rows[key]) + 1 ELSE Len(lim.rows[key])
        /\ Len(lim'.total) = Len(lim.total) + 1
    BY <1>3, <2>2, <2>3, <2>4 DEF Windows
  <2>8. \A j \in Dynamic!Keys : j # key => lim'.day[j] = lim.day[j] /\ lim'.rows[j] = lim.rows[j]
    BY <2>2, <2>3 DEF Windows
  <2>9. /\ Dynamic!Excess' = IF written THEN Dynamic!Excess ELSE Dynamic!Excess + 1
        /\ Dynamic!Uncounted' = IF written THEN Dynamic!Uncounted ELSE Dynamic!Uncounted + 1
        /\ Dynamic!Excess \in Nat /\ Dynamic!Uncounted \in Nat
    BY <1>1, <1>3, <2>1 DEF Dynamic!Excess, Dynamic!Uncounted, QuotaTyped
  <2>10. /\ Enters(Len(lim.day[key]), Len(lim'.day[key]), Dynamic!Excess, Dynamic!Excess')
         /\ Enters(Len(lim.rows[key]), Len(lim'.rows[key]), Dynamic!Uncounted, Dynamic!Uncounted')
         /\ Enters(Len(lim.total), Len(lim'.total), Dynamic!Excess, Dynamic!Excess')
    BY <2>7, <2>9 DEF Enters
  <2>11. Len(lim.day[key]) < PerDay /\ Len(lim.total) < GlobalQuota
    <3>1. /\ Dynamic!Live(lim.day[key], Day, clock) = lim.day[key]
          /\ Dynamic!Live(lim.total, Day, clock) = lim.total
      BY <1>3, <2>3, NothingExpired DEF Window
    <3> QED
      BY <2>1, <3>1 DEF Dynamic!HasRoom
  <2>12. Dynamic!Uncounted' >= Dynamic!Uncounted
    BY <2>9
  <2>13. Admits(key)
    BY <1>1, <2>8, <2>10, <2>11, <2>12 DEF Admits
  <2> QED
    BY <1>3, <1>4, <2>6, <2>13, AdmitsKeeps
<1> QED
  BY <1>2, <1>6, <1>7

\* What was refused has its entry taken back, as far as there is one; where it is
\* left (the limiter is off, or its row cannot be deleted) that is noted.
Leaves(before, after) ==
    \/ after = (IF before = 0 THEN 0 ELSE before - 1) /\ unreturned' \in {unreturned, unreturned + 1}
    \/ after = before /\ unreturned' = unreturned + 1

LEMMA Left ==
    ASSUME QuotaInv, NEW count \in Nat, count >= 1,
           NEW before \in Nat, NEW after \in Nat, NEW missing \in Nat,
           Matches(count, before, missing), Leaves(before, after)
    PROVE  count - 1 <= after + missing /\ after <= count - 1 + unreturned'
<1> DEFINE owed == unreturned
           more == unreturned'
<1>1. owed \in Nat
  BY Natural
<1>2. /\ count <= before + missing /\ before <= count + owed
      /\ \/ after = (IF before = 0 THEN 0 ELSE before - 1) /\ more \in {owed, owed + 1}
         \/ after = before /\ more = owed + 1
  BY DEF Matches, Leaves
<1> HIDE DEF owed, more
<1>3. count - 1 <= after + missing /\ after <= count - 1 + more
  BY <1>1, <1>2
<1> QED
  BY <1>3 DEF more

\* The key's windows and the total give back what was refused.
Returns(k) ==
    /\ UNCHANGED <<lost, unlimited, unread>>
    /\ kept' = [kept EXCEPT ![k] = @ - 1] /\ kept[k] >= 1
    /\ \A j \in Dynamic!Keys : j # k =>
         Len(lim'.day[j]) = Len(lim.day[j]) /\ Len(lim'.rows[j]) = Len(lim.rows[j])
    /\ unreturned' \in {unreturned, unreturned + 1}
    /\ Leaves(Len(lim.day[k]), Len(lim'.day[k]))
    /\ Leaves(Len(lim.rows[k]), Len(lim'.rows[k]))
    /\ Leaves(Len(lim.total), Len(lim'.total))

\* With no row of the key's own, all the rows there are stand for the other's.
LEMMA RowsLeft ==
    ASSUME QuotaInv, NEW k \in Dynamic!Keys, Returns(k),
           NEW f \in [Dynamic!Keys -> Nat], NEW g \in [Dynamic!Keys -> Nat],
           \A j \in Dynamic!Keys : Matches(kept[j], f[j], Dynamic!Uncounted),
           Matches(Dynamic!Both(kept), Dynamic!Both(f), Dynamic!Uncounted),
           \A j \in Dynamic!Keys : j # k => g[j] = f[j],
           Leaves(f[k], g[k])
    PROVE  /\ Dynamic!Both(kept) - 1 <= Dynamic!Both(g) + Dynamic!Uncounted'
           /\ Dynamic!Both(g) <= Dynamic!Both(kept) - 1 + unreturned'
<1> DEFINE excess == Dynamic!Uncounted
           owed == unreturned
           more == unreturned'
           both == Dynamic!Both(kept)
           old == Dynamic!Both(f)
           new == Dynamic!Both(g)
<1>1. excess \in Nat /\ owed \in Nat /\ both \in Nat /\ Dynamic!Uncounted' = excess
  BY Natural DEF Returns, Dynamic!Uncounted
<1>2. old \in Nat /\ new \in Nat /\ f[k] \in Nat /\ g[k] \in Nat
  BY KeysAre DEF Dynamic!Both
<1>3. new - old = g[k] - f[k]
  BY BothMore
<1>4. both <= old + excess /\ old <= both + owed /\ both >= 1
  <2>1. kept["dynamic"] \in Nat /\ kept["reply"] \in Nat /\ kept[k] >= 1
    BY Natural, KeysAre DEF Returns
  <2>2. both >= 1
    BY <2>1, KeysAre DEF Dynamic!Both
  <2> QED
    BY <2>2 DEF Matches
<1>5. f[k] = 0 => old <= both - 1 + owed
  <2> SUFFICES ASSUME f[k] = 0 PROVE old <= both - 1 + owed
    OBVIOUS
  <2>1. PICK j \in Dynamic!Keys : j # k /\ old = f[k] + f[j] /\ both = kept[k] + kept[j]
    <3>1. /\ f["dynamic"] \in Nat /\ f["reply"] \in Nat
          /\ kept["dynamic"] \in Nat /\ kept["reply"] \in Nat
      BY Natural, KeysAre
    <3> QED
      BY <3>1, KeysAre DEF Dynamic!Both
  <2>2. f[j] <= kept[j] + owed /\ kept[j] \in Nat /\ f[j] \in Nat /\ kept[k] \in Nat /\ kept[k] >= 1
    BY Natural DEF Matches, Returns
  <2> HIDE DEF owed, both, old
  <2> QED
    BY <1>1, <2>1, <2>2
<1>6. \/ g[k] = (IF f[k] = 0 THEN 0 ELSE f[k] - 1) /\ more \in {owed, owed + 1}
      \/ g[k] = f[k] /\ more = owed + 1
  BY DEF Leaves
<1> HIDE DEF excess, owed, more, both, old, new
<1> DEFINE Goal == both - 1 <= new + excess /\ new <= both - 1 + more
<1>7. ASSUME g[k] = f[k] /\ more = owed + 1 PROVE Goal
  <2>1. new = old
    BY <1>2, <1>3, <1>7
  <2> QED
    BY <1>1, <1>2, <1>4, <1>7, <2>1
<1>8. ASSUME f[k] = 0 /\ g[k] = 0 /\ more \in {owed, owed + 1} PROVE Goal
  <2>1. new = old
    BY <1>2, <1>3, <1>8
  <2> QED
    BY <1>1, <1>2, <1>4, <1>5, <1>8, <2>1
<1>9. ASSUME f[k] # 0 /\ g[k] = f[k] - 1 /\ more \in {owed, owed + 1} PROVE Goal
  <2>1. new = old - 1
    BY <1>2, <1>3, <1>9
  <2> QED
    BY <1>1, <1>2, <1>4, <1>9, <2>1
<1>10. Goal
  BY <1>6, <1>7, <1>8, <1>9
<1> QED
  BY <1>1, <1>10 DEF both, new, more

LEMMA ReturnsKeeps ==
    ASSUME QuotaInv, QuotaTyped', Paid', NEW k \in Dynamic!Keys, Returns(k)
    PROVE  QuotaInv'
<1>1. /\ kept \in [Dynamic!Keys -> Nat] /\ kept' \in [Dynamic!Keys -> Nat]
      /\ kept'[k] = kept[k] - 1 /\ kept[k] >= 1
      /\ \A j \in Dynamic!Keys : j # k => kept'[j] = kept[j]
  BY DEF QuotaInv, QuotaTyped, Returns
<1>2. Dynamic!Both(kept') = Dynamic!Both(kept) - 1 /\ Dynamic!Both(kept) >= 1
  <2>1. Dynamic!Both(kept') - Dynamic!Both(kept) = kept'[k] - kept[k]
    BY <1>1, BothMore
  <2>2. Dynamic!Both(kept') \in Nat /\ Dynamic!Both(kept) \in Nat
    BY <1>1, KeysAre DEF Dynamic!Both
  <2> QED
    BY <1>1, <2>1, <2>2
<1>3. /\ Len(lim'.total) \in Nat
      /\ \A j \in Dynamic!Keys : Len(lim'.day[j]) \in Nat /\ Len(lim'.rows[j]) \in Nat
  <2>1. /\ lim'.total \in Seq(Times)
        /\ \A j \in Dynamic!Keys : lim'.day[j] \in Seq(Times) /\ lim'.rows[j] \in Seq(Times)
    BY DEF QuotaTyped, Windows, Window
  <2> QED
    BY <2>1, LenProperties
<1>4. Dynamic!Excess' = Dynamic!Excess /\ Dynamic!Uncounted' = Dynamic!Uncounted
  BY DEF Returns, Dynamic!Excess, Dynamic!Uncounted
<1>5. WindowsMatch'
  <2>1. /\ \A j \in Dynamic!Keys :
             /\ Matches(kept[j], Len(lim.day[j]), Dynamic!Excess)
             /\ Matches(kept[j], Len(lim.rows[j]), Dynamic!Uncounted)
        /\ Matches(Dynamic!Both(kept), Len(lim.total), Dynamic!Excess)
        /\ Matches(Dynamic!Both(kept), Dynamic!Both(Length(lim.rows)), Dynamic!Uncounted)
    BY DEF QuotaInv, WindowsMatch
  <2>2. /\ kept[k] - 1 <= Len(lim'.day[k]) + Dynamic!Excess'
        /\ Len(lim'.day[k]) <= kept[k] - 1 + unreturned'
    BY <1>1, <1>3, <1>4, <2>1, Natural, Left DEF Returns
  <2>3. /\ kept[k] - 1 <= Len(lim'.rows[k]) + Dynamic!Uncounted'
        /\ Len(lim'.rows[k]) <= kept[k] - 1 + unreturned'
    BY <1>1, <1>3, <1>4, <2>1, Natural, Left DEF Returns
  <2>4. ASSUME NEW j \in Dynamic!Keys, j # k
        PROVE  /\ kept[j] <= Len(lim'.day[j]) + Dynamic!Excess'
               /\ Len(lim'.day[j]) <= kept[j] + unreturned'
               /\ kept[j] <= Len(lim'.rows[j]) + Dynamic!Uncounted'
               /\ Len(lim'.rows[j]) <= kept[j] + unreturned'
    <3> DEFINE excess == Dynamic!Excess
               missing == Dynamic!Uncounted
               owed == unreturned
               more == unreturned'
               d == Len(lim.day[j])
               w == Len(lim.rows[j])
    <3>1. /\ kept[j] <= d + excess /\ d <= kept[j] + owed
          /\ kept[j] <= w + missing /\ w <= kept[j] + owed
      BY <2>1 DEF Matches
    <3>2. more \in {owed, owed + 1} /\ Len(lim'.day[j]) = d /\ Len(lim'.rows[j]) = w
      BY <2>4 DEF Returns
    <3>3. excess \in Nat /\ d \in Nat /\ w \in Nat /\ kept[j] \in Nat /\ owed \in Nat
      BY Natural
    <3> HIDE DEF excess, missing, owed, more, d, w
    <3>4. d <= kept[j] + more /\ w <= kept[j] + more
      BY <3>1, <3>2, <3>3
    <3> QED
      BY <1>4, <3>1, <3>2, <3>4 DEF excess, missing, more
  <2>5. \A j \in Dynamic!Keys :
           /\ kept'[j] <= Len(lim'.day[j]) + Dynamic!Excess'
           /\ Len(lim'.day[j]) <= kept'[j] + unreturned'
           /\ kept'[j] <= Len(lim'.rows[j]) + Dynamic!Uncounted'
           /\ Len(lim'.rows[j]) <= kept'[j] + unreturned'
    BY <1>1, <2>2, <2>3, <2>4
  <2>6. /\ Dynamic!Both(kept) - 1 <= Len(lim'.total) + Dynamic!Excess'
        /\ Len(lim'.total) <= Dynamic!Both(kept) - 1 + unreturned'
    BY <1>2, <1>3, <1>4, <2>1, Natural, Left DEF Returns
  <2>7. /\ Dynamic!Both(kept) - 1 <= Dynamic!Both(Length(lim'.rows)) + Dynamic!Uncounted'
        /\ Dynamic!Both(Length(lim'.rows)) <= Dynamic!Both(kept) - 1 + unreturned'
    <3> DEFINE f == Length(lim.rows)
               g == Length(lim'.rows)
    <3>1. f \in [Dynamic!Keys -> Nat] /\ g \in [Dynamic!Keys -> Nat]
      BY <1>3, Natural DEF Length
    <3>2. /\ \A j \in Dynamic!Keys : f[j] = Len(lim.rows[j]) /\ g[j] = Len(lim'.rows[j])
      BY DEF Length
    <3>3. /\ \A j \in Dynamic!Keys : Matches(kept[j], f[j], Dynamic!Uncounted)
          /\ \A j \in Dynamic!Keys : j # k => g[j] = f[j]
          /\ Leaves(f[k], g[k])
      BY <2>1, <3>2 DEF Returns
    <3>4. Matches(Dynamic!Both(kept), Dynamic!Both(f), Dynamic!Uncounted)
      BY <2>1
    <3> HIDE DEF f, g
    <3>5. /\ Dynamic!Both(kept) - 1 <= Dynamic!Both(g) + Dynamic!Uncounted'
          /\ Dynamic!Both(g) <= Dynamic!Both(kept) - 1 + unreturned'
      BY <3>1, <3>3, <3>4, RowsLeft
    <3> QED
      BY <3>5 DEF g
  <2> QED
    BY <1>2, <2>5, <2>6, <2>7 
       DEF WindowsMatch, Matches, Length, Dynamic!Both, Dynamic!Excess, Dynamic!Uncounted
<1>6. Dynamic!QuotaHolds'
  <2> DEFINE excess == Dynamic!Excess
             both == Dynamic!Both(kept)
  <2>1. /\ excess \in Nat /\ both \in Nat /\ PerDay \in Nat /\ GlobalQuota \in Nat
        /\ \A j \in Dynamic!Keys : kept[j] \in Nat
    BY Natural
  <2>2. (\A j \in Dynamic!Keys : kept[j] <= PerDay + excess) /\ both <= GlobalQuota + excess
    BY DEF QuotaInv, Dynamic!QuotaHolds
  <2> HIDE DEF excess, both
  <2>3. kept[k] - 1 <= PerDay + excess /\ both - 1 <= GlobalQuota + excess
    BY <2>1, <2>2
  <2>4. \A j \in Dynamic!Keys : kept'[j] <= PerDay + excess
    BY <1>1, <2>2, <2>3
  <2>5. Dynamic!Both(kept') <= GlobalQuota + excess
    BY <1>2, <2>3 DEF both
  <2> QED
    BY <1>4, <2>4, <2>5 DEF excess, Dynamic!QuotaHolds, Dynamic!Both, Dynamic!Excess, Dynamic!Uncounted
<1> QED
  BY <1>5, <1>6 DEF QuotaInv

LEMMA RefusedStep ==
    ASSUME QuotaInv, NEW p \in Dynamic!Work, Dynamic!Refused(p)
    PROVE  QuotaInv'
<1> DEFINE key == Dynamic!Key(p)
           Gives(deleted) ==
             /\ lim' = Dynamic!Refunded(lim, key, deleted)
             /\ unreturned' = IF deleted THEN unreturned ELSE unreturned + 1
           Keeps == lim' = lim /\ unreturned' = unreturned + 1
<1>1. /\ UNCHANGED <<clock, lost, unlimited, unread>>
      /\ at[p] = "posting"
      /\ kept' = [kept EXCEPT ![key] = @ - 1]
      /\ (\E deleted \in BOOLEAN : Gives(deleted)) \/ Keeps
      /\ \E place \in {"filing", Dynamic!Home(p)} : Dynamic!Goto(p, place)
  <2>1. Gives(TRUE) \/ Gives(FALSE) \/ Keeps
    BY DEF Dynamic!Refused, Dynamic!GiveBack
  <2>2. (\E deleted \in BOOLEAN : Gives(deleted)) \/ Keeps
    BY <2>1
  <2> HIDE DEF Gives, Keeps
  <2> QED
    BY <2>2 DEF Dynamic!Refused, Dynamic!process
<1>2. QuotaTyped /\ Paid /\ key \in Dynamic!Keys
  BY KeysAre DEF QuotaInv, QuotaTyped
<1>3. at' = [q \in Dynamic!Work |-> at'[q]] /\ Paid' /\ kept[key] >= 1
  <2>1. PICK place \in {"filing", Dynamic!Home(p)} : Dynamic!Goto(p, place)
    BY <1>1
  <2>2. at' = [q \in Dynamic!Work |-> at'[q]]
    BY <1>2, <2>1, GoneTo
  <2>3. place \notin {"drawing", "posting"}
    BY WorkIs
  <2>4. Paid' /\ kept[key] >= 1
    BY <1>1, <1>2, <2>1, <2>3, PaidLess
  <2> QED
    BY <2>2, <2>4
<1> HIDE DEF key
<1>4. kept' \in [Dynamic!Keys -> Nat]
  <2>1. kept \in [Dynamic!Keys -> Nat] /\ kept[key] - 1 \in Nat
    BY <1>2, <1>3 DEF QuotaTyped
  <2> QED
    BY <1>1, <2>1
<1>5. CASE \E deleted \in BOOLEAN : Gives(deleted)
  <2>0. PICK deleted \in BOOLEAN : Gives(deleted)
    BY <1>5
  <2>1. Refunds(lim', key, deleted)
    BY <1>2, <2>0, RefundedIs
  <2>2. /\ lim' = [f \in Fields |-> lim'[f]]
        /\ lim'.day \in Windows /\ lim'.rows \in Windows /\ lim'.total \in Window
        /\ \A j \in Dynamic!Keys : j # key => lim'.day[j] = lim.day[j] /\ lim'.rows[j] = lim.rows[j]
        /\ Shorter(lim'.day[key], lim.day[key])
        /\ RowsRefunded(lim'.rows[key], lim.rows[key], deleted)
        /\ Shorter(lim'.total, lim.total)
    BY <2>1 DEF Refunds, Shorter
  <2>3. /\ Leaves(Len(lim.day[key]), Len(lim'.day[key]))
        /\ Leaves(Len(lim.rows[key]), Len(lim'.rows[key]))
        /\ Leaves(Len(lim.total), Len(lim'.total))
    BY <2>0, <2>2 DEF Shorter, RowsRefunded, Leaves
  <2>4. QuotaTyped'
    <3>1. unreturned' \in Nat
      BY <1>2, <2>0 DEF QuotaTyped
    <3> QED
      BY <1>1, <1>2, <1>3, <1>4, <2>2, <3>1 DEF QuotaTyped
  <2>5. Returns(key)
    BY <1>1, <1>3, <2>0, <2>2, <2>3 DEF Returns
  <2> QED
    BY <1>2, <1>3, <2>4, <2>5, ReturnsKeeps
<1>6. CASE Keeps
  <2>1. /\ Leaves(Len(lim.day[key]), Len(lim'.day[key]))
        /\ Leaves(Len(lim.rows[key]), Len(lim'.rows[key]))
        /\ Leaves(Len(lim.total), Len(lim'.total))
    BY <1>6 DEF Leaves
  <2>2. unreturned' \in Nat
    BY <1>2, <1>6 DEF QuotaTyped
  <2>3. QuotaTyped'
    BY <1>1, <1>2, <1>3, <1>4, <1>6, <2>2 DEF QuotaTyped
  <2>4. Returns(key)
    BY <1>1, <1>3, <1>6, <2>1 DEF Returns
  <2> QED
    BY <1>2, <1>3, <2>3, <2>4, ReturnsKeeps
<1> QED
  BY <1>1, <1>5, <1>6

LEMMA QuotaStep ==
    ASSUME PostNow <= Day, QuotaInv, Dynamic!Next PROVE QuotaInv'
<1>1. CASE \E p \in Dynamics :
             \/ Dynamic!Start(p) \/ Dynamic!NoActivity(p) \/ Dynamic!NoText(p)
             \/ Dynamic!Rejected(p) \/ Dynamic!File(p) \/ Dynamic!Retry(p)
  BY <1>1, TaskSteps
<1>2. CASE \E p \in Dynamic!Work :
             \/ Dynamic!Reserve(p) \/ Dynamic!Limited(p) \/ Dynamic!Illustrate(p)
             \/ Dynamic!Post(p) \/ Dynamic!NoAnswer(p) \/ Dynamic!Answered(p)
             \/ Dynamic!Refused(p)
  BY <1>2, ReserveStep, LimitedStep, RefusedStep, PlatformSteps
<1>3. CASE \/ Dynamic!Pause \/ Dynamic!Resume \/ Dynamic!ResumeAccount \/ Dynamic!Reload
           \/ Dynamic!Tick
  BY <1>3, OperatorSteps
<1>4. CASE Dynamic!Crash \/ Dynamic!Boot
  BY <1>4, CrashStays, BootReads
<1> QED
  BY <1>1, <1>2, <1>3, <1>4 DEF Dynamic!Next

LEMMA QuotaStart == PublishingInit => QuotaInv
<1> SUFFICES ASSUME PublishingInit PROVE QuotaInv
  OBVIOUS
<1>1. /\ clock = 0 /\ lost = 0 /\ unlimited = 0 /\ unreturned = 0 /\ unread = 0
      /\ lim = Dynamic!Empty
      /\ kept = [k \in Dynamic!Keys |-> 0]
      /\ at = [p \in Dynamic!Work |-> Dynamic!Home(p)]
  BY DEF PublishingInit, Dynamic!Init
<1>2. <<>> \in Window /\ 0 \in Times /\ Len(<<>>) = 0
  BY PublishingAssumption DEF Dynamic!PostAssumption, Window, Times
<1>3. /\ lim = [f \in Fields |-> lim[f]] /\ lim.total = <<>>
      /\ lim.day = [k \in Dynamic!Keys |-> <<>>] /\ lim.rows = [k \in Dynamic!Keys |-> <<>>]
  BY <1>1 DEF Dynamic!Empty, Fields
<1>4. QuotaTyped
  BY <1>1, <1>2, <1>3 DEF QuotaTyped, Windows
<1>5. Paid
  <2>1. \A k \in Dynamic!Keys : Paying(k) = {}
    BY <1>1, WorkIs DEF Paying, Dynamic!PastCheck
  <2> QED
    BY <1>1, <2>1, FS_EmptySet DEF Paid
<1>6. /\ Dynamic!Both(kept) = 0 /\ Dynamic!Both(Length(lim.rows)) = 0
      /\ \A k \in Dynamic!Keys : kept[k] = 0 /\ Len(lim.day[k]) = 0 /\ Len(lim.rows[k]) = 0
  <2>1. \A k \in Dynamic!Keys : kept[k] = 0 /\ Len(lim.day[k]) = 0 /\ Len(lim.rows[k]) = 0
    BY <1>1, <1>2, <1>3
  <2>2. \A k \in Dynamic!Keys : Length(lim.rows)[k] = 0
    BY <2>1 DEF Length
  <2> QED
    BY <2>1, <2>2, KeysAre DEF Dynamic!Both
<1>7. WindowsMatch
  BY <1>1, <1>2, <1>3, <1>6 DEF WindowsMatch, Matches, Dynamic!Excess, Dynamic!Uncounted
<1>8. Dynamic!QuotaHolds
  <2>1. PerDay \in Nat /\ GlobalQuota \in Nat
    BY PublishingAssumption DEF Dynamic!LimiterAssumption
  <2> QED
    BY <1>1, <1>6, <2>1 DEF Dynamic!QuotaHolds, Dynamic!Excess, Dynamic!Uncounted
<1> QED
  BY <1>4, <1>5, <1>7, <1>8 DEF QuotaInv

\* Within a day (the model's clock ends before anything leaves the day's
\* windows), what is published stays within the key's limit and the quota of
\* all keys, and the windows hold no more than what was not refused: whatever
\* is given back, whoever's entry a refund takes, and whether the windows are
\* counted or read back after a restart.  What exceeds that passed while the
\* limiter was off, could not be written (safety.py:704, 868, 206), was left out
\* by a load that failed (safety.py:290) or, refused, has a row that could not
\* be deleted (safety.py:336, 358).
THEOREM QuotaIsExactAlways ==
    ASSUME PostNow <= Day PROVE PublishingSpec => []QuotaIsExact
<1>1. PublishingInit => QuotaInv
  BY QuotaStart
<1>2. QuotaInv /\ [PublishingNext]_allVars => QuotaInv'
  <2> SUFFICES ASSUME QuotaInv, [PublishingNext]_allVars PROVE QuotaInv'
    OBVIOUS
  <2>1. CASE InPost /\ Dynamic!Next
    BY <2>1, QuotaStep
  <2>2. CASE InDrafts \/ InWeek \/ UNCHANGED allVars
    <3>1. QuotaSame /\ UNCHANGED <<at, clock>>
      BY <2>2 DEF InDrafts, InWeek, allVars, postVars, QuotaSame
    <3>2. clock' \in Times
      BY <3>1 DEF QuotaInv, QuotaTyped
    <3> QED
      BY <3>1, <3>2, StaysPut
  <2> QED
    BY <2>1, <2>2 DEF PublishingNext
<1>3. QuotaInv => QuotaIsExact
  <2> SUFFICES ASSUME QuotaInv PROVE QuotaIsExact
    OBVIOUS
  <2>1. Dynamic!RefusalsGiveBack
    BY DEF QuotaInv, WindowsMatch, Matches, Dynamic!RefusalsGiveBack
  <2> QED
    BY <2>1 DEF QuotaInv, QuotaIsExact
<1> QED
  BY <1>1, <1>2, <1>3, PTL DEF PublishingSpec
=============================================================================
