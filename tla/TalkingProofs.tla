---------------------------- MODULE TalkingProofs ----------------------------
(***************************************************************************)
(* Theorems about what the account says, for any texts, waits, windows and *)
(* bounds.  CommentReply: a user gets one reply.  PrivateMessage: a        *)
(* message is answered once, from a memory that holds it, what is          *)
(* acknowledged is recorded, and the transition table refuses nothing.     *)
(***************************************************************************)
EXTENDS MCTalking, FiniteSetTheorems, TLAPS

-----------------------------------------------------------------------------
(* Replies to comments.                                                    *)

ReplyState == Reply!TerminalStates \cup Reply!RetryableStates
              \cup Reply!IntermediateStates \cup {"absent"}
ReplyRow == [state : ReplyState, attempts : Nat, maxAttempts : Nat, nextRetryAt : Int,
             updatedAt : Nat, notified : BOOLEAN, text : Text \cup {NoText}, revision : Nat]
ReplyPlaces == {"idle", "archiving", "context", "generating", "checking", "rejecting", "listed",
                "looking", "intending", "filing", "posting", "posted"}

ReplyTyped ==
    /\ now \in Nat /\ posts \in Nat /\ manual \in Nat /\ lapses \in Nat
    /\ row \in ReplyRow /\ item \in ReplyRow
    /\ replyAt \in ReplyPlaces /\ path \in {"new", "resend", "redo"}
    /\ reply \in Text \cup {NoText}
    /\ finds \in BOOLEAN
    /\ posted \in SUBSET [text : Text, revision : Nat \ {0}]

\* A text has a revision; the loop knows the row it works on.
RowKnown ==
    /\ row.text # NoText => row.revision > 0
    /\ replyAt = "idle" => path = "new"
    /\ replyAt \notin {"idle", "archiving"} => row.state # "absent"
    /\ replyAt = "listed" => item.text = row.text /\ path = "new"
    /\ replyAt = "intending" => path = "resend"
    /\ replyAt = "filing" => path = "redo"

\* The reply that is checked, looked for or posted is the row's own text.
Current ==
    (\/ replyAt = "posting"
     \/ path = "new" /\ replyAt = "checking"
     \/ path = "resend" /\ replyAt \in {"looking", "checking", "intending"}
     \/ path = "redo" /\ replyAt \in {"checking", "looking"})
       => reply = row.text /\ reply # NoText
Drafted == replyAt = "filing" => reply # NoText

\* Between the last look at the thread and the post there is nothing in the
\* thread that was not overlooked: for a new comment there never was anything.
Unposted ==
    /\ row.state = "absent" => posts = 0
    /\ path = "new" /\ replyAt \in {"archiving", "context", "generating", "checking", "rejecting"}
         => posts = 0
    /\ finds =>
         /\ posts <= 1 + lapses
         /\ replyAt = "posting" => posts <= lapses
         /\ path = "resend" /\ replyAt \in {"checking", "intending"} => posts <= lapses

\* What was posted names its revision's text, and none is ahead of the row.
Published ==
    /\ \A p \in posted : p.revision <= row.revision
                         /\ (p.revision = row.revision => p.text = row.text)
    /\ Reply!RevisionNamesText

ReplyInv == ReplyTyped /\ RowKnown /\ Current /\ Drafted /\ Unposted /\ Published

-----------------------------------------------------------------------------
(* Private messages.                                                       *)

Msg == Private!Msg
PmStatus == Private!Statuses \cup {"absent"}
PmRow == [status : PmStatus, written : BOOLEAN, attempt : Nat, nextRetryAt : Int,
          updatedAt : Int, unarchived : BOOLEAN]
PmPlaces == {"idle", "repairing", "taking", "archiving", "history", "generating", "vetting",
             "rejected", "deferred", "sending", "sent", "remembering", "acking"}

PrivateTyped ==
    /\ now \in Nat /\ crashes \in Nat /\ arrived \in Nat
    /\ arrived <= MaxMessages
    /\ messages \in [Msg -> PmRow]
    /\ observed \in SUBSET Msg /\ queue \in SUBSET Msg /\ seen \in SUBSET Msg
    /\ pmAt \in PmPlaces /\ pass \in {"poll", "retry"} /\ pmOn \in Nat
    /\ pmAt \in PmPlaces \ {"idle", "repairing", "taking", "acking"} => pmOn \in Msg
    /\ answered \in [Msg -> Nat]

Working == PmPlaces \ {"idle", "repairing", "taking", "acking"}

\* Where the loop is tells the status of the row it works on.
AtRow(place, how, status) ==
    /\ place \in {"history", "rejected", "deferred"} => how = "poll"
    /\ place \in {"archiving", "history"} /\ how = "poll" => status = "discovered"
    /\ place = "generating" /\ how = "poll" => status = "generation_pending"
    /\ place \in {"archiving", "generating"} /\ how = "retry" => status = "deferred"
    /\ place \in {"vetting", "rejected", "deferred"} => status = "safety_pending"
    /\ place \in {"sending", "sent"} => status = "publish_pending"
    /\ place = "remembering" => status = "published"

\* No other message is in the loop's hands, and those a retry has listed wait.
Placed ==
    /\ pmAt \in Working => AtRow(pmAt, pass, messages[pmOn].status)
    /\ pmAt \in {"idle", "repairing", "acking"} => queue = {}
    /\ pmOn \notin queue
    /\ pass = "retry" => \A m \in queue : messages[m].status \in {"deferred", "retry_wait"}

\* What is checked, sent or sent again has a text.
Texted(r) == r.status \in {"safety_pending", "publish_pending", "retry_wait"} => r.written
PmTexted == \A m \in Msg : Texted(messages[m])

\* Only a message whose reply may be out was answered, and once.
Out == {"publish_pending", "published", "result_unknown"}
Sent(m) ==
    answered[m] > 0 =>
        answered[m] = 1 /\ messages[m].status \in Out /\ ~(pmOn = m /\ pmAt = "sending")
PmAnswered == \A m \in Msg : Sent(m)

\* The memory brain holds what a text is written for.
Heard == {"history", "generating", "vetting", "rejected", "deferred", "sending", "sent",
          "remembering"}
Remembered ==
    /\ pmAt \in Heard => pmOn \in observed
    /\ \A m \in Msg : messages[m].written \/ answered[m] > 0 => m \in observed

PrivateInv == PrivateTyped /\ Placed /\ PmTexted /\ PmAnswered /\ Remembered

\* The talker has not written more than a fetch can see: the account's own
\* answers, one to a message, take room in it too.
FetchSeesAll == 2 * MaxMessages <= Window

\* What a poll has seen is all there was, and it is settled when the session
\* is acknowledged.
Acked ==
    /\ readTo \in Nat /\ \E k \in Nat : seen = {m \in Msg : m <= k}
    /\ pmAt = "acking" => \A m \in seen : Private!Settled(m)
    /\ Private!AckedIsRecorded

-----------------------------------------------------------------------------
(* The statements of the store of replies.                                 *)

LEMMA ReplyConstants ==
    MaxAttempts \in Nat /\ Backoff \subseteq Nat /\ NoText \notin Text /\ StuckTime \in Nat
  BY TalkingAssumption DEF Reply!ReplyAssumption, Reply!CommentAssumption

LEMMA NoReplyRow ==
    Reply!NoRow \in ReplyRow /\ Reply!NoRow.state = "absent" /\ Reply!NoRow.text = NoText
    /\ Reply!NoRow.revision = 0
<1>1. "absent" \in ReplyState
  BY DEF ReplyState
<1> QED BY <1>1, ReplyConstants DEF Reply!NoRow, Reply!NoTime, ReplyRow

LEMMA UpsertRow ==
    ASSUME NEW r \in ReplyRow, NEW s \in ReplyState \ {"absent"}, NEW burn \in BOOLEAN,
           NEW wait \in Nat, NEW n \in Nat
    PROVE  /\ Reply!Upsert(r, s, burn, wait, n) \in ReplyRow
           /\ Reply!Upsert(r, s, burn, wait, n).text = r.text
           /\ Reply!Upsert(r, s, burn, wait, n).revision = r.revision
           /\ Reply!Upsert(r, s, burn, wait, n).state # "absent"
<1> DEFINE burns == burn /\ s \in Reply!RetryableStates
           spent == IF burns THEN r.attempts + 1 ELSE r.attempts
           next == IF burns /\ spent >= r.maxAttempts THEN "failed" ELSE s
           due == IF next \in Reply!RetryableStates THEN n + wait ELSE Reply!NoTime
<1>1. spent \in Nat
  BY DEF ReplyRow
<1>2. next \in ReplyState /\ next # "absent"
  BY DEF ReplyState, Reply!TerminalStates
<1>3. due \in Int
  BY DEF Reply!NoTime
<1>4. Reply!Upsert(r, s, burn, wait, n) =
        [r EXCEPT !.state = next, !.attempts = spent, !.updatedAt = n, !.nextRetryAt = due]
  BY DEF Reply!Upsert
<1> HIDE DEF burns, spent, next, due
<1> QED BY <1>1, <1>2, <1>3, <1>4 DEF ReplyRow

LEMMA UpsertPlain ==
    ASSUME NEW r \in ReplyRow, NEW s \in ReplyState \ {"absent"}, NEW n \in Nat
    PROVE  /\ Reply!Upsert(r, s, FALSE, 0, n) \in ReplyRow
           /\ Reply!Upsert(r, s, FALSE, 0, n).text = r.text
           /\ Reply!Upsert(r, s, FALSE, 0, n).revision = r.revision
           /\ Reply!Upsert(r, s, FALSE, 0, n).state # "absent"
<1>1. FALSE \in BOOLEAN /\ 0 \in Nat
  OBVIOUS
<1> QED BY <1>1, UpsertRow

LEMMA SaveRow ==
    ASSUME NEW r \in ReplyRow, NEW t \in Text, NEW n \in Nat, r.text # NoText => r.revision > 0
    PROVE  /\ Reply!Save(r, t, n) \in ReplyRow
           /\ Reply!Save(r, t, n).text = t /\ Reply!Save(r, t, n).state = r.state
           /\ Reply!Save(r, t, n).revision > 0
           /\ Reply!Save(r, t, n).revision >= r.revision
           /\ Reply!Save(r, t, n).revision = r.revision => r.text = t
<1> DEFINE v == IF r.revision = 0 THEN 1 ELSE IF r.text = t THEN r.revision ELSE r.revision + 1
<1>1. r.revision \in Nat
  BY DEF ReplyRow
<1>2. v \in Nat /\ v > 0 /\ v >= r.revision /\ (v = r.revision => r.text = t)
  BY <1>1
<1>3. Reply!Save(r, t, n) = [r EXCEPT !.text = t, !.updatedAt = n, !.revision = v]
  BY DEF Reply!Save, ReplyRow
<1> HIDE DEF v
<1> QED BY <1>2, <1>3 DEF ReplyRow

LEMMA RequeueRow ==
    ASSUME NEW r \in ReplyRow, NEW n \in Nat
    PROVE  /\ Reply!Requeue(r, n) \in ReplyRow
           /\ Reply!Requeue(r, n).text = r.text /\ Reply!Requeue(r, n).revision = r.revision
           /\ Reply!Requeue(r, n).state = "retry_wait"
<1> DEFINE most == IF r.attempts >= r.maxAttempts THEN r.attempts + 1 ELSE r.maxAttempts
<1>1. most \in Nat /\ n \in Int
  BY DEF ReplyRow
<1>2. "retry_wait" \in ReplyState
  BY DEF ReplyState, Reply!RetryableStates
<1>3. Reply!Requeue(r, n) = [r EXCEPT !.state = "retry_wait", !.updatedAt = n, !.nextRetryAt = n,
                                      !.maxAttempts = most]
  BY DEF Reply!Requeue, ReplyRow
<1> HIDE DEF most
<1> QED BY <1>1, <1>2, <1>3 DEF ReplyRow

LEMMA UnstuckRow ==
    ASSUME NEW r \in ReplyRow, NEW n \in Nat
    PROVE  /\ Reply!Unstuck(r, n) \in ReplyRow
           /\ Reply!Unstuck(r, n).text = r.text /\ Reply!Unstuck(r, n).revision = r.revision
           /\ Reply!Unstuck(r, n).state # "absent"
<1> DEFINE s == IF r.state = "publish_pending" /\ r.text # NoText THEN "retry_wait" ELSE "deferred"
<1>1. s \in ReplyState /\ s # "absent" /\ n \in Int
  BY DEF ReplyState, Reply!RetryableStates
<1>2. Reply!Unstuck(r, n) = [r EXCEPT !.state = s, !.updatedAt = n, !.nextRetryAt = n]
  BY DEF Reply!Unstuck, ReplyRow
<1> HIDE DEF s
<1> QED BY <1>1, <1>2 DEF ReplyRow

-----------------------------------------------------------------------------
(* The steps of the loop on a comment.                                     *)

\* The row is marked, and keeps its text.
KeepsText ==
    /\ row' \in ReplyRow /\ row'.text = row.text /\ row'.revision = row.revision
    /\ row'.state = "absent" => row.state = "absent"

LEMMA MarkKeeps ==
    ASSUME ReplyTyped, NEW s \in ReplyState \ {"absent"}, NEW burn \in BOOLEAN, Reply!Mark(s, burn)
    PROVE  KeepsText /\ row'.state # "absent"
<1>1. PICK wait \in Backoff : row' = Reply!Upsert(row, s, burn, wait, now)
  BY DEF Reply!Mark
<1>2. row \in ReplyRow /\ now \in Nat /\ wait \in Nat
  BY ReplyConstants DEF ReplyTyped
<1> QED BY <1>1, <1>2, UpsertRow DEF KeepsText

LEMMA RowLeft == ASSUME ReplyTyped, row' = row PROVE KeepsText
  BY DEF ReplyTyped, KeepsText

LEMMA ReplyStateNames ==
    {"published", "ignored", "rejected", "failed", "result_unknown", "deferred", "retry_wait",
     "context_building", "generation_pending", "safety_pending", "publish_pending"}
      \subseteq ReplyState \ {"absent"}
  BY DEF ReplyState, Reply!TerminalStates, Reply!RetryableStates, Reply!IntermediateStates

\* What was posted still names its text when the text has stayed.
LEMMA PublishedKept ==
    ASSUME Published, KeepsText, posted' = posted PROVE Published'
  BY DEF Published, KeepsText, Reply!RevisionNamesText

\* Whatever the loop was at, it is done with the comment.
LEMMA LeaveKeeps ==
    ASSUME ReplyInv, KeepsText, Reply!Leave, now' \in Nat, manual' \in Nat,
           UNCHANGED <<finds, posts, posted, lapses>>
    PROVE  ReplyInv'
<1>1. replyAt' = "idle" /\ path' = "new" /\ item' = Reply!NoRow /\ reply' = NoText
  BY DEF Reply!Leave
<1>2. ReplyTyped'
  BY <1>1, NoReplyRow DEF ReplyInv, ReplyTyped, KeepsText, ReplyPlaces
<1>3. RowKnown' /\ Current' /\ Drafted' /\ Unposted'
  BY <1>1 DEF ReplyInv, RowKnown, Current, Drafted, Unposted, KeepsText
<1>4. Published'
  BY PublishedKept DEF ReplyInv
<1> QED BY <1>2, <1>3, <1>4 DEF ReplyInv

\* The loop goes on to a place where what the invariant asks is known.
LEMMA GoKeeps ==
    ASSUME ReplyInv, KeepsText, NEW place \in ReplyPlaces \ {"idle", "listed", "filing"},
           Reply!Go(place), place # "archiving" => row'.state # "absent",
           place = "intending" => path = "resend", lapses' \in Nat,
           now' \in Nat, manual' \in Nat, UNCHANGED <<finds, posts, posted>>,
           Current', Drafted', Unposted'
    PROVE  ReplyInv'
<1>1. replyAt' = place /\ UNCHANGED <<path, item, reply>>
  BY DEF Reply!Go
<1>2. ReplyTyped'
  BY <1>1 DEF ReplyInv, ReplyTyped, KeepsText
<1>3. RowKnown'
  BY <1>1 DEF ReplyInv, RowKnown, KeepsText
<1>4. Published'
  BY PublishedKept DEF ReplyInv
<1> QED BY <1>2, <1>3, <1>4 DEF ReplyInv

LEMMA StillKeeps ==
    ASSUME ReplyTyped, Reply!Still
    PROVE  /\ now' \in Nat /\ manual' \in Nat /\ lapses' \in Nat
           /\ UNCHANGED <<finds, posts, posted, lapses>>
  BY DEF ReplyTyped, Reply!Still, Reply!platform, Reply!env

LEMMA ReplyStart == TalkingInit => ReplyInv
<1> SUFFICES ASSUME TalkingInit PROVE ReplyInv
  OBVIOUS
<1>1. /\ now = 0 /\ row = Reply!NoRow /\ replyAt = "idle" /\ path = "new" /\ item = Reply!NoRow
      /\ reply = NoText /\ finds \in BOOLEAN /\ posts = 0 /\ posted = {} /\ manual = 0
      /\ lapses = 0
  BY DEF TalkingInit, Reply!Init
<1>2. ReplyTyped
  BY <1>1, NoReplyRow DEF ReplyTyped, ReplyPlaces
<1>3. RowKnown /\ Current /\ Drafted
  BY <1>1, NoReplyRow DEF RowKnown, Current, Drafted
<1>4. Unposted /\ Published
  BY <1>1 DEF Unposted, Published, Reply!RevisionNamesText
<1> QED BY <1>2, <1>3, <1>4 DEF ReplyInv

LEMMA NoticeStep == ASSUME ReplyInv, Reply!Notice PROVE ReplyInv'
<1> USE DEF ReplyInv
<1>1. /\ Reply!Still /\ Reply!Go("archiving") /\ row' = row /\ row.state = "absent"
      /\ replyAt = "idle"
  BY NoReplyRow DEF Reply!Notice, Reply!On
<1>2. Current' /\ Drafted' /\ Unposted'
  BY <1>1, StillKeeps DEF Reply!Go, Current, Drafted, Unposted, RowKnown
<1>3. "archiving" \in ReplyPlaces \ {"idle", "listed", "filing"}
  BY DEF ReplyPlaces
<1> QED BY <1>1, <1>2, <1>3, GoKeeps, RowLeft, StillKeeps

LEMMA ObserveStep == ASSUME ReplyInv, Reply!Observe PROVE ReplyInv'
<1> USE DEF ReplyInv
<1>1. Reply!Still /\ replyAt = "archiving"
  BY DEF Reply!Observe, Reply!On
<1>2. CASE Reply!End("ignored") \/ Reply!DeferFree
  BY <1>1, <1>2, MarkKeeps, LeaveKeeps, StillKeeps, ReplyStateNames DEF Reply!End, Reply!DeferFree
<1>3. CASE /\ row' = Reply!Notified(Reply!Upsert(row, "context_building", FALSE, 0, now))
           /\ Reply!Go("context")
  <2> DEFINE r == Reply!Upsert(row, "context_building", FALSE, 0, now)
  <2>1. r \in ReplyRow /\ r.text = row.text /\ r.revision = row.revision /\ r.state # "absent"
    <3>1. row \in ReplyRow /\ now \in Nat /\ "context_building" \in ReplyState \ {"absent"}
      BY ReplyStateNames DEF ReplyTyped
    <3> QED BY <3>1, UpsertPlain
  <2>2. row' = [r EXCEPT !.notified = TRUE]
    BY <1>3 DEF Reply!Notified
  <2> HIDE DEF r
  <2>3. KeepsText /\ row'.state # "absent"
    BY <2>1, <2>2 DEF KeepsText, ReplyRow
  <2>4. Current' /\ Drafted' /\ Unposted'
    <3>1. replyAt' = "context" /\ UNCHANGED <<path, item, reply, finds, posts, posted, lapses>>
      BY <1>1, <1>3, StillKeeps DEF Reply!Go
    <3> QED BY <1>1, <2>3, <3>1 DEF Current, Drafted, Unposted
  <2>5. "context" \in ReplyPlaces \ {"idle", "listed", "filing"}
    BY DEF ReplyPlaces
  <2> QED BY <1>1, <1>3, <2>3, <2>4, <2>5, GoKeeps, StillKeeps
<1> QED BY <1>2, <1>3 DEF Reply!Observe

LEMMA BuildContextStep == ASSUME ReplyInv, Reply!BuildContext PROVE ReplyInv'
<1> USE DEF ReplyInv
<1>1. Reply!Still /\ replyAt = "context" /\ path = "new"
  BY DEF Reply!BuildContext, Reply!On
<1>2. CASE Reply!End("ignored") \/ Reply!DeferFree
  BY <1>1, <1>2, MarkKeeps, LeaveKeeps, StillKeeps, ReplyStateNames DEF Reply!End, Reply!DeferFree
<1>3. CASE Reply!Mark("generation_pending", FALSE) /\ Reply!Go("generating")
  <2>1. KeepsText /\ row'.state # "absent"
    BY <1>3, MarkKeeps, ReplyStateNames
  <2>2. Current' /\ Drafted' /\ Unposted'
    BY <1>1, <1>3, <2>1, StillKeeps DEF Reply!Go, Current, Drafted, Unposted
  <2>3. "generating" \in ReplyPlaces \ {"idle", "listed", "filing"}
    BY DEF ReplyPlaces
  <2> QED BY <1>1, <1>3, <2>1, <2>2, <2>3, GoKeeps, StillKeeps
<1> QED BY <1>2, <1>3 DEF Reply!BuildContext

\* The text the row gets, and which revision of it.
LEMMA SavedKeepsPublished ==
    ASSUME Published, ReplyTyped, RowKnown, NEW t \in Text, posted' = posted,
           row'.text = t, row'.revision = Reply!Save(row, t, now).revision
    PROVE  Published'
<1>1. /\ Reply!Save(row, t, now).revision >= row.revision
      /\ Reply!Save(row, t, now).revision = row.revision => row.text = t
      /\ Reply!Save(row, t, now) \in ReplyRow
  BY SaveRow DEF ReplyTyped, RowKnown
<1>2. row.revision \in Nat /\ row'.revision \in Nat
  BY <1>1 DEF ReplyTyped, ReplyRow
<1>3. ASSUME NEW p \in posted
      PROVE  p.revision <= row'.revision /\ (p.revision = row'.revision => p.text = row'.text)
  <2>1. p.revision \in Nat /\ p.revision <= row.revision
        /\ (p.revision = row.revision => p.text = row.text)
    BY DEF Published, ReplyTyped
  <2> QED BY <1>1, <1>2, <2>1
<1> QED BY <1>3 DEF Published, Reply!RevisionNamesText

LEMMA GenerateStep == ASSUME ReplyInv, Reply!Generate PROVE ReplyInv'
<1> USE DEF ReplyInv
<1>1. Reply!Still /\ replyAt = "generating" /\ path = "new"
  BY DEF Reply!Generate, Reply!On
<1>2. CASE Reply!Defer \/ Reply!End("ignored") \/ Reply!End("failed")
  BY <1>1, <1>2, MarkKeeps, LeaveKeeps, StillKeeps, ReplyStateNames DEF Reply!End, Reply!Defer
<1>3. ASSUME NEW text \in Text,
             row' = Reply!Upsert(Reply!Save(row, text, now), "safety_pending", FALSE, 0, now),
             reply' = text, replyAt' = "checking", UNCHANGED <<path, item>>
      PROVE  ReplyInv'
  <2> DEFINE r == Reply!Save(row, text, now)
  <2>1. r \in ReplyRow /\ r.text = text /\ r.revision > 0
    BY SaveRow DEF ReplyTyped, RowKnown
  <2> HIDE DEF r
  <2>2. row' \in ReplyRow /\ row'.text = text /\ row'.revision = r.revision /\ row'.state # "absent"
    <3>1. row' = Reply!Upsert(r, "safety_pending", FALSE, 0, now)
      BY <1>3 DEF r
    <3>2. now \in Nat /\ "safety_pending" \in ReplyState \ {"absent"}
      BY ReplyStateNames DEF ReplyTyped
    <3> QED BY <2>1, <3>1, <3>2, UpsertPlain
  <2>3. now' \in Nat /\ manual' \in Nat /\ UNCHANGED <<finds, posts, posted, lapses>>
    BY <1>1, StillKeeps
  <2>4. ReplyTyped'
    BY <1>3, <2>2, <2>3 DEF ReplyTyped, ReplyPlaces
  <2>5. text # NoText
    BY ReplyConstants
  <2>6. RowKnown' /\ Current' /\ Drafted'
    BY <1>1, <1>3, <2>1, <2>2, <2>5 DEF RowKnown, Current, Drafted
  <2>7. Unposted'
    BY <1>1, <1>3, <2>2, <2>3 DEF Unposted
  <2>8. Published'
    BY <2>2, <2>3, SavedKeepsPublished DEF r
  <2> QED BY <2>4, <2>6, <2>7, <2>8
<1> QED BY <1>2, <1>3 DEF Reply!Generate

LEMMA CheckStep == ASSUME ReplyInv, Reply!Check PROVE ReplyInv'
<1> USE DEF ReplyInv
<1>1. Reply!Still /\ replyAt = "checking" /\ path = "new"
  BY DEF Reply!Check, Reply!On
<1>2. CASE Reply!DeferFree
  BY <1>1, <1>2, MarkKeeps, LeaveKeeps, StillKeeps, ReplyStateNames DEF Reply!DeferFree
<1>3. CASE Reply!Mark("rejected", FALSE) /\ Reply!Go("rejecting")
  <2>1. KeepsText /\ row'.state # "absent"
    BY <1>3, MarkKeeps, ReplyStateNames
  <2>2. Current' /\ Drafted' /\ Unposted'
    BY <1>1, <1>3, <2>1, StillKeeps DEF Reply!Go, Current, Drafted, Unposted
  <2>3. "rejecting" \in ReplyPlaces \ {"idle", "listed", "filing"}
    BY DEF ReplyPlaces
  <2> QED BY <1>1, <1>3, <2>1, <2>2, <2>3, GoKeeps, StillKeeps
<1>4. CASE Reply!Mark("publish_pending", FALSE) /\ Reply!Go("posting")
  <2>1. KeepsText /\ row'.state # "absent"
    BY <1>4, MarkKeeps, ReplyStateNames
  <2>2. Current' /\ Drafted' /\ Unposted'
    BY <1>1, <1>4, <2>1, StillKeeps DEF Reply!Go, Current, Drafted, Unposted, KeepsText
  <2>3. "posting" \in ReplyPlaces \ {"idle", "listed", "filing"}
    BY DEF ReplyPlaces
  <2> QED BY <1>1, <1>4, <2>1, <2>2, <2>3, GoKeeps, StillKeeps
<1> QED BY <1>2, <1>3, <1>4 DEF Reply!Check

\* What ends in one of these is over for now.
LEMMA EndKeeps ==
    ASSUME ReplyInv, Reply!Still,
           \/ UNCHANGED row /\ Reply!Leave
           \/ Reply!Defer \/ Reply!DeferFree
           \/ \E s \in ReplyState \ {"absent"} : Reply!End(s)
           \/ Reply!Mark("retry_wait", TRUE) /\ Reply!Leave
    PROVE  ReplyInv'
<1>1. ReplyTyped
  BY DEF ReplyInv
<1>2. now' \in Nat /\ manual' \in Nat /\ UNCHANGED <<finds, posts, posted, lapses>>
  BY <1>1, StillKeeps
<1>3. Reply!Leave
  BY DEF Reply!Defer, Reply!DeferFree, Reply!End
<1>4. KeepsText
  <2>1. CASE UNCHANGED row
    BY <1>1, <2>1, RowLeft
  <2>2. CASE \E burn \in BOOLEAN : Reply!Mark("deferred", burn)
    BY <1>1, <2>2, MarkKeeps, ReplyStateNames
  <2>3. CASE \E s \in ReplyState \ {"absent"} : Reply!Mark(s, FALSE)
    BY <1>1, <2>3, MarkKeeps
  <2>4. CASE Reply!Mark("retry_wait", TRUE)
    BY <1>1, <2>4, MarkKeeps, ReplyStateNames
  <2> QED BY <2>1, <2>2, <2>3, <2>4, ReplyStateNames DEF Reply!Defer, Reply!DeferFree, Reply!End
<1> QED BY <1>2, <1>3, <1>4, LeaveKeeps

\* The row is left alone and the loop goes on.
LEMMA OnwardKeeps ==
    ASSUME ReplyInv, Reply!Still, UNCHANGED row,
           NEW place \in ReplyPlaces \ {"idle", "listed", "filing", "archiving"},
           Reply!Go(place), row.state # "absent", place = "intending" => path = "resend",
           Current', Drafted', Unposted'
    PROVE  ReplyInv'
<1>1. ReplyTyped /\ KeepsText
  BY RowLeft DEF ReplyInv
<1> QED BY <1>1, GoKeeps, StillKeeps

LEMMA StillPosts ==
    ASSUME ReplyTyped, Reply!Still, NEW place, Reply!Go(place)
    PROVE  replyAt' = place /\ UNCHANGED <<path, item, reply, finds, posts, posted, lapses>>
  BY StillKeeps DEF Reply!Go

LEMMA ListStep == ASSUME ReplyInv, Reply!List PROVE ReplyInv'
<1> USE DEF ReplyInv
<1>1. /\ replyAt = "idle" /\ item' = row /\ replyAt' = "listed" /\ UNCHANGED <<row, path, reply>>
      /\ row.state # "absent" /\ Reply!Still
  BY DEF Reply!List, Reply!On, Reply!Retryable, Reply!Stuck, Reply!RetryableStates,
     Reply!IntermediateStates
<1>2. now' \in Nat /\ manual' \in Nat /\ UNCHANGED <<finds, posts, posted, lapses>>
  BY <1>1, StillKeeps
<1>3. ReplyTyped'
  BY <1>1, <1>2 DEF ReplyTyped, ReplyPlaces
<1>4. RowKnown' /\ Current' /\ Drafted' /\ Unposted'
  BY <1>1, <1>2 DEF RowKnown, Current, Drafted, Unposted
<1>5. Published'
  BY <1>1, <1>2 DEF Published, Reply!RevisionNamesText
<1> QED BY <1>3, <1>4, <1>5

LEMMA TakeUpStep == ASSUME ReplyInv, Reply!TakeUp PROVE ReplyInv'
<1> USE DEF ReplyInv
<1>1. Reply!Still /\ replyAt = "listed" /\ item.text = row.text /\ row.state # "absent"
  BY DEF Reply!TakeUp, Reply!On, RowKnown
<1>2. now' \in Nat /\ manual' \in Nat /\ UNCHANGED <<finds, posts, posted, lapses>>
  BY <1>1, StillKeeps
<1>3. CASE UNCHANGED row /\ Reply!Leave
  BY <1>1, <1>3, EndKeeps
<1>4. ASSUME NEW wait \in Backoff, NEW r,
             r = IF item.state \in Reply!RetryableStates THEN row
                 ELSE Reply!Upsert(row, Reply!Relisted, FALSE, wait, now),
             \/ row' = Reply!Upsert(r, "failed", FALSE, 0, now) /\ Reply!Leave
             \/ row' = Reply!Upsert(r, "deferred", FALSE, wait, now) /\ Reply!Leave
             \/ /\ item.text # NoText /\ row' = r
                /\ replyAt' = "looking" /\ path' = "resend" /\ reply' = item.text
                /\ UNCHANGED item
             \/ /\ row' = r /\ replyAt' = "context" /\ path' = "redo" /\ UNCHANGED <<item, reply>>
      PROVE  ReplyInv'
  <2>1. Reply!Relisted \in ReplyState \ {"absent"}
    BY DEF Reply!Relisted, ReplyState, Reply!RetryableStates
  <2>2. row \in ReplyRow /\ now \in Nat /\ wait \in Nat /\ FALSE \in BOOLEAN
    BY ReplyConstants DEF ReplyTyped
  <2>3. /\ r \in ReplyRow /\ r.text = row.text /\ r.revision = row.revision
        /\ r.state # "absent"
    <3>1. CASE item.state \in Reply!RetryableStates
      BY <1>1, <1>4, <2>2, <3>1
    <3>2. CASE item.state \notin Reply!RetryableStates
      <4>1. r = Reply!Upsert(row, Reply!Relisted, FALSE, wait, now)
        BY <1>4, <3>2
      <4> QED BY <2>1, <2>2, <4>1, UpsertRow
    <3> QED BY <3>1, <3>2
  <2>4. CASE Reply!Leave /\ \/ row' = Reply!Upsert(r, "failed", FALSE, 0, now)
                            \/ row' = Reply!Upsert(r, "deferred", FALSE, wait, now)
    <3>1. "failed" \in ReplyState \ {"absent"} /\ "deferred" \in ReplyState \ {"absent"}
      BY ReplyStateNames
    <3>2. KeepsText
      <4>1. CASE row' = Reply!Upsert(r, "failed", FALSE, 0, now)
        BY <2>2, <2>3, <3>1, <4>1, UpsertPlain DEF KeepsText
      <4>2. CASE row' = Reply!Upsert(r, "deferred", FALSE, wait, now)
        BY <2>2, <2>3, <3>1, <4>2, UpsertRow DEF KeepsText
      <4> QED BY <2>4, <4>1, <4>2
    <3> QED BY <1>2, <2>4, <3>2, LeaveKeeps
  <2>5. CASE row' = r /\ \/ /\ item.text # NoText /\ replyAt' = "looking" /\ path' = "resend"
                            /\ reply' = item.text /\ UNCHANGED item
                         \/ /\ replyAt' = "context" /\ path' = "redo"
                            /\ UNCHANGED <<item, reply>>
    <3>1. KeepsText
      BY <2>3, <2>5 DEF KeepsText
    <3>2. ReplyTyped'
      BY <1>1, <1>2, <2>5, <3>1 DEF ReplyTyped, ReplyPlaces, KeepsText, ReplyRow
    <3>3. RowKnown' /\ Current' /\ Drafted'
      BY <1>1, <2>3, <2>5 DEF RowKnown, Current, Drafted
    <3>4. Unposted'
      BY <1>1, <1>2, <2>3, <2>5 DEF Unposted
    <3>5. Published'
      BY <1>2, <3>1, PublishedKept
    <3> QED BY <3>2, <3>3, <3>4, <3>5
  <2> QED BY <1>4, <2>4, <2>5
<1>5. CASE row.state \notin Reply!TerminalStates
  <2>1. PICK wait \in Backoff :
          LET r == IF item.state \in Reply!RetryableStates THEN row
                   ELSE Reply!Upsert(row, Reply!Relisted, FALSE, wait, now)
          IN  \/ row' = Reply!Upsert(r, "failed", FALSE, 0, now) /\ Reply!Leave
              \/ row' = Reply!Upsert(r, "deferred", FALSE, wait, now) /\ Reply!Leave
              \/ /\ item.text # NoText /\ row' = r
                 /\ replyAt' = "looking" /\ path' = "resend" /\ reply' = item.text
                 /\ UNCHANGED item
              \/ /\ row' = r /\ replyAt' = "context" /\ path' = "redo"
                 /\ UNCHANGED <<item, reply>>
    BY <1>5 DEF Reply!TakeUp
  <2> QED BY <2>1, <1>4
<1> QED BY <1>3, <1>5 DEF Reply!TakeUp

\* A found reply is overlooked: the post that may follow is one more.
LEMMA OverlookKeeps ==
    ASSUME ReplyInv, replyAt = "looking", Reply!Overlook,
           NEW place \in {"checking", "posting"}, Reply!Go(place),
           \/ path = "resend" /\ place = "checking"
           \/ path = "redo" /\ place = "posting"
    PROVE  ReplyInv'
<1> USE DEF ReplyInv
<1>1. /\ replyAt' = place /\ lapses' = lapses + 1
      /\ UNCHANGED <<path, item, reply, now, manual, finds, posts, posted>>
  BY DEF Reply!Go, Reply!Overlook, Reply!platform
<1>2. KeepsText
  BY RowLeft, MarkKeeps, ReplyStateNames DEF Reply!Overlook
<1>3. row.state # "absent" /\ row'.state # "absent"
  BY <1>2 DEF RowKnown, KeepsText
<1>4. Current' /\ Drafted'
  BY <1>1, <1>2 DEF Current, Drafted, KeepsText
<1>5. /\ finds => posts <= 1 + lapses
      /\ posts \in Nat /\ lapses \in Nat
  BY DEF Unposted, ReplyTyped
<1>6. lapses' \in Nat /\ (finds => posts <= lapses' /\ posts <= 1 + lapses')
  BY <1>1, <1>5
<1>7. Unposted'
  BY <1>1, <1>3, <1>6 DEF Unposted
<1>8. place \in ReplyPlaces \ {"idle", "listed", "filing"}
  BY DEF ReplyPlaces
<1>9. now' \in Nat /\ manual' \in Nat
  BY <1>1 DEF ReplyTyped
<1> QED BY <1>1, <1>2, <1>3, <1>4, <1>6, <1>7, <1>8, <1>9, GoKeeps

\* The looks at the thread and the checks: what follows a look that found
\* nothing is known to have nothing in the thread.
LEMMA LooksStep ==
    ASSUME ReplyInv,
           Reply!LookUp \/ Reply!Recheck \/ Reply!CheckAgain \/ Reply!LookUpAgain
    PROVE  ReplyInv'
<1> USE DEF ReplyInv
<1>1. /\ replyAt \in {"looking", "checking"} /\ path \in {"resend", "redo"}
      /\ row.state # "absent"
  BY DEF Reply!LookUp, Reply!Recheck, Reply!CheckAgain, Reply!LookUpAgain, Reply!On, RowKnown
<1>2. CASE Reply!Still /\ (Reply!DeferFree \/ Reply!End("published") \/ Reply!End("rejected"))
  BY <1>1, <1>2, EndKeeps, ReplyStateNames
<1>3. ASSUME NEW place \in {"checking", "intending", "posting", "looking"},
             Reply!Still, UNCHANGED row, Reply!Go(place),
             \/ path = "resend" /\ replyAt = "looking" /\ place = "checking" /\ Reply!NotSeen
             \/ path = "resend" /\ replyAt = "checking" /\ place = "intending"
             \/ path = "redo" /\ replyAt = "checking" /\ place = "looking"
             \/ path = "redo" /\ replyAt = "looking" /\ place = "posting" /\ Reply!NotSeen
      PROVE  ReplyInv'
  <2>1. replyAt' = place /\ UNCHANGED <<path, item, reply, finds, posts, posted, lapses>>
    BY <1>1, <1>3, StillPosts
  <2>2. Current' /\ Drafted'
    BY <1>3, <2>1 DEF Current, Drafted
  <2>3. Reply!NotSeen => (finds => posts <= lapses)
    BY DEF Reply!NotSeen, Reply!InThread, ReplyTyped
  <2>4. Unposted'
    BY <1>1, <1>3, <2>1, <2>3 DEF Unposted
  <2>5. place \in ReplyPlaces \ {"idle", "listed", "filing", "archiving"}
    BY <1>3 DEF ReplyPlaces
  <2> QED BY <1>1, <1>3, <2>2, <2>4, <2>5, OnwardKeeps
<1>4. CASE Reply!LookUp
  BY <1>2, <1>3, <1>4, OverlookKeeps DEF Reply!LookUp, Reply!On
<1>5. CASE Reply!Recheck
  BY <1>2, <1>3, <1>5 DEF Reply!Recheck, Reply!On
<1>6. CASE Reply!CheckAgain
  BY <1>2, <1>3, <1>6 DEF Reply!CheckAgain, Reply!On
<1>7. CASE Reply!LookUpAgain
  BY <1>2, <1>3, <1>7, OverlookKeeps DEF Reply!LookUpAgain, Reply!On
<1> QED BY <1>4, <1>5, <1>6, <1>7

LEMMA ArchiveIntentStep == ASSUME ReplyInv, Reply!ArchiveIntent PROVE ReplyInv'
<1> USE DEF ReplyInv
<1>1. Reply!Still /\ replyAt = "intending" /\ UNCHANGED row /\ row.state # "absent"
  BY DEF Reply!ArchiveIntent, Reply!On, RowKnown
<1>2. CASE Reply!Leave
  BY <1>1, <1>2, EndKeeps
<1>3. CASE Reply!Go("posting")
  <2>1. replyAt' = "posting" /\ UNCHANGED <<path, item, reply, finds, posts, posted, lapses>>
    BY <1>1, <1>3, StillPosts
  <2>2. path = "resend"
    BY <1>1 DEF RowKnown
  <2>3. Current' /\ Drafted' /\ Unposted'
    BY <1>1, <2>1, <2>2 DEF Current, Drafted, Unposted
  <2>4. "posting" \in ReplyPlaces \ {"idle", "listed", "filing", "archiving"}
    BY DEF ReplyPlaces
  <2> QED BY <1>1, <1>3, <2>3, <2>4, OnwardKeeps
<1> QED BY <1>2, <1>3 DEF Reply!ArchiveIntent

LEMMA RebuildStep == ASSUME ReplyInv, Reply!RebuildContext PROVE ReplyInv'
<1> USE DEF ReplyInv
<1>1. Reply!Still /\ replyAt = "context" /\ path = "redo" /\ row.state # "absent"
  BY DEF Reply!RebuildContext, Reply!On, RowKnown
<1>2. CASE Reply!DeferFree
  BY <1>1, <1>2, EndKeeps
<1>3. CASE UNCHANGED row /\ Reply!Go("generating")
  <2>1. replyAt' = "generating" /\ UNCHANGED <<path, item, reply, finds, posts, posted, lapses>>
    BY <1>1, <1>3, StillPosts
  <2>2. Current' /\ Drafted' /\ Unposted'
    BY <1>1, <1>3, <2>1 DEF Current, Drafted, Unposted
  <2>3. "generating" \in ReplyPlaces \ {"idle", "listed", "filing", "archiving"}
    BY DEF ReplyPlaces
  <2> QED BY <1>1, <1>3, <2>2, <2>3, OnwardKeeps
<1> QED BY <1>2, <1>3 DEF Reply!RebuildContext

LEMMA RegenerateStep == ASSUME ReplyInv, Reply!Regenerate PROVE ReplyInv'
<1> USE DEF ReplyInv
<1>1. Reply!Still /\ replyAt = "generating" /\ path = "redo" /\ row.state # "absent"
  BY DEF Reply!Regenerate, Reply!On, RowKnown
<1>2. CASE Reply!Defer \/ Reply!End("ignored") \/ Reply!End("failed")
  BY <1>1, <1>2, EndKeeps, ReplyStateNames
<1>3. ASSUME NEW text \in Text, reply' = text, replyAt' = "filing", UNCHANGED <<row, path, item>>
      PROVE  ReplyInv'
  <2>1. now' \in Nat /\ manual' \in Nat /\ UNCHANGED <<finds, posts, posted, lapses>>
    BY <1>1, StillKeeps
  <2>2. ReplyTyped'
    BY <1>3, <2>1 DEF ReplyTyped, ReplyPlaces
  <2>3. RowKnown' /\ Current' /\ Drafted'
    BY <1>1, <1>3, ReplyConstants DEF RowKnown, Current, Drafted
  <2>4. Unposted' /\ Published'
    BY <1>1, <1>3, <2>1 DEF Unposted, Published, Reply!RevisionNamesText
  <2> QED BY <2>2, <2>3, <2>4
<1> QED BY <1>2, <1>3 DEF Reply!Regenerate

LEMMA FileStep == ASSUME ReplyInv, Reply!FileIntent PROVE ReplyInv'
<1> USE DEF ReplyInv
<1>1. Reply!Still /\ replyAt = "filing" /\ reply # NoText
  BY DEF Reply!FileIntent, Reply!On, Drafted
<1>2. CASE Reply!DeferFree
  BY <1>1, <1>2, EndKeeps
<1>3. CASE row' = Reply!Save(row, reply, now) /\ Reply!Go("checking")
  <2>1. reply \in Text /\ row.state # "absent"
    BY <1>1 DEF ReplyTyped, RowKnown
  <2>2. /\ row' \in ReplyRow /\ row'.text = reply /\ row'.state = row.state /\ row'.revision > 0
    BY <1>3, <2>1, SaveRow DEF ReplyTyped, RowKnown
  <2>3. replyAt' = "checking" /\ UNCHANGED <<path, item, reply, finds, posts, posted, lapses>>
        /\ now' \in Nat /\ manual' \in Nat
    BY <1>1, <1>3, StillPosts, StillKeeps
  <2>4. ReplyTyped'
    BY <2>2, <2>3 DEF ReplyTyped, ReplyPlaces
  <2>5. RowKnown' /\ Current' /\ Drafted'
    BY <1>1, <2>1, <2>2, <2>3 DEF RowKnown, Current, Drafted
  <2>6. path = "redo"
    BY <1>1 DEF RowKnown
  <2>7. Unposted'
    BY <1>1, <2>1, <2>2, <2>3, <2>6 DEF Unposted
  <2>8. Published'
    BY <1>3, <2>1, <2>2, <2>3, SavedKeepsPublished
  <2> QED BY <2>4, <2>5, <2>7, <2>8
<1> QED BY <1>2, <1>3 DEF Reply!FileIntent

LEMMA PublishStep == ASSUME ReplyInv, Reply!Publish PROVE ReplyInv'
<1> USE DEF ReplyInv
<1> DEFINE p == [text |-> reply, revision |-> row.revision]
<1>1. /\ replyAt = "posting" /\ posts' = posts + 1 /\ posted' = posted \cup {p}
      /\ replyAt' = "posted" /\ UNCHANGED <<path, item, reply, row, finds, now, manual, lapses>>
  BY DEF Reply!Publish, Reply!On, Reply!Go, Reply!env
<1>2. reply = row.text /\ reply \in Text /\ row.revision \in Nat \ {0} /\ row.state # "absent"
  BY <1>1 DEF Current, ReplyTyped, RowKnown, ReplyRow
<1>3. p \in [text : Text, revision : Nat \ {0}] /\ p.revision = row.revision /\ p.text = row.text
  BY <1>2
<1> HIDE DEF p
<1>4. ReplyTyped'
  BY <1>1, <1>3 DEF ReplyTyped, ReplyPlaces
<1>5. RowKnown' /\ Current' /\ Drafted'
  BY <1>1, <1>2 DEF RowKnown, Current, Drafted
<1>6. Unposted'
  BY <1>1, <1>2 DEF Unposted, ReplyTyped
<1>7. Published'
  <2>1. \A q \in posted' : q.revision <= row.revision /\ (q.revision = row.revision => q.text = row.text)
    BY <1>1, <1>2, <1>3 DEF Published
  <2>2. \A q, s \in posted' : q.revision = s.revision => q.text = s.text
    BY <1>1, <1>3, <2>1 DEF Published, Reply!RevisionNamesText
  <2> QED BY <1>1, <2>1, <2>2 DEF Published, Reply!RevisionNamesText
<1> QED BY <1>4, <1>5, <1>6, <1>7

\* The refusals, the answers and the statements that raise.
LEMMA OverStep ==
    ASSUME ReplyInv,
           \/ Reply!ArchiveRejection \/ Reply!Accepted \/ Reply!Refused \/ Reply!NoAnswer
           \/ Reply!Unhandled
    PROVE  ReplyInv'
<1>1. Reply!Still
  BY DEF Reply!ArchiveRejection, Reply!Accepted, Reply!Refused, Reply!NoAnswer, Reply!Unhandled
<1>2. CASE Reply!ArchiveRejection
  BY <1>1, <1>2, EndKeeps DEF Reply!ArchiveRejection
<1>3. CASE Reply!Accepted
  BY <1>1, <1>3, EndKeeps, ReplyStateNames DEF Reply!Accepted
<1>4. CASE Reply!Refused
  BY <1>1, <1>4, EndKeeps, ReplyStateNames DEF Reply!Refused
<1>5. CASE Reply!NoAnswer
  BY <1>1, <1>5, EndKeeps, ReplyStateNames DEF Reply!NoAnswer
<1>6. CASE Reply!Unhandled
  BY <1>1, <1>6, EndKeeps DEF Reply!Unhandled, Reply!DeferFree
<1> QED BY <1>2, <1>3, <1>4, <1>5, <1>6

\* The row is queued again, by the recovery or by the operator, whatever the
\* loop is at: the text stays.
LEMMA QueueStep ==
    ASSUME ReplyInv, Reply!RecoverStuck \/ Reply!ManualRetry PROVE ReplyInv'
<1> USE DEF ReplyInv
<1>1. /\ now' = now /\ manual' \in Nat
      /\ UNCHANGED <<replyAt, path, item, reply, finds, posts, posted, lapses>>
  BY DEF Reply!RecoverStuck, Reply!ManualRetry, Reply!Still, Reply!work, Reply!platform,
     Reply!env, ReplyTyped
<1>2. KeepsText /\ row'.state # "absent" /\ row.state # "absent"
  <2>1. row \in ReplyRow /\ now \in Nat
    BY DEF ReplyTyped
  <2>2. CASE Reply!RecoverStuck
    BY <2>1, <2>2, UnstuckRow
       DEF Reply!RecoverStuck, KeepsText, Reply!Stuck, Reply!IntermediateStates
  <2>3. CASE Reply!ManualRetry
    BY <2>1, <2>3, RequeueRow DEF Reply!ManualRetry, KeepsText, Reply!CanRequeue
  <2> QED BY <2>2, <2>3
<1>3. ReplyTyped'
  BY <1>1, <1>2 DEF ReplyTyped, KeepsText
<1>4. RowKnown' /\ Current' /\ Drafted' /\ Unposted'
  BY <1>1, <1>2 DEF RowKnown, Current, Drafted, Unposted, KeepsText
<1>5. Published'
  BY <1>1, <1>2, PublishedKept
<1> QED BY <1>3, <1>4, <1>5

LEMMA ReplyWorldStep ==
    ASSUME ReplyInv, Reply!Tick \/ Reply!Crash \/ Reply!Boot PROVE ReplyInv'
<1> USE DEF ReplyInv
<1>1. row' = row /\ now' \in Nat /\ manual' = manual /\ UNCHANGED <<finds, posts, posted, lapses>>
  BY DEF Reply!Tick, Reply!Crash, Reply!Boot, Reply!platform, Reply!env, ReplyTyped
<1>2. CASE Reply!Leave
  BY <1>1, <1>2, RowLeft, LeaveKeeps DEF ReplyTyped
<1>3. CASE UNCHANGED <<replyAt, path, item, reply>>
  <2>1. ReplyTyped'
    BY <1>1, <1>3 DEF ReplyTyped
  <2>2. RowKnown' /\ Current' /\ Drafted' /\ Unposted' /\ Published'
    BY <1>1, <1>3 DEF RowKnown, Current, Drafted, Unposted, Published, Reply!RevisionNamesText
  <2> QED BY <2>1, <2>2
<1> QED BY <1>2, <1>3 DEF Reply!Tick, Reply!Crash, Reply!Boot, Reply!work

LEMMA ReplyStep == ASSUME ReplyInv, Reply!Next PROVE ReplyInv'
<1>1. CASE Reply!Handle
  BY <1>1, ObserveStep, BuildContextStep, GenerateStep, CheckStep, TakeUpStep, LooksStep,
     ArchiveIntentStep, RebuildStep, RegenerateStep, FileStep, PublishStep, OverStep
     DEF Reply!Handle
<1> QED BY <1>1, NoticeStep, ListStep, QueueStep, OverStep, ReplyWorldStep DEF Reply!Next

\* In the other behaviours nothing is replied.
RepliesKnown ==
    /\ part = "reply" => ReplyInv
    /\ part # "reply" => posts = 0 /\ posted = {} /\ lapses = 0

LEMMA RepliesKept == TalkingSpec => []RepliesKnown
<1>1. TalkingInit => RepliesKnown
  BY ReplyStart DEF RepliesKnown, TalkingInit, Reply!Init
<1>2. ASSUME RepliesKnown, [TalkingNext]_allVars PROVE RepliesKnown'
  <2>1. CASE InReply /\ Reply!Next
    BY <1>2, <2>1, ReplyStep DEF RepliesKnown, InReply
  <2>2. CASE InComment \/ InPrivate
    BY <1>2, <2>2 DEF RepliesKnown, InComment, InPrivate, replyVars
  <2>3. CASE UNCHANGED allVars
    <3>1. UNCHANGED <<part, now, manual, row, replyAt, path, item, reply, finds, posts, posted, lapses>>
      BY <2>3 DEF allVars, replyVars
    <3>2. ReplyInv => ReplyInv'
      BY <3>1 DEF ReplyInv, ReplyTyped, RowKnown, Current, Drafted, Unposted, Published,
         Reply!RevisionNamesText
    <3> QED BY <1>2, <3>1, <3>2 DEF RepliesKnown
  <2> QED BY <1>2, <2>1, <2>2, <2>3 DEF TalkingNext
<1> QED BY <1>1, <1>2, PTL DEF TalkingSpec

\* As long as the lookup in the thread finds what was posted, the user gets one
\* reply, and at most one more for each time a reply was found but recording it
\* raised: a new comment has none yet, and whatever is resent or written anew
\* after a crash, a lost answer, a raising statement or a manual retry is looked
\* for first.  And a revision names one text: what is posted is the row's.
THEOREM RepliedOnceAlways == TalkingSpec => []RepliedOnce
<1>1. RepliesKnown => RepliedOnce
  <2> SUFFICES ASSUME RepliesKnown PROVE RepliedOnce
    OBVIOUS
  <2>1. CASE part = "reply"
    BY <2>1 DEF RepliesKnown, ReplyInv, Unposted, Published, RepliedOnce, Reply!RepliedOnce
  <2>2. CASE part # "reply"
    BY <2>2 DEF RepliesKnown, RepliedOnce, Reply!RepliedOnce, Reply!RevisionNamesText
  <2> QED BY <2>1, <2>2
<1> QED BY <1>1, RepliesKept, PTL

-----------------------------------------------------------------------------
(* The statements of the store of private messages.                        *)

LEMMA PmConstants ==
    /\ MaxAttempts \in Nat /\ DeferWait \in Nat /\ StuckAfter \in Nat /\ PmBackoff \subseteq Nat
    /\ MaxMessages \in Nat /\ Window \in Nat /\ Msg = 1 .. MaxMessages
  BY TalkingAssumption DEF Private!PmAssumption, Private!PrivateAssumption, Msg, Private!Msg

LEMMA PmStatusNames ==
    /\ {"absent", "discovered", "context_building", "generation_pending", "safety_pending",
        "publish_pending", "published", "ignored", "rejected", "failed", "deferred", "retry_wait",
        "result_unknown"} \subseteq PmStatus
    /\ PmStatus \subseteq
       {"absent", "discovered", "context_building", "generation_pending", "safety_pending",
        "publish_pending", "published", "ignored", "rejected", "failed", "deferred", "retry_wait",
        "result_unknown"}
  BY DEF PmStatus, Private!Statuses, Private!Terminal, Private!Intermediate

LEMMA MoveRow ==
    ASSUME NEW r \in PmRow, NEW s \in PmStatus, NEW n \in Nat
    PROVE  /\ Private!Move(r, s, n) \in PmRow /\ Private!Move(r, s, n).status = s
           /\ Private!Move(r, s, n).written = r.written
<1>1. n \in Int
  OBVIOUS
<1> QED BY <1>1 DEF Private!Move, PmRow

LEMMA DueRow ==
    ASSUME NEW r \in PmRow, NEW s \in PmStatus, NEW n \in Nat, NEW next \in Int
    PROVE  LET q == [Private!Move(r, s, n) EXCEPT !.nextRetryAt = next]
           IN  q \in PmRow /\ q.status = s /\ q.written = r.written
  BY MoveRow DEF PmRow

LEMMA DeferredRow ==
    ASSUME NEW r \in PmRow, NEW n \in Nat
    PROVE  /\ Private!MarkDeferred(r, n) \in PmRow
           /\ Private!MarkDeferred(r, n).status = "deferred"
           /\ Private!MarkDeferred(r, n).written = r.written
<1>1. "deferred" \in PmStatus /\ n + DeferWait \in Int
  BY PmStatusNames, PmConstants
<1> QED BY <1>1, DueRow DEF Private!MarkDeferred

LEMMA PublishedRow ==
    ASSUME NEW r \in PmRow, NEW n \in Nat
    PROVE  /\ Private!MarkPublished(r, n) \in PmRow
           /\ Private!MarkPublished(r, n).status = "published"
           /\ Private!MarkPublished(r, n).written = r.written
<1>1. "published" \in PmStatus /\ Private!NoTime \in Int
  BY PmStatusNames DEF Private!NoTime
<1> QED BY <1>1, DueRow DEF Private!MarkPublished

LEMMA RetryRow ==
    ASSUME NEW r \in PmRow, NEW n \in Nat, NEW wait \in Nat
    PROVE  /\ Private!MarkRetryWait(r, wait, n) \in PmRow
           /\ Private!MarkRetryWait(r, wait, n).status \in {"failed", "retry_wait"}
           /\ Private!MarkRetryWait(r, wait, n).written = r.written
<1>1. "failed" \in PmStatus /\ "retry_wait" \in PmStatus /\ n + wait \in Int
  BY PmStatusNames
<1> DEFINE f == Private!Move(r, "failed", n)
           w == Private!Move(r, "retry_wait", n)
<1>2. f \in PmRow /\ f.status = "failed" /\ f.written = r.written
      /\ w \in PmRow /\ w.status = "retry_wait" /\ w.written = r.written
  BY <1>1, MoveRow
<1>3. Private!MarkRetryWait(r, wait, n) =
        IF r.attempt + 1 >= MaxAttempts THEN [f EXCEPT !.attempt = f.attempt + 1]
        ELSE [w EXCEPT !.attempt = w.attempt + 1, !.nextRetryAt = n + wait]
  BY DEF Private!MarkRetryWait
<1> HIDE DEF f, w
<1>4. [f EXCEPT !.attempt = f.attempt + 1] \in PmRow
      /\ [f EXCEPT !.attempt = f.attempt + 1].status = "failed"
      /\ [f EXCEPT !.attempt = f.attempt + 1].written = r.written
  BY <1>2 DEF PmRow
<1>5. [w EXCEPT !.attempt = w.attempt + 1, !.nextRetryAt = n + wait] \in PmRow
      /\ [w EXCEPT !.attempt = w.attempt + 1, !.nextRetryAt = n + wait].status = "retry_wait"
      /\ [w EXCEPT !.attempt = w.attempt + 1, !.nextRetryAt = n + wait].written = r.written
  <2> DEFINE due == n + wait
             tries == w.attempt + 1
  <2>1. due \in Int /\ tries \in Nat
    BY <1>1, <1>2 DEF PmRow
  <2> HIDE DEF due, tries
  <2>2. [w EXCEPT !.attempt = tries, !.nextRetryAt = due] \in PmRow
    BY <1>2, <2>1 DEF PmRow
  <2>3. [w EXCEPT !.attempt = tries, !.nextRetryAt = due].status = "retry_wait"
        /\ [w EXCEPT !.attempt = tries, !.nextRetryAt = due].written = r.written
    BY <1>2 DEF PmRow
  <2> QED BY <2>2, <2>3 DEF due, tries
<1> QED BY <1>3, <1>4, <1>5

LEMMA ArchivedRow ==
    ASSUME NEW r \in PmRow, NEW missing \in BOOLEAN, NEW n \in Nat
    PROVE  /\ Private!MarkArchive(r, missing, n) \in PmRow
           /\ Private!MarkArchive(r, missing, n).status = r.status
           /\ Private!MarkArchive(r, missing, n).written = r.written
<1>1. n \in Int
  OBVIOUS
<1> QED BY <1>1 DEF Private!MarkArchive, PmRow

LEMMA TextRow ==
    ASSUME NEW r \in PmRow, NEW n \in Nat
    PROVE  /\ Private!SaveText(r, n) \in PmRow /\ Private!SaveText(r, n).written = TRUE
<1>1. n \in Int
  OBVIOUS
<1> QED BY <1>1 DEF Private!SaveText, PmRow

LEMMA NoPmRow ==
    /\ Private!NoRow \in PmRow /\ Private!NoRow.status = "absent"
    /\ Private!NoRow.written = FALSE
<1>1. "absent" \in PmStatus /\ -1 \in Int
  BY PmStatusNames
<1> QED BY <1>1 DEF Private!NoRow, Private!NoTime, PmRow

LEMMA DiscoveredRow ==
    ASSUME NEW r \in PmRow, NEW n \in Nat
    PROVE  /\ Private!Discovered(r, n) \in PmRow
           /\ r.status # "absent" => Private!Discovered(r, n) = r
           /\ r.status = "absent" => Private!Discovered(r, n).status = "discovered"
                                     /\ Private!Discovered(r, n).written = FALSE
<1>1. "discovered" \in PmStatus /\ n \in Int
  BY PmStatusNames
<1> DEFINE q == [Private!NoRow EXCEPT !.status = "discovered", !.updatedAt = n]
<1>2. q \in PmRow /\ q.status = "discovered" /\ q.written = FALSE
  BY <1>1, NoPmRow DEF PmRow
<1> HIDE DEF q
<1>3. Private!Discovered(r, n) = IF r.status = "absent" THEN q ELSE r
  BY DEF Private!Discovered, q
<1> QED BY <1>2, <1>3

LEMMA RecoveredRow ==
    ASSUME NEW r \in PmRow, NEW n \in Nat
    PROVE  /\ Private!Recovered(r, n) \in PmRow
           /\ Private!Recovered(r, n).written = r.written
           /\ \/ Private!Recovered(r, n) = r
              \/ r.status = "publish_pending" /\ Private!Recovered(r, n).status = "result_unknown"
              \/ /\ r.status \in {"discovered", "context_building", "generation_pending",
                                  "safety_pending"}
                 /\ Private!Recovered(r, n).status = "deferred"
<1> DEFINE u == [Private!Move(r, "result_unknown", n) EXCEPT !.nextRetryAt = Private!NoTime]
           d == [Private!Move(r, "deferred", n) EXCEPT !.nextRetryAt = n]
<1>1. u \in PmRow /\ u.status = "result_unknown" /\ u.written = r.written
      /\ d \in PmRow /\ d.status = "deferred" /\ d.written = r.written
  <2>1. "result_unknown" \in PmStatus /\ "deferred" \in PmStatus /\ Private!NoTime \in Int
        /\ n \in Int
    BY PmStatusNames DEF Private!NoTime
  <2> QED BY <2>1, DueRow
<1> HIDE DEF u, d
<1>2. Private!Recovered(r, n) =
        IF ~(r.status \in Private!Intermediate /\ r.updatedAt < n - StuckAfter) THEN r
        ELSE IF r.status = "publish_pending" THEN u ELSE d
  BY DEF Private!Recovered, u, d
<1> QED BY <1>1, <1>2 DEF Private!Intermediate

\* The table lets a row go from s to t, and what has been dealt with is not new
\* again.
Fresh == {"absent", "discovered", "generation_pending"}
Goes(r, q) ==
    /\ q.status = r.status \/ r.status = "absent" \/ Private!CanMove(r, q.status)
    /\ r.status \notin Fresh => q.status \notin Fresh

Arrows == {<<"discovered", "ignored">>, <<"discovered", "generation_pending">>,
           <<"discovered", "deferred">>, <<"context_building", "deferred">>,
           <<"generation_pending", "safety_pending">>, <<"generation_pending", "deferred">>,
           <<"generation_pending", "ignored">>, <<"generation_pending", "failed">>,
           <<"safety_pending", "publish_pending">>, <<"safety_pending", "rejected">>,
           <<"safety_pending", "deferred">>,
           <<"publish_pending", "published">>, <<"publish_pending", "retry_wait">>,
           <<"publish_pending", "failed">>, <<"publish_pending", "result_unknown">>,
           <<"retry_wait", "safety_pending">>, <<"deferred", "safety_pending">>,
           <<"deferred", "ignored">>, <<"deferred", "failed">>}

LEMMA TableRows ==
    /\ {"ignored", "generation_pending", "deferred"} \subseteq Private!Transitions["discovered"]
    /\ "deferred" \in Private!Transitions["context_building"]
    /\ {"safety_pending", "deferred", "ignored", "failed"}
         \subseteq Private!Transitions["generation_pending"]
    /\ {"publish_pending", "rejected", "deferred"} \subseteq Private!Transitions["safety_pending"]
    /\ {"published", "retry_wait", "result_unknown", "failed"}
         \subseteq Private!Transitions["publish_pending"]
    /\ "safety_pending" \in Private!Transitions["retry_wait"]
    /\ {"safety_pending", "ignored", "failed"} \subseteq Private!Transitions["deferred"]
<1>1. {"discovered", "context_building", "generation_pending", "safety_pending", "publish_pending",
       "retry_wait", "deferred", "ignored", "failed"} \subseteq Private!Statuses
  BY DEF Private!Statuses, Private!Terminal, Private!Intermediate
<1> QED BY <1>1 DEF Private!Transitions

LEMMA ArrowGoes ==
    ASSUME NEW r \in PmRow, NEW q \in PmRow,
           q.status = r.status \/ r.status = "absent" \/ <<r.status, q.status>> \in Arrows,
           r.status = "absent" => q.status \in {"absent", "discovered"}
    PROVE  Goes(r, q)
<1>1. CASE q.status = r.status \/ r.status = "absent"
  BY <1>1 DEF Goes, Fresh
<1>2. CASE <<r.status, q.status>> \in Arrows
  <2>1. r.status \in Private!Statuses \ {"result_unknown"}
    BY <1>2 DEF Arrows, Private!Statuses, Private!Terminal, Private!Intermediate
  <2>2. q.status \in Private!Transitions[r.status]
    BY <1>2, TableRows DEF Arrows
  <2>3. r.status \notin Fresh => q.status \notin Fresh
    BY <1>2 DEF Arrows, Fresh
  <2> QED BY <2>1, <2>2, <2>3 DEF Goes, Private!CanMove
<1> QED BY <1>1, <1>2

-----------------------------------------------------------------------------
(* The steps of the loop on a message.                                     *)

Moves == \A m \in Msg : Goes(messages[m], messages'[m])

\* The message at hand gets a row, and the loop goes on with it or to the next.
LEMMA PutKeeps ==
    ASSUME PrivateInv, pmAt \in Working, NEW r \in PmRow,
           messages' = [messages EXCEPT ![pmOn] = r], Goes(messages[pmOn], r), Texted(r),
           answered[pmOn] > 0 => r.status \in Out, r.written => pmOn \in observed',
           observed \subseteq observed', observed' \subseteq Msg,
           UNCHANGED <<now, crashes, arrived, readTo, answered, pass, queue, seen>>,
           \/ pmAt' = "taking" /\ pmOn' = 0
           \/ /\ pmOn' = pmOn /\ pmAt' \in Working /\ AtRow(pmAt', pass, r.status)
              /\ pmAt' \in Heard => pmOn \in observed'
              /\ pmAt' = "sending" => answered[pmOn] = 0
    PROVE  PrivateInv' /\ Moves
<1> USE DEF PrivateInv
<1>1. pmOn \in Msg /\ messages \in [Msg -> PmRow] /\ 0 \notin Msg
  BY PmConstants DEF PrivateTyped, Working
<1>2. /\ messages' \in [Msg -> PmRow] /\ messages'[pmOn] = r
      /\ \A m \in Msg : m # pmOn => messages'[m] = messages[m]
  BY <1>1
<1>3. PrivateTyped'
  BY <1>1, <1>2 DEF PrivateTyped, Working, PmPlaces
<1>4. Placed'
  BY <1>1, <1>2 DEF Placed, PrivateTyped, Working
<1>5. PmTexted'
  BY <1>2 DEF PmTexted
<1>6. PmAnswered'
  <2> SUFFICES ASSUME NEW m \in Msg, answered[m] > 0
               PROVE  answered[m] = 1 /\ messages'[m].status \in Out
                      /\ ~(pmOn' = m /\ pmAt' = "sending")
    BY DEF PmAnswered, Sent
  <2>1. answered[m] = 1 /\ messages[m].status \in Out
    BY DEF PmAnswered, Sent
  <2>2. CASE m = pmOn
    BY <1>1, <1>2, <2>1, <2>2
  <2>3. CASE m # pmOn
    BY <1>1, <1>2, <2>1, <2>3
  <2> QED BY <2>2, <2>3
<1>7. Remembered'
  <2>1. \A m \in Msg : messages'[m].written \/ answered[m] > 0 => m \in observed'
    BY <1>2 DEF Remembered
  <2>2. pmAt' \in Heard => pmOn' \in observed'
    BY DEF Heard
  <2> QED BY <2>1, <2>2 DEF Remembered
<1>8. Moves
  BY <1>2 DEF Moves, Goes
<1> QED BY <1>3, <1>4, <1>5, <1>6, <1>7, <1>8

\* The rows stay, and so does what is known of them; the loop moves.
LEMMA RowsLeft ==
    ASSUME PrivateInv, UNCHANGED <<messages, answered>>, observed \subseteq observed',
           PrivateTyped', Placed',
           pmAt' \in Heard => pmOn' \in observed', pmAt' = "sending" => UNCHANGED <<pmAt, pmOn>>
    PROVE  PrivateInv' /\ Moves
<1>1. PmTexted' /\ PmAnswered' /\ Remembered' /\ Moves
  BY DEF PrivateInv, PmTexted, PmAnswered, Sent, Remembered, Moves, Goes
<1> QED BY <1>1 DEF PrivateInv

\* What is known of the message at hand.
LEMMA AtHand ==
    ASSUME PrivateInv, pmAt \in Working
    PROVE  /\ pmOn \in Msg /\ messages[pmOn] \in PmRow /\ now \in Nat
           /\ AtRow(pmAt, pass, messages[pmOn].status) /\ pass \in {"poll", "retry"}
           /\ pmAt \in Heard => pmOn \in observed
           /\ messages[pmOn].written => pmOn \in observed
           /\ Texted(messages[pmOn])
           /\ answered[pmOn] > 0 => messages[pmOn].status \in Out /\ pmAt # "sending"
           /\ answered[pmOn] \in Nat
           /\ observed \subseteq Msg
  BY DEF PrivateInv, PrivateTyped, Working, Placed, Remembered, PmTexted, PmAnswered, Sent

Framed == UNCHANGED <<now, crashes, arrived, readTo, answered, pass, queue, seen>>

LEMMA ArchiveNewStep == ASSUME PrivateInv, Private!ArchiveNew PROVE PrivateInv' /\ Moves
<1>1. /\ pmAt = "archiving" /\ pass = "poll" /\ observed' = observed \cup {pmOn}
      /\ pmAt' = "history" /\ pmOn' = pmOn /\ messages' = messages /\ Framed
  BY DEF Private!ArchiveNew, Private!Loop, Private!Go, Private!Time, Private!platform, Framed
<1>2. pmAt \in Working /\ "history" \in Working
  BY <1>1 DEF Working, PmPlaces
<1>3. PrivateTyped'
  BY <1>1, <1>2, AtHand DEF Framed, PrivateInv, PrivateTyped, Working
<1>4. Placed'
  BY <1>1, <1>2, AtHand DEF Framed, PrivateInv, Placed, AtRow
<1> QED BY <1>1, <1>3, <1>4, RowsLeft DEF Framed

\* What every step on the message at hand has in common: the row goes along an
\* arrow of the table, or only its marks change.
LEMMA Along ==
    ASSUME PrivateInv, pmAt \in Working, NEW r \in PmRow,
           r.status = messages[pmOn].status \/ <<messages[pmOn].status, r.status>> \in Arrows
    PROVE  Goes(messages[pmOn], r)
<1>1. messages[pmOn] \in PmRow
  BY AtHand
<1>2. messages[pmOn].status = "absent" => r.status = "absent"
  BY DEF Arrows
<1> QED BY <1>1, <1>2, ArrowGoes

\* The message is left with the row r.
LEMMA LeaveWith ==
    ASSUME PrivateInv, pmAt \in Working, NEW r \in PmRow,
           messages' = [messages EXCEPT ![pmOn] = r], r.written = messages[pmOn].written,
           r.status = messages[pmOn].status \/ <<messages[pmOn].status, r.status>> \in Arrows,
           Texted(r), answered[pmOn] > 0 => r.status \in Out,
           observed' \in {observed, observed \cup {pmOn}}, Framed, Private!NextMessage
    PROVE  PrivateInv' /\ Moves
<1>1. Goes(messages[pmOn], r)
  BY Along
<1>2. /\ observed \subseteq observed' /\ observed' \subseteq Msg
      /\ r.written => pmOn \in observed'
  BY AtHand
<1>3. pmAt' = "taking" /\ pmOn' = 0
  BY DEF Private!NextMessage
<1> QED BY <1>1, <1>2, <1>3, PutKeeps DEF Framed

\* The loop goes on with the message and its new row.
LEMMA GoWith ==
    ASSUME PrivateInv, pmAt \in Working, NEW r \in PmRow, NEW place \in Working,
           messages' = [messages EXCEPT ![pmOn] = r],
           r.status = messages[pmOn].status \/ <<messages[pmOn].status, r.status>> \in Arrows,
           Texted(r), answered[pmOn] > 0 => r.status \in Out,
           observed' \in {observed, observed \cup {pmOn}}, pmOn \in observed',
           Framed, Private!Go(place), AtRow(place, pass, r.status),
           place = "sending" => answered[pmOn] = 0
    PROVE  PrivateInv' /\ Moves
<1>1. Goes(messages[pmOn], r)
  BY Along
<1>2. /\ observed \subseteq observed' /\ observed' \subseteq Msg
  BY AtHand
<1>3. pmAt' = place /\ pmOn' = pmOn
  BY DEF Private!Go
<1> QED BY <1>1, <1>2, <1>3, PutKeeps DEF Framed

LEMMA StillFrame == ASSUME Private!Still PROVE
    UNCHANGED <<now, crashes, arrived, readTo, answered, observed, alive, paused>>
  BY DEF Private!Still, Private!Time, Private!platform
LEMMA NextFrame == ASSUME Private!NextMessage PROVE UNCHANGED <<pass, queue, seen, clean>>
  BY DEF Private!NextMessage
LEMMA GoFrame == ASSUME NEW place, Private!Go(place) PROVE
    pmAt' = place /\ UNCHANGED <<pmOn, pass, queue, seen, clean>>
  BY DEF Private!Go

LEMMA ArchiveHistoryStep ==
    ASSUME PrivateInv, Private!ArchiveHistory PROVE PrivateInv' /\ Moves
<1>1. pmAt = "history" /\ Private!Still
  BY DEF Private!ArchiveHistory, Private!Loop
<1>2. pmAt \in Working /\ "generating" \in Working
  BY <1>1 DEF Working, PmPlaces
<1>3. /\ pmOn \in Msg /\ messages[pmOn] \in PmRow /\ now \in Nat
      /\ messages[pmOn].status = "discovered" /\ pass = "poll" /\ pmOn \in observed
      /\ ~(answered[pmOn] > 0)
  BY <1>1, <1>2, AtHand DEF AtRow, Heard, Out
<1>4. "ignored" \in PmStatus /\ "generation_pending" \in PmStatus
  BY PmStatusNames
<1>5. CASE Private!Put(Private!Move(Private!Mine, "ignored", now)) /\ Private!NextMessage
  <2> DEFINE r == Private!Move(messages[pmOn], "ignored", now)
  <2>1. r \in PmRow /\ r.status = "ignored" /\ r.written = messages[pmOn].written
    BY <1>3, <1>4, MoveRow
  <2>2. messages' = [messages EXCEPT ![pmOn] = r]
    BY <1>5 DEF Private!Put, Private!Mine
  <2> HIDE DEF r
  <2>3. <<messages[pmOn].status, r.status>> \in Arrows /\ Texted(r)
    BY <1>3, <2>1 DEF Arrows, Texted
  <2> QED BY <1>1, <1>2, <1>3, <1>5, <2>1, <2>2, <2>3, LeaveWith, StillFrame, NextFrame DEF Framed
<1>6. CASE Private!Put(Private!Move(Private!Mine, "generation_pending", now))
           /\ Private!Go("generating")
  <2> DEFINE r == Private!Move(messages[pmOn], "generation_pending", now)
  <2>1. r \in PmRow /\ r.status = "generation_pending" /\ r.written = messages[pmOn].written
    BY <1>3, <1>4, MoveRow
  <2>2. messages' = [messages EXCEPT ![pmOn] = r]
    BY <1>6 DEF Private!Put, Private!Mine
  <2> HIDE DEF r
  <2>3. <<messages[pmOn].status, r.status>> \in Arrows /\ Texted(r)
        /\ AtRow("generating", pass, r.status)
    BY <1>3, <2>1 DEF Arrows, Texted, AtRow
  <2>4. Framed /\ observed' = observed
    BY <1>1, <1>6, StillFrame, GoFrame DEF Framed
  <2> QED BY <1>2, <1>3, <1>6, <2>1, <2>2, <2>3, <2>4, GoWith
<1> QED BY <1>5, <1>6 DEF Private!ArchiveHistory

LEMMA ArchiveAgainStep == ASSUME PrivateInv, Private!ArchiveAgain PROVE PrivateInv' /\ Moves
<1>1. /\ pmAt = "archiving" /\ pass = "retry" /\ observed' = observed \cup {pmOn}
      /\ Private!Go("generating")
      /\ messages' = [messages EXCEPT ![pmOn] = Private!MarkArchive(messages[pmOn], FALSE, now)]
      /\ UNCHANGED <<now, crashes, arrived, readTo, answered>>
  BY DEF Private!ArchiveAgain, Private!Loop, Private!Put, Private!Mine, Private!Time,
         Private!platform
<1>2. pmAt \in Working /\ "generating" \in Working
  BY <1>1 DEF Working, PmPlaces
<1>3. /\ messages[pmOn] \in PmRow /\ now \in Nat /\ messages[pmOn].status = "deferred"
      /\ ~(answered[pmOn] > 0)
  BY <1>1, <1>2, AtHand DEF AtRow, Out
<1> DEFINE r == Private!MarkArchive(messages[pmOn], FALSE, now)
<1>4. r \in PmRow /\ r.status = "deferred"
  BY <1>3, ArchivedRow
<1>5. messages' = [messages EXCEPT ![pmOn] = r]
  BY <1>1
<1> HIDE DEF r
<1>6. Texted(r) /\ AtRow("generating", pass, r.status) /\ Framed
  BY <1>1, <1>4, GoFrame DEF Texted, AtRow, Framed
<1> QED BY <1>1, <1>2, <1>3, <1>4, <1>5, <1>6, GoWith

LEMMA ArchiveFailsStep == ASSUME PrivateInv, Private!ArchiveFails PROVE PrivateInv' /\ Moves
<1> DEFINE d == Private!MarkDeferred(messages[pmOn], now)
           r == Private!MarkArchive(d, TRUE, now)
<1>1. /\ pmAt \in {"archiving", "history"} /\ observed' \in {observed, observed \cup {pmOn}}
      /\ Private!NextMessage /\ messages' = [messages EXCEPT ![pmOn] = r]
      /\ UNCHANGED <<now, crashes, arrived, readTo, answered>>
  BY DEF Private!ArchiveFails, Private!Loop, Private!Put, Private!Mine, Private!Time,
         Private!platform
<1>2. pmAt \in Working
  BY <1>1 DEF Working, PmPlaces
<1>3. /\ messages[pmOn] \in PmRow /\ now \in Nat
      /\ messages[pmOn].status \in {"discovered", "deferred"} /\ ~(answered[pmOn] > 0)
  BY <1>1, <1>2, AtHand DEF AtRow, Out
<1>4. r \in PmRow /\ r.status = "deferred" /\ r.written = messages[pmOn].written
  <2>1. d \in PmRow /\ d.status = "deferred" /\ d.written = messages[pmOn].written
    BY <1>3, DeferredRow
  <2> HIDE DEF d
  <2> QED BY <1>3, <2>1, ArchivedRow
<1> HIDE DEF r
<1>5. (r.status = messages[pmOn].status \/ <<messages[pmOn].status, r.status>> \in Arrows)
      /\ Texted(r)
  BY <1>3, <1>4 DEF Arrows, Texted
<1>6. Framed
  BY <1>1, NextFrame DEF Framed
<1> QED BY <1>1, <1>2, <1>3, <1>4, <1>5, <1>6, LeaveWith

LEMMA GenerateNothingStep ==
    ASSUME PrivateInv, Private!GenerateNothing PROVE PrivateInv' /\ Moves
<1>1. pmAt = "generating" /\ Private!Still /\ Private!NextMessage
  BY DEF Private!GenerateNothing, Private!Loop
<1>2. pmAt \in Working
  BY <1>1 DEF Working, PmPlaces
<1>3. /\ messages[pmOn] \in PmRow /\ now \in Nat
      /\ messages[pmOn].status \in {"generation_pending", "deferred"} /\ ~(answered[pmOn] > 0)
  BY <1>1, <1>2, AtHand DEF AtRow, Out
<1>4. Framed /\ observed' = observed
  BY <1>1, StillFrame, NextFrame DEF Framed
<1>5. "ignored" \in PmStatus /\ "failed" \in PmStatus
  BY PmStatusNames
<1>6. CASE Private!Put(Private!MarkDeferred(Private!Mine, now))
  <2> DEFINE r == Private!MarkDeferred(messages[pmOn], now)
  <2>1. r \in PmRow /\ r.status = "deferred" /\ r.written = messages[pmOn].written
    BY <1>3, DeferredRow
  <2>2. messages' = [messages EXCEPT ![pmOn] = r]
    BY <1>6 DEF Private!Put, Private!Mine
  <2> HIDE DEF r
  <2>3. (r.status = messages[pmOn].status \/ <<messages[pmOn].status, r.status>> \in Arrows)
        /\ Texted(r)
    BY <1>3, <2>1 DEF Arrows, Texted
  <2> QED BY <1>1, <1>2, <1>3, <1>4, <2>1, <2>2, <2>3, LeaveWith
<1>7. ASSUME NEW final \in {"ignored", "failed"}, Private!Put(Private!Move(Private!Mine, final, now))
      PROVE  PrivateInv' /\ Moves
  <2> DEFINE r == Private!Move(messages[pmOn], final, now)
  <2>1. final \in PmStatus
    BY <1>5
  <2>2. r \in PmRow /\ r.status = final /\ r.written = messages[pmOn].written
    BY <1>3, <2>1, MoveRow
  <2>3. messages' = [messages EXCEPT ![pmOn] = r]
    BY <1>7 DEF Private!Put, Private!Mine
  <2> HIDE DEF r
  <2>4. <<messages[pmOn].status, r.status>> \in Arrows /\ Texted(r)
    BY <1>3, <2>2 DEF Arrows, Texted
  <2> QED BY <1>1, <1>2, <1>3, <1>4, <2>2, <2>3, <2>4, LeaveWith
<1> QED BY <1>6, <1>7 DEF Private!GenerateNothing

LEMMA PmGenerateStep == ASSUME PrivateInv, Private!Generate PROVE PrivateInv' /\ Moves
<1> DEFINE t == Private!SaveText(messages[pmOn], now)
           r == Private!Move(t, "safety_pending", now)
<1>1. /\ pmAt = "generating" /\ Private!Still /\ Private!Go("vetting")
      /\ messages' = [messages EXCEPT ![pmOn] = r]
  BY DEF Private!Generate, Private!Loop, Private!Put, Private!Mine
<1>2. pmAt \in Working /\ "vetting" \in Working
  BY <1>1 DEF Working, PmPlaces
<1>3. /\ messages[pmOn] \in PmRow /\ now \in Nat /\ pmOn \in observed
      /\ messages[pmOn].status \in {"generation_pending", "deferred"} /\ ~(answered[pmOn] > 0)
  BY <1>1, <1>2, AtHand DEF AtRow, Out, Heard
<1>4. r \in PmRow /\ r.status = "safety_pending" /\ r.written = TRUE
  <2>1. t \in PmRow /\ t.written = TRUE /\ "safety_pending" \in PmStatus
    BY <1>3, TextRow, PmStatusNames
  <2> HIDE DEF t
  <2> QED BY <1>3, <2>1, MoveRow
<1> HIDE DEF r
<1>5. <<messages[pmOn].status, r.status>> \in Arrows /\ Texted(r)
      /\ AtRow("vetting", pass, r.status)
  BY <1>3, <1>4 DEF Arrows, Texted, AtRow
<1>6. Framed /\ observed' = observed
  BY <1>1, StillFrame, GoFrame DEF Framed
<1>7. "vetting" # "sending"
  OBVIOUS
<1> QED BY <1>1, <1>2, <1>3, <1>4, <1>5, <1>6, <1>7, GoWith

\* A refused text: rejected for good, or deferred.
LEMMA RefusedStep ==
    ASSUME PrivateInv, pmAt \in {"vetting", "rejected", "deferred"}, Private!Still,
           Private!NextMessage,
           \/ Private!Put(Private!Move(Private!Mine, "rejected", now))
           \/ Private!Put(Private!MarkDeferred(Private!Mine, now))
    PROVE  PrivateInv' /\ Moves
<1>1. pmAt \in Working
  BY DEF Working, PmPlaces
<1>2. /\ messages[pmOn] \in PmRow /\ now \in Nat
      /\ messages[pmOn].status = "safety_pending" /\ ~(answered[pmOn] > 0)
  BY <1>1, AtHand DEF AtRow, Out
<1>3. Framed /\ observed' = observed
  BY StillFrame, NextFrame DEF Framed
<1>4. CASE Private!Put(Private!MarkDeferred(Private!Mine, now))
  <2> DEFINE r == Private!MarkDeferred(messages[pmOn], now)
  <2>1. r \in PmRow /\ r.status = "deferred" /\ r.written = messages[pmOn].written
    BY <1>2, DeferredRow
  <2>2. messages' = [messages EXCEPT ![pmOn] = r]
    BY <1>4 DEF Private!Put, Private!Mine
  <2> HIDE DEF r
  <2>3. <<messages[pmOn].status, r.status>> \in Arrows /\ Texted(r)
    BY <1>2, <2>1 DEF Arrows, Texted
  <2> QED BY <1>1, <1>2, <1>3, <2>1, <2>2, <2>3, LeaveWith
<1>5. CASE Private!Put(Private!Move(Private!Mine, "rejected", now))
  <2> DEFINE r == Private!Move(messages[pmOn], "rejected", now)
  <2>1. "rejected" \in PmStatus
    BY PmStatusNames
  <2>2. r \in PmRow /\ r.status = "rejected" /\ r.written = messages[pmOn].written
    BY <1>2, <2>1, MoveRow
  <2>3. messages' = [messages EXCEPT ![pmOn] = r]
    BY <1>5 DEF Private!Put, Private!Mine
  <2> HIDE DEF r
  <2>4. <<messages[pmOn].status, r.status>> \in Arrows /\ Texted(r)
    BY <1>2, <2>2 DEF Arrows, Texted
  <2> QED BY <1>1, <1>2, <1>3, <2>2, <2>3, <2>4, LeaveWith
<1> QED BY <1>4, <1>5

LEMMA RefuseStep ==
    ASSUME PrivateInv, pmAt = "vetting", Private!Still,
           NEW status \in {"rejected", "deferred"}, Private!Refuse(status)
    PROVE  PrivateInv' /\ Moves
<1>1. CASE pass = "poll"
  <2>1. messages' = messages /\ Private!Go(status)
    BY <1>1 DEF Private!Refuse
  <2>2. pmAt \in Working /\ status \in Working
    BY DEF Working, PmPlaces
  <2>3. /\ messages[pmOn] \in PmRow /\ messages[pmOn].status = "safety_pending"
        /\ pmOn \in observed /\ Texted(messages[pmOn]) /\ ~(answered[pmOn] > 0)
        /\ messages \in [Msg -> PmRow]
    BY <2>2, AtHand DEF AtRow, Out, Heard, PrivateInv, PrivateTyped
  <2>4. messages' = [messages EXCEPT ![pmOn] = messages[pmOn]]
    BY <2>1, <2>3
  <2>5. AtRow(status, pass, messages[pmOn].status)
    BY <1>1, <2>3 DEF AtRow
  <2>6. Framed /\ observed' = observed
    BY <2>1, StillFrame, GoFrame DEF Framed
  <2> QED BY <2>1, <2>2, <2>3, <2>4, <2>5, <2>6, GoWith
<1>2. CASE pass # "poll"
  BY <1>2, RefusedStep DEF Private!Refuse
<1> QED BY <1>1, <1>2

LEMMA VetStep == ASSUME PrivateInv, Private!Vet PROVE PrivateInv' /\ Moves
<1>1. pmAt = "vetting" /\ Private!Still
  BY DEF Private!Vet, Private!Loop
<1>2. CASE Private!Refuse("rejected") \/ Private!Refuse("deferred")
  BY <1>1, <1>2, RefuseStep
<1>3. CASE Private!Put(Private!Move(Private!Mine, "publish_pending", now)) /\ Private!Go("sending")
  <2>1. pmAt \in Working /\ "sending" \in Working
    BY <1>1 DEF Working, PmPlaces
  <2>2. /\ messages[pmOn] \in PmRow /\ now \in Nat /\ pmOn \in observed
        /\ messages[pmOn].status = "safety_pending" /\ Texted(messages[pmOn])
        /\ answered[pmOn] \in Nat /\ ~(answered[pmOn] > 0)
    BY <1>1, <2>1, AtHand DEF AtRow, Out, Heard
  <2> DEFINE r == Private!Move(messages[pmOn], "publish_pending", now)
  <2>3. "publish_pending" \in PmStatus
    BY PmStatusNames
  <2>4. r \in PmRow /\ r.status = "publish_pending" /\ r.written = messages[pmOn].written
    BY <2>2, <2>3, MoveRow
  <2>5. messages' = [messages EXCEPT ![pmOn] = r]
    BY <1>3 DEF Private!Put, Private!Mine
  <2> HIDE DEF r
  <2>6. <<messages[pmOn].status, r.status>> \in Arrows /\ Texted(r)
        /\ AtRow("sending", pass, r.status)
    BY <2>2, <2>4 DEF Arrows, Texted, AtRow
  <2>7. Framed /\ observed' = observed
    BY <1>1, <1>3, StillFrame, GoFrame DEF Framed
  <2>8. answered[pmOn] = 0
    BY <2>2
  <2> QED BY <1>3, <2>1, <2>2, <2>4, <2>5, <2>6, <2>7, <2>8, GoWith
<1> QED BY <1>2, <1>3 DEF Private!Vet

LEMMA MarkRefusedStep == ASSUME PrivateInv, Private!MarkRefused PROVE PrivateInv' /\ Moves
<1>1. pmAt \in {"rejected", "deferred"} /\ Private!Still /\ Private!NextMessage
  BY DEF Private!MarkRefused, Private!Loop
<1>2. \/ Private!Put(Private!Move(Private!Mine, "rejected", now))
      \/ Private!Put(Private!MarkDeferred(Private!Mine, now))
  BY DEF Private!MarkRefused
<1> QED BY <1>1, <1>2, RefusedStep

LEMMA SendStep == ASSUME PrivateInv, Private!Send PROVE PrivateInv' /\ Moves
<1>1. /\ pmAt = "sending" /\ pmAt' = "sent" /\ answered' = [answered EXCEPT ![pmOn] = @ + 1]
      /\ UNCHANGED <<now, crashes, arrived, readTo, messages, observed, pmOn, pass, queue, seen>>
  BY DEF Private!Send, Private!Loop, Private!Go, Private!Time
<1>2. pmAt \in Working /\ "sent" \in Working
  BY <1>1 DEF Working, PmPlaces
<1>3. /\ pmOn \in Msg /\ messages[pmOn].status = "publish_pending" /\ pmOn \in observed
      /\ answered[pmOn] = 0
  BY <1>1, <1>2, AtHand DEF AtRow, Heard
<1>4. /\ answered \in [Msg -> Nat] /\ answered'[pmOn] = 1
      /\ \A m \in Msg : m # pmOn => answered'[m] = answered[m]
  BY <1>1, <1>3 DEF PrivateInv, PrivateTyped
<1>5. PrivateTyped'
  <2>1. answered' \in [Msg -> Nat]
    BY <1>1, <1>3, <1>4
  <2> QED BY <1>1, <1>2, <1>3, <2>1 DEF PrivateInv, PrivateTyped, Working
<1>6. Placed'
  BY <1>1, <1>2 DEF PrivateInv, Placed, AtRow, Working
<1>7. PmTexted' /\ Moves
  BY <1>1 DEF PrivateInv, PmTexted, Moves, Goes
<1>8. PmAnswered'
  BY <1>1, <1>3, <1>4 DEF PrivateInv, PmAnswered, Sent, Out
<1>9. Remembered'
  BY <1>1, <1>3, <1>4 DEF PrivateInv, Remembered, Heard
<1> QED BY <1>5, <1>6, <1>7, <1>8, <1>9 DEF PrivateInv

LEMMA ConfirmStep == ASSUME PrivateInv, Private!Confirm PROVE PrivateInv' /\ Moves
<1>1. pmAt = "sent" /\ Private!Still /\ Private!Go("remembering")
  BY DEF Private!Confirm, Private!Loop
<1>2. pmAt \in Working /\ "remembering" \in Working
  BY <1>1 DEF Working, PmPlaces
<1>3. /\ messages[pmOn] \in PmRow /\ now \in Nat /\ pmOn \in observed
      /\ messages[pmOn].status = "publish_pending"
  BY <1>1, <1>2, AtHand DEF AtRow, Heard
<1> DEFINE r == Private!MarkPublished(messages[pmOn], now)
<1>4. r \in PmRow /\ r.status = "published"
  BY <1>3, PublishedRow
<1>5. messages' = [messages EXCEPT ![pmOn] = r]
  BY DEF Private!Confirm, Private!Put, Private!Mine
<1> HIDE DEF r
<1>6. <<messages[pmOn].status, r.status>> \in Arrows /\ Texted(r)
      /\ AtRow("remembering", pass, r.status) /\ r.status \in Out
  BY <1>3, <1>4 DEF Arrows, Texted, AtRow, Out
<1>7. Framed /\ observed' = observed /\ "remembering" # "sending"
  BY <1>1, StillFrame, GoFrame DEF Framed
<1> QED BY <1>1, <1>2, <1>3, <1>4, <1>5, <1>6, <1>7, GoWith

LEMMA DeclineStep == ASSUME PrivateInv, Private!Decline PROVE PrivateInv' /\ Moves
<1>1. pmAt = "sending" /\ Private!Still /\ Private!NextMessage
  BY DEF Private!Decline, Private!Loop
<1>2. pmAt \in Working
  BY <1>1 DEF Working, PmPlaces
<1>3. /\ messages[pmOn] \in PmRow /\ now \in Nat
      /\ messages[pmOn].status = "publish_pending" /\ Texted(messages[pmOn])
      /\ ~(answered[pmOn] > 0)
  BY <1>1, <1>2, AtHand DEF AtRow
<1>4. PICK wait \in PmBackoff : Private!Put(Private!MarkRetryWait(Private!Mine, wait, now))
  BY DEF Private!Decline
<1> DEFINE r == Private!MarkRetryWait(messages[pmOn], wait, now)
<1>5. wait \in Nat
  BY PmConstants
<1>6. r \in PmRow /\ r.status \in {"failed", "retry_wait"} /\ r.written = messages[pmOn].written
  BY <1>3, <1>5, RetryRow
<1>7. messages' = [messages EXCEPT ![pmOn] = r]
  BY <1>4 DEF Private!Put, Private!Mine
<1> HIDE DEF r
<1>8. <<messages[pmOn].status, r.status>> \in Arrows /\ Texted(r)
  BY <1>3, <1>6 DEF Arrows, Texted
<1>9. Framed /\ observed' = observed
  BY <1>1, StillFrame, NextFrame DEF Framed
<1> QED BY <1>1, <1>2, <1>3, <1>6, <1>7, <1>8, <1>9, LeaveWith

LEMMA LoseStep == ASSUME PrivateInv, Private!Lose PROVE PrivateInv' /\ Moves
<1>1. pmAt \in {"sending", "sent"} /\ Private!Still /\ Private!NextMessage
  BY DEF Private!Lose, Private!Loop
<1>2. pmAt \in Working
  BY <1>1 DEF Working, PmPlaces
<1>3. /\ messages[pmOn] \in PmRow /\ now \in Nat
      /\ messages[pmOn].status = "publish_pending"
  BY <1>1, <1>2, AtHand DEF AtRow
<1> DEFINE r == Private!Move(messages[pmOn], "result_unknown", now)
<1>4. "result_unknown" \in PmStatus
  BY PmStatusNames
<1>5. r \in PmRow /\ r.status = "result_unknown" /\ r.written = messages[pmOn].written
  BY <1>3, <1>4, MoveRow
<1>6. messages' = [messages EXCEPT ![pmOn] = r]
  BY DEF Private!Lose, Private!Put, Private!Mine
<1> HIDE DEF r
<1>7. <<messages[pmOn].status, r.status>> \in Arrows /\ Texted(r) /\ r.status \in Out
  BY <1>3, <1>5 DEF Arrows, Texted, Out
<1>8. Framed /\ observed' = observed
  BY <1>1, StillFrame, NextFrame DEF Framed
<1> QED BY <1>1, <1>2, <1>3, <1>5, <1>6, <1>7, <1>8, LeaveWith

LEMMA RememberStep == ASSUME PrivateInv, Private!Remember PROVE PrivateInv' /\ Moves
<1>1. /\ pmAt = "remembering" /\ Private!NextMessage
      /\ UNCHANGED <<now, crashes, arrived, readTo, answered, observed>>
  BY DEF Private!Remember, Private!Loop, Private!Time, Private!platform
<1>2. pmAt \in Working
  BY <1>1 DEF Working, PmPlaces
<1>3. /\ messages[pmOn] \in PmRow /\ now \in Nat /\ messages[pmOn].status = "published"
      /\ messages \in [Msg -> PmRow]
  BY <1>1, <1>2, AtHand DEF AtRow, PrivateInv, PrivateTyped
<1>4. PICK r \in PmRow : /\ messages' = [messages EXCEPT ![pmOn] = r]
                         /\ r.status = "published" /\ r.written = messages[pmOn].written
  <2>1. CASE messages' = messages
    <3>1. messages' = [messages EXCEPT ![pmOn] = messages[pmOn]]
      BY <1>3, <2>1
    <3> QED BY <1>3, <3>1
  <2>2. CASE Private!Put(Private!MarkArchive(Private!Mine, TRUE, now))
    <3> DEFINE q == Private!MarkArchive(messages[pmOn], TRUE, now)
    <3>1. q \in PmRow /\ q.status = "published" /\ q.written = messages[pmOn].written
      BY <1>3, ArchivedRow
    <3>2. messages' = [messages EXCEPT ![pmOn] = q]
      BY <2>2 DEF Private!Put, Private!Mine
    <3> HIDE DEF q
    <3> QED BY <3>1, <3>2
  <2> QED BY <2>1, <2>2 DEF Private!Remember
<1>5. Texted(r) /\ r.status \in Out /\ Framed
  BY <1>1, <1>4, NextFrame DEF Texted, Out, Framed
<1> QED BY <1>1, <1>2, <1>3, <1>4, <1>5, LeaveWith

-----------------------------------------------------------------------------
(* The steps of the passes, and of the world.                              *)

\* Steps that leave the rows, and leave the loop where it is or take it from
\* the message at hand.
LEMMA Elsewhere ==
    ASSUME PrivateInv, UNCHANGED <<messages, answered, observed>>, PrivateTyped',
           \/ UNCHANGED <<pmAt, pmOn, pass, queue>>
           \/ /\ pmAt' \notin Working /\ pmOn' \in {0, pmOn}
              /\ \/ queue' = {}
                 \/ queue' = queue /\ pass' = pass /\ pmAt' = "taking"
    PROVE  PrivateInv' /\ Moves
<1>1. 0 \notin Msg
  BY PmConstants
<1>2. Placed'
  BY <1>1 DEF PrivateInv, PrivateTyped, Placed, Working, PmPlaces
<1>3. pmAt' \in Heard => pmOn' \in observed'
  BY DEF PrivateInv, Remembered, Heard, Working, PmPlaces
<1>4. pmAt' = "sending" => UNCHANGED <<pmAt, pmOn>>
  BY DEF Working, PmPlaces
<1> QED BY <1>2, <1>3, <1>4, RowsLeft

LEMMA RaiseStep == ASSUME PrivateInv, Private!Raise PROVE PrivateInv' /\ Moves
<1>1. /\ pmAt' = "taking" /\ pmOn' = 0 /\ UNCHANGED <<pass, queue, seen, messages>>
      /\ UNCHANGED <<now, crashes, arrived, readTo, answered, observed>>
  BY StillFrame DEF Private!Raise
<1>2. "taking" \notin Working /\ "taking" \in PmPlaces
  BY DEF Working, PmPlaces
<1>3. PrivateTyped'
  BY <1>1, <1>2 DEF PrivateInv, PrivateTyped, Working
<1> QED BY <1>1, <1>2, <1>3, Elsewhere

LEMMA BeginRetryStep == ASSUME PrivateInv, Private!BeginRetry PROVE PrivateInv' /\ Moves
<1>1. /\ pmAt = "idle" /\ pmAt' = "repairing" /\ UNCHANGED <<pmOn, pass, queue, seen, messages>>
      /\ UNCHANGED <<now, crashes, arrived, readTo, answered, observed>>
  BY StillFrame, GoFrame DEF Private!BeginRetry, Private!Loop
<1>2. "repairing" \notin Working /\ "repairing" \in PmPlaces /\ queue = {}
  BY <1>1 DEF Working, PmPlaces, PrivateInv, Placed
<1>3. PrivateTyped'
  BY <1>1, <1>2 DEF PrivateInv, PrivateTyped, Working
<1> QED BY <1>1, <1>2, <1>3, Elsewhere

LEMMA EndPassStep == ASSUME PrivateInv, Private!EndPass PROVE PrivateInv' /\ Moves
<1>1. /\ pmAt = "taking" /\ pmAt' \in {"acking", "idle"} /\ queue = {}
      /\ UNCHANGED <<pmOn, pass, queue, seen, messages>>
      /\ UNCHANGED <<now, crashes, arrived, readTo, answered, observed>>
  BY StillFrame, GoFrame DEF Private!EndPass, Private!Loop
<1>2. pmAt' \notin Working /\ pmAt' \in PmPlaces
  BY <1>1 DEF Working, PmPlaces
<1>3. PrivateTyped'
  BY <1>1, <1>2 DEF PrivateInv, PrivateTyped, Working
<1> QED BY <1>1, <1>2, <1>3, Elsewhere

LEMMA AckStep == ASSUME PrivateInv, Private!Ack PROVE PrivateInv' /\ Moves
<1>1. /\ pmAt = "acking" /\ pmAt' = "idle" /\ UNCHANGED <<pmOn, pass, queue, seen, messages>>
      /\ UNCHANGED <<now, crashes, arrived, answered, observed>>
  BY GoFrame DEF Private!Ack, Private!Loop, Private!Time
<1>2. "idle" \notin Working /\ "idle" \in PmPlaces /\ queue = {}
  BY <1>1 DEF Working, PmPlaces, PrivateInv, Placed
<1>3. PrivateTyped'
  BY <1>1, <1>2 DEF PrivateInv, PrivateTyped, Working
<1> QED BY <1>1, <1>2, <1>3, Elsewhere

LEMMA PmWorldStep ==
    ASSUME PrivateInv, Private!Arrive \/ Private!Pause \/ Private!Tick \/ Private!Boot
    PROVE  PrivateInv' /\ Moves
<1>1. /\ UNCHANGED <<pmAt, pmOn, pass, queue, seen, messages, answered, observed, readTo, crashes>>
      /\ arrived' = arrived \/ (arrived < MaxMessages /\ arrived' = arrived + 1)
      /\ now' = now \/ now' = now + 1
  BY DEF Private!Arrive, Private!Pause, Private!Tick, Private!Boot, Private!Time,
         Private!platform, Private!loop
<1>2. arrived' \in Nat /\ arrived' <= MaxMessages /\ now' \in Nat
  BY <1>1, PmConstants DEF PrivateInv, PrivateTyped
<1>3. PrivateTyped'
  BY <1>1, <1>2 DEF PrivateInv, PrivateTyped
<1> QED BY <1>1, <1>3, Elsewhere

LEMMA CrashStep == ASSUME PrivateInv, Private!Crash PROVE PrivateInv' /\ Moves
<1>1. /\ pmAt' = "idle" /\ pass' = "poll" /\ pmOn' = 0 /\ queue' = {} /\ seen' = {}
      /\ crashes' = crashes + 1
      /\ UNCHANGED <<now, arrived, readTo, messages, answered, observed>>
  BY DEF Private!Crash, Private!platform
<1>2. "idle" \notin Working /\ "idle" \in PmPlaces
  BY DEF Working, PmPlaces
<1>3. crashes' \in Nat
  BY <1>1 DEF PrivateInv, PrivateTyped
<1>4. PrivateTyped'
  BY <1>1, <1>2, <1>3 DEF PrivateInv, PrivateTyped
<1> QED BY <1>1, <1>2, <1>4, Elsewhere

\* Rows change, each along the table.
LEMMA RowsMove ==
    ASSUME PrivateInv, PrivateTyped', Placed', UNCHANGED <<answered, observed>>,
           \A m \in Msg : /\ Goes(messages[m], messages'[m]) /\ Texted(messages'[m])
                          /\ answered[m] > 0 => messages'[m].status \in Out
                          /\ messages'[m].written => m \in observed,
           pmAt' \in Heard => pmOn' \in observed, pmAt' # "sending"
    PROVE  PrivateInv' /\ Moves
<1>1. PmTexted' /\ Moves
  BY DEF PmTexted, Moves
<1>2. PmAnswered'
  BY DEF PrivateInv, PmAnswered, Sent
<1>3. Remembered'
  BY DEF PrivateInv, Remembered
<1> QED BY <1>1, <1>2, <1>3 DEF PrivateInv

\* A row that stays needs no more.
LEMMA RowStays ==
    ASSUME PrivateInv, NEW m \in Msg, messages'[m] = messages[m]
    PROVE  /\ Goes(messages[m], messages'[m]) /\ Texted(messages'[m])
           /\ answered[m] > 0 => messages'[m].status \in Out
           /\ messages'[m].written => m \in observed
  BY DEF PrivateInv, Goes, PmTexted, PmAnswered, Sent, Remembered

\* A row that is new is discovered.
LEMMA RowFound ==
    ASSUME PrivateInv, NEW m \in Msg, messages'[m] = Private!Discovered(messages[m], now)
    PROVE  /\ Goes(messages[m], messages'[m]) /\ Texted(messages'[m])
           /\ answered[m] > 0 => messages'[m].status \in Out
           /\ messages'[m].written => m \in observed
           /\ messages'[m] \in PmRow
           /\ messages[m].status \in {"absent", "discovered"} =>
                messages'[m].status = "discovered"
           /\ messages[m].status # "absent" => messages'[m] = messages[m]
<1>1. messages[m] \in PmRow /\ now \in Nat
  BY DEF PrivateInv, PrivateTyped
<1> DEFINE q == Private!Discovered(messages[m], now)
<1>2. /\ messages'[m] \in PmRow
      /\ messages[m].status # "absent" => messages'[m] = messages[m]
      /\ messages[m].status = "absent" => messages'[m].status = "discovered"
                                          /\ messages'[m].written = FALSE
  <2>1. /\ q \in PmRow
        /\ messages[m].status # "absent" => q = messages[m]
        /\ messages[m].status = "absent" => q.status = "discovered" /\ q.written = FALSE
    BY <1>1, DiscoveredRow
  <2>2. messages'[m] = q
    OBVIOUS
  <2> HIDE DEF q
  <2> QED BY <2>1, <2>2
<1>3. CASE messages[m].status # "absent"
  BY <1>2, <1>3, RowStays
<1>4. CASE messages[m].status = "absent"
  <2>1. ~(answered[m] > 0)
    BY <1>4 DEF PrivateInv, PmAnswered, Sent, Out
  <2> QED BY <1>2, <1>4, <2>1 DEF Goes, Texted, Fresh
<1> QED BY <1>3, <1>4, <1>2

LEMMA FetchRows ==
    ASSUME NEW n, NEW m \in Private!Found(n) PROVE m \in Msg
  BY DEF Private!Found, Msg

LEMMA FetchStep == ASSUME PrivateInv, Private!Fetch PROVE PrivateInv' /\ Moves
<1>1. PICK n \in Private!Max({1, Window - Private!Own}) .. Window :
        /\ seen' = Private!Found(n) /\ queue' = Private!InBatch(Private!Found(n))
        /\ messages' = [m \in Private!Msg |->
                          IF m \in Private!Found(n) \ Private!InBatch(Private!Found(n))
                          THEN Private!Discovered(messages[m], now) ELSE messages[m]]
  BY DEF Private!Fetch
<1>2. /\ pmAt = "idle" /\ pmAt' = "taking" /\ pass' = "poll" /\ pmOn' = 0
      /\ UNCHANGED <<now, crashes, arrived, readTo, answered, observed>>
  BY StillFrame DEF Private!Fetch, Private!Loop
<1>3. seen' \subseteq Msg /\ queue' \subseteq Msg
  BY <1>1, FetchRows DEF Private!InBatch
<1>4. \A m \in Msg : \/ messages'[m] = messages[m]
                     \/ messages'[m] = Private!Discovered(messages[m], now)
  BY <1>1 DEF Msg
<1>5. \A m \in Msg : messages'[m] \in PmRow
  BY <1>4, RowFound DEF PrivateInv, PrivateTyped
<1>6. messages' \in [Msg -> PmRow]
  <2>1. DOMAIN messages' = Msg /\ messages' = [m \in Msg |-> messages'[m]]
    BY <1>1 DEF Msg
  <2> QED BY <1>5, <2>1
<1>7. "taking" \notin Working /\ "taking" \in PmPlaces /\ "taking" \notin Heard
      /\ "taking" # "sending" /\ 0 \notin Msg
  BY PmConstants DEF Working, PmPlaces, Heard
<1>8. PrivateTyped'
  BY <1>2, <1>3, <1>6, <1>7 DEF PrivateInv, PrivateTyped
<1>9. Placed'
  BY <1>2, <1>3, <1>7 DEF Placed
<1>10. \A m \in Msg : /\ Goes(messages[m], messages'[m]) /\ Texted(messages'[m])
                      /\ answered[m] > 0 => messages'[m].status \in Out
                      /\ messages'[m].written => m \in observed
  BY <1>4, RowStays, RowFound
<1> QED BY <1>2, <1>7, <1>8, <1>9, <1>10, RowsMove

LEMMA TakeNewStep ==
    ASSUME PrivateInv, NEW m \in Msg, Private!TakeNew(m) PROVE PrivateInv' /\ Moves
<1>1. /\ pmAt = "taking" /\ pass = "poll" /\ m \in queue /\ queue' = queue \ {m}
      /\ messages' = [messages EXCEPT ![m] = Private!Discovered(messages[m], now)]
      /\ UNCHANGED <<pass, seen, now, crashes, arrived, readTo, answered, observed>>
  BY StillFrame DEF Private!TakeNew, Private!Loop
<1>2. \/ messages[m].status \in {"absent", "discovered"} /\ pmAt' = "archiving" /\ pmOn' = m
      \/ UNCHANGED <<pmAt, pmOn>>
  BY DEF Private!TakeNew
<1>3. messages \in [Msg -> PmRow]
  BY DEF PrivateInv, PrivateTyped
<1>4. /\ messages'[m] = Private!Discovered(messages[m], now)
      /\ \A k \in Msg : k # m => messages'[k] = messages[k]
  BY <1>1, <1>3
<1>5. /\ messages'[m] \in PmRow
      /\ messages[m].status \in {"absent", "discovered"} => messages'[m].status = "discovered"
  BY <1>4, RowFound
<1>6. messages' \in [Msg -> PmRow]
  BY <1>1, <1>3, <1>4, <1>5
<1>7. "taking" \notin Working /\ "archiving" \in Working /\ "archiving" \in PmPlaces
      /\ "taking" \notin Heard /\ "archiving" \notin Heard
  BY DEF Working, PmPlaces, Heard
<1>8. PrivateTyped'
  BY <1>1, <1>2, <1>6, <1>7, PmConstants DEF PrivateInv, PrivateTyped, Working
<1>9. Placed'
  BY <1>1, <1>2, <1>5, <1>7 DEF PrivateInv, Placed, AtRow
<1>10. \A k \in Msg : /\ Goes(messages[k], messages'[k]) /\ Texted(messages'[k])
                      /\ answered[k] > 0 => messages'[k].status \in Out
                      /\ messages'[k].written => k \in observed
  BY <1>4, RowStays, RowFound
<1> QED BY <1>1, <1>2, <1>7, <1>8, <1>9, <1>10, RowsMove

LEMMA ListWaiting == ASSUME PrivateInv, Private!List PROVE PrivateInv' /\ Moves
<1>1. /\ pmAt = "repairing" /\ pmAt' = "taking" /\ pass' = "retry" /\ pmOn' = 0
      /\ queue' = {m \in Msg : Private!Due(messages[m], now)}
      /\ UNCHANGED <<messages, seen, now, crashes, arrived, readTo, answered, observed>>
  BY StillFrame DEF Private!List, Private!Loop, Msg
<1>2. "taking" \notin Working /\ "taking" \in PmPlaces /\ "taking" \notin Heard /\ 0 \notin Msg
  BY PmConstants DEF Working, PmPlaces, Heard
<1>3. PrivateTyped'
  BY <1>1, <1>2 DEF PrivateInv, PrivateTyped, Working
<1>4. Placed'
  BY <1>1, <1>2 DEF Placed, Private!Due
<1> QED BY <1>1, <1>2, <1>3, <1>4, RowsLeft

LEMMA TakeDueStep ==
    ASSUME PrivateInv, NEW m \in Msg, Private!TakeDue(m) PROVE PrivateInv' /\ Moves
<1>1. /\ pmAt = "taking" /\ pass = "retry" /\ m \in queue /\ queue' = queue \ {m} /\ pmOn' = m
      /\ UNCHANGED <<pass, seen, now, crashes, arrived, readTo, answered, observed>>
  BY StillFrame DEF Private!TakeDue, Private!Loop
<1>2. /\ messages[m] \in PmRow /\ now \in Nat /\ messages \in [Msg -> PmRow]
      /\ messages[m].status \in {"deferred", "retry_wait"}
      /\ messages[m].written => m \in observed
      /\ ~(answered[m] > 0) /\ Texted(messages[m])
  BY <1>1 DEF PrivateInv, PrivateTyped, Placed, Remembered, PmAnswered, Sent, Out, PmTexted
<1>3. {"vetting", "archiving"} \subseteq Working /\ {"vetting", "archiving"} \subseteq PmPlaces
      /\ "archiving" \notin Heard
  BY DEF Working, PmPlaces, Heard
<1>4. CASE messages[m].written
  <2> DEFINE r == Private!Move(messages[m], "safety_pending", now)
  <2>1. "safety_pending" \in PmStatus
    BY PmStatusNames
  <2>2. r \in PmRow /\ r.status = "safety_pending" /\ r.written = messages[m].written
    BY <1>2, <2>1, MoveRow
  <2>3. messages' = [messages EXCEPT ![m] = r] /\ pmAt' = "vetting"
    BY <1>2, <1>4 DEF Private!TakeDue
  <2> HIDE DEF r
  <2>4. Goes(messages[m], r) /\ Texted(r)
    <3>1. <<messages[m].status, r.status>> \in Arrows /\ messages[m].status # "absent"
      BY <1>2, <2>2 DEF Arrows
    <3> QED BY <1>2, <1>4, <2>2, <3>1, ArrowGoes DEF Texted
  <2>5. /\ messages' \in [Msg -> PmRow] /\ messages'[m] = r
        /\ \A k \in Msg : k # m => messages'[k] = messages[k]
    BY <1>2, <2>2, <2>3
  <2>6. PrivateTyped'
    BY <1>1, <1>3, <2>3, <2>5, PmConstants DEF PrivateInv, PrivateTyped, Working
  <2>7. Placed'
    BY <1>1, <1>3, <2>2, <2>3, <2>5 DEF PrivateInv, PrivateTyped, Placed, AtRow
  <2>8. \A k \in Msg : /\ Goes(messages[k], messages'[k]) /\ Texted(messages'[k])
                       /\ answered[k] > 0 => messages'[k].status \in Out
                       /\ messages'[k].written => k \in observed
    BY <1>2, <2>2, <2>4, <2>5, RowStays
  <2> QED BY <1>1, <1>2, <1>4, <2>3, <2>6, <2>7, <2>8, RowsMove
<1>5. CASE ~messages[m].written
  <2>1. messages' = messages /\ pmAt' = "archiving" /\ messages[m].status = "deferred"
    BY <1>2, <1>5 DEF Private!TakeDue, Texted
  <2>2. PrivateTyped'
    BY <1>1, <1>3, <2>1, PmConstants DEF PrivateInv, PrivateTyped, Working
  <2>3. Placed'
    BY <1>1, <1>3, <2>1 DEF PrivateInv, Placed, AtRow
  <2> QED BY <1>1, <1>3, <2>1, <2>2, <2>3, RowsLeft
<1> QED BY <1>4, <1>5

LEMMA RepairStep ==
    ASSUME PrivateInv, NEW m \in Msg, Private!Repair(m) PROVE PrivateInv' /\ Moves
<1>1. /\ pmAt = "repairing" /\ Private!Unarchived(messages[m])
      /\ UNCHANGED <<now, crashes, arrived, readTo, answered, observed>>
  BY DEF Private!Repair, Private!Loop, Private!Time, Private!platform
<1>2. /\ messages[m] \in PmRow /\ now \in Nat /\ messages \in [Msg -> PmRow] /\ queue = {}
      /\ messages[m].written => m \in observed
  BY <1>1 DEF PrivateInv, PrivateTyped, Placed, Remembered
<1>3. {"idle", "repairing"} \cap Working = {} /\ "idle" \in PmPlaces
      /\ {"idle", "repairing"} \cap Heard = {}
  BY DEF Working, PmPlaces, Heard
<1>4. CASE messages' = [messages EXCEPT ![m] = Private!MarkArchive(@, FALSE, now)]
           /\ UNCHANGED <<paused, Private!loop>>
  <2> DEFINE r == Private!MarkArchive(messages[m], FALSE, now)
  <2>1. r \in PmRow /\ r.status = "published" /\ r.written = messages[m].written
    BY <1>1, <1>2, ArchivedRow DEF Private!Unarchived
  <2>2. messages' = [messages EXCEPT ![m] = r] /\ UNCHANGED <<pmAt, pass, pmOn, queue, seen>>
    BY <1>2, <1>4 DEF Private!loop
  <2> HIDE DEF r
  <2>3. /\ messages' \in [Msg -> PmRow] /\ messages'[m] = r
        /\ \A k \in Msg : k # m => messages'[k] = messages[k]
    BY <1>2, <2>1, <2>2
  <2>4. PrivateTyped' /\ Placed'
    BY <1>1, <1>2, <1>3, <2>2, <2>3 DEF PrivateInv, PrivateTyped, Placed
  <2>5. Goes(messages[m], r) /\ Texted(r) /\ r.status \in Out
    BY <1>1, <2>1 DEF Goes, Texted, Out, Private!Unarchived, Fresh
  <2>6. \A k \in Msg : /\ Goes(messages[k], messages'[k]) /\ Texted(messages'[k])
                       /\ answered[k] > 0 => messages'[k].status \in Out
                       /\ messages'[k].written => k \in observed
    BY <1>2, <2>1, <2>3, <2>5, RowStays
  <2> QED BY <1>1, <1>3, <2>2, <2>4, <2>6, RowsMove
<1>5. CASE paused' = TRUE /\ Private!Go("idle") /\ UNCHANGED messages
  <2>1. pmAt' = "idle" /\ UNCHANGED <<messages, pmOn, pass, queue, seen>>
    BY <1>5, GoFrame
  <2>2. PrivateTyped'
    BY <1>1, <1>3, <2>1 DEF PrivateInv, PrivateTyped, Working
  <2> QED BY <1>1, <1>2, <1>3, <2>1, <2>2, Elsewhere
<1> QED BY <1>4, <1>5 DEF Private!Repair

LEMMA RecoverStep == ASSUME PrivateInv, Private!Recover PROVE PrivateInv' /\ Moves
<1>1. /\ pmAt = "idle" /\ messages' = [m \in Msg |-> Private!Recovered(messages[m], now)]
      /\ UNCHANGED <<pmAt, pmOn, pass, queue, seen>>
      /\ UNCHANGED <<now, crashes, arrived, readTo, answered, observed>>
  BY StillFrame DEF Private!Recover, Private!Loop, Private!loop, Msg
<1>2. \A m \in Msg : messages[m] \in PmRow /\ now \in Nat
  BY DEF PrivateInv, PrivateTyped
<1>3. \A m \in Msg :
        /\ messages'[m] \in PmRow /\ messages'[m].written = messages[m].written
        /\ \/ messages'[m] = messages[m]
           \/ messages[m].status = "publish_pending" /\ messages'[m].status = "result_unknown"
           \/ /\ messages[m].status \in {"discovered", "context_building", "generation_pending",
                                         "safety_pending"}
              /\ messages'[m].status = "deferred"
  <2> SUFFICES ASSUME NEW m \in Msg
               PROVE  /\ messages'[m] \in PmRow /\ messages'[m].written = messages[m].written
                      /\ \/ messages'[m] = messages[m]
                         \/ /\ messages[m].status = "publish_pending"
                            /\ messages'[m].status = "result_unknown"
                         \/ /\ messages[m].status \in {"discovered", "context_building",
                                                       "generation_pending", "safety_pending"}
                            /\ messages'[m].status = "deferred"
    OBVIOUS
  <2> DEFINE q == Private!Recovered(messages[m], now)
  <2>1. /\ q \in PmRow /\ q.written = messages[m].written
        /\ \/ q = messages[m]
           \/ messages[m].status = "publish_pending" /\ q.status = "result_unknown"
           \/ /\ messages[m].status \in {"discovered", "context_building", "generation_pending",
                                         "safety_pending"}
              /\ q.status = "deferred"
    BY <1>2, RecoveredRow
  <2>2. messages'[m] = q
    BY <1>1
  <2> HIDE DEF q
  <2> QED BY <2>1, <2>2
<1>4. messages' \in [Msg -> PmRow]
  BY <1>1, <1>3
<1>5. "idle" \notin Working /\ "idle" \notin Heard
  BY DEF Working, Heard
<1>6. PrivateTyped' /\ Placed'
  BY <1>1, <1>4, <1>5 DEF PrivateInv, PrivateTyped, Placed
<1>7. ASSUME NEW m \in Msg
      PROVE  /\ Goes(messages[m], messages'[m]) /\ Texted(messages'[m])
             /\ answered[m] > 0 => messages'[m].status \in Out
             /\ messages'[m].written => m \in observed
  <2>1. CASE messages'[m] = messages[m]
    BY <2>1, RowStays
  <2>2. CASE messages'[m] # messages[m]
    <3>1. /\ <<messages[m].status, messages'[m].status>> \in Arrows
          /\ messages[m].status # "absent"
      BY <1>3, <2>2 DEF Arrows
    <3>2. Goes(messages[m], messages'[m])
      BY <1>2, <1>3, <3>1, ArrowGoes
    <3>3. Texted(messages'[m]) /\ (messages'[m].written => m \in observed)
      BY <1>3, <2>2 DEF Texted, PrivateInv, Remembered
    <3>4. answered[m] > 0 => messages'[m].status \in Out
      BY <1>3, <2>2 DEF PrivateInv, PmAnswered, Sent, Out
    <3> QED BY <3>2, <3>3, <3>4
  <2> QED BY <2>1, <2>2
<1> QED BY <1>1, <1>5, <1>6, <1>7, RowsMove

LEMMA PrivateStep == ASSUME PrivateInv, Private!Next PROVE PrivateInv' /\ Moves
<1>1. CASE Private!Answer
  BY <1>1, ArchiveNewStep, ArchiveHistoryStep, ArchiveAgainStep, ArchiveFailsStep, PmGenerateStep,
     GenerateNothingStep, VetStep, MarkRefusedStep, SendStep, ConfirmStep, DeclineStep, LoseStep,
     RememberStep DEF Private!Answer
<1>2. CASE Private!Pass
  BY <1>1, <1>2, TakeNewStep, TakeDueStep, RepairStep, ListWaiting, EndPassStep, AckStep
     DEF Private!Pass, Msg
<1>3. CASE Private!Fetch \/ Private!BeginRetry \/ Private!Raise \/ Private!Recover
           \/ Private!Arrive \/ Private!Pause \/ Private!Tick \/ Private!Crash \/ Private!Boot
  BY <1>3, FetchStep, BeginRetryStep, RaiseStep, RecoverStep, PmWorldStep, CrashStep
<1> QED BY <1>2, <1>3 DEF Private!Next

-----------------------------------------------------------------------------
(* What is acknowledged.                                                   *)

LEMMA CardSame == ASSUME NEW S PROVE Private!Cardinality(S) = Cardinality(S)
  BY DEF Private!Cardinality, Cardinality

LEMMA GreaterOfTwo ==
    ASSUME NEW a \in Int, NEW b \in Int
    PROVE  Private!Max({a, b}) \in {a, b} /\ Private!Max({a, b}) >= a /\ Private!Max({a, b}) >= b
  BY DEF Private!Max

\* The account's own answers take up no more room than the messages.
LEMMA OwnBound == ASSUME PrivateInv PROVE Private!Own \in Nat /\ Private!Own <= MaxMessages
<1> DEFINE sent == UNION {{m} \X (1 .. answered[m]) : m \in Msg}
<1>1. sent \subseteq Msg \X {1}
  <2> SUFFICES ASSUME NEW m \in Msg, NEW i \in 1 .. answered[m] PROVE i = 1
    OBVIOUS
  <2> QED BY DEF PrivateInv, PrivateTyped, PmAnswered, Sent
<1>2. IsFiniteSet(Msg) /\ Cardinality(Msg) = MaxMessages
  BY PmConstants, FS_Interval
<1>3. IsFiniteSet({1}) /\ Cardinality({1}) = 1
  BY FS_Singleton
<1>4. IsFiniteSet(Msg \X {1}) /\ Cardinality(Msg \X {1}) = MaxMessages
  <2> DEFINE one == {1}
  <2>1. IsFiniteSet(one) /\ Cardinality(one) = 1
    BY <1>3
  <2> HIDE DEF one
  <2>2. IsFiniteSet(Msg \X one) /\ Cardinality(Msg \X one) = Cardinality(Msg) * Cardinality(one)
    BY <1>2, <2>1, FS_Product
  <2>3. Cardinality(Msg \X one) = MaxMessages
    BY <1>2, <2>1, <2>2, PmConstants
  <2> QED BY <2>2, <2>3 DEF one
<1>5. Cardinality(sent) \in Nat /\ Cardinality(sent) <= MaxMessages
  BY <1>1, <1>4, FS_Subset, FS_CardinalityType
<1>6. Private!Own = Cardinality(sent)
  BY CardSame DEF Private!Own, Msg
<1> QED BY <1>5, <1>6

\* So a fetch, which is no smaller than the window less those, sees them all.
LEMMA FetchSees ==
    ASSUME FetchSeesAll, PrivateInv,
           NEW n \in Private!Max({1, Window - Private!Own}) .. Window
    PROVE  Private!Found(n) = {m \in Msg : m <= arrived}
<1>1. Window - Private!Own \in Int
  BY OwnBound, PmConstants
<1>2. Private!Max({1, Window - Private!Own}) >= Window - Private!Own
      /\ Private!Max({1, Window - Private!Own}) \in Int
  <2> DEFINE room == Window - Private!Own
  <2>1. room \in Int /\ 1 \in Int
    BY <1>1
  <2> HIDE DEF room
  <2>2. Private!Max({1, room}) >= room /\ Private!Max({1, room}) \in {1, room}
    BY <2>1, GreaterOfTwo
  <2>3. Private!Max({1, room}) \in Int
    BY <2>1, <2>2
  <2> QED BY <2>2, <2>3 DEF room
<1>3. n \in Int /\ n >= MaxMessages
  BY <1>1, <1>2, OwnBound, PmConstants DEF FetchSeesAll
<1>4. arrived \in Nat /\ arrived <= MaxMessages
  BY DEF PrivateInv, PrivateTyped
<1>5. \A m \in Msg : m > arrived - n
  BY <1>3, <1>4, PmConstants
<1> QED BY <1>5 DEF Private!Found, Msg

\* Only the end of a pass leads to an acknowledgement.
LEMMA AnswerFrame ==
    ASSUME Private!Answer
    PROVE  pmAt' # "acking" /\ UNCHANGED <<seen, readTo>>
<1>1. Private!ArchiveNew \/ Private!ArchiveHistory \/ Private!ArchiveAgain \/ Private!ArchiveFails
        => pmAt' # "acking" /\ UNCHANGED <<seen, readTo>>
  BY DEF Private!ArchiveNew, Private!ArchiveHistory, Private!ArchiveAgain, Private!ArchiveFails,
     Private!Still, Private!Go, Private!NextMessage, Private!platform
<1>2. Private!Generate \/ Private!GenerateNothing \/ Private!MarkRefused \/ Private!Confirm
      \/ Private!Decline \/ Private!Lose \/ Private!Remember
        => pmAt' # "acking" /\ UNCHANGED <<seen, readTo>>
  BY DEF Private!Generate, Private!GenerateNothing, Private!MarkRefused, Private!Confirm,
     Private!Decline, Private!Lose, Private!Remember,
     Private!Still, Private!Go, Private!NextMessage, Private!platform
<1>3. Private!Vet \/ Private!Send => pmAt' # "acking" /\ UNCHANGED <<seen, readTo>>
  BY DEF Private!Vet, Private!Send, Private!Refuse, Private!Still, Private!Go,
     Private!NextMessage, Private!platform
<1> QED BY <1>1, <1>2, <1>3 DEF Private!Answer

LEMMA AckedKept ==
    ASSUME PrivateInv, Acked, UNCHANGED <<seen, readTo>>, Moves,
           pmAt' = "acking" => messages' = messages /\ \A m \in seen : Private!Settled(m)
    PROVE  Acked'
<1>1. Private!AckedIsRecorded'
  BY DEF Acked, Private!AckedIsRecorded, Moves, Goes, Fresh, Msg
<1>2. pmAt' = "acking" => \A m \in seen' : Private!Settled(m)'
  BY DEF Private!Settled
<1> QED BY <1>1, <1>2 DEF Acked

LEMMA AckRecords == ASSUME PrivateInv, Acked, Private!Ack PROVE Acked'
<1>1. /\ pmAt = "acking" /\ pmAt' = "idle" /\ seen' = seen /\ messages' = messages
      /\ readTo' = readTo \/ readTo' = Private!Max(seen \cup {readTo})
  BY GoFrame DEF Private!Ack, Private!Loop
<1>2. PICK k \in Nat : seen = {m \in Msg : m <= k}
  BY DEF Acked
<1>3. readTo \in Nat /\ MaxMessages \in Nat
  BY PmConstants DEF Acked
<1> DEFINE last == IF k <= MaxMessages THEN k ELSE MaxMessages
           top == IF last >= readTo THEN last ELSE readTo
<1>4. /\ last \in Nat /\ top \in Nat /\ top >= last /\ top >= readTo /\ top \in {last, readTo}
      /\ \A m \in seen : m <= last
      /\ last > 0 => last \in seen
  BY <1>2, <1>3, PmConstants
<1> HIDE DEF last, top
<1>5. Private!Max(seen \cup {readTo}) = top
  <2>1. top \in seen \cup {readTo}
    BY <1>3, <1>4
  <2>2. \A m \in seen \cup {readTo} : m \in Int /\ m <= top
    BY <1>2, <1>3, <1>4, PmConstants
  <2> DEFINE S == seen \cup {readTo}
  <2>3. top \in S /\ \A m \in S : m \in Int /\ m <= top
    BY <2>1, <2>2
  <2> HIDE DEF S
  <2>4. \A x \in S : (\A y \in S : x >= y) => x = top
    BY <1>4, <2>3
  <2>5. \A y \in S : top >= y
    BY <1>4, <2>3
  <2>6. Private!Max(S) = CHOOSE x \in S : \A y \in S : x >= y
    BY DEF Private!Max
  <2>7. Private!Max(S) = top
    BY <2>3, <2>4, <2>5, <2>6
  <2> QED BY <2>7 DEF S
<1>6. readTo' \in Nat
  BY <1>1, <1>3, <1>4, <1>5
<1>7. ASSUME NEW m \in Msg, m <= readTo' PROVE messages[m].status \notin Fresh
  <2>1. m <= readTo \/ m <= last
    BY <1>1, <1>3, <1>4, <1>5, <1>7, PmConstants
  <2>2. CASE m <= readTo
    BY <2>2 DEF Acked, Private!AckedIsRecorded, Msg, Fresh
  <2>3. CASE m <= last
    <3>1. m \in seen
      BY <1>2, <1>3, <2>3, PmConstants DEF last
    <3> QED BY <1>1, <3>1 DEF Acked, Private!Settled, Fresh
  <2> QED BY <2>1, <2>2, <2>3
<1>8. Private!AckedIsRecorded'
  BY <1>1, <1>7 DEF Private!AckedIsRecorded, Msg, Fresh
<1> QED BY <1>1, <1>2, <1>6, <1>8 DEF Acked

LEMMA AckedStep == ASSUME FetchSeesAll, PrivateInv, Acked, Private!Next PROVE Acked'
<1>1. Moves
  BY PrivateStep
<1>2. CASE Private!Answer
  BY <1>1, <1>2, AnswerFrame, AckedKept
<1>3. CASE Private!Ack
  BY <1>3, AckRecords
<1>4. CASE Private!Fetch
  <2>1. PICK n \in Private!Max({1, Window - Private!Own}) .. Window : seen' = Private!Found(n)
    BY <1>4 DEF Private!Fetch
  <2>2. pmAt' = "taking" /\ readTo' = readTo
    BY <1>4, StillFrame DEF Private!Fetch
  <2>3. seen' = {m \in Msg : m <= arrived} /\ arrived \in Nat
    BY <2>1, FetchSees DEF PrivateInv, PrivateTyped
  <2>4. Private!AckedIsRecorded'
    BY <1>1, <2>2 DEF Acked, Private!AckedIsRecorded, Moves, Goes, Fresh, Msg
  <2> QED BY <2>2, <2>3, <2>4 DEF Acked
<1>5. CASE Private!Crash
  <2>1. pmAt' = "idle" /\ seen' = {} /\ UNCHANGED <<readTo, messages>>
    BY <1>5 DEF Private!Crash, Private!platform
  <2>2. seen' = {m \in Msg : m <= 0}
    BY <2>1, PmConstants
  <2>3. Private!AckedIsRecorded'
    BY <2>1 DEF Acked, Private!AckedIsRecorded
  <2> QED BY <2>1, <2>2, <2>3 DEF Acked
<1>6. CASE Private!EndPass
  <2>1. UNCHANGED <<seen, readTo, messages>>
        /\ (pmAt' = "acking" => \A m \in seen : Private!Settled(m))
    BY <1>6, StillFrame DEF Private!EndPass, Private!Go
  <2> QED BY <1>1, <2>1, AckedKept
<1>7. CASE Private!Arrive \/ Private!Pause \/ Private!Tick \/ Private!Boot
  <2>1. UNCHANGED <<seen, readTo, messages, pmAt>>
    BY <1>7 DEF Private!Arrive, Private!Pause, Private!Tick, Private!Boot, Private!loop,
       Private!platform
  <2> QED BY <1>1, <2>1, AckedKept DEF Acked
<1>8. CASE Private!BeginRetry \/ Private!List \/ Private!Raise \/ Private!Recover
  <2>1. UNCHANGED <<seen, readTo>> /\ pmAt' # "acking"
    BY <1>8, StillFrame DEF Private!BeginRetry, Private!List, Private!Raise, Private!Recover,
       Private!loop, Private!Go, Private!Loop
  <2> QED BY <1>1, <2>1, AckedKept
<1>9. ASSUME NEW m \in Msg, Private!TakeNew(m) \/ Private!TakeDue(m) \/ Private!Repair(m)
      PROVE  Acked'
  <2>1. UNCHANGED <<seen, readTo>> /\ pmAt' # "acking"
    BY <1>9, StillFrame DEF Private!TakeNew, Private!TakeDue, Private!Repair, Private!loop,
       Private!Go, Private!Loop, Private!platform
  <2> QED BY <1>1, <2>1, AckedKept
<1> QED BY <1>2, <1>3, <1>4, <1>5, <1>6, <1>7, <1>8, <1>9
        DEF Private!Next, Private!Pass, Msg

LEMMA PrivateStart == TalkingInit => PrivateInv /\ Acked
<1> SUFFICES ASSUME TalkingInit PROVE PrivateInv /\ Acked
  OBVIOUS
<1>1. /\ now = 0 /\ crashes = 0 /\ arrived = 0 /\ readTo = 0 /\ observed = {} /\ pmAt = "idle"
      /\ pass = "poll" /\ pmOn = 0 /\ queue = {} /\ seen = {}
      /\ messages = [m \in Msg |-> Private!NoRow] /\ answered = [m \in Msg |-> 0]
  BY DEF TalkingInit, Private!Init, Msg
<1>2. "idle" \in PmPlaces /\ "idle" \notin Working /\ "idle" \notin Heard
  BY DEF PmPlaces, Working, Heard
<1>3. PrivateTyped
  BY <1>1, <1>2, NoPmRow, PmConstants DEF PrivateTyped, Working
<1>4. Placed /\ PmTexted /\ PmAnswered /\ Remembered
  BY <1>1, <1>2, NoPmRow DEF Placed, PmTexted, Texted, PmAnswered, Sent, Remembered
<1>5. Acked
  <2>1. seen = {m \in Msg : m <= 0}
    BY <1>1, PmConstants
  <2>2. Private!AckedIsRecorded
    BY <1>1, PmConstants DEF Private!AckedIsRecorded, Msg
  <2> QED BY <1>1, <2>1, <2>2 DEF Acked
<1> QED BY <1>3, <1>4, <1>5 DEF PrivateInv

\* In the other behaviours no message has a row.
PrivateKnown ==
    /\ part = "private" => PrivateInv /\ (FetchSeesAll => Acked)
    /\ part # "private" => /\ \A m \in Msg : answered[m] = 0 /\ ~messages[m].written
                           /\ readTo = 0

LEMMA PrivateStays ==
    ASSUME PrivateKnown, UNCHANGED <<part, pmVars>>,
           part = "private" => UNCHANGED <<now, crashes>>
    PROVE  PrivateKnown'
<1>1. UNCHANGED <<arrived, readTo, messages, observed, pmAt, pass, pmOn, queue, seen, answered>>
  BY DEF pmVars
<1>2. CASE part = "private"
  <2>1. PrivateInv'
    BY <1>1, <1>2 DEF PrivateKnown, PrivateInv, PrivateTyped, Placed, PmTexted, PmAnswered, Sent,
       Remembered
  <2>2. FetchSeesAll => Acked'
    BY <1>1, <1>2 DEF PrivateKnown, Acked, Private!Settled, Private!AckedIsRecorded
  <2> QED BY <1>2, <2>1, <2>2 DEF PrivateKnown
<1>3. CASE part # "private"
  BY <1>1, <1>3 DEF PrivateKnown
<1> QED BY <1>2, <1>3

LEMMA PrivateKept == TalkingSpec => []PrivateKnown
<1>1. TalkingInit => PrivateKnown
  <2>1. TalkingInit => readTo = 0 /\ \A m \in Msg : answered[m] = 0 /\ ~messages[m].written
    BY NoPmRow DEF TalkingInit, Private!Init, Msg
  <2> QED BY <2>1, PrivateStart DEF PrivateKnown
<1>2. ASSUME PrivateKnown, [TalkingNext]_allVars PROVE PrivateKnown'
  <2>1. CASE InPrivate /\ Private!Next
    BY <1>2, <2>1, PrivateStep, AckedStep DEF PrivateKnown, InPrivate
  <2>2. CASE InComment \/ InReply
    <3>1. part # "private" /\ UNCHANGED <<part, pmVars>>
      BY <2>2 DEF InComment, InReply
    <3> QED BY <1>2, <3>1, PrivateStays
  <2>3. CASE UNCHANGED allVars
    <3>1. UNCHANGED <<part, pmVars, now, crashes>>
      BY <2>3 DEF allVars
    <3> QED BY <1>2, <3>1, PrivateStays
  <2> QED BY <1>2, <2>1, <2>2, <2>3 DEF TalkingNext
<1> QED BY <1>1, <1>2, PTL DEF TalkingSpec

\* A private message is answered at most once, whatever crashes, lost answers,
\* raising statements, deferrals and retries there are; and no text is written,
\* and none sent, before the memory brain holds the message it answers.
THEOREM AnsweredOnceAlways == TalkingSpec => []AnsweredOnce
<1>1. PrivateKnown => AnsweredOnce
  <2> SUFFICES ASSUME PrivateKnown, NEW m \in Msg
               PROVE  /\ answered[m] <= 1
                      /\ messages[m].written \/ answered[m] > 0 => m \in observed
    BY DEF AnsweredOnce, Private!AnsweredOnce, Private!AnsweredFromMemory, Msg
  <2>1. CASE part = "private"
    <3>1. PrivateInv /\ answered[m] \in Nat
      BY <2>1 DEF PrivateKnown, PrivateInv, PrivateTyped
    <3> QED BY <3>1 DEF PrivateInv, PmAnswered, Sent, Remembered
  <2>2. CASE part # "private"
    BY <2>2 DEF PrivateKnown
  <2> QED BY <2>1, <2>2
<1> QED BY <1>1, PrivateKept, PTL

\* What the bot acknowledged, and is not shown again as unread, has a row that
\* some pass still answers or that is settled, as long as the talker has not
\* written more than a fetch can see beside the bot's own answers: no message
\* is lost between the fetch and the acknowledgement.
THEOREM AckedIsRecordedAlways ==
    ASSUME FetchSeesAll PROVE TalkingSpec => []AckedIsRecorded
<1>1. PrivateKnown => AckedIsRecorded
  <2> SUFFICES ASSUME PrivateKnown PROVE AckedIsRecorded
    OBVIOUS
  <2>1. CASE part = "private"
    BY <2>1 DEF PrivateKnown, Acked, AckedIsRecorded
  <2>2. CASE part # "private"
    BY <2>2, PmConstants DEF PrivateKnown, AckedIsRecorded, Private!AckedIsRecorded, Msg
  <2> QED BY <2>1, <2>2
<1> QED BY <1>1, PrivateKept, PTL

\* The transition table refuses no update that the passes and the recovery ask
\* for: a refused one raises after the platform, the model or the archive has
\* already acted, and leaves the row behind.
THEOREM TableRefusesNothingAlways == TalkingSpec => TableRefusesNothing
<1> DEFINE Permitted ==
      \A m \in Private!Msg :
         \/ messages'[m].status = messages[m].status
         \/ messages[m].status = "absent"
         \/ Private!CanMove(messages[m], messages'[m].status)
<1>1. ASSUME PrivateKnown, [TalkingNext]_allVars PROVE [Permitted]_(Private!vars)
  <2>1. CASE InPrivate /\ Private!Next
    <3>1. Moves
      BY <1>1, <2>1, PrivateStep DEF PrivateKnown, InPrivate
    <3> QED BY <3>1 DEF Moves, Goes, Msg
  <2>2. CASE InComment \/ InReply \/ UNCHANGED allVars
    <3>1. messages' = messages
      BY <2>2 DEF InComment, InReply, allVars, pmVars
    <3> QED BY <3>1
  <2> QED BY <1>1, <2>1, <2>2 DEF TalkingNext
<1> QED BY <1>1, PrivateKept, PTL DEF TalkingSpec, TableRefusesNothing, Private!TableRefusesNothing
=============================================================================
