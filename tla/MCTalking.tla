------------------------------ MODULE MCTalking ------------------------------
(***************************************************************************)
(* What the account says to others: comments of its own, replies to        *)
(* comments, and answers to private messages.  The three share the process *)
(* and the clock, and are handled by stores and passes of their own, so a  *)
(* behaviour follows one of them, chosen at the start.                     *)
(***************************************************************************)
EXTENDS ProactiveComment

CONSTANTS
    Text, NoText, StuckTime, StoreFails, MaxRevision, MaxPosts, MaxLapses,
    DeferWait, StuckAfter, MaxMessages, Window, Batch, PmBackoff,
    PmNow,          \* the clock of private messages stops here (bound)
    t1, t2, none, v1

VARIABLES
    part,
    row, replyAt, path, item, reply, finds, posts, posted, lapses,
    arrived, readTo, messages, paused, observed, pmAt, pass, pmOn, queue, seen,
    clean, answered

Reply == INSTANCE CommentReply WITH at <- replyAt
Private == INSTANCE PrivateMessage WITH
    MaxNow <- PmNow, Backoff <- PmBackoff, row <- messages, at <- pmAt,
    on <- pmOn, accepted <- answered

ASSUME TalkingAssumption ==
    /\ Reply!ReplyAssumption /\ Reply!CommentAssumption
    /\ Private!PmAssumption /\ Private!PrivateAssumption

commentVars == <<action, logged, workers, accepted, prompt, forced>>
replyVars == <<row, replyAt, path, item, reply, finds, posts, posted, lapses>>
pmVars == <<arrived, readTo, messages, paused, observed, pmAt, pass, pmOn, queue,
            seen, clean, answered>>
allVars == <<part, now, alive, crashes, manual, commentVars, replyVars, pmVars>>

TalkingInit ==
    /\ part \in {"comment", "reply", "private"}
    /\ Init /\ Reply!Init /\ Private!Init
    /\ (prompt => part = "comment") /\ (finds => part = "reply")

InComment == part = "comment" /\ UNCHANGED <<part, replyVars, pmVars>>
InReply == part = "reply" /\ UNCHANGED <<part, commentVars, pmVars>>
InPrivate == part = "private" /\ UNCHANGED <<part, manual, commentVars, replyVars>>

TalkingNext ==
    \/ InComment /\ Next
    \/ InReply /\ Reply!Next
    \/ InPrivate /\ Private!Next

TalkingSpec == TalkingInit /\ [][TalkingNext]_allVars

\* The clock runs, the process is restarted, every await ends, and every round
\* of the main loop recovers stuck rows before it works on others.
FairTalking ==
    /\ TalkingSpec
    /\ WF_allVars(InComment /\ Tick) /\ WF_allVars(InComment /\ Boot)
    /\ WF_allVars(InComment /\ Watch) /\ WF_allVars(InComment /\ Retry)
    /\ SF_allVars(InComment /\ RecoverStuck)
    /\ WF_allVars(InReply /\ Reply!Tick) /\ WF_allVars(InReply /\ Reply!Boot)
    /\ WF_allVars(InReply /\ Reply!Handle) /\ SF_allVars(InReply /\ Reply!RecoverStuck)

\* What the run checks beside the properties of ProactiveComment, stated and
\* explained in the modules themselves.

\* The user gets one reply, and one more for each found reply that could not be
\* recorded; and a revision names one text.
RepliedOnce == Reply!RepliedOnce /\ Reply!RevisionNamesText

\* A message is answered once, and from a memory that holds it.
AnsweredOnce == Private!AnsweredOnce /\ Private!AnsweredFromMemory

AckedIsRecorded == Private!AckedIsRecorded
TableRefusesNothing == Private!TableRefusesNothing

\* No video stays locked by a comment, and no reply in a state that only its
\* handler leaves: each in the behaviours that are its own.
Stuck ==
    \/ part = "comment" /\ \E a \in Id : Locked(a)
    \/ part = "reply" /\ Reply!Held
NothingStaysStuck == Stuck ~> ~Stuck
=============================================================================
