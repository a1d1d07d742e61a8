--------------------------- MODULE CommentReply ---------------------------
(***************************************************************************)
(* The reply to one comment: scheduler_comments.py, which answers new      *)
(* comments, and scheduler_comment_retry.py, which takes up the rows that  *)
(* wait.  Both belong to the main loop, one coroutine, so one of them      *)
(* works on the comment at a time; what runs in between is the panel's     *)
(* manual retry, and the process may die at every await.                   *)
(*                                                                         *)
(* The platform's answer, the model's, the checker's and the archive's are *)
(* chosen freely.  The platform publishes before it answers, and the       *)
(* answer may be lost.                                                     *)
(***************************************************************************)
EXTENDS ReplyStore

CONSTANTS
    Backoff,        \* the waits upsert() may choose
    StoreFails,     \* a statement of the store may raise
    MaxNow,         \* the clock stops here (bound)
    MaxCrashes,     \* how often the process dies (bound)
    MaxManual,      \* how many manual retries (bound)
    MaxRevision,    \* from here on the model repeats itself (bound)
    MaxPosts,       \* how often the platform takes a reply (bound)
    MaxLapses       \* how often a reply that is found is overlooked (bound)

\* Assumed by the modules that instantiate this one.
CommentAssumption ==
    /\ Backoff \subseteq Nat
    /\ StoreFails \in BOOLEAN
    /\ {MaxNow, MaxCrashes, MaxManual, MaxRevision, MaxPosts, MaxLapses} \subseteq Nat

VARIABLES
    now, alive,
    row,            \* the comment's row, durable
    at,             \* where the main loop is in its work on the comment
    path,           \* "new", "resend" (retry_wait) or "redo" (deferred)
    item,           \* the row as get_retryable() listed it
    reply,          \* reply_text
    finds,          \* the lookup in the thread always finds the bot's reply
    posts,          \* history: how often the platform published a reply
    posted,         \* history: what it published, [text, revision]
    manual, crashes,
    lapses          \* history: how often a reply was found and posted all the same

work == <<at, path, item, reply>>
platform == <<posts, posted>>
env == <<manual, crashes, lapses>>
vars == <<now, alive, row, work, finds, platform, env>>

Init ==
    /\ now = 0
    /\ alive = TRUE
    /\ row = NoRow
    /\ at = "idle"
    /\ path = "new"
    /\ item = NoRow
    /\ reply = NoText
    /\ finds \in BOOLEAN
    /\ posts = 0
    /\ posted = {}
    /\ manual = 0
    /\ crashes = 0
    /\ lapses = 0

-----------------------------------------------------------------------------
(* Steps on the row and of the loop.                                       *)

\* The row is marked, and the loop's work on the comment is over.
Leave == at' = "idle" /\ path' = "new" /\ item' = NoRow /\ reply' = NoText

Mark(state, burn) ==
    \E wait \in Backoff : row' = Upsert(row, state, burn, wait, now)

End(state) == Mark(state, FALSE) /\ Leave

\* mark_deferred, with increment_attempt or without
Defer == (\E burn \in BOOLEAN : Mark("deferred", burn)) /\ Leave
DeferFree == Mark("deferred", FALSE) /\ Leave

Go(place) == at' = place /\ UNCHANGED <<path, item, reply>>

On(place) == alive /\ at = place

\* In the actions that follow nothing else changes.
Still == UNCHANGED <<now, alive, finds, platform, env>>

-----------------------------------------------------------------------------
(* A new comment: check_new_comments.                                      *)

\* is_processed() skips every comment that has a row.
Notice ==
    /\ On("idle")
    /\ row = NoRow
    /\ Go("archiving")
    /\ UNCHANGED row
    /\ Still

\* The filters that end the matter; the observation that cannot be archived
\* defers a row that was never given its notification.
Observe ==
    /\ On("archiving")
    /\ \/ End("ignored")
       \/ DeferFree
       \/ /\ row' = Notified(Upsert(row, "context_building", FALSE, 0, now))
          /\ Go("context")
    /\ Still

\* The thread is read and archived, and the author may be blacklisted.
BuildContext ==
    /\ On("context") /\ path = "new"
    /\ \/ DeferFree
       \/ End("ignored")
       \/ Mark("generation_pending", FALSE) /\ Go("generating")
    /\ Still

\* The model answers; past MaxRevision it repeats itself (bound).
Writes(text) == text \in Text /\ (row.revision < MaxRevision \/ text = row.text)

\* A text is saved at once; a temporary failure may spend an attempt or not.
Generate ==
    /\ On("generating") /\ path = "new"
    /\ \/ Defer
       \/ End("ignored")
       \/ End("failed")
       \/ \E text \in Text :
            /\ Writes(text)
            /\ row' = Upsert(Save(row, text, now), "safety_pending", FALSE, 0, now)
            /\ reply' = text
            /\ at' = "checking"
            /\ UNCHANGED <<path, item>>
    /\ Still

\* Refused, the reply waits for its rejection to be archived.
Check ==
    /\ On("checking") /\ path = "new"
    /\ \/ DeferFree
       \/ Mark("rejected", FALSE) /\ Go("rejecting")
       \/ Mark("publish_pending", FALSE) /\ Go("posting")
    /\ Still

\* An exception of the archive ends in the handler that defers the row.
ArchiveRejection ==
    /\ On("rejecting")
    /\ \/ UNCHANGED row /\ Leave
       \/ DeferFree
    /\ Still

-----------------------------------------------------------------------------
(* A row that waits: process_retryable_comments.                           *)

\* The rows are listed once, and dealt with one after another.
List ==
    /\ On("idle")
    /\ Retryable(row, now)
    /\ item' = row
    /\ at' = "listed"
    /\ UNCHANGED <<row, path, reply>>
    /\ Still

\* A row that was listed in an intermediate state is deferred or, when it was
\* about to be published, resent.
Relisted ==
    IF item.state \in RetryableStates THEN item.state
    ELSE IF item.state = "publish_pending" /\ item.text # NoText
         THEN "retry_wait" ELSE "deferred"

TakeUp ==
    /\ On("listed")
    /\ IF row.state \in TerminalStates
       THEN UNCHANGED row /\ Leave
       ELSE \E wait \in Backoff :
            LET r == IF item.state \in RetryableStates THEN row
                     ELSE Upsert(row, Relisted, FALSE, wait, now)
            IN  \/ /\ ~item.notified
                   /\ row' = Upsert(r, "failed", FALSE, 0, now)
                   /\ Leave
                \/ /\ item.notified
                   /\ Relisted = "retry_wait" /\ item.text = NoText
                   /\ row' = Upsert(r, "deferred", FALSE, wait, now)
                   /\ Leave
                \/ /\ item.notified
                   /\ Relisted = "retry_wait" /\ item.text # NoText
                   /\ row' = r
                   /\ at' = "looking" /\ path' = "resend" /\ reply' = item.text
                   /\ UNCHANGED item
                \/ /\ item.notified
                   /\ Relisted = "deferred"
                   /\ row' = r
                   /\ at' = "context" /\ path' = "redo"
                   /\ UNCHANGED <<item, reply>>
    /\ Still

\* Is the reply in the thread already?  The lookup reads one page, and its
\* failure counts as a no.
InThread == posts > 0
NotSeen == ~finds \/ ~InThread

\* The handler of the lookup's own exceptions covers the records too: when the
\* row cannot be marked, or the archive raises once it is, a reply that was
\* found is logged as a failed lookup and the work goes on to the post.
Overlook ==
    /\ InThread /\ lapses < MaxLapses
    /\ (StoreFails /\ UNCHANGED row) \/ Mark("published", FALSE)
    /\ lapses' = lapses + 1
    /\ UNCHANGED <<now, alive, finds, platform, manual, crashes>>

LookUp ==
    /\ On("looking") /\ path = "resend"
    /\ \/ InThread /\ End("published") /\ Still
       \/ NotSeen /\ UNCHANGED row /\ Go("checking") /\ Still
       \/ Overlook /\ Go("checking")

Recheck ==
    /\ On("checking") /\ path = "resend"
    /\ \/ DeferFree
       \/ End("rejected")
       \/ UNCHANGED row /\ Go("intending")
    /\ Still

\* The intent of a resend is archived: an exception leaves everything.
ArchiveIntent ==
    /\ On("intending")
    /\ UNCHANGED row
    /\ Leave \/ Go("posting")
    /\ Still

\* A deferred comment goes through it all again; its row says deferred until
\* the end.
RebuildContext ==
    /\ On("context") /\ path = "redo"
    /\ DeferFree \/ (UNCHANGED row /\ Go("generating"))
    /\ Still

Regenerate ==
    /\ On("generating") /\ path = "redo"
    /\ \/ Defer
       \/ End("ignored")
       \/ End("failed")
       \/ \E text \in Text :
            /\ Writes(text)
            /\ reply' = text
            /\ at' = "filing"
            /\ UNCHANGED <<row, path, item>>
    /\ Still

\* The text is saved once its intent is archived.
FileIntent ==
    /\ On("filing")
    /\ \/ DeferFree
       \/ row' = Save(row, reply, now) /\ Go("checking")
    /\ Still

CheckAgain ==
    /\ On("checking") /\ path = "redo"
    /\ \/ DeferFree
       \/ End("rejected")
       \/ UNCHANGED row /\ Go("looking")
    /\ Still

\* Faulty variant: a regenerated reply is not looked for.
LookUpAgainBlind ==
    /\ On("looking") /\ path = "redo"
    /\ UNCHANGED row
    /\ Go("posting")
    /\ Still

LookUpAgain ==
    /\ On("looking") /\ path = "redo"
    /\ \/ InThread /\ End("published") /\ Still
       \/ NotSeen /\ UNCHANGED row /\ Go("posting") /\ Still
       \/ Overlook /\ Go("posting")

\* recover_stuck_intermediate
RecoverStuck ==
    /\ On("idle")
    /\ Stuck(row, now)
    /\ row' = Unstuck(row, now)
    /\ UNCHANGED work
    /\ Still

-----------------------------------------------------------------------------
(* post_comment and its answer.  Past MaxPosts the platform only refuses or *)
(* keeps silent (bound).                                                   *)

Publish ==
    /\ On("posting") /\ posts < MaxPosts
    /\ posts' = posts + 1
    /\ posted' = posted \cup {[text |-> reply, revision |-> row.revision]}
    /\ Go("posted")
    /\ UNCHANGED <<now, alive, row, finds, env>>

Accepted == On("posted") /\ End("published") /\ Still

\* The comments are closed for good (code 12002, which a deferred row's
\* handler does not look for), or the refusal is one to retry.
Refused ==
    /\ On("posting")
    /\ \/ path # "redo" /\ End("failed")
       \/ Mark("retry_wait", TRUE) /\ Leave
    /\ Still

NoAnswer ==
    /\ On("posting") \/ On("posted")
    /\ End("result_unknown")
    /\ Still

\* A statement of the store raises: a new comment is deferred if the store
\* allows, a retried one stays as it is.
Unhandled ==
    /\ StoreFails
    /\ alive /\ at # "idle"
    /\ \/ UNCHANGED row
       \/ path = "new" /\ at # "listed" /\ Mark("deferred", FALSE)
    /\ Leave
    /\ Still

-----------------------------------------------------------------------------
(* The panel and the world.                                                *)

\* POST replies/{id}/retry needs an audit record with a text.
ManualRetry ==
    /\ manual < MaxManual
    /\ row.text # NoText
    /\ CanRequeue(row)
    /\ row' = Requeue(row, now)
    /\ manual' = manual + 1
    /\ UNCHANGED <<now, alive, work, finds, platform, crashes, lapses>>

Tick ==
    /\ now < MaxNow
    /\ now' = now + 1
    /\ UNCHANGED <<alive, row, work, finds, platform, env>>

Crash ==
    /\ alive
    /\ crashes < MaxCrashes
    /\ crashes' = crashes + 1
    /\ alive' = FALSE
    /\ Leave
    /\ UNCHANGED <<now, row, finds, platform, manual, lapses>>

Boot ==
    /\ ~alive
    /\ alive' = TRUE
    /\ UNCHANGED <<now, row, work, finds, platform, env>>

-----------------------------------------------------------------------------
Handle ==
    \/ Observe \/ BuildContext \/ Generate \/ Check \/ ArchiveRejection
    \/ TakeUp \/ LookUp \/ Recheck \/ ArchiveIntent
    \/ RebuildContext \/ Regenerate \/ FileIntent \/ CheckAgain \/ LookUpAgain
    \/ Publish \/ Accepted \/ Refused \/ NoAnswer

Next ==
    \/ Notice \/ List \/ RecoverStuck \/ Handle \/ Unhandled
    \/ ManualRetry \/ Tick \/ Crash \/ Boot

Spec == Init /\ [][Next]_vars

-----------------------------------------------------------------------------
(* Properties.                                                             *)

\* The user gets one reply, whatever crashes, lost answers, failing statements
\* and manual retries there are, as long as the lookup in the thread finds it;
\* and one more for each time the lookup found it and a record of that raised,
\* which is taken for a failed lookup (scheduler_comment_retry.py:152, 587).
RepliedOnce == finds => posts <= 1 + lapses

\* (comment, revision) is the key of a publication: one revision, one text.
RevisionNamesText ==
    \A p \in posted, q \in posted : p.revision = q.revision => p.text = q.text

\* No row stays in a state that only a handler could take it out of: the
\* handler goes on, or its row is found stuck and queued again (while the
\* clock still runs).
Held == row.state \in IntermediateStates /\ row.updatedAt + StuckTime < MaxNow
=============================================================================
