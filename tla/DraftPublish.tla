---------------------------- MODULE DraftPublish ----------------------------
(***************************************************************************)
(* The review and publication of one dynamic draft: the panel's reviewers, *)
(* the publish tasks their requests create, the coroutines that execute    *)
(* them, the recovery of stuck drafts, and the platform.                   *)
(*                                                                         *)
(* Every request that asks for a publication creates a task of its own, so *)
(* one draft may have several tasks, and every task several coroutines:    *)
(* the draft's status is the only thing they share.                        *)
(***************************************************************************)
EXTENDS TaskTable, DraftStore, FiniteSets

CONSTANTS
    MaxNow,         \* the clock stops here (bound)
    MaxCrashes,     \* how often the process dies (bound)
    MaxRequests,    \* how many requests to retry or cancel a task (bound)
    MaxCommands,    \* how many requests to publish (bound)
    MayLackParts,   \* the safety checker or the platform client may be missing
    MaxReopened,    \* how often a failing handler reopens the draft (bound)
    MaxRevision     \* how often the draft is written (bound)

ASSUME PublishAssumption ==
    /\ {MaxNow, MaxCrashes, MaxRequests, MaxCommands, MaxReopened, MaxRevision}
         \subseteq Nat
    /\ MayLackParts \in BOOLEAN

VARIABLES
    crashes, requests,
    draft,          \* the draft's row, durable
    approvals,      \* history: the revisions reviewers approved
    commands,       \* history: how many requests asked for a publication
    posts,          \* history: how often the platform published the draft
    posted,         \* history: the revisions it published
    reopened        \* history: how often a handler that had posted the draft, or
                    \* no longer held it, made it ready for another attempt

rows == <<task, run, inflight>>
review == <<approvals, commands>>
platform == <<posts, posted, reopened>>
vars == <<now, alive, crashes, requests, rows, draft, review, platform>>

NoDraft == [status |-> "absent", revision |-> 0, expiresAt |-> NoExpiry,
            updatedAt |-> 0]

Init ==
    /\ now = 0
    /\ alive = FALSE
    /\ EmptyTable
    /\ crashes = 0
    /\ requests = 0
    /\ draft = NoDraft
    /\ approvals = {}
    /\ commands = 0
    /\ posts = 0
    /\ posted = {}
    /\ reopened = 0

-----------------------------------------------------------------------------
(* The process and the main loop.                                          *)

\* scheduler_start: the tasks are recovered and dispatched, the draft is
\* recovered, and only then does a coroutine take its first step.
Boot ==
    /\ ~alive
    /\ alive' = TRUE
    /\ task' = [t \in Task |-> RecoveredRow(task[t])]
    /\ Resume
    /\ draft' = Recovered(draft, now)
    /\ UNCHANGED <<now, crashes, requests, review, platform>>

Crash ==
    /\ alive
    /\ crashes < MaxCrashes
    /\ crashes' = crashes + 1
    /\ alive' = FALSE
    /\ CoroutinesDie
    /\ UNCHANGED <<now, requests, draft, review, platform>>

Tick ==
    /\ now < MaxNow
    /\ TimePasses
    /\ UNCHANGED <<alive, crashes, requests, rows, draft, review, platform>>

RecoverStuck ==
    /\ alive
    /\ draft' = Recovered(draft, now)
    /\ UNCHANGED <<now, alive, crashes, requests, rows, review, platform>>

RetryPass(t) ==
    /\ alive
    /\ RetryOverdue(t)
    /\ UNCHANGED <<now, alive, crashes, requests, draft, review, platform>>

Watchdog(t) ==
    /\ alive
    /\ FailOrphan(t)
    /\ UNCHANGED <<now, alive, crashes, requests, draft, review, platform>>

-----------------------------------------------------------------------------
(* The panel.                                                              *)

\* do_post_dynamic in review mode files what it has written as a draft.
CreateDraft ==
    /\ alive
    /\ draft = NoDraft
    /\ \E passed \in BOOLEAN : draft' = CreatedDraft(passed, now)
    /\ UNCHANGED <<now, alive, crashes, requests, rows, review, platform>>

\* The requests carry the revision their reviewer looked at.
Seen == 1..draft.revision

PatchDraft ==
    /\ alive
    /\ draft.revision < MaxRevision
    /\ \E expected \in Seen : CanUpdate(draft, expected)
    /\ draft' = Updated(draft, now)
    /\ UNCHANGED <<now, alive, crashes, requests, rows, review, platform>>

RejectDraft ==
    /\ alive
    /\ CanReject(draft)
    /\ draft' = To(draft, "rejected", now)
    /\ UNCHANGED <<now, alive, crashes, requests, rows, review, platform>>

\* create_draft_publish_task and spawn_publish_task: the new task is claimed
\* and its coroutine started untracked.  A claim that raises leaves the task
\* scheduled; a failed creation leaves no task.
NewTask(t) ==
    /\ task[t].status = "absent"
    /\ \/ /\ task' = [task EXCEPT ![t] = ClaimRow(CreatedRow(now), now)]
          /\ \E k \in Copy : Spawn(t, k, FALSE)
       \/ /\ task' = [task EXCEPT ![t] = CreatedRow(now)]
          /\ UNCHANGED <<run, inflight>>

\* A creation that fails takes the approval back, which changes nothing.
ApproveDraft(t) ==
    /\ alive
    /\ commands < MaxCommands
    /\ \E expected \in Seen :
         /\ CanApprove(draft, expected)
         /\ approvals' = approvals \cup {expected}
    /\ draft' = To(draft, "approved", now)
    /\ NewTask(t)
    /\ commands' = commands + 1
    /\ UNCHANGED <<now, alive, crashes, requests, platform>>

RetryDraft(t) ==
    /\ alive
    /\ commands < MaxCommands
    /\ draft.status = "approved" \/ CanReset(draft)
    /\ draft' = IF CanReset(draft) THEN To(draft, "approved", now) ELSE draft
    /\ NewTask(t) \/ UNCHANGED rows
    /\ commands' = commands + 1
    /\ UNCHANGED <<now, alive, crashes, requests, approvals, platform>>

\* POST tasks/{id}/retry and tasks/{id}/cancel, on a publish task
RetryTask(t) ==
    /\ alive
    /\ requests < MaxRequests
    /\ commands < MaxCommands
    /\ Redispatch(t)
    /\ requests' = requests + 1
    /\ commands' = commands + 1
    /\ UNCHANGED <<now, alive, crashes, draft, approvals, platform>>

CancelTask(t) ==
    /\ alive
    /\ requests < MaxRequests
    /\ Cancel(t)
    /\ requests' = requests + 1
    /\ UNCHANGED <<now, alive, crashes, draft, review, platform>>

-----------------------------------------------------------------------------
(* do_publish_approved_draft.                                              *)

At(t, k, place) == Live(t, k) /\ run[t][k].at = place

world == <<now, alive, crashes, requests, review>>

\* A failure that is not retryable fails the draft too, whoever is publishing
\* it; an exception of the draft store is swallowed.
FailTask(t) ==
    /\ Record(t, "fail")
    /\ draft' \in {draft, MarkedFailed(draft, now)}

\* The safety checker or the platform client is missing.
Refuse(t, k) ==
    /\ MayLackParts
    /\ At(t, k, "ready")
    /\ FailTask(t)
    /\ Return(t, k)
    /\ UNCHANGED <<world, platform>>

\* The outer handler: the result of the draft becomes unknown; if that
\* statement raises, the draft is to be tried again after all; and if that
\* raises too, it stays as it is.  Whoever is publishing it is not asked.
Handle(t, k) ==
    /\ \/ /\ draft' \in {draft, Settled(draft, "result_unknown", now)}
          /\ UNCHANGED reopened
       \/ /\ draft.status = "publishing"
          /\ draft' = Settled(draft, "retry_wait", now)
          /\ IF run[t][k].at \in {"checking", "posting"}
             THEN UNCHANGED reopened     \* nothing was posted in this pass
             ELSE reopened < MaxReopened /\ reopened' = reopened + 1
    /\ UNCHANGED <<posts, posted>>

\* start, the pause checks, and mark_publishing, with no await between them.
Enter(t, k) ==
    LET started == [task EXCEPT ![t] = StartRow(@)]
    IN  /\ At(t, k, "ready")
        /\ \/ \* not startable, or start() raises
              /\ Return(t, k)
              /\ UNCHANGED <<task, draft, platform>>
           \/ /\ CanStart(task[t])      \* paused
              /\ task' \in {started} \cup
                   {[started EXCEPT ![t] = FailRow(@, now, TRUE, b)] : b \in Backoff}
              /\ Return(t, k)
              /\ UNCHANGED <<draft, platform>>
           \/ /\ CanStart(task[t])      \* the pause, the draft or its lock raises
              /\ task' \in {started, [started EXCEPT ![t] = ResultUnknownRow(@)]}
              /\ Handle(t, k)
              /\ Return(t, k)
           \/ /\ CanStart(task[t])      \* DRAFT_NOT_PUBLISHABLE
              /\ ~CanMarkPublishing(draft)
              /\ task' \in {started, [started EXCEPT ![t] = FailRow(@, now, FALSE, 0)]}
              /\ draft' \in {draft, MarkedFailed(draft, now)}
              /\ Return(t, k)
              /\ UNCHANGED platform
           \/ /\ CanStart(task[t])
              /\ CanMarkPublishing(draft)
              /\ task' = started
              /\ draft' = To(draft, "publishing", now)
              /\ Goto(t, k, "checking")
              /\ UNCHANGED platform
        /\ UNCHANGED world

\* The pictures are uploaded and the text is checked once more.
Pass(t, k) ==
    /\ At(t, k, "checking")
    /\ Goto(t, k, "posting")
    /\ UNCHANGED <<world, task, draft, platform>>

\* A picture fails: the draft goes back before the task does, with an await
\* between them.
BackOff(t, k) ==
    /\ At(t, k, "checking")
    /\ draft' = Settled(draft, "retry_wait", now)
    /\ Goto(t, k, "backing")
    /\ UNCHANGED <<world, task, platform>>

\* The check refuses or the rate limit is reached: draft and task go back
\* together, and an await follows.  Here an exception of the draft store is
\* swallowed, which leaves the draft in publishing.
Hold(t, k) ==
    /\ At(t, k, "checking")
    /\ draft' \in {draft, Settled(draft, "retry_wait", now)}
    /\ Record(t, "retry")
    /\ Goto(t, k, "filing")
    /\ UNCHANGED <<world, platform>>

BackedOff(t, k) ==
    /\ At(t, k, "backing")
    /\ Finish(t, k, {"retry"})
    /\ UNCHANGED <<world, draft, platform>>

\* The last await is over; or the check itself had raised.
Filed(t, k) ==
    /\ At(t, k, "filing") \/ At(t, k, "leaving")
    /\ Return(t, k)
    /\ UNCHANGED <<world, task, draft, platform>>

\* The platform publishes the content the coroutine read on entry: no edit is
\* possible since, so it is that of the draft's revision.
Publish(t, k) ==
    /\ At(t, k, "posting")
    /\ Goto(t, k, "posted")
    /\ posts' = posts + 1
    /\ posted' = posted \cup {draft.revision}
    /\ UNCHANGED <<world, task, draft, reopened>>

\* The answer is False: the platform refused.
Refused(t, k) ==
    /\ At(t, k, "posting")
    /\ draft' = Settled(draft, "retry_wait", now)
    /\ Goto(t, k, "backing")
    /\ UNCHANGED <<world, task, platform>>

\* There is no answer, whether or not the platform published.  An answer that
\* says nothing is archived before the task is told, and an exception of the
\* draft store is swallowed; after a call that raised, draft and task are told
\* together.
NoAnswer(t, k) ==
    /\ At(t, k, "posting") \/ At(t, k, "posted")
    /\ \/ /\ draft' \in {draft, Settled(draft, "result_unknown", now)}
          /\ Goto(t, k, "doubting")
          /\ UNCHANGED task
       \/ /\ draft' = Settled(draft, "result_unknown", now)
          /\ Record(t, "unknown")
          /\ Goto(t, k, "leaving")
    /\ UNCHANGED <<world, platform>>

Doubted(t, k) ==
    /\ At(t, k, "doubting")
    /\ Finish(t, k, {"unknown"})
    /\ UNCHANGED <<world, draft, platform>>

Answered(t, k) ==
    /\ At(t, k, "posted")
    /\ draft' = Settled(draft, "published", now)
    /\ Goto(t, k, "archiving")
    /\ UNCHANGED <<world, task, platform>>

Archived(t, k) ==
    /\ At(t, k, "archiving")
    /\ Finish(t, k, {"succeed", "unknown"})
    /\ UNCHANGED <<world, draft, platform>>

\* Anything else that raises ends in the outer handler: a picture's or a
\* refusal's mark_retry_wait, an archive, the mark_result_unknown of a call
\* that raised, and mark_published.
Raise(t, k) ==
    /\ \E place \in {"checking", "backing", "filing", "posting", "posted"} :
         At(t, k, place)
    /\ Handle(t, k)
    /\ Finish(t, k, {"unknown"})
    /\ UNCHANGED world

-----------------------------------------------------------------------------
Step(t, k) ==
    \/ Refuse(t, k) \/ Enter(t, k) \/ Pass(t, k) \/ BackOff(t, k) \/ Hold(t, k)
    \/ BackedOff(t, k) \/ Filed(t, k) \/ Publish(t, k) \/ Refused(t, k)
    \/ NoAnswer(t, k) \/ Doubted(t, k) \/ Answered(t, k) \/ Archived(t, k)
    \/ Raise(t, k)

Next ==
    \/ Boot \/ Crash \/ Tick \/ RecoverStuck
    \/ CreateDraft \/ PatchDraft \/ RejectDraft
    \/ \E t \in Task :
         \/ RetryPass(t) \/ Watchdog(t)
         \/ ApproveDraft(t) \/ RetryDraft(t) \/ RetryTask(t) \/ CancelTask(t)
         \/ \E k \in Copy : Step(t, k)

Spec == Init /\ [][Next]_vars

-----------------------------------------------------------------------------
(* Properties.                                                             *)

\* What reaches the platform is a revision that a reviewer looked at and
\* approved: an edit by somebody else in between makes the approval fail.
PostsWhatWasApproved == posted \subseteq approvals

\* The review implements ReviewGate: a draft rejected, or expired before it
\* was approved, is closed for ever, and an approved one is never rewritten.
phase ==
    IF approvals # {} THEN "granted"
    ELSE IF draft.status \in {"rejected", "expired"} THEN "closed" ELSE "open"

Gate == INSTANCE ReviewGate WITH
    gate <- [phase |-> phase, revision |-> draft.revision]

KeepsGate == Gate!Spec

\* A draft that says it is published is on the platform.
PublishedWasPosted == draft.status = "published" => posts > 0

\* However tasks are retried, recovered and interrupted, the platform
\* publishes at most one dynamic for every request of a person, and one more
\* for every time the outer handler cannot write that the result is unknown
\* and reopens a draft that it, or another coroutine, had already sent off.
PostedPerCommand == posts <= commands + reopened

\* After one request to publish, and unless it is reopened like that, the
\* status publishing is a lock: however often the passes fail and rerun its
\* task, one coroutine is between mark_publishing and the answer.
PublishingIsExclusive ==
    commands + reopened <= 1 =>
    Cardinality({p \in Task \X Copy :
                   run[p[1]][p[2]].at \in {"checking", "posting", "posted"}}) <= 1

\* What is posted was approved, and what says it is published was posted.
OnlyApproved == PostsWhatWasApproved /\ PublishedWasPosted

\* One post for a request, and one coroutine at it.
PostedOnce == PostedPerCommand /\ PublishingIsExclusive

\* A draft does not stay in publishing: its coroutine or the recovery of stuck
\* drafts takes it out.
InPublishing == draft.status = "publishing" /\ draft.updatedAt + StuckTime < MaxNow
=============================================================================
