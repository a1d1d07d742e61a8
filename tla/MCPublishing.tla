---------------------------- MODULE MCPublishing ----------------------------
(***************************************************************************)
(* What the account publishes of its own accord: the drafts that wait for  *)
(* a review, the weekly summary, and the dynamics that are posted without  *)
(* one.  The three share the process and the operator's requests and       *)
(* nothing else, so a behaviour follows one of the Parts, chosen at the    *)
(* start.                                                                  *)
(***************************************************************************)
EXTENDS DraftPublish, TLC

CONSTANTS
    Parts,          \* which of "drafts", "week" and "post" a run looks at
    StoreFails, WeekCrashes, WeekRequests,
    Minute, Day, PerMinute, PerDay, GlobalQuota, Dynamics, Others,
    PostNow, MaxTroubles, MaxUnlimited

VARIABLES
    part,
    monday, row, archived, loop, held, quiet, sound,
    clock, up, troubles, enabled, lim, global, account, status, attempts, at,
    kept, lost, unlimited, unreturned, unread, cleared, online

\* The week's loop is the process of the drafts; a dynamic has a clock of its own.
Week == INSTANCE WeeklySummary WITH
    MaxCrashes <- WeekCrashes, MaxRequests <- WeekRequests
Dynamic == INSTANCE DirectPost WITH
    MaxNow <- PostNow, now <- clock, alive <- up

ASSUME PublishingAssumption ==
    /\ Parts \subseteq {"drafts", "week", "post"}
    /\ Week!WeeklyAssumption
    /\ Dynamic!LimiterAssumption /\ Dynamic!PostAssumption

processVars == <<now, alive, crashes, requests>>
draftVars == <<task, run, inflight, draft, approvals, commands, posts, posted,
               reopened>>
weekVars == <<monday, row, archived, loop, held, quiet, sound>>
postVars == <<clock, up, troubles, enabled, lim, global, account, status,
              attempts, at, kept, lost, unlimited, unreturned, unread, cleared,
              online>>
allVars == <<part, processVars, draftVars, weekVars, postVars>>

PublishingInit == part \in Parts /\ Init /\ Week!Init /\ Dynamic!Init

InDrafts == part = "drafts" /\ UNCHANGED <<part, weekVars, postVars>>
InWeek == part = "week" /\ UNCHANGED <<part, draftVars, postVars>>
InPost == part = "post" /\ UNCHANGED <<part, processVars, draftVars, weekVars>>

PublishingNext ==
    \/ InDrafts /\ Next
    \/ InWeek /\ Week!Next
    \/ InPost /\ Dynamic!Next

PublishingSpec == PublishingInit /\ [][PublishingNext]_allVars

\* The clock runs, the process is restarted and recovers stuck drafts, and the
\* event loop starves no coroutine; the passes of the weekly summary come
\* round, and the model, asked again and again, answers in the end.
FairPublishing ==
    /\ PublishingSpec
    /\ WF_allVars(InDrafts /\ Tick) /\ WF_allVars(InDrafts /\ Boot)
    /\ WF_allVars(InDrafts /\ RecoverStuck)
    /\ \A t \in Task, k \in Copy : WF_allVars(InDrafts /\ Step(t, k))
    /\ WF_allVars(InWeek /\ Week!Tick) /\ WF_allVars(InWeek /\ Week!Boot)
    /\ WF_allVars(InWeek /\ Week!Write) /\ WF_allVars(InWeek /\ Week!Finish)
    /\ WF_allVars(InWeek /\ Week!NotWritten) /\ WF_allVars(InWeek /\ Week!RetryPass)
    /\ WF_allVars(InWeek /\ Week!Watchdog) /\ SF_allVars(InWeek /\ Week!Archive)

\* What the runs check beside the properties of DraftPublish, stated and
\* explained in the modules themselves.

\* The week's row belongs to the check that holds it, and does not lie.
WeekIsHonest == Week!HolderKeepsRow /\ Week!SuccessIsArchived

\* The limiter counts what was posted, and a refused post gives its slot back.
QuotaIsExact == Dynamic!QuotaHolds /\ Dynamic!RefusalsGiveBack
PauseStopsUnchecked == Dynamic!PauseStopsUnchecked
RetriedIsNotOnline == Dynamic!RetriedIsNotOnline

\* A draft leaves publishing, and the week gets its summary: each in the
\* behaviours that are its own.
Waits == (part = "drafts" /\ InPublishing) \/ (part = "week" /\ Week!Unwritten)
NothingWaitsForEver == Waits ~> ~Waits

CONSTANTS p1, p2
TaskSymmetry == Permutations(Task)
=============================================================================
