# bilibili_ai_bot in TLA+

Specifications of the bot under `src/bilibot`, the TLC runs that check them and
the theorems TLAPS proves about them. Paths without a directory are under
`src/bilibot/`; line numbers of every modelled definition are in
`PROJECT.json` under `map`.

## 1. The system

One Python process runs one Bilibili account: an asyncio event loop, a few
SQLite files opened with short connections, a YAML configuration, and two
external services, the Bilibili platform and language-model providers. All work
of the bot is done by coroutines of this one loop, so what is atomic is exactly
what runs between two `await`s, and everything durable is a row that a single
SQL statement changes. Blocking work goes to threads (`asyncio.to_thread`): the
stores of the memory brain, the analysis of videos and the backups are where
threads meet.

### Parts, state and operations

| Part | State it keeps | What it does |
|---|---|---|
| Task runs: `services/task_store.py`, `scheduler_task_dispatch.py`, `scheduler_task_retry.py`, `scheduler_proactive_tasks.py`, `scheduler_daily.py` | `task_runs` rows; `_inflight_task_runs`; the slots triggered today | create, claim, start, succeed, fail, mark result unknown, cancel, retry, expire, interrupt; watchdog of leases; retry pass; recovery at start |
| Main loop: `scheduler_start.py`, `scheduler.py` | `running`, the background tasks, last-run times | every minute: day change, cookies, recoveries, comments, retries, watchdog, messages, due slots, companion tick, weekly summary |
| Weekly summary: `scheduler_weekly.py` | one task row per week, one archived event | write the summary of the week on Mondays |
| Dynamic drafts: `services/dynamic_draft_store.py`, `scheduler_draft_publish.py`, `api/dynamic_drafts.py` | `dynamic_drafts` rows with a revision | create, edit, approve, reject, publish, retry, recover stuck, expire |
| Comment replies: `services/reply_state.py`, `scheduler_comments.py`, `scheduler_comment_retry.py`, `api/replies.py` | `reply_states` rows | answer new comments, retry and resend, manual retry, recovery of stuck rows |
| Proactive comments: `services/proactive_comment_store.py`, `scheduler_proactive_publish.py`, `scheduler_proactive_retry.py`, `services/interaction_policy.py` | `proactive_comment_actions` rows under a partial unique index; the policy's log | claim a video, write, vet, publish, retry, recover leases |
| Private messages: `services/pm_state_store.py`, `scheduler_pm.py`, `scheduler_pm_retry.py` | `pm_states` rows with a table of legal transitions | poll a session, archive, answer, retry, recover, acknowledge |
| Publishing dynamics directly: `scheduler_dynamic_post.py`, `scheduler_image_prompt.py` | task rows, quota | write, check, reserve, illustrate and post a dynamic |
| Safety: `services/safety.py` | sliding windows in memory and in a table, pauses | check content, reserve and refund quota, pause |
| Watching videos: `scheduler_proactive_video.py`, `scheduler_watch_video.py` | the watchers' lock, downloaded files, the interactions' log | choose, download, understand, archive, judge, like or pay |
| Bangumi: `bangumi.py`, `scheduler_bangumi.py` | archived events per episode and act, the marks of completion | take an episode, judge it, like, comment, follow |
| Video understanding: `video_understanding/` | a semaphore, a thread pool, work directories and timers | describe a video's frames and sound |
| Memory brain: `memory_brain/` | events, derived rows, jobs with leases, a cache of vectors | archive, enrich, recall, consolidate, delete |
| Companion and motive: `companion/`, `scheduler_motive.py` | JSON files of the companion's state, open activities, energy | plan, dream, write a diary, explore, write; let act or rest |
| LLM: `llm/` | the providers' pools and routes, the slots and gates of keys | choose a model and a key, fail over, cool down |
| Accounts and configuration: `account/`, `api/config.py`, `app/config_loader.py`, `bilibili_qrlogin.py` | `config.yaml`, its copies in loader, registry, instance and client; the running loop | edit, log in, refresh, start, stop, reload |
| Backups: `api/backup.py` | directories of copies | create, list, delete, restore |
| Panel, personas, audit, prompts: `web/`, `api/`, `services/` | sessions, persona files, `audit.db` | HTTP handlers over the rest |

`PROJECT.json` lists 26 components with the files of each and says of each
whether it is modelled.

### How they interact

* The **main loop** calls every pass in a fixed order and awaits it, so two
  passes of the loop never overlap. Tasks it *spawns* (`create_task`) do overlap
  with it, with each other and with the panel's handlers.
* The **panel** and the scheduler share the stores and the objects in memory;
  the guard in the `WHERE` clause of an `UPDATE`, or a look at a field before an
  `await`, is the only thing between them.
* The **platform** accepts a post before it answers, and the answer may be
  refused, unreadable or lost. Every publication therefore ends in success, in
  a refusal that may be retried, or in `result_unknown`.
* The **memory brain** is written before the account shows or does anything: an
  intent before an act, an outcome after it, each under a key of its own. A
  second write of a key with the same text is a success, with another text an
  error.
* **Rows and files outlive the process.** The next start (and some of them every
  minute) recovers rows that were in the middle of something.
* **Leases and backoffs** are wall-clock times in the rows; a coroutine or a
  thread that outlives its time is not stopped, and answers later.

### What is hard, and what correctness means

The 40 hazards in `PROJECT.json` are the lines where this design bites. In one
sentence per part:

* Task runs: a row settles once and for ever, is not executed more often than
  its attempts allow, and does not stay with a coroutine that is gone.
* Weekly summary: a week gets its summary, a success is backed by an archived
  event, and nobody takes the row from the check that holds it.
* Drafts: only what a reviewer approved is posted, at most once per request,
  and a draft does not stay in `publishing`.
* Replies, private messages, comments: one answer whatever fails and when; what
  is acknowledged has a row; no late call revives a settled row; no crash locks
  a row or a video.
* Dynamics and quota: the windows count what was posted, a refusal gives its
  place back once, a pause stops what has not been checked.
* Watching: a video gets a coin once and a day no more than its budget; a file
  neither vanishes under its user nor stays for ever.
* Bangumi: each act once per episode, and an episode is completed in the end.
* Video understanding: what is handed over is complete and on the disk;
  directories go; whoever waits gets a turn.
* Memory: a deleted event leaves nothing that is derived from it, a lost
  derivation is noticed, a conclusion goes with its evidence.
* Companion: what it shows is archived; an open activity is known to somebody;
  rest opens the gate again.
* Models: a key's slots and gates count its requests; a route does not lead
  nowhere; every request ends.
* Accounts and configuration: no saved edit is lost, the copies follow, one loop
  runs while the account runs and none when it is stopped.
* Backups: a restore is whole, or everything it replaced is still somewhere.

## 2. The modules

Definitions keep the names of the source where TLA+ allows. Every store module
has, for each SQL statement, a guard (`Can...`, the `WHERE` clause) and a
row-to-row operator (the `SET` clause), and no variables: a handler that makes
several calls without an `await` between them composes them in one action.
Every other module has one action per stretch of code between two `await`s.
Operators with an underscore in their name, or named as variants, are what a
plausible bug would look like; no specification uses them, they confirm that the
properties notice.

| Module | Models | Builds on |
|---|---|---|
| `TaskStore` | `services/task_store.py`: one row of `task_runs` | |
| `TaskTable` | the table, the coroutines of its tasks, what any scene does to a row: spawn, done callback, record an outcome, recovery, redispatch, watchdog, cancel | `TaskStore` |
| `TaskRun` | the lifecycle: slots, manual tasks, retry pass, watchdog, operators, boot, crash, the video and dynamic coroutines | `TaskTable` |
| `TaskPromise` | the abstract specification: a task waits, is executed, goes back or is done | |
| `WeeklySummary` | `scheduler_weekly.py` and the other visitors of its row | `TaskStore` |
| `DraftStore`, `DraftPublish` | one row of the drafts; review, publish tasks, `do_publish_approved_draft`, recovery | `TaskTable` |
| `ReviewGate` | the abstract specification of the review | |
| `ReplyStore`, `CommentReply` | one row of the replies; `scheduler_comments.py`, `scheduler_comment_retry.py`, manual retry, recovery | |
| `ActionStore`, `ProactiveComment` | one row of the comments; the watcher, the retrier, the policy's log, the unique index, manual retry, recovery | |
| `PmStore`, `PrivateMessage` | one row of the private messages; poll, answer, retry, recovery | |
| `RateLimiter`, `DirectPost` | the sliding windows; a dynamic between pauses and limits | |
| `VideoWatch` | the watchers, a mention's watch, the panel's test, files, timers, interactions | |
| `VideoAnalysis` | `video_understanding/`: semaphore, threads, limits, tracks, directories | |
| `Bangumi` | the check of the day and a manual one, the acts and their events | |
| `MemoryStore`, `MemoryJobs` | one event's rows and jobs; worker and drain | |
| `VectorCache` | the vectors of one model and the cache of them | |
| `MemoryArchive` | observations, reflections, their links, deletion | |
| `Backup` | creation and restore of backups | |
| `Companion` | the stages of the companion's day | |
| `LifeRhythm` | energy, rest and the gate | |
| `KeyPool` | keys, slots and gates of a provider | |
| `ModelRouter` | pools and routes of the models, and who holds which | |
| `Settings` | `config.yaml` and its copies, QR login, cookie refresh | |
| `AccountLife` | initialize, start, loop, close | |
| `TaskRunProofs`, `ProactiveCommentProofs` | theorems about `TaskRun` and `ProactiveComment` | these |
| `PublishingProofs`, `TalkingProofs`, `DayProofs`, `MemoryProofs`, `PanelProofs`, `TurnsProofs` | theorems about the parts of the sum of that name | `MCPublishing`, ... |
| `MCTaskRun`, `MCPublishing`, `MCTalking`, `MCMemory`, `MCPanel`, `MCDay`, `MCTurns` | instances and sums for the runs | all of them |

A **sum** module (`MCPublishing` and those after it) instantiates several
modules that share no state in these models: its variable `part` is chosen in
the initial state, and a behaviour then follows that module alone, the variables
of the others standing still. Safety properties of a sum are the conjunctions of
what its modules promise. A liveness property `Waits ~> ~Waits` has one disjunct
per part, so it says of each module that what waits there stops waiting; its
fairness conditions name the part, so each belongs to one module's behaviours.

### Task runs

`task[t]` is the row, `run[t][k]` the place of the k-th coroutine of task t,
`inflight[t]` the entry of `_inflight_task_runs`, `triggered` the slots this
process has triggered. `Boot` is the start of `scheduler_start.py`:
`recover_interrupted`, `expire_overdue`, `retry` and dispatch of interrupted
rows, the plan of the day, `mark_overdue_as_triggered`. `TriggerSlot` is
`check_proactive_tasks`, `RetryPass` is `process_retryable_tasks`, `Watchdog` is
`_recover_orphaned_task_runs`, `CreateManual`, `CancelRequest`, `RetryRequest`
are the panel's. A coroutine is `Refuse` or `Enter` (its first step, up to
`start()`), `Work`, and for dynamics `Publish`, `NotPublished`, `Published`.
Two things the code does and a reader might not expect are kept: the done
callback pops the entry of its task id whichever coroutine it names by then, and
coroutines of slots for dynamics and of manual requests are not tracked at all.

`begun`, `cut`, `requeued` and `posts` are history variables: they count starts,
restarts that cut an execution short, operators' retries and published dynamics.

### Weekly summary

The check is one coroutine of the main loop, `loop` is where it waits, `held`
whether it owns the row (`task_id` is not None). `Taken` lists what the branches
on the existing row come to, `Botched` the same when a statement of the store
raises half way (the exception is logged and the check goes on). `monday` and
`quiet` are the calendar and a week without activity, `sound` remembers that the
store never raised.

### Drafts

One draft, several publish tasks, several coroutines per task. `ApproveDraft`,
`RetryDraft` and `RetryTask` are the requests of a person that ask for a
publication and are counted in `commands`; `approvals` collects the revisions
reviewers named. The actions of a coroutine follow `do_publish_approved_draft`
from one `await` to the next: `Enter` (start, pause checks, `mark_publishing`),
`Pass`, `BackOff`, `Hold` (pictures and the second check), `Publish`, `Refused`,
`NoAnswer`, `Answered`, then what is done to draft and task after each, and
`Raise` for what raises meanwhile. `Handle` is the outer handler: the draft's
result becomes unknown, or, if that statement raises, the draft goes back to
`retry_wait`, whether or not it was posted. `reopened` counts the times that
happened after the post was due (bound `MaxReopened`), and `PostedOnce` allows
one post more for each. That draft and task are moved in separate steps on
some paths and in one on others is the code's.

### Replies

One row, one worker (both passes are awaited by the main loop). `path` tells
whether it works on a new comment, resends a text (`retry_wait`) or starts over
(`deferred`); `item` is the copy of the row that `get_retryable` listed, which
is what the handler works from, while `row` may have been changed by a manual
retry. `finds` fixes in the initial state whether the lookup in the thread always
finds the bot's reply: it reads one page and counts its own failure as a no, so
the property about a single reply is stated where it can be kept.

### Proactive comments

Rows `action[a]` of the videos; two workers at `at[w]` on row `on[w]`, because a
watcher task and the main loop's retry pass run side by side. `logged` is what
`CommentPolicy` counts. `pending` is the list of the retry pass. `prompt` fixes
whether a watcher may outlive the 900 s lease of its claim, see section 7.

### Private messages

One talker, whose messages are numbered. `Fetch` is one poll: the window it gets
may miss old messages when the account's own ones take up room, the batch takes
the oldest, the rest get a row and keep the session unacknowledged (`clean`).
`TakeNew` and the retry pass's actions then lead a message through archive,
generation, check and send; `on` is the message, `pass` the pass. Each change of
status goes through `update_status` with its table: `PmStore` has the table, and
`TableRefusesNothing` says that whatever the passes and the recovery want to do
it allows. `accepted` counts what the platform took.

### Dynamics and the safety checker

`RateLimiter` is a module of operators on one record: windows as queues of
times, the table of rows a restart reads, reservation in one step, refund that
pops the key's latest entry. `DirectPost` has tasks that post dynamics and
publications of another scene that share the account's day. `global` and
`account` are the two pauses, the second with its row and its copy in memory.
History variables: `kept` counts per key what was reserved and not refused,
`lost` failed insertions, `unlimited` what passed while the limiter was off,
`unreturned` refusals that were not given back or whose row could not be
deleted, `unread` the most rows that a load which failed left out of the windows,
`cleared` who was past the check when the pause began. `Loaded` and `Unloaded`
are the two ends of a start's load.

### Watching videos and their analysis

`VideoWatch`: `queue` is who waits for the lock, `run` who holds it and where it
is: choose a candidate, reuse what is archived or download, understand, archive,
judge, act. The panel's test takes no lock. `file` says which download is at a
path, `apart` which have been moved into the directory of their analysis, as
`preprocess_video` does (`Prepare`, `TestPrepares`), `timers` the delayed removals
with the download they saw. A timer is set on the path and, where the caller knows
it, on the directory; `Astray` is the caller that does not know it. History
variables: `left` is what a dead process had not removed, `stray` what no caller
finds or what could not be removed. `log`, `spent`
are the policy's table, `taken` what the platform accepted; `vague` and
`unrecorded` count what it accepted and the log does not say. `VideoAnalysis` is
one level down: `at[a]` is where `understand()` and then its caller is,
`thread[a][j]` how far each job in the executor is, whether or not anybody waits
for it any more. A timer of kind `"sure"` is one with `delete_if_appears`. `Known`
says which caller takes the directory from what it gets: everybody from a result,
from an exception only the tasks and the episodes.

### Bangumi

`runner[r]` goes through one check: an episode, the file, the judgement, then
for each act its intent, the act, its outcome. `event[e, a]` are the events of
the archive per state, with the text they carry, since the archive refuses
another text under the same key. `taken` counts what the platform accepted.

### Memory

`MemoryJobs` follows one event: `jobs[t]` and `rows[t]` are the brain_jobs row
and what it leaves, `task[l][t]` the coroutine a loop runs for the type, before
or after the model answered and the lease was renewed. `VectorCache` gives the
search its three steps (look, build from rows, rank) and the writer its two
(commit, drop). `MemoryArchive` splits the nightly consolidation into look, read,
think, archive and link, with links of three kinds that deletion treats
differently. `Backup` has one action per file operation, each of which may fail,
and a rollback whose operations may fail too.

### Companion and its energy

`workers` are the scheduler's tick and a request of the panel, which may be in
the same generator at once. A key is `<<what, a, b>>`, a text a key and one of
`Texts`; `docs` and `acts` are the brain, `kept` and `book` the JSON files,
`open` the activities the process knows. `scheduled` is `schedule.enabled`: with it
off the tick plans nothing, and a plan the panel asks for is a stopgap the service
fills in and keeps without an activity or an archive (`KeepStopgap`). `LifeRhythm` steps through half hours:
what an act, a waking half hour, a rest and a night do to the energy, and when
rest is the strongest motive. `dry` and `session` are the pause after a dry feed
and the window of watched videos.

### Models

`KeyPool`: a generation is one provider object with its slots; gates belong to
keys and outlive generations, requests stay with the generation they started
in. `ModelRouter`: `pool` and `route` are the router's, `file` what was saved,
`chat` and `embedding` the objects the running account and its memory hold.

### Configuration and the account

`Settings` numbers the writes, so a copy is known by the write it comes from:
`disk`, `raw`, `reg`, `acct` and `live` are the file, the loader, the registry,
the instance and the client. `wanted` is what was last saved with success.
`AccountLife` numbers the objects each `initialize()` makes; `loops` and `open`
say which loops run and which brains have a worker. A start with credentials makes
a client (`WithClient`), one without goes on to the brain (`WithoutClient`), a login
supplies the client later (`Login`).

## 3. What the runs check

| Run | Instance | Properties |
|---|---|---|
| `taskrun_safety` | one dynamic of the plan, 2 coroutines, 5 units of time, 2 crashes, 2 operator requests | `StartBudget`: starts are bounded by attempts, restarts and the execution under way; `AttemptsCapped`; `SettledStays`: a late coroutine changes nothing; `KeepsPromise`: refinement of `TaskPromise` |
| `taskrun_live` | a video of the plan and a manual one, 1 crash, fair | `SlotVideoHasOneExecutor`; `OrphansAreRecovered`; `RetriesAreTaken` |
| `review` | drafts: 1 task, 2 revisions, expiry, missing parts, 1 crash; week: 3 units, 2 crashes, 2 requests, a store that may raise; fair | `OnlyApproved`: what is posted was approved, what is published was posted; `KeepsGate`: refinement of `ReviewGate`; `WeekIsHonest`; `NothingWaitsForEver` |
| `quota` | drafts: 2 interchangeable tasks, 2 requests, 1 crash, 1 draft reopened by the handler; posts: a dynamic and two replies, 2 a day, 2 troubles | `PostedOnce`: one post per request of a person, and one per draft the handler reopened; `QuotaIsExact`; `PauseStopsUnchecked`; `RetriedIsNotOnline` |
| `talking` | comments: 1 video, 2 rows, 2 workers; replies: 2 texts, 2 revisions, 3 posts, 1 found reply overlooked; private: 2 messages, batch of 1; 1 crash and 1 manual retry each; fair | `CommentedOnce`; `RepliedOnce`: one reply, and one more for each found reply that could not be recorded; `AnsweredOnce`; `AckedIsRecorded`; `LateCallsRequeueNothing`; `TableRefusesNothing`; `NothingStaysStuck` |
| `memory` | 2 types of job, 2 loops; 2 events, 2 searches; 2 notes, 2 nights; 3 files, 2 logs, 3 troubles | `DeletedIsGone`; `LossIsSeen`; `DeletionTakesConclusions`; `RestoreIsSafe` |
| `panel` | 2 editors, a poll, 3 writes; 2 requests at once, 4 in all; 2 providers, 4 edits | `EditsSurvive`; `CopiesAgree`; `OneLoop`; `RoutesHold` |
| `day` | 2 tasks, 2 videos, a mention, a test, coins; the tick's plan, detail and diary on 1 day, with the schedule on or off, beside 1 request; 1 episode, 2 checks, 2 acts, 2 texts | `BudgetsHold`; `FileStays`; `FileGoes`: what is not removed and has no timer was lost by a crash, by a raising analysis or by a failed removal; `KeptIsArchived`: but for the stopgap; `OpenIsKnown`; `ActedOnce` |
| `turns` | a watch and a test, 1 frame, 1 or 2 places; 2 keys, a chat and a stream, 2 edits; days of 48 half hours; fair | `SlotsAreCounted`; `EvidenceIsWhole`; `DirectoryGoes`; `EveryTurnComes` |
| `taskrun_republish` | the dynamic, 1 crash, no request | *violated*: `PublishedOnce` |
| `bangumi_settle` | 1 runner, 1 episode, 1 act, 2 texts, 2 troubles, fair | *violated*: `EpisodesSettle` |
| `analysis_reload` | a watch and a test, 1 reload, fair | *violated*: `ReloadInterruptsNobody` |

Units of time: the watchdog's 300 s in the task modules, the length of the lease,
cool-down or timeout elsewhere; the constants only have to be large enough that
a thing can be before, at and after its time. Two coroutines per task suffice to
have one that outlived its lease next to its successor; two of each actor in the
other modules are the pair that interferes. `MaxAttempts = 2` has a first, a last
and a spent attempt. Rows of different tasks (comments, messages, videos) share
no state that the properties see, except through the plan's order (checked in
`taskrun_live`), the draft (two tasks in `quota`), the quota (three publications
for two places) and the watchers' lock (two tasks, a mention and a test). The
second platform post, where a property forbids it, is the interesting one, so
`MaxPosts = 2` loses nothing. Three files, two of them databases, have one that
was replaced, one that fails and one that was not touched. Symmetry is used only
for the publish tasks of `quota` and the watching tasks of `day`, which check no
liveness.

Deadlock is not checked: with the clock at its bound, everything settled and no
requests or troubles left, these systems rest.

Every property of a passing run has been confirmed to fail in its own run when
one definition is replaced by a faulty variant (`mutants` in `PROJECT.json`): the
watchdog without its look at the table, `fail()` that forgets an attempt, an
approval without its revision, a lookup that is skipped, a recovery that queues
what may be out, a lease that is not looked at before a result is written, a slot
not given back by a request that was waiting, and so on.

### Fairness

* `Tick` and `Boot`: time passes and a dead process is restarted.
* Coroutine steps are weakly fair: the event loop is a FIFO queue and every
  external call has a timeout. Threads are not: an extractor may hang for ever.
* The passes of the main loop (retry, watchdog, recovery of stuck drafts) are
  weakly fair: the loop comes round every minute. `RecoverStuck` of replies and
  proactive comments is strongly fair: each round recovers before it takes up
  the next row, so a row that is stuck again and again is recovered again.
* `Archive` in `WeeklySummary` is strongly fair: asked again every minute, the
  model answers at some point. `NotWritten` is fair too, so an answer may fail
  any finite number of times.
* `Enter` of `KeyPool` is strongly fair: a gate is an `asyncio.Semaphore`, which
  serves its waiters in order.
* `HalfHour` of `LifeRhythm`: time passes. Watching, failing and posting are not
  fair: the gate must open whether or not anything is done.
* The main loop asks for the day's bangumi check every minute, cool-downs end
  and the next day comes (`Check("daily")`, `Cooled`, `Tomorrow`).
* Operators, reviewers, failures of the store and crashes get no fairness.

The clock stops at `MaxNow`; the premises of the liveness properties leave out
rows whose time would come only after it.

## 4. What is proved

`TaskRunProofs` proves, for every set of tasks, every plan, every number of
coroutines per task and every bound:

| Theorem | Statement |
|---|---|
| `TypeCorrect` | `Spec => []TypeOK` |
| `ExecutionsBounded` | `Spec => []StartBudget` |
| `CapHolds` | `Spec => []AttemptsCapped` |
| `SettledRowsStay` | `Spec => SettledStays` |
| `ImplementsPromise` | `Spec => KeepsPromise`, the refinement of `TaskPromise` |
| `OneExecutor` | `Spec => [](requests = 0 => SlotVideoHasOneExecutor)` |

Assumptions: `StoreAssumption`, `TableAssumption` and `TaskAssumption`, which
only say that leases, backoffs and bounds are natural numbers, that there is at
least one attempt, and that slots and videos are tasks. TLC evaluates them in
the runs of `MCTaskRun`.

The argument has one central lemma. `Effect(t)` lists what a step can do to one
task: nothing; create, claim, cancel or expire its row; start it and count the
start; settle it; spend an attempt; requeue it; cut it short at a restart.
`NextEffect` shows that in a type-correct state every action, whatever else it
does, has one of these effects on every task and leaves a type-correct state; it
goes action by action, through one lemma per kind of step (`RecordEffect`,
`ClaimEffect`, `RedispatchEffect`, `StartEffect`, `BootEffect`, ...), which in
turn rest on what each SQL statement does (`StatementsKeepType`,
`StatementEffects`, `FailEffect`). `SettledRowsStay` and `ImplementsPromise`
need no more than that and type correctness. `StartBudget` is inductive relative
to `TypeOK`. `AttemptsCapped` is not inductive as it stands: a row at its cap that
is scheduled could be failed once more. Its strengthening `HasAttemptLeft` says
that whatever may still be failed has an attempt of its cap left.

`OneExecutor` rests on `AllSolo`: every coroutine of a planned video is the one
`_inflight_task_runs` names, which has an entry only while the row is claimed or
running. An operator's retry breaks this, so the theorem holds until the first
request, as in the run `taskrun_live`, which allows none.

Seven more modules follow the same plan: a type invariant, an inductive
invariant that TLC checked on the run before it was proved, a lemma for each kind
of step, and the theorems at the end. Where a run is a sum, the theorem is about
the sum's own specification unless the table says otherwise, so that it is about
the very behaviours the run explores, for every value of the constants.

| Module | Theorem | Property of a run |
|---|---|---|
| `PublishingProofs` | `ApprovedAlways` | `OnlyApproved` |
| | `PostedOnceAlways` | `PostedOnce` |
| | `GateKeptAlways` | `KeepsGate`, the refinement of `ReviewGate` |
| | `PauseStopsUncheckedAlways` | `PauseStopsUnchecked` |
| | `RetriedIsNotOnlineAlways` | `RetriedIsNotOnline` |
| | `QuotaIsExactAlways` | `QuotaIsExact`, within a day |
| | `WeekIsHonestAlways` | `WeekIsHonest` |
| `ProactiveCommentProofs` | `CommentedOnceAlways` | `CommentedOnce` |
| | `LateCallsRequeueNothingEver` | `LateCallsRequeueNothing`, an action property |
| `TalkingProofs` | `RepliedOnceAlways` | `RepliedOnce` |
| | `AnsweredOnceAlways` | `AnsweredOnce` |
| | `AckedIsRecordedAlways` | `AckedIsRecorded`, if `FetchSeesAll` |
| | `TableRefusesNothingAlways` | `TableRefusesNothing`, an action property |
| `DayProofs` | `FileStaysAlways`, `FileGoesAlways` | `FileStays`, `FileGoes` |
| | `BudgetsHoldAlways` | `BudgetsHold` |
| | `OpenIsKnownAlways`, `KeptIsArchivedAlways` | `OpenIsKnown`, `KeptIsArchived` |
| | `ActedOnceAlways` | `ActedOnce` |
| `MemoryProofs` | `DeletedIsGoneAlways` | `DeletedIsGone` |
| | `LossIsSeenAlways` | `LossIsSeen` |
| | `RestoreIsSafeAlways` | `RestoreIsSafe` |
| | `DeletionTakesConclusionsAlways` | `DeletionTakesConclusions`, an action property |
| `PanelProofs` | `EditsSurviveAlways`, `CopiesAgreeAlways` | `EditsSurvive`, `CopiesAgree` |
| | `OneLoopAlways` | `OneLoop` |
| | `RoutesHoldAlways` | `RoutesHold` |
| `TurnsProofs` | `CountedAlways`, `CountedInTurns` | `SlotsAreCounted` |
| | `EvidenceIsWholeAlways` | `EvidenceIsWhole` |
| | `DirectoryGoesAlways` | `DirectoryGoes` |

The theorems of `PublishingProofs` about drafts, of `ProactiveCommentProofs`, of
`DayProofs` about watching and `CountedAlways` are about the specification of
the module itself (`DraftPublish`, `ProactiveComment`, `VideoWatch`, `KeyPool`).

### The assumptions

Every module names what it asks of its constants (`...Assumption`); the sum
modules collect them and TLC evaluates them in the runs. They say that waits,
leases, bounds and limits are natural numbers, that what counts attempts or
places is positive, that sets that are counted are finite, and that names with a
meaning are not taken: a `None` is no video, runner or text, streams are other
requests than chats, tests other analyses than watches, series act by liking,
commenting or following. `BackupAssumption` says that a backup has files, that
they are visited in a fixed order (they are numbered), and that the memory's
database is one of them. Two theorems have a hypothesis of their own:
`AckedIsRecordedAlways` asks for `FetchSeesAll`, that a fetch of the session shows
all that a talker and the bot's answers to it can be. The poll fetches a fixed
number of messages and acknowledges up to the newest, so what lies before them
has no row, and the property is about talkers that do not outrun it.
`QuotaIsExactAlways` asks for `PostNow <= Day`, as in the run: the property compares
a day's windows with all that was ever published, so it is about behaviours of at
most a day, in which the minute's windows expire and the day's do not.

### Drafts, direct posts, the week

`Effect` lists what a step does to a draft and to those who publish it: the
draft rests, is edited, granted, reset, taken by one coroutine, passed on,
yielded, posted or answered; `KeepsGate` follows from it. `OnlyApproved` is
inductive once `GateInv` adds that a draft has left the review exactly if a
revision of it was approved, and that this is the revision it has. `PostedOnce`
counts: `CreditInv` says that posts, coroutines before their post and a waiting
approval together are at most the requests people made and the drafts the outer
handler reopened, so that whoever posts uses up a request nobody else can use. It has to count coroutines as sets,
because a dead process takes with it what it was about to post.

`PostInv` of direct posts adds that a process that is down has nothing under way
and that a task before its post is not online.

`QuotaInv` is a balance. What passed the check and is still under way is paid for
(`Paid`), so that a refusal always finds something to give back. `WindowsMatch`
says of the key's day, of the total and of the rows a restart would read, each
for itself, that its entries are what was published, up to what passed while the
limiter was off or could not be written, up to refusals nobody gave back, and in
the windows, which a load that fails leaves empty beside their rows, up to what
such a load left out. The
steps come in two kinds: `Admits` adds an entry everywhere or counts an excess,
`Returns` takes one away wherever there is one. That a refund may take another's
entry does not matter for the counts; that a key may have no row while the total
of the rows is not empty does, and is settled by the key's own balance
(`RowsLeft`). Under them are lemmas about the limiter's queues: dropping an entry
shortens a queue by one, ordering keeps its length, and within a day nothing
expires.

`WeekInv` adds that a check holds its row only while it waits, and that it goes on
to success only from an archive.

### Comments and messages

`CommentedOnce` needs the row each worker believes it has: `Fits` says what the
status of the row is for every place a worker may be at, or that it was given up
while the worker waited for the platform; `RowsInv` is the unique index, and that
a video with a comment has a row in it that no worker gets. The premises of the
property (no claim outlived, nothing forced) are history variables, so the
invariant `IInv` is `Core` under those premises.

`ReplyInv` follows a reply's text: the text that is looked for, checked and
posted is that of the row (`Current`), and between the last look at the thread
and the post there is nothing in the thread that was not overlooked (`Unposted`). `PrivateInv` has the same
for messages: the place of the loop tells the status of its row (`Placed`), which
is also why the transition table never refuses.

### Watching, companion, series

`Filed` says that every file, at its path or moved into its directory, is in use,
covered by a timer or left to a start (`Covered`), and that each download has one
number and one place (`Numbered`), so that a timer never fits a later file of the
same name; and no timer has the number of a download that is being analysed
(`Owns`). `Balanced` is an account of the coins: accepted acts are those of the
day's count, the vague, the forgotten, and at most one open call; and what was
approved before the first call still is at the last (`StillApproved`), because
the run with the lock is alone in adding to the counts. `KeptInv` says of every
worker's copy of a list that its texts are archived, which is what a write of the
whole list needs, and of the files that the stopgap, if there is one, is the plan
of the day they name (`Shown`), so that the next plan takes its place. `SeriesInv`: a runner inside an act holds its lock, and once
its intent is stored it is the only one to try.

### Memory and backups

`JobsInv` follows the count of a job's rows from the job to the event's metadata
when the row is pruned. `VectorsInv` says that a writer that has erased a vector
and not yet told the cache will tell it about every model, which is what makes a
search that overlaps it safe. `DeletionTakesConclusions` rests on what `Falls`
computes: the least set that is closed under losing its evidence. `DiskInv`
says, for every step of a restore, which files are in place, set aside or replaced
(`Around`, `Through`, `Owed`), and that the snapshot or the live files are whole.

### Configuration and account

`SettingsInv`: the loader has what the file has, a page loaded at the file's
revision is the file's page, and the copies follow the file but for a poll that
has written and not adopted. `LifeInv`: as long as requests do not overlap, an
account nobody works on is either up or down as a whole, and a request under way
knows how far it has taken it (`Coming`, `Going`). Up has a client only if there
were credentials (`HasClient`), and the workers that outlived their instance
(`Left`) are those of the closes that ran out of time and of the brains a start
has replaced.

`RouterInv` says what `RoutesHold` says of the router also of the saved file: that
the two have the same pools and that the file's routes lead somewhere too, because
a restart and a reload take their routes from there; and that an identifier has
one place in a pool, so that what is deleted is gone and what is left is what the
route falls back to.

### Keys and analyses

`Inv` adds to the types of `KeyPool` that a request under way is in a pool that
was made and that one holding a slot has a key. `Counted` sorts the steps by what
they do to slots: nothing, one request takes one slot, or one request gives its
own back; `NextStep` shows that every action, the cancellation in the gate
included, is of these kinds, and `SlotsCounted` that such a step keeps the counts
equal to the cardinalities. `QuotaShared` is not inductive: a request enters a
gate because that gate has room, and the property counts all requests that call
with the key. Its strengthening `OneGate` says that, as long as no gate was
dropped under a request, the router, every pool somebody still uses and every
holder of a slot agree on the gate of a key, and that a router without the
provider has nobody under way. It fails for a pool nobody uses any more, so it
speaks only of the current one and of those with requests.

`AnalysisInv` says of an analysis what it is about to hand over (`Evidence`), what
its threads may still do (`Pending`) and who removes its directory (`Disposal`):
no timer is set before an analysis is left, a track that ended is listened to or
failed, a preparation that outlived its wait has a timer that removes what
appears, and what raised has been named for the caller that takes it or is excused. `OthersStay` reduces
every step but the stop of the account to the one analysis it is about.

### What the proofs changed in the models

The definitions say the same in a form that can be reasoned about, or say what
was left to the reader:

* `phase` of `DraftPublish` and `IndexOf` of `MemoryStore` were a `CASE` whose arms
  overlap, whose value TLA+ leaves open; they are now `IF`s in the order of the code.
* `FirstOf` and `Falls` were recursions over sets and are now the sets they
  compute: those of lower rank are fewer than n, and the least closed set.
* `OneLoop` compares loops instead of counting them, and the sums `Own` and `Total`
  are cardinalities of sets of places, for which the library has theorems.
* `WatchAssumption`, `DayAssumption` and `BackupAssumption` now say that sentinels
  are not taken and files are numbered, which the runs had always been given.
* `Rest` of `ModelRouter` filtered a pool; it now takes the identifier's one place
  out of it, as the dictionary of the code does.
* `RateLimiter` removes what is too old from the left of a queue, as the code does,
  where it filtered; `Trimmed` is an `IF` in the order of the checks; `Ordered` says
  what sorting returns instead of calling a recursive sort; and the two scenes of
  the model are `Keys`, no longer a constant.

Every safety and action property of the passing runs is a theorem. Only
model-checked are the liveness properties `OrphansAreRecovered`, `RetriesAreTaken`,
`NothingWaitsForEver`, `NothingStaysStuck` and `EveryTurnComes`, because fairness
and `ENABLED` are beyond the prover, and the three violations of section 6, which
are behaviours TLC shows.

## 5. Bounds that abstract

`MaxNow`, `PmNow`, `PostNow`, `MaxCrashes`, `MaxTroubles`, `MaxRequests`,
`MaxCommands`, `MaxManual`, `MaxActions`, `MaxRevision`, `MaxPosts`, `MaxEdits`,
`MaxWrites`, `MaxDownloads`, `MaxDrains`, `MaxLinks`, `MaxReloads`, `MaxDays`,
`MaxAsks`, `MaxUnlimited`, `MaxReopened`, `MaxLapses` and their namesakes bound the runs and appear in guards
only; `Copy` bounds how many coroutines of one task are followed. A trouble is
anything the environment does to the system: a crash, a failing write or removal, a
pause. In `day` the companion has one request, so a run has either a plan asked for
with the schedule off or a change of the switch; with two requests the run has more
states than a few minutes allow, and `KeptIsArchivedAlways` covers them.
`TimePasses` does not let time pass before the first step of a coroutine, which
the event loop takes in the iteration after its creation. Texts, users, pictures
and prompts are model values or free choices; what a language model, a checker or
the platform answers is always a free choice.

Cuts of one axis: `RateLimiter` has the minute's and the day's window and not the
hour's between them, and its clock covers one day. `MemoryJobs` follows one event,
`VectorCache` one model, `PrivateMessage` one talker, `DraftPublish` one draft.
`LifeRhythm` steps by half hours and doubles the scores so that they are whole.

## 6. Where code and documentation disagree

Three runs end in a violation, each of a sentence the repository states; the
quoted lines are in `findings`:

* `taskrun_republish`: a process that dies after the platform accepted a dynamic
  publishes it again at the next start, where "do NOT auto-republish" is promised
  (`services/task_store.py:11`).
* `bangumi_settle`: an episode whose comment was deferred once and judged anew
  with another text is refused by the archive every time, and never completed.
* `analysis_reload`: a saved configuration with more workers closes the thread
  pool under a running analysis, where the comment says running work is kept.

More disagreements of the same kind, found by runs of the models at hand and
not kept as runs of their own:

* The watchdog fails dynamics that are alive but untracked
  (`scheduler_proactive_tasks.py:132` against `scheduler.py:303`).
* A failed weekly row paces nothing, the model is asked every minute
  (`scheduler_weekly.py:131` against `:110`).
* A draft whose `mark_result_unknown` raises goes back to `retry_wait` and is posted
  again at the next request, where the comment says the handler is there "to avoid
  auto re-publish" (`scheduler_draft_publish.py:350` against `:344`). `PostedOnce`
  counts these drafts (`reopened`); without them TLC finds the second post.
* A draft that expired while a task of it was on its way is posted
  (`scheduler_draft_publish.py:67` against `services/dynamic_draft_store.py:8`).
* A reply the lookup finds is posted again when marking its row or archiving it
  raises: the handler is the lookup's own (`scheduler_comment_retry.py:152`, `:587`),
  where the pass is to "avoid replying twice" (`:16`, in Chinese). `RepliedOnce`
  counts these (`lapses`); without them TLC finds the second reply.
* A deferral meant to cost nothing ends a reply in `failed` when it came before
  the row had its notification (`scheduler_comment_retry.py:77` against
  `services/reply_state.py:224`).
* A cooling key is still used by a request that waited for its gate
  (`llm/provider.py:697` against "Never hand out a still-cooling key", `:232`).
* A provider that was switched off goes on answering the account that holds it
  (`account/instance.py:162` against `llm/router.py:688`).
* A new summary whose job is not queued again in time may keep the vector of the
  old text (`memory_brain/worker.py:363`); a reflection has no evidence linked to
  it when the process dies between its archive and its links
  (`memory_brain/service.py:682`, "evidence-linked").
* A video is judged from whatever was archived of it, also from a shorter text
  than the watcher itself would accept (`scheduler_proactive_video.py:346` against
  `:526`).
* The directory of a panel's test that failed is not in its result and stays until
  a later start (`api/video_analysis.py:598` against `:593`).
* The analysis of a mention's video is awaited outside of the `try` that takes
  `error.work_dir`: when it raises, the timer is set on a path the video has been
  moved from (`scheduler_watch_video.py:192` against `:253`, `:258`, `:313`).
  `FileGoes` counts such a video as `stray`, `DirectoryGoes` such a directory as
  `excused`; without them TLC finds both.
* With the schedule off, a plan asked for in the panel is kept and never archived
  (`companion/service.py:2710`), where `_archive_text` says that its "callers publish
  local companion state only after True" (`:521`). `KeptIsArchived` names it
  (`Stopgap`); without it TLC finds the plan.
* The snapshot before a restore is copied under its own name and listed half done,
  where a backup is promised to be renamed when it is whole (`api/backup.py:791`
  against `:637`); two requests for one name clear each other's stage (`:640`).
* A failed activity pauses the account, where the companion's failures are said to
  be isolated (`companion/service.py:934` against `:4058`).
* A stop whose flush and close run out of time leaves a worker running
  (`account/instance.py:503` against `api/accounts.py:533`).

## 7. What the models keep and a reader might not expect

Tasks, week, drafts, replies, comments:

* A restart marks a slot of the past as triggered although its row still waits
  (`scheduler_daily.py:217`); the loop over the due slots stops at the first
  (`scheduler_proactive_tasks.py:141`).
* A weekly row that an operator retries stays claimed (`api/accounts.py:1118`).
* The task that loses `mark_publishing` fails the draft the winner is publishing
  (`scheduler_draft_publish.py:67`). `expire_overdue` of the drafts has no caller
  (`services/dynamic_draft_store.py:558`).
* A rejected reply whose rejection cannot be archived is deferred. A reply whose
  result is unknown is requeued by the panel without `force` (`api/replies.py:149`).
  The rate reservation of a resend is not refunded when its intent cannot be
  archived (`scheduler_comment_retry.py:199`). `upsert` writes any state over any
  other (`services/reply_state.py:206`): the order of the calls keeps a published row.
* `mark_failed` of the proactive comments looks at no status
  (`services/proactive_comment_store.py:712`): a watcher that outlives the lease
  of its claim can fail a row the retrier has published, which frees the video
  for a second comment. `CommentedOnce` excludes it by `prompt`; without that
  premise TLC finds the second comment.
* The day's budget of comments is read before the post and recorded after it
  (`services/interaction_policy.py:546`), and `record` keeps the time of the first
  attempt.

Private messages: what exceeds a batch keeps the session unacknowledged until a
later poll; a message paused between poll and check ends as `rejected`; the
retry's acknowledgement passes no sequence number; the branch for a failed
archive of nothing cannot be reached; overflow texts are stored as they came,
where the store speaks of a redacted text.

Posting: a refund pops the key's latest entry, whoever made it, and after the
limiter was switched on again may pop another's global entry
(`services/safety.py:868`); a load of the windows that fails is logged and the
day starts from nothing (`services/safety.py:290`), and a refund whose row cannot
be deleted is counted again after a restart (`services/safety.py:336`, `:358`),
which is what `unread` and `unreturned` allow in `QuotaIsExact`; a pause while the picture is drawn does not stop the
post; a pause between start and check fails a task for good, one at the start
does not; a pause or resumption whose row could not be written is undone by a
restart; the texts for the duplicate check are lost at a restart.

Watching and analysis: two tests of one video share a file
(`api/video_analysis.py:501`); a coin whose record fails may be paid again
(`unrecorded`), one with an unclear answer is not counted in the day's budget
(`vague`), and `BudgetsHold` says so; a merge that fails leaves a video without
sound (`bilibili_api.py:1216`); a changed `max_concurrent_global` makes a second
semaphore beside the holders of the first; a preparation that raises leaves its
directory to a later start (`excused`), and so does a stop, which cancels the
timers; a removal that fails is logged and not tried again
(`video_understanding/cleanup.py:36`, `:89`), so the video and the directory stay
until a later start (`stray`, `excused`); a failing `ffprobe` passes for a silent
video.

Bangumi: an intent of an earlier attempt defers the act for ever; a follow whose
answer is lost is recorded as failed; the quota of an unclear act is given back;
a manual check shares the daily one's files; a series that is on the air is never
completed.

Memory: a lease may run out during a link job, and belongs to the process, not to
the claim; `list_open_activity_intents` looks at the oldest 500, closed ones
included (`memory_brain/store.py:1845`), and intents younger than a minute at the
start stay open until the next; the day's mark of the consolidation lives in
memory; jobs are pruned at start only; `RepairChunks` does not drop the cache.

Companion: a second diary of a day can reach the brain; the tick's sweep closes an
activity of the panel's generator as failed; "finished" is offered as a draft
before it is archived; lists are saved whole, so the panel and the tick lose each
other's entries; any successful archive ends a cool-down; a rest chosen by the
tick is overwritten by the plan (`companion/service.py:4025`); an energy of 0 is
read as the default; more than about a dozen ungated acts a day close the gate
for good, which is why `MaxSpent` bounds them.

Models: `rerank` has a cool-down table of its own and no gate; changing the limit
or removing and adding a provider drops a gate that requests still hold
(`split`), and `QuotaShared` is stated without it; a retired provider may make a
client that nobody closes; an update of the routes that is refused half way
leaves the earlier kinds set (`refused`); a write that fails leaves a route that a
restart loads and that leads nowhere (`torn`).

Configuration and account: an activated persona is lost at a restart
(`api/personas.py:149`); a binding is answered with an error although it was
saved; a refresh that began before a login overwrites the new cookie; a login's
poll writes the file before it takes the lock; a failed write of the account's
model has changed the memory (`torn`); overlapping start requests make two loops
(`api/accounts.py:513`), so `OneLoop` is stated for requests that do not overlap;
a failed `initialize()` leaves its client and brain. An account without credentials
never gets a client (`account/instance.py:190`-200), and a start takes an account
without a client for one that was closed (`api/accounts.py:508`): after its loop has
died, the next start initialises over a brain whose worker runs, nothing closes that
worker any more, and two workers share one database. `OneLoop` names it: `replaced`
holds the brains that were lost so, `bare` says that the last start found no
credentials.

Backups: the look for a writer is before the slow snapshot, so an account that
starts in between has its live database replaced (`api/backup.py:773`); a crash in
the middle leaves a mix and a rollback directory nobody reads, so `RestoreIsSafe`
says that everything is still somewhere; without a brain in the data directory
the look is skipped.

## 8. What is not modelled

`PROJECT.json` gives the reason for every part. In short: prompting and text
generation, the HTTP client, image services, the browser interface and the tools
have no state that a property could be about; the sessions of the panel and the
audit log are looked at and changed without an `await` between. Functions without
a caller (`reconcile` and `expire_overdue` of drafts, `invalidate_generation` of
replies, `ensure_published`, `delete` and `reset_for_immediate_retry` of
proactive comments) are left out of the models. So are: the ranking of memories,
chunking and people; the motives other than rest; the migrations of old
configurations; the text checks of the safety checker; the watchdog's
cancellation of a watch; an operator's edit of the cookies by hand; downloads of
backups; and, in `VideoWatch`, a preparing thread that outlives its 180 seconds and
then moves whatever lies at the path by that time
(`video_understanding/preprocess.py:315`; `VideoAnalysis` has the thread and its
directory, not the path).

What would come next: the comments' budget over three videos with both workers,
and one model of a start that recovers every store at once.

## 9. Running it

    tlc -workers 2 -config MCTaskRun_safety.cfg MCTaskRun
    tlapm TaskRunProofs.tla    # and the other seven modules named ...Proofs

`PROJECT.json` pairs every configuration with its module. The largest run, `day`,
has 5.6 million distinct states; it, `review` and `turns` take about three minutes
each.
