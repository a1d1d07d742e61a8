------------------------------ MODULE Companion ------------------------------
(***************************************************************************)
(* The companion's day (companion/service.py): plan, detail, dream, diary, *)
(* exploration and writing, generated by the scheduler's tick under its    *)
(* lock and by the panel's trigger without it.  Every generator takes the  *)
(* same road, with an await between two stretches: open an activity in the *)
(* memory brain, let the model write, archive the text, close the          *)
(* activity, keep the result in the account's JSON files.  A failed        *)
(* archive closes the activity as failed and cools the subsystem down; a   *)
(* tick ends with a sweep over the activities this process has open.       *)
(*                                                                         *)
(* An activity's key is <<what, a, b>>; a text is a key and one of Texts.  *)
(* Days have three parts: before the plan's hour, after it, and after the  *)
(* diary's.                                                                *)
(***************************************************************************)
EXTENDS Naturals, Sequences, FiniteSets

CONSTANTS
  Texts,        \* what the model may write under one key
  Wanted,       \* the stages of a tick that are switched on
  Calls,        \* what the panel may ask for
  MaxDays, MaxAsks, MaxTroubles,
  Target        \* chunks after which a book is finished

\* Assumed by the modules that instantiate this one.
CompanionAssumption ==
  /\ MaxDays \in Nat \ {0} /\ Target \in Nat \ {0}
  /\ {MaxAsks, MaxTroubles} \subseteq Nat

VARIABLES
  clock,        \* [day, part]
  scheduled,    \* schedule.enabled, as the operator's configuration has it
  plan,         \* daily_plan.json: [day, from]
  waiting,      \* runtime next_plan_retry_at lies ahead
  kept,         \* texts the files hold: plan, detail, dream, pages, notes, project
  book,         \* creative_projects.json: [made, chunks, done]
  written,      \* runtime diary_date
  tried,        \* day of runtime last_explore_attempt_ts
  cooling,      \* runtime companion_memory_cooldown_until lies ahead
  docs,         \* texts the brain has committed
  acts,         \* activity events the brain has committed: <<key, state>>
  open,         \* _open_companion_activities, in memory
  lost,         \* history: intents whose context could not be built, or left by a crash
  drafts,       \* drafts offered for review
  paused,       \* the account is paused
  workers,      \* the tick and the panel's request
  asks, troubles

hours == <<clock, scheduled>>
vars == <<hours, plan, waiting, kept, book, written, tried, cooling, docs, acts, open,
          lost, drafts, paused, workers, asks, troubles>>
files == <<plan, waiting, kept, book, written, tried>>

Workers == {"tick", "panel"}
NoKey == <<"none", 0, 0>>
NoBook == [made |-> FALSE, chunks |-> <<>>, done |-> FALSE]
Idle == [pc |-> "idle", todo |-> <<>>, key |-> NoKey, text |-> "", book |-> NoBook,
         pages |-> {}, left |-> {}]

Me(w) == workers[w]
Job(w) == Head(Me(w).todo)
Go(w, me) == workers' = [workers EXCEPT ![w] = me]

KeptOf(what) == {t \in kept : t[1][1] = what}
Pages == KeptOf("diary")
PageOf(day) == {t \in Pages : t[1][2] = day}
DreamOf(day) == {t \in KeptOf("dream") : t[1][2] = day}
Closed(k) == \E s \in {"completed", "failed"} : <<k, s>> \in acts

(* One call of the brain or of the disk may fail. *)
Trouble == troubles < MaxTroubles /\ troubles' = troubles + 1
Fine == troubles' = troubles
-----------------------------------------------------------------------------
(* What a worker does next. *)

PlanDue ==
  \/ plan.day # clock.day
  \/ clock.part > 0 /\ plan.from = "bridge"
  \/ clock.part > 0 /\ plan.from = "fallback" /\ ~waiting

DetailDue ==
  /\ scheduled
  /\ plan.day = clock.day
  /\ clock.part > 0 \/ plan.from = "bridge"
  /\ \A t \in KeptOf("detail") : t[1] # <<"detail", clock.day, clock.part>>

(* The panel forces; the tick looks at the hour and at its files. *)
Due(w, job) ==
  CASE job = "plan" -> scheduled /\ (w = "panel" \/ PlanDue)
    [] job = "detail" -> DetailDue
    [] job = "dream" -> DreamOf(clock.day) = {}
    [] job = "diary" -> PageOf(clock.day) = {}
                        /\ (w = "panel" \/ (clock.part = 2 /\ written # clock.day))
    [] job = "explore" -> w = "panel" \/ tried # clock.day
    [] job = "creative" -> ~book.done

Stages == SelectSeq(<<"plan", "detail", "diary", "explore", "creative">>, LAMBDA j : j \in Wanted)

(* Exploration and writing happen on a die, and only to an idle companion. *)
MaySkip(w, job) ==
  IF w = "panel" THEN ~Due(w, job) /\ job # "plan"
                 ELSE ~Due(w, job) \/ job \in {"explore", "creative"}

(* A diary starts with the day's dream; writing starts with a book. *)
Steps(job) ==
  CASE job = "diary" -> (IF DreamOf(clock.day) = {} THEN <<"dream">> ELSE <<>>) \o <<"entry">>
    [] job = "creative" -> IF book.made THEN <<"chunk">> ELSE <<"project", "chunk">>
    [] OTHER -> <<job>>

(* The activity's key: one per day, per segment, per attempt or per chunk. *)
KeyOf(w, job, b) ==
  CASE job = "plan" -> <<IF w = "tick" /\ clock.part = 0 THEN "bridge" ELSE "plan", clock.day, 0>>
    [] job = "detail" -> <<"detail", clock.day, clock.part>>
    [] job = "entry" -> <<"diary", clock.day, 0>>
    [] job = "explore" -> <<"explore", clock.day, Cardinality({a \in acts : a[1][1] = "explore"
                                                                        /\ a[2] = "intent"})>>
    [] job = "chunk" -> <<"chunk", Len(b.chunks), 0>>
    [] OTHER -> <<job, clock.day, 0>>

(* A call ends: the tick goes on to its sweep over what is open, the panel *)
(* answers.                                                                *)
Ended(w, opened) ==
  IF w = "tick" THEN [Idle EXCEPT !.pc = "sweep", !.left = opened] ELSE Idle

(* An error leaves the generator; only the tick's exploration is caught. *)
Raised(w, todo, opened) ==
  IF w = "tick" /\ Head(todo) = "explore"
    THEN [Idle EXCEPT !.pc = "turn", !.todo = Tail(todo)]
    ELSE Ended(w, opened)

(* Between two awaits a worker runs alone. *)
Running(w) == Me(w).pc \in {"turn", "next"}
Alone(w) == \A v \in Workers \ {w} : ~Running(v)
-----------------------------------------------------------------------------
(* tick() takes its lock; while the memory cools it does nothing but sweep. *)
Tick ==
  /\ Alone("tick")
  /\ Me("tick").pc = "idle"
  /\ Go("tick", IF cooling THEN Ended("tick", open)
                ELSE [Idle EXCEPT !.pc = "turn", !.todo = Stages])
  /\ UNCHANGED <<hours, files, cooling, docs, acts, open, lost, drafts, paused, asks, troubles>>

(* POST /companion/trigger calls a generator with force and without the lock. *)
Ask ==
  /\ Alone("panel")
  /\ Me("panel").pc = "idle"
  /\ asks < MaxAsks
  /\ asks' = asks + 1
  /\ \E call \in Calls : Go("panel", [Idle EXCEPT !.pc = "turn", !.todo = <<call>>])
  /\ UNCHANGED <<hours, files, cooling, docs, acts, open, lost, drafts, paused, troubles>>

(* Nothing (more) to do. *)
Done(w) ==
  /\ Me(w).pc = "turn"
  /\ \A i \in 1..Len(Me(w).todo) : MaySkip(w, Me(w).todo[i])
  /\ Go(w, Ended(w, open))
  /\ UNCHANGED <<hours, files, cooling, docs, acts, open, lost, drafts, paused, asks, troubles>>

(* begin_activity commits the intent, then builds the context; only a call *)
(* that returns is registered.  A failure pauses the account, except for   *)
(* an exploration.                                                         *)
Opens(w, todo, me) ==
  LET k == KeyOf(w, Head(todo), me.book) IN
  /\ tried' = IF Head(todo) = "explore" THEN clock.day ELSE tried
  /\ \/ /\ Fine
        /\ acts' = acts \cup {<<k, "intent">>}
        /\ open' = open \cup {k}
        /\ Go(w, [me EXCEPT !.pc = "write", !.key = k, !.todo = todo])
        /\ UNCHANGED <<lost, paused>>
     \/ /\ Trouble
        /\ \E committed \in SUBSET {k} :
             /\ acts' = acts \cup (committed \X {"intent"})
             /\ lost' = lost \cup committed
        /\ paused' = (paused \/ Head(todo) # "explore")
        /\ Go(w, Raised(w, todo, open))
        /\ UNCHANGED open
  /\ UNCHANGED <<hours, plan, waiting, kept, book, written, cooling, docs, drafts, asks>>

Begin(w) ==
  /\ Me(w).pc = "turn"
  /\ \E n \in 1..Len(Me(w).todo) :
       /\ \A i \in 1..(n - 1) : MaySkip(w, Me(w).todo[i])
       /\ Due(w, Me(w).todo[n])
       /\ LET rest == SubSeq(Me(w).todo, n + 1, Len(Me(w).todo)) IN
          Opens(w, Steps(Me(w).todo[n]) \o rest,
                [Me(w) EXCEPT !.book = book, !.pages = Pages])

(* The entry after its dream, the forced chunk after its project. *)
Follow(w) ==
  /\ Me(w).pc = "next"
  /\ Opens(w, Me(w).todo, Me(w))
-----------------------------------------------------------------------------
(* The model writes; the text goes to the brain. *)

(* The chunk of this call is off the list. *)
NoChunk(todo) == SelectSeq(todo, LAMBDA j : j # "chunk")

(* A text too short to be a project or a chunk closes the activity as failed. *)
TooShort(w) ==
  /\ Me(w).pc = "write"
  /\ Job(w) \in {"project", "chunk"}
  /\ \/ /\ Fine
        /\ acts' = acts \cup {<<Me(w).key, "failed">>}
        /\ open' = open \ {Me(w).key}
        /\ UNCHANGED cooling
     \/ Trouble /\ cooling' = TRUE /\ UNCHANGED <<acts, open>>
  /\ Go(w, [Me(w) EXCEPT !.pc = IF Job(w) = "chunk" THEN "shelve" ELSE "turn",
                          !.todo = NoChunk(Tail(Me(w).todo))])
  /\ UNCHANGED <<hours, files, docs, lost, drafts, paused, asks>>

(* The chunk is put off: the list is written back as it was read. *)
Shelve(w) ==
  /\ Me(w).pc = "shelve"
  /\ book' = Me(w).book
  /\ Go(w, [Idle EXCEPT !.pc = "turn", !.todo = Me(w).todo])
  /\ UNCHANGED <<hours, plan, waiting, kept, written, tried, cooling, docs, acts, open, lost,
                 drafts, paused, asks, troubles>>

Finishes(w) == Job(w) = "chunk" /\ Len(Me(w).book.chunks) + 1 >= Target

(* Faulty variant: an archive that failed is taken for a stored one. *)
Archive_Unchecked(w) ==
  /\ Me(w).pc = "write"
  /\ \E text \in Texts :
       /\ Go(w, [Me(w) EXCEPT !.pc = "close", !.text = text])
       /\ docs' \in {docs, docs \cup {<<Me(w).key, text>>}}
       /\ Fine
  /\ UNCHANGED <<hours, files, cooling, acts, open, lost, drafts, paused, asks>>

(* _archive_text; the draft of a finished book is offered just before. *)
Archive(w) ==
  /\ Me(w).pc = "write"
  /\ drafts' = IF Finishes(w) THEN drafts \cup {<<"book", 1>>} ELSE drafts
  /\ \E text \in Texts :
       \/ /\ Fine
          /\ docs' = docs \cup {<<Me(w).key, text>>}
          /\ cooling' = FALSE
          /\ Go(w, [Me(w) EXCEPT !.pc = "close", !.text = text])
       \/ /\ Trouble
          /\ cooling' = TRUE
          /\ Go(w, [Me(w) EXCEPT !.pc = "fail"])
          /\ UNCHANGED docs
  /\ UNCHANGED <<hours, files, acts, open, lost, paused, asks>>

(* _fail_open_activity, after which the generator raises. *)
Fail(w) ==
  /\ Me(w).pc = "fail"
  /\ \/ /\ Fine
        /\ acts' = acts \cup {<<Me(w).key, "failed">>}
        /\ open' = open \ {Me(w).key}
     \/ Trouble /\ UNCHANGED <<acts, open>>
  /\ cooling' = TRUE
  /\ Go(w, Raised(w, Me(w).todo, open'))
  /\ UNCHANGED <<hours, files, docs, lost, drafts, paused, asks>>

(* _finish_activity_memory: a failure is noted, cools down and no more. *)
Close(w) ==
  /\ Me(w).pc = "close"
  /\ \/ /\ Fine
        /\ acts' = acts \cup {<<Me(w).key, "completed">>}
        /\ open' = open \ {Me(w).key}
        /\ UNCHANGED cooling
     \/ Trouble /\ cooling' = TRUE /\ UNCHANGED <<acts, open>>
  /\ Go(w, [Me(w) EXCEPT !.pc = "keep"])
  /\ UNCHANGED <<hours, files, docs, lost, drafts, paused, asks>>
-----------------------------------------------------------------------------
(* What the files hold afterwards. *)

Text(w) == <<Me(w).key, Me(w).text>>
Instead(what, t) == (kept \ KeptOf(what)) \cup {t}

(* A day's plan is one file, wherever it comes from. *)
Plans == KeptOf("plan") \cup KeptOf("bridge") \cup KeptOf("stopgap")

(* Asked for a plan while the schedule is off, ensure_daily_plan fills the  *)
(* day with its fallback items and keeps them: no activity, no archive.    *)
Stopgap(day) == <<<<"stopgap", day, 0>>, "">>

KeepStopgap ==
  /\ Me("panel").pc = "turn"
  /\ Me("panel").todo = <<"plan">>
  /\ ~scheduled
  /\ \/ /\ Fine
        /\ plan' = [day |-> clock.day, from |-> "fallback"]
        /\ kept' = (kept \ Plans) \cup {Stopgap(clock.day)}
     \/ Trouble /\ UNCHANGED <<plan, kept>>
  /\ Go("panel", Idle)
  /\ UNCHANGED <<hours, waiting, book, written, tried, cooling, docs, acts, open,
                 lost, drafts, paused, asks>>

KeepPlan(w) ==
  /\ Job(w) = "plan"
  /\ \E from \in IF Me(w).key[1] = "bridge" THEN {"bridge"} ELSE {"llm", "fallback"} :
       /\ plan' = [day |-> Me(w).key[2], from |-> from]
       /\ waiting' = IF from = "bridge" THEN waiting ELSE from = "fallback"
  /\ kept' = (kept \ Plans) \cup {Text(w)}
  /\ UNCHANGED <<book, written, tried, drafts>>

KeepDetail(w) ==
  /\ Job(w) = "detail"
  /\ kept' = Instead("detail", Text(w))
  /\ UNCHANGED <<plan, waiting, book, written, tried, drafts>>

KeepDream(w) ==
  /\ Job(w) = "dream"
  /\ kept' = Instead("dream", Text(w))
  /\ UNCHANGED <<plan, waiting, book, written, tried, drafts>>

(* The pages are those read before the model wrote, plus this one. *)
KeepEntry(w) ==
  LET day == Me(w).key[2]
      others == {t \in Me(w).pages : t[1][2] # day} IN
  /\ Job(w) = "entry"
  /\ kept' = (kept \ Pages) \cup others \cup {Text(w)}
  /\ written' = day
  /\ drafts' = drafts \cup {<<"diary", day>>}
  /\ UNCHANGED <<plan, waiting, book, tried>>

KeepNote(w) ==
  /\ Job(w) = "explore"
  /\ kept' = kept \cup {Text(w)}
  /\ drafts' = drafts \cup {<<"note", Me(w).key[2]>>}
  /\ UNCHANGED <<plan, waiting, book, written, tried>>

KeepProject(w) ==
  /\ Job(w) = "project"
  /\ book' = [Me(w).book EXCEPT !.made = TRUE]
  /\ kept' = kept \cup {Text(w)}
  /\ UNCHANGED <<plan, waiting, written, tried, drafts>>

(* The whole list is written back, as read before the model wrote. *)
KeepChunk(w) ==
  /\ Job(w) = "chunk"
  /\ book' = [Me(w).book EXCEPT !.chunks = Append(@, Me(w).text), !.done = Finishes(w)]
  /\ UNCHANGED <<plan, waiting, kept, written, tried, drafts>>

(* The forced call goes on to the chunk; the tick's new book is not due yet. *)
After(w) ==
  LET todo == Tail(Me(w).todo)
      rest == IF w = "tick" THEN NoChunk(todo) ELSE todo IN
  IF rest # <<>> /\ Head(rest) \in {"entry", "chunk"}
    THEN [Me(w) EXCEPT !.pc = "next", !.todo = rest, !.text = "",
                       !.book.made = @ \/ Job(w) = "project"]
    ELSE [Idle EXCEPT !.pc = "turn", !.todo = rest]

Keep(w) ==
  /\ Me(w).pc = "keep"
  /\ \/ /\ Fine
        /\ \/ KeepPlan(w)  \/ KeepDetail(w) \/ KeepDream(w) \/ KeepEntry(w)
           \/ KeepNote(w) \/ KeepProject(w) \/ KeepChunk(w)
        /\ Go(w, After(w))
     \/ /\ Trouble
        /\ Go(w, Raised(w, Me(w).todo, open))
        /\ UNCHANGED <<files, drafts>>
  /\ UNCHANGED <<hours, cooling, docs, acts, open, lost, paused, asks>>

(* Faulty variant: a sweep that failed forgets the activity. *)
Sweep_Forgets ==
  /\ Me("tick").pc = "sweep"
  /\ \E k \in Me("tick").left :
       /\ \/ Fine /\ acts' = acts \cup {<<k, "failed">>} /\ UNCHANGED cooling
          \/ Trouble /\ cooling' = TRUE /\ UNCHANGED acts
       /\ open' = open \ {k}
       /\ Go("tick", [Me("tick") EXCEPT !.left = @ \ {k}])
  /\ UNCHANGED <<hours, files, docs, lost, drafts, paused, asks>>

(* _close_stale_open_activities: every activity this process has open is   *)
(* closed as failed, the panel's running one included.                     *)
Sweep ==
  /\ Me("tick").pc = "sweep"
  /\ \E k \in Me("tick").left :
       /\ \/ /\ Fine
             /\ acts' = acts \cup {<<k, "failed">>}
             /\ open' = open \ {k}
             /\ UNCHANGED cooling
          \/ /\ Trouble
             /\ cooling' = TRUE
             /\ open' = open \cup {k}
             /\ UNCHANGED acts
       /\ Go("tick", [Me("tick") EXCEPT !.left = @ \ {k}])
  /\ UNCHANGED <<hours, files, docs, lost, drafts, paused, asks>>

Release ==
  /\ Me("tick").pc = "sweep"
  /\ Me("tick").left = {}
  /\ Go("tick", Idle)
  /\ UNCHANGED <<hours, files, cooling, docs, acts, open, lost, drafts, paused, asks, troubles>>
-----------------------------------------------------------------------------
(* Time, and a crash. *)

Quiet == \A w \in Workers : ~Running(w)

(* The operator turns the schedule on or off; reload_config reads it. *)
Switch ==
  /\ Quiet
  /\ asks < MaxAsks
  /\ asks' = asks + 1
  /\ scheduled' = ~scheduled
  /\ UNCHANGED <<clock, files, cooling, docs, acts, open, lost, drafts, paused, workers,
                 troubles>>

CoolingEnds ==
  /\ Quiet /\ cooling
  /\ cooling' = FALSE
  /\ UNCHANGED <<hours, files, docs, acts, open, lost, drafts, paused, workers, asks, troubles>>

(* Hours pass: every pause of the companion is over. *)
Later ==
  /\ Quiet
  /\ \/ clock.part < 2 /\ clock' = [clock EXCEPT !.part = @ + 1]
     \/ /\ clock.part = 2 /\ clock.day < MaxDays
        /\ clock' = [day |-> clock.day + 1, part |-> 0]
  /\ waiting' = FALSE
  /\ cooling' = FALSE
  /\ UNCHANGED <<scheduled, plan, kept, book, written, tried, docs, acts, open, lost, drafts, paused,
                 workers, asks, troubles>>

(* The process dies: the registry is gone.  At boot the memory brain closes *)
(* the open intents that are old enough, as failed.                         *)
Crash ==
  /\ Trouble
  /\ workers' = [w \in Workers |-> Idle]
  /\ open' = {}
  /\ LET intents == {k \in {a[1] : a \in acts} : ~Closed(k)} IN
     \E swept \in {{}, intents} :
       /\ acts' = acts \cup (swept \X {"failed"})
       /\ lost' = lost \cup intents
  /\ UNCHANGED <<hours, files, cooling, docs, drafts, paused, asks>>

Init ==
  /\ clock = [day |-> 1, part |-> 0]
  /\ scheduled \in BOOLEAN
  /\ plan = [day |-> 0, from |-> "none"]
  /\ waiting = FALSE
  /\ kept = {} /\ book = NoBook
  /\ written = 0 /\ tried = 0
  /\ cooling = FALSE
  /\ docs = {} /\ acts = {} /\ open = {} /\ lost = {} /\ drafts = {}
  /\ paused = FALSE
  /\ workers = [w \in Workers |-> Idle]
  /\ asks = 0 /\ troubles = 0

Work(w) ==
  /\ Alone(w)
  /\ \/ Done(w) \/ Begin(w) \/ Follow(w) \/ TooShort(w) \/ Shelve(w) \/ Archive(w)
     \/ Fail(w) \/ Close(w) \/ Keep(w)

Sweeping == Alone("tick") /\ (Sweep \/ Release)

Next ==
  \/ Tick \/ Ask \/ Sweeping
  \/ \E w \in Workers : Work(w)
  \/ Alone("panel") /\ KeepStopgap
  \/ Switch \/ CoolingEnds \/ Later \/ Crash

(* The scheduler ticks every minute, a cooldown is at most half an hour. *)
Spec == Init /\ [][Next]_vars /\ WF_vars(Tick \/ Sweeping) /\ WF_vars(CoolingEnds)
             /\ \A w \in Workers : WF_vars(Work(w))
-----------------------------------------------------------------------------
(* Properties *)

(* Whatever the companion shows as its own the brain has committed first   *)
(* ("Callers publish local companion state only after True", _archive_text,*)
(* service.py 506-648; "prepend diary list only after the account brain    *)
(* confirms the source", 3297), except the plan asked for while the        *)
(* schedule is off, which no caller archives (2643-2712).                  *)
KeptIsArchived ==
  /\ \A t \in kept : t \in docs \/ t = Stopgap(plan.day)
  /\ \A i \in 1..Len(book.chunks) : <<<<"chunk", i - 1, 0>>, book.chunks[i]>> \in docs

(* An activity whose intent is open is known to the process, which will    *)
(* close it, unless its context could not be built or a crash left it      *)
(* (_recall_life_evidence, _finish_activity_memory and                     *)
(* _close_stale_open_activities, service.py 840-1380).                     *)
OpenIsKnown == \A a \in acts : Closed(a[1]) \/ a[1] \in open \cup lost

=============================================================================
