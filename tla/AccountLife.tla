---------------------------- MODULE AccountLife ----------------------------
(***************************************************************************)
(* The life of the account's runtime (src/bilibot/account/instance.py):    *)
(* initialize() builds the client, if there are credentials, the memory    *)
(* brain and the scheduler, start() makes the loop a task, close() ends    *)
(* the loop and takes all of it down.  The panel's requests                *)
(* (src/bilibot/api/accounts.py) call them with nothing that keeps two     *)
(* requests apart.                                                         *)
(*                                                                         *)
(* Every object is known by the number of the initialize() that made it.   *)
(***************************************************************************)
EXTENDS Integers, Sequences

CONSTANTS
    Requests,       \* requests that start or stop the account
    MaxRequests,    \* how many of them are made (bound)
    MaxTroubles     \* failed initialisations, loops that die, timeouts (bound)

VARIABLES
    requests, troubles,
    made,           \* initialize() calls so far
    scheduler, brain, bili,     \* the instance's components, or None
    task,           \* _scheduler_task: the number of a loop, or None
    started,        \* _started
    loops,          \* the loops made: their scheduler and whether they run
    open,           \* the brains whose worker runs
    request,        \* [Requests -> [at, made, loop]]
    overlap,        \* history: two requests were under way at once
    orphans,        \* history: brains whose close() ran out of time
    bare,           \* history: the last initialize() found no credentials
    replaced        \* history: brains that were replaced while their worker ran

parts == <<scheduler, brain, bili>>
running == <<task, started, loops>>
starts == <<bare, replaced>>
vars == <<requests, troubles, made, parts, running, open, request, overlap, orphans, starts>>

None == 0
Resting == [at |-> "idle", made |-> None, loop |-> None]

\* The boot has started the account, with credentials or without, or has found
\* it disabled.
Init ==
    /\ requests = 0 /\ troubles = 0 /\ made = 1
    /\ \/ scheduler = 1 /\ brain = 1 /\ bili \in {1, None} /\ task = 1 /\ started = TRUE
          /\ loops = <<[scheduler |-> 1, runs |-> TRUE]>> /\ open = {1}
       \/ scheduler = None /\ brain = None /\ bili = None /\ task = None /\ started = FALSE
          /\ loops = <<>> /\ open = {}
    /\ request = [r \in Requests |-> Resting]
    /\ overlap = FALSE /\ orphans = {}
    /\ bare = (scheduler # None /\ bili = None) /\ replaced = {}

-----------------------------------------------------------------------------
Alive(loop) == loop # None /\ loops[loop].runs
IsRunning == started /\ scheduler # None /\ Alive(task)
Running == {l \in DOMAIN loops : loops[l].runs}
Busy == {r \in Requests : request[r].at # "idle"}

At(r, place) == request' = [request EXCEPT ![r].at = place]
Answer(r) == request' = [request EXCEPT ![r] = Resting]
Trouble == troubles < MaxTroubles /\ troubles' = troubles + 1

Arrive(r) ==
    /\ request[r].at = "idle"
    /\ requests < MaxRequests /\ requests' = requests + 1
    /\ overlap' = (overlap \/ Busy # {})

\* start: not a second time while the task lives.
Launch(s) ==
    IF Alive(task) THEN UNCHANGED running
    ELSE /\ loops' = Append(loops, [scheduler |-> s, runs |-> TRUE])
         /\ task' = Len(loops) + 1 /\ started' = TRUE

NeedsInit == scheduler = None \/ brain = None \/ bili = None

\* initialize() asks nothing of what there is: a brain is replaced, whatever
\* its worker does.
NewBrain(m) == brain' = m /\ replaced' = replaced \cup ({brain} \cap open)

Begin(r, place) ==
    request' = [request EXCEPT ![r] = [Resting EXCEPT !.at = place, !.made = made + 1]]

\* A client is made, and its fingerprint awaited.
WithClient(r) ==
    /\ bili' = made + 1 /\ bare' = FALSE
    /\ Begin(r, "client")
    /\ UNCHANGED <<brain, replaced>>

\* Without credentials the brain is made at once, and the client stays what it
\* was.
WithoutClient(r) ==
    /\ bare' = TRUE
    /\ NewBrain(made + 1)
    /\ Begin(r, "brain")
    /\ UNCHANGED bili

\* start_account: an account without a client is initialised again, even when
\* nothing closed it and only its loop is over.
StartAccount(r) ==
    /\ Arrive(r)
    /\ \/ IsRunning /\ UNCHANGED <<made, parts, running, request, starts>>
       \/ /\ ~IsRunning /\ NeedsInit
          /\ made' = made + 1 /\ UNCHANGED <<scheduler, running>>
          /\ WithClient(r) \/ WithoutClient(r)
       \/ /\ ~IsRunning /\ ~NeedsInit
          /\ Launch(scheduler) /\ UNCHANGED <<made, parts, request, starts>>
    /\ UNCHANGED <<troubles, open, orphans>>

\* ensure_buvid is over, with or without a fingerprint: the brain is made and
\* its start awaited.
MakeBrain(r) ==
    /\ request[r].at = "client" /\ At(r, "brain")
    /\ NewBrain(request[r].made)
    /\ UNCHANGED <<requests, troubles, made, scheduler, bili, running, open, overlap, orphans, bare>>

\* The brain is up: the scheduler is made and started without another await.
Ready(r) ==
    LET m == request[r].made IN
    /\ request[r].at = "brain" /\ Answer(r)
    /\ open' = open \cup {m}
    /\ scheduler' = m /\ Launch(m)
    /\ UNCHANGED <<requests, troubles, made, brain, bili, overlap, orphans, starts>>

\* The brain does not come up: initialize() raises, and what it made stays.
NotReady(r) ==
    /\ request[r].at = "brain" /\ Answer(r) /\ Trouble
    /\ UNCHANGED <<requests, made, parts, running, open, overlap, orphans, starts>>

\* A login's reload() makes the client an account has not got, running or not;
\* one that was found disabled has no instance before the first request.
Login ==
    /\ bili = None /\ (scheduler # None \/ requests > 0)
    /\ bili' = made
    /\ UNCHANGED <<requests, troubles, made, scheduler, brain, running, open, request, overlap,
                   orphans, starts>>

-----------------------------------------------------------------------------
\* close: stop() cancels the task, whose end is awaited.
StopAccount(r) ==
    /\ Arrive(r) /\ {scheduler, brain, bili, task} # {None}
    /\ started' = FALSE
    /\ request' = [request EXCEPT ![r] = [at |-> "stopping", made |-> None, loop |-> task]]
    /\ UNCHANGED <<troubles, made, parts, task, loops, open, orphans, starts>>

\* A loop that was cancelled, or whose scheduler was told to stop, ends.
LoopEnds(l) ==
    /\ l \in Running /\ \E r \in Requests : request[r].loop = l
    /\ loops' = [loops EXCEPT ![l].runs = FALSE] /\ started' = FALSE
    /\ UNCHANGED <<requests, troubles, made, parts, task, open, request, overlap, orphans, starts>>

\* It dies of an exception.
LoopDies(l) ==
    /\ l \in Running /\ Trouble
    /\ loops' = [loops EXCEPT ![l].runs = FALSE] /\ started' = FALSE
    /\ UNCHANGED <<requests, made, parts, task, open, request, overlap, orphans, starts>>

\* The loop it waited for is over, and whatever the task is now is forgotten.
LoopOver(r) ==
    /\ request[r].at = "stopping" /\ ~Alive(request[r].loop)
    /\ At(r, "draining")
    /\ task' = None
    /\ UNCHANGED <<requests, troubles, made, parts, started, loops, open, overlap, orphans, starts>>

\* The jobs were drained, or were given up: the brain the instance has by now
\* is closed.  Its own close() drains them once more, for as long as the caller
\* waits for it: when that runs out the worker was not told to stop.
CloseBrain(r) ==
    /\ request[r].at = "draining" /\ At(r, "closing")
    /\ brain' = None
    /\ \/ open' = open \ {brain} /\ UNCHANGED <<troubles, orphans>>
       \/ brain \in open /\ Trouble /\ orphans' = orphans \cup {brain} /\ UNCHANGED open
    /\ UNCHANGED <<requests, made, scheduler, bili, running, overlap, starts>>

\* Faulty variant: the scheduler is kept for the next start.
NothingButClient(r) ==
    /\ request[r].at = "closing" /\ Answer(r)
    /\ bili' = None /\ UNCHANGED <<scheduler, brain>>
    /\ UNCHANGED <<requests, troubles, made, running, open, overlap, orphans, starts>>

\* The video service and the client are closed and every component dropped.
Closed(r) ==
    /\ request[r].at = "closing" /\ Answer(r)
    /\ scheduler' = None /\ brain' = None /\ bili' = None
    /\ UNCHANGED <<requests, troubles, made, running, open, overlap, orphans, starts>>

-----------------------------------------------------------------------------
Starting(r) == StartAccount(r) \/ MakeBrain(r) \/ Ready(r) \/ NotReady(r)
Stopping(r) == StopAccount(r) \/ LoopOver(r) \/ CloseBrain(r) \/ Closed(r)

Next ==
    \/ \E r \in Requests : Starting(r) \/ Stopping(r)
    \/ \E l \in DOMAIN loops : LoopEnds(l) \/ LoopDies(l)
    \/ Login

Spec == Init /\ [][Next]_vars

-----------------------------------------------------------------------------
\* "重复启动返回幂等成功，不创建第二个 Scheduler" (instance.py:375): one loop runs at
\* a time, and the one that runs is the instance's, with a client if there were
\* credentials and a brain that works unless a start has replaced one that did;
\* as long as no two requests overlap.
OneLoop ==
    overlap \/
        /\ \A l, m \in Running : l = m
        /\ IsRunning => /\ loops[task].scheduler = scheduler
                        /\ brain \in open \/ replaced # {}
                        /\ bili # None \/ bare

\* What was stopped stays stopped: without a scheduler no loop runs and no
\* worker but one whose close ran out of time (instance.py:514) or whose brain
\* was replaced by a start without a client (api/accounts.py:508).
StoppedHoldsNothing ==
    (~overlap /\ Busy = {} /\ scheduler = None) =>
        Running = {} /\ open \subseteq orphans \cup replaced

=============================================================================
