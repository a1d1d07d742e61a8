------------------------------ MODULE KeyPool ------------------------------
(***************************************************************************)
(* The keys of a model provider (src/bilibot/llm/provider.py) and the      *)
(* gates the router lays on them (src/bilibot/llm/router.py).              *)
(*                                                                         *)
(* A request takes the slot of the least used key that is neither cooling  *)
(* nor disabled, waits in the gate of that key's quota, calls the model    *)
(* and gives both back.  The panel may replace the provider meanwhile, or  *)
(* remove it and add it again, or change the limit: the requests that run  *)
(* stay with the pool they started in.                                     *)
(***************************************************************************)
EXTENDS Integers, FiniteSets, FiniteSetsExt

CONSTANTS
    Keys,           \* the keys a provider may be configured with
    Chats,          \* requests that fail over to another key: generate(),
                    \* vision_analyze(), get_embedding(), get_embeddings()
    Streams,        \* requests that keep to one key: generate_stream()
    PerKey,         \* chat_completion_max_concurrency_per_endpoint
    Cooldown,       \* rate_limit_cooldown_seconds
    MaxLadder,      \* how often an answer cut short is asked for again
    MaxNow,         \* the clock stops here (bound)
    MaxEdits        \* how often the panel replaces, removes, adds or limits,
                    \* and a caller runs out of time (bound)

ASSUME PoolAssumption ==
    /\ IsFiniteSet(Keys) /\ Keys # {}
    /\ IsFiniteSet(Chats) /\ IsFiniteSet(Streams)
    /\ {PerKey, Cooldown} \subseteq Nat \ {0}
    /\ {MaxLadder, MaxNow, MaxEdits} \subseteq Nat
    /\ Chats \cap Streams = {}

VARIABLES
    now, edits,
    keys,       \* api_keys of the provider: some of Keys, never none
    current,    \* the generation of the provider in the router, or None
    made,       \* generations made so far
    gates,      \* _completion_gates: [Keys -> a gate, or None]
    slots,      \* [generation -> [Keys -> _KeySlot]]
    request,    \* [request -> its place, pool, slot and gate]
    split       \* history: a gate was dropped while requests were under way

router == <<current, made, gates, split>>
vars == <<now, edits, keys, router, slots, request>>

Requests == Chats \cup Streams
Generations == 0 .. MaxEdits
None == -1

Idle == [at |-> "idle", gen |-> None, key |-> "", gate |-> None, tries |-> 0,
         round |-> 0, limited |-> FALSE]

Slot(gate) == [inflight |-> 0, until |-> 0, disabled |-> FALSE, client |-> FALSE,
               gate |-> gate]

\* Gates are numbered by the edit that made them.
Init ==
    /\ now = 0 /\ edits = 0
    /\ keys \in SUBSET Keys \ {{}}
    /\ current = 0 /\ made = 0
    /\ gates = [k \in Keys |-> 0]
    /\ slots = [g \in Generations |-> [k \in Keys |-> Slot(0)]]
    /\ request = [r \in Requests |-> Idle]
    /\ split = FALSE

-----------------------------------------------------------------------------
Holds(r) == request[r].at \in {"waiting", "calling"}
Calling(k) == {r \in Requests : request[r].at = "calling" /\ request[r].key = k}
InGate(k, gate) == {r \in Calling(k) : request[r].gate = gate}
Ended == {"done", "failed", "exhausted"}
UnderWay == {r \in Requests : request[r].at \notin Ended \cup {"idle"}}

\* A stream takes one key and does not switch.
Attempts(r) == IF r \in Streams THEN 1 ELSE Min({Cardinality(keys), 4})

\* resolve: the request keeps the provider it is given.
Start(r) ==
    /\ request[r].at = "idle" /\ current # None
    /\ request' = [request EXCEPT ![r].at = "picking", ![r].gen = current]
    /\ UNCHANGED <<now, edits, keys, router, slots>>

Ready(g) == {k \in keys : ~slots[g][k].disabled /\ slots[g][k].until <= now}
Least(g) == {k \in Ready(g) : \A l \in Ready(g) : slots[g][k].inflight <= slots[g][l].inflight}

\* acquire: round robin among the least used; which of them is left open.
Pick(r) ==
    LET g == request[r].gen IN
    /\ request[r].at = "picking"
    /\ \E k \in Least(g) :
        /\ slots' = [slots EXCEPT ![g][k].inflight = @ + 1]
        /\ request' = [request EXCEPT ![r].at = "waiting", ![r].key = k,
                                      ![r].gate = slots[g][k].gate]
    /\ UNCHANGED <<now, edits, keys, router>>

\* What is over keeps nothing but how it ended.
Become(r, place) == request' = [request EXCEPT ![r] = [Idle EXCEPT !.at = place]]

\* No key is ready: what the last one answered is raised, or that all of them
\* are cooling or disabled.
NoKey(r) ==
    /\ request[r].at = "picking" /\ Ready(request[r].gen) = {}
    /\ Become(r, IF request[r].limited THEN "failed" ELSE "exhausted")
    /\ UNCHANGED <<now, edits, keys, router, slots>>

\* The gate opens; neither cooldown nor disabling is looked at again.  The
\* client is made on the first use.
Enter(r) ==
    LET q == request[r] IN
    /\ q.at = "waiting"
    /\ Cardinality(InGate(q.key, q.gate)) < PerKey
    /\ request' = [request EXCEPT ![r].at = "calling"]
    /\ slots' = [slots EXCEPT ![q.gen][q.key].client = TRUE]
    /\ UNCHANGED <<now, edits, keys, router>>

-----------------------------------------------------------------------------
\* release, in the finally of checkout: what it does to the slot depends on
\* the exception that leaves the block, if one does.
Released(slot, outcome) ==
    [slot EXCEPT !.inflight = @ - 1,
                 !.disabled = @ \/ outcome = "denied",
                 !.until    = IF outcome = "limited" THEN now + Cooldown ELSE @]

\* Faulty variant: a waiting request that is cancelled keeps its slot.
LeaveWaiting(r, outcome) ==
    LET q == request[r] IN
    IF q.at = "waiting" THEN UNCHANGED slots
    ELSE slots' = [slots EXCEPT ![q.gen][q.key] = Released(@, outcome)]

Leave(r, outcome) ==
    LET q == request[r]
    IN  slots' = [slots EXCEPT ![q.gen][q.key] = Released(@, outcome)]

\* The request is without a slot and picks one anew.
Again(r, round, tries, limited) ==
    request' = [request EXCEPT ![r] = [Idle EXCEPT !.at = "picking", !.gen = request[r].gen,
        !.round = round, !.tries = tries, !.limited = limited]]

\* generate: an answer cut short by its budget is asked for again with a
\* larger one, which picks a key anew.
Good(r) ==
    /\ request[r].at = "calling"
    /\ Leave(r, "good")
    /\ \/ Become(r, "done")
       \/ /\ r \in Chats /\ request[r].round < MaxLadder
          /\ Again(r, request[r].round + 1, 0, FALSE)
    /\ UNCHANGED <<now, edits, keys, router>>

\* A refusal the exception of which leaves the block of the checkout.
Raised(r, outcome) ==
    /\ request[r].at = "calling"
    /\ Leave(r, outcome) /\ Become(r, "failed")
    /\ UNCHANGED <<now, edits, keys, router>>

\* A 429.  With one attempt it is raised through the block.  With more, it is
\* caught inside the block and the loop goes on: checkout sees no exception.
Limited(r) ==
    LET q == request[r] IN
    /\ q.at = "calling"
    /\ IF Attempts(r) = 1
       THEN Leave(r, "limited") /\ Become(r, "failed")
       ELSE /\ Leave(r, "good")
            /\ IF q.tries + 1 = Attempts(r) THEN Become(r, "failed")
               ELSE Again(r, q.round, q.tries + 1, TRUE)
    /\ UNCHANGED <<now, edits, keys, router>>

Denied(r) == Raised(r, "denied")
Broken(r) == Raised(r, "broken")

Edit == edits < MaxEdits /\ edits' = edits + 1

\* The caller's own time runs out: CancelledError is no Exception, and the
\* slot and the gate are given back all the same.
Cancel(r) ==
    /\ Holds(r) /\ Edit
    /\ Leave(r, "good") /\ Become(r, "failed")
    /\ UNCHANGED <<now, keys, router>>

-----------------------------------------------------------------------------
\* _configure_completion_gates: a gate is kept as long as a provider uses its
\* key and the limit is the same.
GatesAfter(kept) == IF kept THEN gates ELSE [k \in Keys |-> edits + 1]

\* A pool with fresh slots enters the router.
Enroll(kept) ==
    /\ made' = made + 1 /\ current' = made + 1
    /\ gates' = GatesAfter(kept)
    /\ slots' = [slots EXCEPT ![made + 1] = [k \in Keys |-> Slot(GatesAfter(kept)[k])]]

\* update_provider: the old provider's clients are closed by a task, but who
\* holds the old provider goes on with it.
Replace ==
    /\ current # None /\ Edit
    /\ Enroll(TRUE)
    /\ UNCHANGED <<now, keys, request, split>>

\* remove_provider: the gates of its keys are referenced by nobody.
Remove ==
    /\ current # None /\ Edit
    /\ current' = None
    /\ gates' = [k \in Keys |-> None]
    /\ split' = (split \/ UnderWay # {})
    /\ UNCHANGED <<now, keys, made, slots, request>>

\* add_provider with the keys of the one that was removed.
Add ==
    /\ current = None /\ Edit
    /\ Enroll(FALSE)
    /\ UNCHANGED <<now, keys, request, split>>

\* reload_request_limits with another limit and back: only the provider in the
\* router is given the new gates.
Relimit ==
    /\ current # None /\ Edit
    /\ gates' = GatesAfter(FALSE)
    /\ slots' = [slots EXCEPT ![current] =
                    [k \in Keys |-> [slots[current][k] EXCEPT !.gate = edits + 1]]]
    /\ split' = (split \/ UnderWay # {})
    /\ UNCHANGED <<now, keys, current, made, request>>

\* aclose of a replaced or removed provider, run as a task of its own.
Close(g) ==
    /\ g \in 0 .. made /\ g # current
    /\ \E k \in Keys : slots[g][k].client
    /\ slots' = [slots EXCEPT ![g] = [k \in Keys |-> [slots[g][k] EXCEPT !.client = FALSE]]]
    /\ UNCHANGED <<now, edits, keys, router, request>>

Tick ==
    /\ now < MaxNow /\ now' = now + 1
    /\ UNCHANGED <<edits, keys, router, slots, request>>

Answered(r) == Good(r) \/ Limited(r) \/ Denied(r) \/ Broken(r)
Panel == Replace \/ Remove \/ Add \/ Relimit

Next ==
    \/ \E r \in Requests :
          Start(r) \/ Pick(r) \/ NoKey(r) \/ Enter(r) \/ Answered(r) \/ Cancel(r)
    \/ Panel
    \/ \E g \in Generations : Close(g)
    \/ Tick

Spec == Init /\ [][Next]_vars

-----------------------------------------------------------------------------
\* The counts acquire compares are the requests that hold a slot: none is lost
\* when a request fails, is refused or is cancelled in the gate
\* (provider.py:259 and the finally of checkout, provider.py:284).
HoldersAreCounted ==
    \A g \in Generations, k \in Keys :
        slots[g][k].inflight =
            Cardinality({r \in Requests : Holds(r) /\ request[r].gen = g /\ request[r].key = k})

\* Providers that use one key share its quota, the replaced one that still
\* runs included (router.py:262), unless its gate was dropped meanwhile.
QuotaShared ==
    split \/ \A k \in Keys : Cardinality(Calling(k)) <= PerKey

\* What a request takes from a key is accounted for, slot and gate.
SlotsAreCounted == HoldersAreCounted /\ QuotaShared
=============================================================================
