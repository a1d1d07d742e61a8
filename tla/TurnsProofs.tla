---------------------------- MODULE TurnsProofs -----------------------------
(***************************************************************************)
(* Theorems about what is taken and must be given back.  The keys of the   *)
(* models (KeyPool), for any keys, requests and bounds: the counts of the  *)
(* slots are the requests that hold them, and the quota of a key holds     *)
(* over all the providers that use it.  The analysis of videos             *)
(* (VideoAnalysis), for any watches, tests, frames, caps and reloads: what *)
(* it hands over is whole and on the disk, and what it leaves on the disk  *)
(* somebody removes.                                                       *)
(***************************************************************************)
EXTENDS MCTurns, FiniteSetTheorems, TLAPS

-----------------------------------------------------------------------------
(***************************************************************************)
(* The keys of the models.                                                 *)
(***************************************************************************)

Places == {"idle", "picking", "waiting", "calling", "done", "failed", "exhausted"}

SlotType == [inflight : Int, until : Int, disabled : BOOLEAN, client : BOOLEAN,
             gate : Int]
RequestType == [at : Places, gen : Int, key : Keys \cup {""}, gate : Int,
                tries : Int, round : Int, limited : BOOLEAN]

TypeOK ==
    /\ now \in Nat /\ edits \in 0 .. MaxEdits
    /\ keys \in SUBSET Keys
    /\ made \in 0 .. edits
    /\ current \in {None} \cup 0 .. made
    /\ gates \in [Keys -> Int]
    /\ slots \in [Generations -> [Keys -> SlotType]]
    /\ request \in [Requests -> RequestType]
    /\ split \in BOOLEAN

\* A request under way is in a pool that was made, with one of its keys once
\* it holds a slot.
Placed ==
    \A r \in Requests :
        /\ r \in UnderWay => request[r].gen \in 0 .. made
        /\ Holds(r) => request[r].key \in Keys

Inv == TypeOK /\ Placed

Users(g, k) == {r \in Requests : Holds(r) /\ request[r].gen = g /\ request[r].key = k}

-----------------------------------------------------------------------------
\* As long as no gate was dropped under a request, the router and all requests
\* under way use one gate for a key.
OneGate ==
    ~split =>
        /\ current = None => UnderWay = {}
        /\ current # None => \A k \in Keys : slots[current][k].gate = gates[k]
        /\ \A r \in UnderWay : \A k \in Keys :
                slots[request[r].gen][k].gate = gates[k]
        /\ \A r \in Requests : Holds(r) => request[r].gate = gates[request[r].key]

-----------------------------------------------------------------------------
LEMMA InitInv == Init => Inv /\ OneGate
<1> SUFFICES ASSUME Init PROVE Inv /\ OneGate
  OBVIOUS
<1>1. Slot(0) \in SlotType /\ Slot(0).gate = 0
  BY DEF Slot, SlotType
<1>2. Idle \in RequestType /\ Idle.at = "idle"
  BY DEF Idle, RequestType, Places, None
<1>3. slots \in [Generations -> [Keys -> SlotType]]
  BY <1>1 DEF Init
<1>4. request \in [Requests -> RequestType]
  BY <1>2 DEF Init
<1>5. \A r \in Requests : ~Holds(r) /\ r \notin UnderWay
  BY <1>2 DEF Init, Holds, UnderWay, Ended
<1>6. TypeOK
  <2>1. MaxEdits \in Nat
    BY PoolAssumption
  <2>2. gates \in [Keys -> Int] /\ keys \in SUBSET Keys
    BY DEF Init
  <2>3. now = 0 /\ edits = 0 /\ made = 0 /\ current = 0 /\ split = FALSE
    BY DEF Init
  <2>4. edits \in 0 .. MaxEdits /\ made \in 0 .. edits /\ current \in {None} \cup 0 .. made
    BY <2>1, <2>3
  <2>5. now \in Nat /\ split \in BOOLEAN
    BY <2>3
  <2> QED BY <1>3, <1>4, <2>2, <2>4, <2>5 DEF TypeOK
<1>7. Placed
  BY <1>5 DEF Placed
<1>8. OneGate
  <2>1. 0 \in Generations /\ current = 0 /\ current # None /\ UnderWay = {}
    BY <1>5, PoolAssumption DEF Init, Generations, None, UnderWay
  <2>2. \A k \in Keys : slots[0][k].gate = gates[k]
    BY <1>1, <2>1 DEF Init
  <2> QED BY <1>5, <2>1, <2>2 DEF OneGate
<1> QED BY <1>6, <1>7, <1>8 DEF Inv

LEMMA ReleasedType ==
    ASSUME NEW old \in SlotType, NEW outcome, now \in Nat, Cooldown \in Nat
    PROVE  /\ Released(old, outcome) \in SlotType
           /\ Released(old, outcome).inflight = old.inflight - 1
           /\ Released(old, outcome).gate = old.gate
<1> DEFINE n == old.inflight - 1
           d == old.disabled \/ outcome = "denied"
           u == IF outcome = "limited" THEN now + Cooldown ELSE old.until
<1>1. n \in Int /\ d \in BOOLEAN /\ u \in Int
  BY DEF SlotType
<1>2. Released(old, outcome) = [old EXCEPT !.inflight = n, !.disabled = d, !.until = u]
  BY DEF Released
<1> HIDE DEF n, d, u
<1>3. /\ [old EXCEPT !.inflight = n, !.disabled = d, !.until = u] \in SlotType
      /\ [old EXCEPT !.inflight = n, !.disabled = d, !.until = u].inflight = n
      /\ [old EXCEPT !.inflight = n, !.disabled = d, !.until = u].gate = old.gate
  BY <1>1 DEF SlotType
<1> QED BY <1>2, <1>3 DEF n

\* What a request gives back, and where it goes.
LEMMA LeaveStep ==
    ASSUME Inv, NEW r \in Requests, NEW outcome,
           Holds(r), Leave(r, outcome)
    PROVE  /\ slots' \in [Generations -> [Keys -> SlotType]]
           /\ \A g \in Generations, k \in Keys :
                 /\ slots'[g][k].gate = slots[g][k].gate
                 /\ slots'[g][k].inflight =
                       IF g = request[r].gen /\ k = request[r].key
                       THEN slots[g][k].inflight - 1 ELSE slots[g][k].inflight
<1> DEFINE q == request[r]
<1>1. q.gen \in Generations /\ q.key \in Keys
  BY PoolAssumption DEF Inv, TypeOK, Placed, Holds, UnderWay, Ended, Generations
<1>2. slots[q.gen][q.key] \in SlotType /\ now \in Nat /\ Cooldown \in Nat
  BY <1>1, PoolAssumption DEF Inv, TypeOK
<1>3. slots' = [slots EXCEPT ![q.gen][q.key] = Released(slots[q.gen][q.key], outcome)]
  BY DEF Leave
<1>4. /\ Released(slots[q.gen][q.key], outcome) \in SlotType
      /\ Released(slots[q.gen][q.key], outcome).inflight = slots[q.gen][q.key].inflight - 1
      /\ Released(slots[q.gen][q.key], outcome).gate = slots[q.gen][q.key].gate
  BY <1>2, ReleasedType
<1> HIDE DEF q
<1>5. slots \in [Generations -> [Keys -> SlotType]]
  BY DEF Inv, TypeOK
<1>6. slots' \in [Generations -> [Keys -> SlotType]]
  BY <1>1, <1>3, <1>4, <1>5
<1>7. ASSUME NEW g \in Generations, NEW k \in Keys
      PROVE  /\ slots'[g][k].gate = slots[g][k].gate
             /\ slots'[g][k].inflight =
                   IF g = q.gen /\ k = q.key
                   THEN slots[g][k].inflight - 1 ELSE slots[g][k].inflight
  BY <1>1, <1>3, <1>4, <1>5
<1> QED BY <1>6, <1>7 DEF q

\* Becoming something else leaves a request where it may be.
LEMMA MoveType ==
    ASSUME Inv, NEW r \in Requests, NEW x \in RequestType,
           request' = [request EXCEPT ![r] = x]
    PROVE  /\ request' \in [Requests -> RequestType]
           /\ request'[r] = x
           /\ \A s \in Requests : s # r => request'[s] = request[s]
  BY DEF Inv, TypeOK

LEMMA IdleType == Idle \in RequestType
  BY DEF Idle, RequestType, None, Places

LEMMA OverType ==
    ASSUME NEW place \in Places
    PROVE  /\ [Idle EXCEPT !.at = place] \in RequestType
           /\ [Idle EXCEPT !.at = place].at = place
  BY IdleType DEF RequestType

\* What a request that gives its slot back becomes.
LEMMA GiveBack ==
    ASSUME Inv, NEW r \in Requests, NEW outcome, NEW x \in RequestType,
           Holds(r), Leave(r, outcome), request' = [request EXCEPT ![r] = x],
           x.at \in Ended \/ (x.at = "picking" /\ x.gen = request[r].gen),
           UNCHANGED <<now, keys, router>>, edits' \in edits .. MaxEdits
    PROVE  Inv'
<1>1. slots' \in [Generations -> [Keys -> SlotType]]
  BY LeaveStep
<1>2. /\ request' \in [Requests -> RequestType]
      /\ request'[r] = x
      /\ \A s \in Requests : s # r => request'[s] = request[s]
  BY MoveType
<1>3. TypeOK'
  BY <1>1, <1>2, PoolAssumption DEF Inv, TypeOK, router
<1>4. Placed'
  BY <1>2 DEF Inv, Placed, UnderWay, Holds, Ended, router
<1> QED BY <1>3, <1>4 DEF Inv

-----------------------------------------------------------------------------
(* What a step does to one request and the counts, in four kinds. *)

\* No request takes or gives a slot, and no count changes.
Quiet ==
    /\ \A r \in Requests : /\ Holds(r)' <=> Holds(r)
                           /\ Holds(r) => /\ request'[r].gen = request[r].gen
                                          /\ request'[r].key = request[r].key
    /\ \A g \in Generations, k \in Keys :
          \/ slots'[g][k].inflight = slots[g][k].inflight
          \/ slots'[g][k].inflight = 0 /\ g > made

SameGates ==
    \A g \in Generations, k \in Keys : slots'[g][k].gate = slots[g][k].gate

Others(r) == \A s \in Requests \ {r} : request'[s] = request[s]

\* A request takes the slot <<g, k>>.
Takes(r, g, k) ==
    /\ ~Holds(r) /\ Holds(r)' /\ request'[r].gen = g /\ request'[r].key = k
    /\ Others(r)
    /\ \A h \in Generations, l \in Keys :
          slots'[h][l].inflight = IF h = g /\ l = k THEN slots[h][l].inflight + 1
                                                   ELSE slots[h][l].inflight

\* A request gives its slot back.
Gives(r) ==
    /\ Holds(r) /\ ~Holds(r)'
    /\ Others(r)
    /\ \A h \in Generations, l \in Keys :
          slots'[h][l].inflight =
             IF h = request[r].gen /\ l = request[r].key
             THEN slots[h][l].inflight - 1 ELSE slots[h][l].inflight

Counted ==
    \/ Quiet
    \/ \E r \in Requests : Gives(r)
    \/ \E r \in Requests, g \in Generations, k \in Keys : Takes(r, g, k)

LEMMA GivenBack ==
    ASSUME Inv, NEW r \in Requests, NEW outcome, NEW x \in RequestType,
           Holds(r), Leave(r, outcome), request' = [request EXCEPT ![r] = x],
           x.at \in Ended \/ (x.at = "picking" /\ x.gen = request[r].gen)
    PROVE  Gives(r)
<1>1. /\ request'[r] = x
      /\ \A s \in Requests : s # r => request'[s] = request[s]
  BY MoveType
<1>2. ~Holds(r)'
  BY <1>1 DEF Holds, Ended
<1> QED BY <1>1, <1>2, LeaveStep DEF Gives, Others

LEMMA SlotsCounted ==
    ASSUME Inv, Inv', Counted, HoldersAreCounted
    PROVE  HoldersAreCounted'
<1> SUFFICES ASSUME NEW g \in Generations, NEW k \in Keys
             PROVE  slots'[g][k].inflight = Cardinality(Users(g, k)')
  BY DEF HoldersAreCounted, Users
<1>1. IsFiniteSet(Requests)
  BY FS_Union, PoolAssumption DEF Requests
<1>2. IsFiniteSet(Users(g, k))
  BY <1>1, FS_Subset DEF Users
<1>3. slots[g][k].inflight = Cardinality(Users(g, k))
  BY DEF HoldersAreCounted, Users
<1>4. CASE Quiet
  <2>1. Users(g, k)' = Users(g, k)
    BY <1>4 DEF Quiet, Users
  <2>2. g > made => Users(g, k) = {}
    <3>1. ASSUME NEW r \in Users(g, k) PROVE g \in 0 .. made
      BY DEF Inv, Placed, Users, Holds, UnderWay, Ended
    <3>2. made \in Nat /\ g \in Int
      BY DEF Inv, TypeOK, Generations
    <3> QED BY <3>1, <3>2
  <2>3. Cardinality({}) = 0
    BY FS_EmptySet
  <2> QED BY <1>3, <1>4, <2>1, <2>2, <2>3 DEF Quiet
<1>5. ASSUME NEW r \in Requests, Gives(r)
      PROVE  slots'[g][k].inflight = Cardinality(Users(g, k)')
  <2>1. CASE g = request[r].gen /\ k = request[r].key
    <3>1. r \in Users(g, k) /\ Users(g, k)' = Users(g, k) \ {r}
      BY <1>5, <2>1 DEF Gives, Others, Users, Holds
    <3>2. Cardinality(Users(g, k)') = Cardinality(Users(g, k)) - 1
      BY <1>2, <3>1, FS_RemoveElement
    <3> QED BY <1>3, <1>5, <2>1, <3>2 DEF Gives
  <2>2. CASE ~(g = request[r].gen /\ k = request[r].key)
    <3>1. Users(g, k)' = Users(g, k)
      BY <1>5, <2>2 DEF Gives, Others, Users, Holds
    <3> QED BY <1>3, <1>5, <2>2, <3>1 DEF Gives
  <2> QED BY <2>1, <2>2
<1>6. ASSUME NEW r \in Requests, NEW h \in Generations, NEW l \in Keys, Takes(r, h, l)
      PROVE  slots'[g][k].inflight = Cardinality(Users(g, k)')
  <2>1. CASE g = h /\ k = l
    <3>1. r \notin Users(g, k) /\ Users(g, k)' = Users(g, k) \cup {r}
      BY <1>6, <2>1 DEF Takes, Others, Users, Holds
    <3>2. Cardinality(Users(g, k)') = Cardinality(Users(g, k)) + 1
      BY <1>2, <3>1, FS_AddElement
    <3> QED BY <1>3, <1>6, <2>1, <3>2 DEF Takes
  <2>2. CASE ~(g = h /\ k = l)
    <3>1. Users(g, k)' = Users(g, k)
      BY <1>6, <2>2 DEF Takes, Others, Users, Holds
    <3> QED BY <1>3, <1>6, <2>2, <3>1 DEF Takes
  <2> QED BY <2>1, <2>2
<1> QED BY <1>4, <1>5, <1>6 DEF Counted

-----------------------------------------------------------------------------
(* Every action keeps Inv and is counted. *)

\* The pool that enters the router is new: no request holds a slot of it.
LEMMA EnrollStep ==
    ASSUME Inv, NEW kept \in BOOLEAN, Edit, Enroll(kept),
           UNCHANGED <<now, keys, request, split>>
    PROVE  Inv' /\ Quiet
<1>1. /\ MaxEdits \in Nat /\ edits \in 0 .. MaxEdits /\ edits' = edits + 1
      /\ edits' \in 0 .. MaxEdits /\ made \in 0 .. edits
      /\ made' = made + 1 /\ current' = made'
  BY PoolAssumption DEF Inv, TypeOK, Edit, Enroll
<1>2. made' \in 0 .. edits' /\ current' \in {None} \cup 0 .. made'
      /\ made + 1 \in Generations
  BY <1>1 DEF Generations
<1>3. GatesAfter(kept) \in [Keys -> Int]
  BY <1>1 DEF GatesAfter, Inv, TypeOK
<1>4. \A gate \in Int : Slot(gate) \in SlotType /\ Slot(gate).inflight = 0
  BY DEF Slot, SlotType
<1>5. slots' = [slots EXCEPT ![made + 1] = [k \in Keys |-> Slot(GatesAfter(kept)[k])]]
  BY DEF Enroll
<1>6. [k \in Keys |-> Slot(GatesAfter(kept)[k])] \in [Keys -> SlotType]
  BY <1>3, <1>4
<1>7. slots' \in [Generations -> [Keys -> SlotType]]
  BY <1>2, <1>5, <1>6 DEF Inv, TypeOK
<1>8. TypeOK'
  BY <1>1, <1>2, <1>3, <1>7 DEF Inv, TypeOK, Enroll
<1>9. Placed'
  BY <1>1 DEF Inv, TypeOK, Placed, UnderWay, Holds, Ended
<1>10. ASSUME NEW g \in Generations, NEW k \in Keys
       PROVE  slots'[g][k].inflight = slots[g][k].inflight
                \/ (slots'[g][k].inflight = 0 /\ g > made)
  <2>1. CASE g = made + 1
    BY <1>1, <1>2, <1>3, <1>4, <1>5, <2>1 DEF Inv, TypeOK
  <2>2. CASE g # made + 1
    BY <1>2, <1>5, <2>2 DEF Inv, TypeOK
  <2> QED BY <2>1, <2>2
<1>11. Quiet
  BY <1>10 DEF Quiet, Holds
<1> QED BY <1>8, <1>9, <1>11 DEF Inv

\* The slots keep everything but a field that is no count.
LEMMA SameSlots ==
    ASSUME Inv, slots' \in [Generations -> [Keys -> SlotType]], UNCHANGED <<now, keys, request>>,
           edits' \in edits .. MaxEdits, made' = made, current' \in {None} \cup 0 .. made,
           gates' \in [Keys -> Int], split' \in BOOLEAN, MaxEdits \in Nat,
           \A g \in Generations, k \in Keys :
              slots'[g][k].inflight = slots[g][k].inflight
    PROVE  Inv' /\ Quiet
<1>1. TypeOK'
  BY DEF Inv, TypeOK
<1>2. Placed'
  BY DEF Inv, Placed, UnderWay, Holds, Ended
<1>3. Quiet
  BY DEF Quiet, Holds
<1> QED BY <1>1, <1>2, <1>3 DEF Inv

\* One request moves, the slots' counts and the pools stand still.
LEMMA MoveStep ==
    ASSUME Inv, NEW r \in Requests, NEW x \in RequestType,
           request' = [request EXCEPT ![r] = x],
           slots' \in [Generations -> [Keys -> SlotType]],
           UNCHANGED <<now, edits, keys, router>>
    PROVE  /\ TypeOK' /\ request'[r] = x /\ Others(r)
           /\ (/\ x.at \notin Ended \cup {"idle"} => x.gen \in 0 .. made
               /\ x.at \in {"waiting", "calling"} => x.key \in Keys) => Inv'
<1>1. /\ request' \in [Requests -> RequestType]
      /\ request'[r] = x
      /\ \A s \in Requests : s # r => request'[s] = request[s]
  BY MoveType
<1>2. TypeOK'
  BY <1>1 DEF Inv, TypeOK, router
<1>3. Others(r)
  BY <1>1 DEF Others
<1>4. ASSUME x.at \notin Ended \cup {"idle"} => x.gen \in 0 .. made,
             x.at \in {"waiting", "calling"} => x.key \in Keys
      PROVE  Placed'
  BY <1>1, <1>4 DEF Inv, Placed, UnderWay, Holds, router
<1> QED BY <1>1, <1>2, <1>3, <1>4 DEF Inv

\* A request begins, or ends without a slot.
LEMMA UnheldStep ==
    ASSUME Inv, NEW r \in Requests, Start(r) \/ NoKey(r)
    PROVE  /\ Inv' /\ Quiet /\ Others(r) /\ ~Holds(r)' /\ UNCHANGED <<slots, router>>
           /\ \/ request'[r].at \in Ended
              \/ current # None /\ request'[r].gen = current
<1>1. slots' = slots /\ slots' \in [Generations -> [Keys -> SlotType]]
      /\ UNCHANGED <<now, edits, keys, router>>
  BY DEF Start, NoKey, Inv, TypeOK
<1>2. CASE Start(r)
  <2> DEFINE x == [request[r] EXCEPT !.at = "picking", !.gen = current]
  <2>1. request' = [request EXCEPT ![r] = x]
    BY <1>2 DEF Start, Inv, TypeOK
  <2>2. current \in 0 .. made /\ current \in Int
    BY <1>2 DEF Start, Inv, TypeOK
  <2>3. x \in RequestType /\ x.at = "picking" /\ x.gen = current
    BY <2>2 DEF Inv, TypeOK, RequestType, Places
  <2> HIDE DEF x
  <2>4. Inv' /\ request'[r] = x /\ Others(r)
    BY <1>1, <2>1, <2>2, <2>3, MoveStep
  <2>5. ~Holds(r) /\ ~Holds(r)'
    BY <1>2, <2>3, <2>4 DEF Start, Holds
  <2>6. Quiet
    BY <1>1, <2>4, <2>5 DEF Quiet, Others, Holds
  <2>7. current # None /\ request'[r].gen = current
    BY <1>2, <2>3, <2>4 DEF Start
  <2> QED BY <1>1, <2>4, <2>5, <2>6, <2>7
<1>3. CASE NoKey(r)
  <2>1. PICK place \in {"failed", "exhausted"} : Become(r, place)
    BY <1>3 DEF NoKey
  <2> DEFINE x == [Idle EXCEPT !.at = place]
  <2>2. x \in RequestType /\ x.at = place
    BY OverType DEF Places
  <2>3. request' = [request EXCEPT ![r] = x]
    BY <2>1 DEF Become
  <2> HIDE DEF x
  <2>4. Inv' /\ request'[r] = x /\ Others(r)
    BY <1>1, <2>2, <2>3, MoveStep DEF Ended
  <2>5. ~Holds(r) /\ ~Holds(r)'
    BY <1>3, <2>2, <2>4 DEF NoKey, Holds
  <2>6. Quiet
    BY <1>1, <2>4, <2>5 DEF Quiet, Others, Holds
  <2>7. request'[r].at \in Ended
    BY <2>2, <2>4 DEF Ended
  <2> QED BY <1>1, <2>4, <2>5, <2>6, <2>7
<1> QED BY <1>2, <1>3

LEMMA PickStep ==
    ASSUME Inv, NEW r \in Requests, Pick(r)
    PROVE  /\ Inv' /\ Others(r) /\ SameGates /\ UNCHANGED router
           /\ r \in UnderWay /\ request'[r].at = "waiting"
           /\ \E g \in Generations, k \in Keys :
                 /\ Takes(r, g, k)
                 /\ request[r].gen = g /\ request'[r].gate = slots[g][k].gate
<1> DEFINE g == request[r].gen
<1>1. PICK k \in Least(g) :
        /\ slots' = [slots EXCEPT ![g][k].inflight = @ + 1]
        /\ request' = [request EXCEPT ![r].at = "waiting", ![r].key = k,
                                      ![r].gate = slots[g][k].gate]
  BY DEF Pick
<1>2. request[r].at = "picking" /\ UNCHANGED <<now, edits, keys, router>>
  BY DEF Pick
<1>3. k \in Keys
  BY <1>1 DEF Least, Ready, Inv, TypeOK
<1>4. g \in 0 .. made /\ g \in Generations
  BY <1>2, PoolAssumption DEF Inv, TypeOK, Placed, UnderWay, Ended, Generations
<1> DEFINE n == slots[g][k].inflight + 1
           gate == slots[g][k].gate
           y == [slots[g][k] EXCEPT !.inflight = n]
           x == [request[r] EXCEPT !.at = "waiting", !.key = k, !.gate = gate]
<1>5. slots[g][k] \in SlotType /\ n \in Int /\ gate \in Int
  BY <1>3, <1>4 DEF Inv, TypeOK, SlotType
<1>6. y \in SlotType /\ y.inflight = n /\ y.gate = gate
  BY <1>5 DEF SlotType
<1>7. request[r] \in RequestType /\ "waiting" \in Places
  BY DEF Inv, TypeOK, Places
<1>8. x \in RequestType /\ x.at = "waiting" /\ x.key = k /\ x.gen = g /\ x.gate = gate
  <2> HIDE DEF gate
  <2> QED BY <1>3, <1>5, <1>7 DEF RequestType
<1>9. request' = [request EXCEPT ![r] = x]
  BY <1>1 DEF Inv, TypeOK
<1>10. slots' = [slots EXCEPT ![g][k] = y]
  BY <1>1, <1>3, <1>4 DEF Inv, TypeOK
<1>11. /\ slots' \in [Generations -> [Keys -> SlotType]]
       /\ \A h \in Generations, l \in Keys :
             /\ slots'[h][l].inflight = IF h = g /\ l = k THEN n ELSE slots[h][l].inflight
             /\ slots'[h][l].gate = slots[h][l].gate
  <2>1. gate = slots[g][k].gate
    OBVIOUS
  <2> HIDE DEF y, g, n, gate
  <2> QED BY <1>3, <1>4, <1>6, <1>10, <2>1 DEF Inv, TypeOK
<1>12. Inv' /\ request'[r] = x /\ Others(r)
  <2> HIDE DEF x, g
  <2> QED BY <1>2, <1>3, <1>4, <1>8, <1>9, <1>11, MoveStep
<1>13. Takes(r, g, k)
  <2> HIDE DEF x
  <2> QED BY <1>2, <1>8, <1>11, <1>12 DEF Takes, Holds
<1>14. r \in UnderWay
  BY <1>2 DEF UnderWay, Ended
<1>15. SameGates /\ UNCHANGED router
  BY <1>2, <1>11 DEF SameGates
<1>16. request'[r].at = "waiting" /\ request'[r].gate = slots[g][k].gate
  <2>1. gate = slots[g][k].gate
    OBVIOUS
  <2> HIDE DEF x, gate
  <2> QED BY <1>8, <1>12, <2>1
<1> QED BY <1>3, <1>4, <1>12, <1>13, <1>14, <1>15, <1>16

LEMMA EnterStep ==
    ASSUME Inv, NEW r \in Requests, Enter(r)
    PROVE  /\ Inv' /\ Quiet /\ Others(r) /\ SameGates /\ UNCHANGED router
           /\ request[r].at = "waiting" /\ request'[r].at = "calling"
           /\ request'[r].gen = request[r].gen /\ request'[r].key = request[r].key
           /\ request'[r].gate = request[r].gate
<1> DEFINE g == request[r].gen
           k == request[r].key
           x == [request[r] EXCEPT !.at = "calling"]
           y == [slots[g][k] EXCEPT !.client = TRUE]
<1>1. /\ request[r].at = "waiting" /\ UNCHANGED <<now, edits, keys, router>>
      /\ request' = [request EXCEPT ![r].at = "calling"]
      /\ slots' = [slots EXCEPT ![g][k].client = TRUE]
  BY DEF Enter
<1>2. g \in 0 .. made /\ g \in Generations /\ k \in Keys
  <2>1. r \in UnderWay /\ Holds(r)
    BY <1>1 DEF UnderWay, Holds, Ended
  <2>2. g \in 0 .. made /\ k \in Keys
    BY <2>1 DEF Inv, Placed
  <2>3. g \in Generations
    BY <2>2, PoolAssumption DEF Inv, TypeOK, Generations
  <2> QED BY <2>2, <2>3
<1>3. slots[g][k] \in SlotType
  BY <1>2 DEF Inv, TypeOK
<1>4. y \in SlotType /\ y.inflight = slots[g][k].inflight /\ y.gate = slots[g][k].gate
  BY <1>3 DEF SlotType
<1>5. request[r] \in RequestType
  BY DEF Inv, TypeOK
<1>6. /\ x \in RequestType /\ x.at = "calling" /\ x.key = k /\ x.gen = g
      /\ x.gate = request[r].gate
  BY <1>5 DEF RequestType, Places
<1>7. request' = [request EXCEPT ![r] = x]
  BY <1>1 DEF Inv, TypeOK
<1>8. slots' = [slots EXCEPT ![g][k] = y]
  BY <1>1, <1>2 DEF Inv, TypeOK
<1>9. /\ slots' \in [Generations -> [Keys -> SlotType]]
      /\ \A h \in Generations, l \in Keys : /\ slots'[h][l].inflight = slots[h][l].inflight
                                          /\ slots'[h][l].gate = slots[h][l].gate
  <2> HIDE DEF y, g, k
  <2>1. slots \in [Generations -> [Keys -> SlotType]]
    BY DEF Inv, TypeOK
  <2> QED BY <1>2, <1>4, <1>8, <2>1
<1>10. Inv' /\ request'[r] = x /\ Others(r)
  <2>1. x \in RequestType /\ x.gen \in 0 .. made /\ x.key \in Keys
    BY <1>2, <1>6
  <2>2. slots' \in [Generations -> [Keys -> SlotType]]
    BY <1>9
  <2> HIDE DEF x, g, k
  <2> QED BY <1>1, <1>7, <2>1, <2>2, MoveStep
<1>11. Quiet
  <2> HIDE DEF x
  <2> QED BY <1>1, <1>6, <1>9, <1>10 DEF Quiet, Holds, Others
<1>12. SameGates /\ UNCHANGED router
  BY <1>1, <1>9 DEF SameGates
<1>13. /\ request'[r].at = "calling" /\ request'[r].gate = request[r].gate
       /\ request'[r].gen = g /\ request'[r].key = k
  <2> HIDE DEF x
  <2> QED BY <1>6, <1>10
<1> QED BY <1>1, <1>10, <1>11, <1>12, <1>13

\* However a request gives its slot back, Inv holds and it is counted.
LEMMA AnsweredStep ==
    ASSUME Inv, NEW r \in Requests, Answered(r) \/ Cancel(r)
    PROVE  /\ Inv' /\ Gives(r) /\ SameGates /\ UNCHANGED router
           /\ \/ request'[r].at \in Ended
              \/ request'[r].at = "picking" /\ request'[r].gen = request[r].gen
<1> DEFINE Goal == /\ Inv' /\ Gives(r) /\ SameGates /\ UNCHANGED router
                   /\ \/ request'[r].at \in Ended
                      \/ request'[r].at = "picking" /\ request'[r].gen = request[r].gen
<1>1. Holds(r) /\ UNCHANGED <<now, keys, router>> /\ edits' \in edits .. MaxEdits
  <2>1. edits \in edits .. MaxEdits
    BY PoolAssumption DEF Inv, TypeOK
  <2>2. Answered(r) => Holds(r) /\ UNCHANGED <<now, edits, keys, router>>
    BY DEF Answered, Good, Limited, Denied, Broken, Raised, Holds
  <2>3. Cancel(r) => /\ Holds(r) /\ UNCHANGED <<now, keys, router>>
                     /\ edits < MaxEdits /\ edits' = edits + 1
    BY DEF Cancel, Edit
  <2>4. edits \in 0 .. MaxEdits /\ MaxEdits \in Nat
    BY PoolAssumption DEF Inv, TypeOK
  <2>5. CASE Answered(r)
    BY <2>1, <2>2, <2>5
  <2>6. CASE Cancel(r)
    BY <2>3, <2>4, <2>6
  <2> QED BY <2>5, <2>6
<1>2. ASSUME NEW outcome, Leave(r, outcome), NEW place \in Ended, Become(r, place)
      PROVE  Goal
  <2> DEFINE x == [Idle EXCEPT !.at = place]
  <2>1. place \in Places
    BY DEF Places, Ended
  <2>2. request' = [request EXCEPT ![r] = x]
    BY <1>2 DEF Become
  <2>3. x \in RequestType /\ x.at = place
    BY <2>1, OverType
  <2> HIDE DEF x
  <2>4. Inv' /\ Gives(r) /\ request'[r] = x
    BY <1>1, <1>2, <2>2, <2>3, GiveBack, GivenBack, MoveType
  <2> QED BY <1>1, <1>2, <2>3, <2>4, LeaveStep DEF SameGates
<1>3. ASSUME NEW outcome, Leave(r, outcome), NEW round \in Int, NEW tries \in Int,
             NEW limited \in BOOLEAN, Again(r, round, tries, limited)
      PROVE  Goal
  <2> DEFINE g == request[r].gen
  <2> DEFINE x == [Idle EXCEPT !.at = "picking", !.gen = g, !.round = round,
                               !.tries = tries, !.limited = limited]
  <2>1. g \in Int
    BY DEF Inv, TypeOK, RequestType
  <2>2. request' = [request EXCEPT ![r] = x]
    BY <1>3 DEF Again
  <2>3. x \in RequestType /\ x.at = "picking" /\ x.gen = g
    <3> HIDE DEF g
    <3>1. "picking" \in Places
      BY DEF Places
    <3> QED BY <2>1, <3>1, IdleType DEF RequestType
  <2>4. g = request[r].gen
    OBVIOUS
  <2> HIDE DEF x, g
  <2>5. Inv' /\ Gives(r) /\ request'[r] = x
    BY <1>1, <1>3, <2>2, <2>3, <2>4, GiveBack, GivenBack, MoveType
  <2> QED BY <1>1, <1>3, <2>3, <2>4, <2>5, LeaveStep DEF SameGates
<1> HIDE DEF Goal
<1>4. request[r].round \in Int /\ request[r].tries \in Int
  BY DEF Inv, TypeOK, RequestType
<1>5. ASSUME Good(r) PROVE Goal
  <2>1. CASE Leave(r, "good") /\ Become(r, "done")
    BY <1>2, <2>1 DEF Ended
  <2>2. CASE Leave(r, "good") /\ Again(r, request[r].round + 1, 0, FALSE)
    <3>1. request[r].round + 1 \in Int /\ 0 \in Int /\ FALSE \in BOOLEAN
      BY <1>4
    <3> QED BY <1>3, <2>2, <3>1
  <2> QED BY <1>5, <2>1, <2>2 DEF Good
<1>6. ASSUME Limited(r) PROVE Goal
  <2>1. CASE Leave(r, "limited") /\ Become(r, "failed")
    BY <1>2, <2>1 DEF Ended
  <2>2. CASE Leave(r, "good") /\ Become(r, "failed")
    BY <1>2, <2>2 DEF Ended
  <2>3. CASE Leave(r, "good") /\ Again(r, request[r].round, request[r].tries + 1, TRUE)
    <3>1. request[r].tries + 1 \in Int /\ TRUE \in BOOLEAN
      BY <1>4
    <3> QED BY <1>3, <1>4, <2>3, <3>1
  <2> QED BY <1>6, <2>1, <2>2, <2>3 DEF Limited
<1>7. ASSUME Denied(r) \/ Broken(r) PROVE Goal
  BY <1>2, <1>7 DEF Denied, Broken, Raised, Ended
<1>8. ASSUME Cancel(r) PROVE Goal
  BY <1>2, <1>8 DEF Cancel, Ended
<1> QED BY <1>5, <1>6, <1>7, <1>8 DEF Answered, Goal

LEMMA RemoveStep ==
    ASSUME Inv, Remove
    PROVE  Inv' /\ Quiet
<1>1. /\ edits' \in edits .. MaxEdits /\ MaxEdits \in Nat
      /\ made' = made /\ current' = None /\ None \in Int
      /\ UNCHANGED <<now, keys, request>> /\ slots' = slots
      /\ gates' = [k \in Keys |-> None]
  BY PoolAssumption DEF Remove, Edit, Inv, TypeOK, None
<1>2. split' \in BOOLEAN
  BY DEF Remove, Inv, TypeOK
<1>3. slots' \in [Generations -> [Keys -> SlotType]] /\ gates' \in [Keys -> Int]
  BY <1>1 DEF Inv, TypeOK
<1> QED BY <1>1, <1>2, <1>3, SameSlots

LEMMA RelimitStep ==
    ASSUME Inv, Relimit
    PROVE  /\ Inv' /\ Quiet
           /\ \A k \in Keys : gates'[k] = edits + 1 /\ slots'[current][k].gate = edits + 1
<1> DEFINE n == edits + 1
           renewed == [k \in Keys |-> [slots[current][k] EXCEPT !.gate = n]]
<1>1. /\ edits' \in edits .. MaxEdits /\ MaxEdits \in Nat /\ n \in Int
      /\ made' = made /\ current' = current /\ current \in 0 .. made
      /\ UNCHANGED <<now, keys, request>>
      /\ gates' = [k \in Keys |-> n]
      /\ slots' = [slots EXCEPT ![current] = renewed]
  BY PoolAssumption DEF Relimit, Edit, Inv, TypeOK, GatesAfter
<1>2. current \in Generations
  BY <1>1 DEF Generations, Inv, TypeOK
<1>3. slots \in [Generations -> [Keys -> SlotType]]
  BY DEF Inv, TypeOK
<1>4. ASSUME NEW k \in Keys
      PROVE  LET y == [slots[current][k] EXCEPT !.gate = n]
             IN  y \in SlotType /\ y.inflight = slots[current][k].inflight /\ y.gate = n
  <2>1. slots[current][k] \in SlotType
    BY <1>2, <1>3
  <2> HIDE DEF n
  <2> QED BY <1>1, <2>1 DEF SlotType
<1>5. /\ renewed \in [Keys -> SlotType]
      /\ \A k \in Keys : renewed[k].inflight = slots[current][k].inflight /\ renewed[k].gate = n
  BY <1>4
<1>6. split' \in BOOLEAN
  BY DEF Relimit, Inv, TypeOK
<1> HIDE DEF renewed, n
<1>7. slots' \in [Generations -> [Keys -> SlotType]] /\ gates' \in [Keys -> Int]
  BY <1>1, <1>2, <1>3, <1>5
<1>8. \A g \in Generations, k \in Keys : slots'[g][k].inflight = slots[g][k].inflight
  BY <1>1, <1>2, <1>3, <1>5
<1>9. current' \in {None} \cup 0 .. made
  BY <1>1
<1>10. Inv' /\ Quiet
  BY <1>1, <1>6, <1>7, <1>8, <1>9, SameSlots
<1>11. \A k \in Keys : gates'[k] = n /\ slots'[current][k].gate = n
  BY <1>1, <1>2, <1>3, <1>5
<1> QED BY <1>10, <1>11 DEF n

\* Closing the clients of a replaced pool touches no count and no gate.
LEMMA CloseStep ==
    ASSUME Inv, NEW g \in Generations, Close(g)
    PROVE  /\ Inv' /\ Quiet /\ UNCHANGED <<router, request>>
           /\ \A h \in Generations, k \in Keys : slots'[h][k].gate = slots[h][k].gate
<1> DEFINE closed == [k \in Keys |-> [slots[g][k] EXCEPT !.client = FALSE]]
<1>1. /\ UNCHANGED <<now, edits, keys, router, request>>
      /\ slots' = [slots EXCEPT ![g] = closed]
  BY DEF Close
<1>2. slots \in [Generations -> [Keys -> SlotType]]
  BY DEF Inv, TypeOK
<1>3. ASSUME NEW k \in Keys
      PROVE  LET y == [slots[g][k] EXCEPT !.client = FALSE]
             IN  /\ y \in SlotType /\ y.inflight = slots[g][k].inflight
                 /\ y.gate = slots[g][k].gate
  <2>1. slots[g][k] \in SlotType
    BY <1>2
  <2> QED BY <2>1 DEF SlotType
<1>4. /\ closed \in [Keys -> SlotType]
      /\ \A k \in Keys : /\ closed[k].inflight = slots[g][k].inflight
                         /\ closed[k].gate = slots[g][k].gate
  BY <1>3
<1> HIDE DEF closed
<1>5. slots' \in [Generations -> [Keys -> SlotType]]
  BY <1>1, <1>2, <1>4
<1>6. \A h \in Generations, k \in Keys : /\ slots'[h][k].inflight = slots[h][k].inflight
                                        /\ slots'[h][k].gate = slots[h][k].gate
  BY <1>1, <1>2, <1>4
<1>7. /\ UNCHANGED <<now, keys, request>> /\ edits' \in edits .. MaxEdits
      /\ made' = made /\ current' \in {None} \cup 0 .. made
      /\ gates' \in [Keys -> Int] /\ split' \in BOOLEAN /\ MaxEdits \in Nat
  BY <1>1, PoolAssumption DEF Inv, TypeOK, router
<1>8. Inv' /\ Quiet
  BY <1>5, <1>6, <1>7, SameSlots
<1> QED BY <1>1, <1>6, <1>8

LEMMA TickStep ==
    ASSUME Inv, Tick
    PROVE  Inv' /\ Quiet
<1>1. TypeOK'
  BY DEF Tick, router, Inv, TypeOK
<1>2. Placed'
  BY DEF Tick, router, Inv, Placed, UnderWay, Holds, Ended
<1>3. Quiet
  BY DEF Tick, Quiet, Holds
<1> QED BY <1>1, <1>2, <1>3 DEF Inv

LEMMA NextStep ==
    ASSUME Inv, Next
    PROVE  Inv' /\ Counted
<1>1. ASSUME NEW r \in Requests,
             Start(r) \/ Pick(r) \/ NoKey(r) \/ Enter(r) \/ Answered(r) \/ Cancel(r)
      PROVE  Inv' /\ Counted
  BY <1>1, UnheldStep, PickStep, EnterStep, AnsweredStep DEF Counted
<1>2. CASE Panel
  <2>1. CASE Replace
    <3>1. TRUE \in BOOLEAN /\ Edit /\ Enroll(TRUE) /\ UNCHANGED <<now, keys, request, split>>
      BY <2>1 DEF Replace
    <3> QED BY <3>1, EnrollStep DEF Counted
  <2>2. CASE Add
    <3>1. FALSE \in BOOLEAN /\ Edit /\ Enroll(FALSE) /\ UNCHANGED <<now, keys, request, split>>
      BY <2>2 DEF Add
    <3> QED BY <3>1, EnrollStep DEF Counted
  <2> QED BY <1>2, <2>1, <2>2, RemoveStep, RelimitStep DEF Panel, Counted
<1>3. ASSUME NEW g \in Generations, Close(g)
      PROVE  Inv' /\ Counted
  BY <1>3, CloseStep DEF Counted
<1>4. CASE Tick
  BY <1>4, TickStep DEF Counted
<1> QED BY <1>1, <1>2, <1>3, <1>4 DEF Next

-----------------------------------------------------------------------------
LEMMA InitCounted == Init => HoldersAreCounted
<1> SUFFICES ASSUME Init, NEW g \in Generations, NEW k \in Keys
             PROVE  slots[g][k].inflight = Cardinality(Users(g, k))
  BY DEF HoldersAreCounted, Users
<1>1. slots[g][k].inflight = 0
  BY DEF Init, Slot
<1>2. Users(g, k) = {}
  BY DEF Init, Users, Holds, Idle
<1> QED BY <1>1, <1>2, FS_EmptySet

-----------------------------------------------------------------------------
(* The one gate of a key, and its quota. *)

\* A request that moved is in a pool with the gates of the router.
Fits(r) ==
    /\ request'[r].at \notin Ended \cup {"idle"} =>
          /\ current # None /\ request'[r].gen \in Generations
          /\ \A k \in Keys : slots[request'[r].gen][k].gate = gates[k]
    /\ Holds(r)' => request'[r].gate = gates[request'[r].key]

LEMMA UnderWayMade ==
    ASSUME Inv, NEW r \in UnderWay
    PROVE  request[r].gen \in 0 .. made /\ request[r].gen \in Generations
<1>1. request[r].gen \in 0 .. made
  BY DEF Inv, Placed, UnderWay
<1>2. made \in 0 .. MaxEdits /\ MaxEdits \in Nat
  BY PoolAssumption DEF Inv, TypeOK
<1> QED BY <1>1, <1>2 DEF Generations

LEMMA OneGateMove ==
    ASSUME Inv, OneGate, NEW r \in Requests,
           Others(r), SameGates, UNCHANGED router, ~split => Fits(r)
    PROVE  OneGate'
<1> SUFFICES ASSUME ~split PROVE OneGate'
  BY DEF OneGate, router
<1>1. \A s \in UnderWay : request[s].gen \in Generations
  BY UnderWayMade
<1>2. current # None => current \in Generations
  BY PoolAssumption DEF Inv, TypeOK, Generations
<1>3. /\ current = None => UnderWay = {}
      /\ current # None => \A k \in Keys : slots[current][k].gate = gates[k]
      /\ \A s \in UnderWay, k \in Keys : slots[request[s].gen][k].gate = gates[k]
      /\ \A s \in Requests : Holds(s) => request[s].gate = gates[request[s].key]
  BY DEF OneGate
<1>4. current' = current /\ gates' = gates
  BY DEF router
<1>5. \A s \in Requests : s # r => request'[s] = request[s]
  BY DEF Others
<1>6. current' = None => UnderWay' = {}
  BY <1>3, <1>4, <1>5 DEF Fits, UnderWay
<1>7. current' # None => \A k \in Keys : slots'[current'][k].gate = gates'[k]
  BY <1>2, <1>3, <1>4 DEF SameGates
<1>8. ASSUME NEW s \in UnderWay', NEW k \in Keys
      PROVE  slots'[request'[s].gen][k].gate = gates'[k]
  <2>1. CASE s = r
    BY <1>4, <1>8, <2>1 DEF Fits, UnderWay, SameGates
  <2>2. CASE s # r
    <3>1. s \in UnderWay /\ request'[s] = request[s]
      BY <1>5, <1>8, <2>2 DEF UnderWay
    <3> QED BY <1>1, <1>3, <1>4, <3>1 DEF SameGates
  <2> QED BY <2>1, <2>2
<1>9. ASSUME NEW s \in Requests, Holds(s)'
      PROVE  request'[s].gate = gates'[request'[s].key]
  <2>1. CASE s = r
    BY <1>4, <1>9, <2>1 DEF Fits
  <2>2. CASE s # r
    BY <1>3, <1>4, <1>5, <1>9, <2>2 DEF Holds
  <2> QED BY <2>1, <2>2
<1> QED BY <1>6, <1>7, <1>8, <1>9 DEF OneGate

\* A request that moves stays with the gates of its pool.
LEMMA RequestGates ==
    ASSUME Inv, OneGate, NEW r \in Requests,
           Start(r) \/ Pick(r) \/ NoKey(r) \/ Enter(r) \/ Answered(r) \/ Cancel(r)
    PROVE  OneGate' /\ Others(r) /\ UNCHANGED router
<1>1. ~split => /\ current # None => \A k \in Keys : slots[current][k].gate = gates[k]
                /\ r \in UnderWay =>
                     /\ current # None
                     /\ \A k \in Keys : slots[request[r].gen][k].gate = gates[k]
                /\ Holds(r) => request[r].gate = gates[request[r].key]
  BY DEF OneGate
<1>2. current # None => current \in Generations
  BY PoolAssumption DEF Inv, TypeOK, Generations
<1>3. r \in UnderWay => request[r].gen \in Generations
  BY UnderWayMade
<1>4. CASE Start(r) \/ NoKey(r)
  <2>1. /\ Others(r) /\ ~Holds(r)' /\ UNCHANGED <<slots, router>>
        /\ \/ request'[r].at \in Ended
           \/ current # None /\ request'[r].gen = current
    BY <1>4, UnheldStep
  <2>2. ~split => Fits(r)
    BY <1>1, <1>2, <2>1 DEF Fits
  <2>3. SameGates
    BY <2>1 DEF SameGates
  <2> QED BY <2>1, <2>2, <2>3, OneGateMove
<1>5. CASE Pick(r)
  <2>1. Others(r) /\ SameGates /\ UNCHANGED router /\ r \in UnderWay
    BY <1>5, PickStep
  <2>2. PICK g \in Generations, k \in Keys :
           /\ request'[r].gen = g /\ request'[r].key = k
           /\ request[r].gen = g /\ request'[r].gate = slots[g][k].gate
    BY <1>5, PickStep DEF Takes
  <2>3. ~split => Fits(r)
    BY <1>1, <2>1, <2>2 DEF Fits
  <2> QED BY <2>1, <2>3, OneGateMove
<1>6. CASE Enter(r)
  <2>1. /\ Others(r) /\ SameGates /\ UNCHANGED router
        /\ request[r].at = "waiting"
        /\ request'[r].gen = request[r].gen /\ request'[r].key = request[r].key
        /\ request'[r].gate = request[r].gate
    BY <1>6, EnterStep
  <2>2. r \in UnderWay /\ Holds(r)
    BY <2>1 DEF UnderWay, Holds, Ended
  <2>3. ~split => Fits(r)
    BY <1>1, <1>3, <2>1, <2>2 DEF Fits
  <2> QED BY <2>1, <2>3, OneGateMove
<1>7. CASE Answered(r) \/ Cancel(r)
  <2>1. /\ Gives(r) /\ SameGates /\ UNCHANGED router
        /\ \/ request'[r].at \in Ended
           \/ request'[r].at = "picking" /\ request'[r].gen = request[r].gen
    BY <1>7, AnsweredStep
  <2>2. Others(r) /\ ~Holds(r)' /\ r \in UnderWay
    BY <2>1 DEF Gives, UnderWay, Holds, Ended
  <2>3. ~split => Fits(r)
    BY <1>1, <1>3, <2>1, <2>2 DEF Fits
  <2> QED BY <2>1, <2>2, <2>3, OneGateMove
<1> QED BY <1>4, <1>5, <1>6, <1>7

\* A new pool takes the gates of the router: those of its predecessor, or new
\* ones when there is none, and then nothing is under way.
LEMMA EnrollGates ==
    ASSUME Inv, OneGate, NEW kept \in BOOLEAN, Edit, Enroll(kept),
           UNCHANGED <<now, keys, request, split>>, current = None <=> ~kept
    PROVE  OneGate'
<1> SUFFICES ASSUME ~split PROVE OneGate'
  BY DEF OneGate
<1> DEFINE fresh == GatesAfter(kept)
<1>1. /\ made' = made + 1 /\ current' = made + 1 /\ gates' = fresh
      /\ slots' = [slots EXCEPT ![made + 1] = [k \in Keys |-> Slot(fresh[k])]]
      /\ request' = request /\ edits < MaxEdits
  BY DEF Enroll, Edit
<1>2. /\ made \in Nat /\ made + 1 \in Generations /\ made + 1 # None
      /\ slots \in [Generations -> [Keys -> SlotType]]
  <2>1. made \in 0 .. edits /\ edits \in 0 .. MaxEdits /\ MaxEdits \in Nat
    BY PoolAssumption DEF Inv, TypeOK
  <2>2. slots \in [Generations -> [Keys -> SlotType]]
    BY DEF Inv, TypeOK
  <2> QED BY <1>1, <2>1, <2>2 DEF Generations, None
<1> HIDE DEF fresh
<1>3. \A gate : Slot(gate).gate = gate
  BY DEF Slot
<1>4. \A k \in Keys : slots'[made + 1][k].gate = fresh[k]
  <2>1. \A k \in Keys : slots'[made + 1][k] = Slot(fresh[k])
    BY <1>1, <1>2
  <2> QED BY <1>3, <2>1
<1>5. UnderWay' = UnderWay /\ (\A r : Holds(r)' <=> Holds(r))
  BY <1>1 DEF UnderWay, Holds
<1>6. UnderWay # {} => kept
  BY DEF OneGate
<1>7. kept => fresh = gates
  BY DEF fresh, GatesAfter
<1>8. ASSUME NEW r \in UnderWay', NEW k \in Keys
      PROVE  slots'[request'[r].gen][k].gate = gates'[k]
  <2>1. r \in UnderWay
    BY <1>5
  <2>2. request[r].gen \in 0 .. made /\ request[r].gen \in Generations
    BY <2>1, UnderWayMade
  <2>3. slots'[request[r].gen] = slots[request[r].gen]
    BY <1>1, <1>2, <2>2
  <2>4. slots[request[r].gen][k].gate = gates[k]
    BY <2>1 DEF OneGate
  <2> QED BY <1>1, <1>6, <1>7, <2>1, <2>3, <2>4
<1>9. ASSUME NEW r \in Requests, Holds(r)'
      PROVE  request'[r].gate = gates'[request'[r].key]
  <2>1. Holds(r) /\ r \in UnderWay
    BY <1>5, <1>9 DEF UnderWay, Holds, Ended
  <2>2. request[r].gate = gates[request[r].key]
    BY <2>1 DEF OneGate
  <2> QED BY <1>1, <1>6, <1>7, <2>1, <2>2
<1> QED BY <1>1, <1>2, <1>4, <1>8, <1>9 DEF OneGate

\* The panel drops a gate only under requests that split remembers, or under
\* none.
LEMMA PanelGates ==
    ASSUME Inv, OneGate, Panel
    PROVE  OneGate' /\ request' = request /\ (split => split')
<1>1. CASE Replace
  <2>1. /\ TRUE \in BOOLEAN /\ Edit /\ Enroll(TRUE) /\ current # None
        /\ UNCHANGED <<now, keys, request, split>>
    BY <1>1 DEF Replace
  <2> QED BY <2>1, EnrollGates
<1>2. CASE Add
  <2>1. /\ FALSE \in BOOLEAN /\ Edit /\ Enroll(FALSE) /\ current = None
        /\ UNCHANGED <<now, keys, request, split>>
    BY <1>2 DEF Add
  <2> QED BY <2>1, EnrollGates
<1>3. CASE Remove
  <2>1. current' = None /\ request' = request /\ split' = (split \/ UnderWay # {})
    BY <1>3 DEF Remove
  <2>2. ~split' => UnderWay' = {} /\ \A r \in Requests : ~Holds(r)'
    BY <2>1 DEF UnderWay, Holds, Ended
  <2> QED BY <2>1, <2>2 DEF OneGate
<1>4. CASE Relimit
  <2>1. current' = current /\ request' = request /\ split' = (split \/ UnderWay # {})
    BY <1>4 DEF Relimit
  <2>2. ~split' => UnderWay' = {} /\ \A r \in Requests : ~Holds(r)'
    BY <2>1 DEF UnderWay, Holds, Ended
  <2>3. \A k \in Keys : slots'[current'][k].gate = gates'[k]
    BY <1>4, <2>1, RelimitStep
  <2> QED BY <2>1, <2>2, <2>3 DEF OneGate
<1> QED BY <1>1, <1>2, <1>3, <1>4 DEF Panel

LEMMA StillGates ==
    ASSUME Inv, OneGate, UNCHANGED <<router, request>>, SameGates
    PROVE  OneGate'
<1>1. \A s \in UnderWay : request[s].gen \in Generations
  BY UnderWayMade
<1>2. current # None => current \in Generations
  BY PoolAssumption DEF Inv, TypeOK, Generations
<1> QED BY <1>1, <1>2 DEF OneGate, SameGates, router, UnderWay, Holds

LEMMA NextGates ==
    ASSUME Inv, OneGate, Next
    PROVE  OneGate'
<1>1. ASSUME NEW g \in Generations, Close(g)
      PROVE  OneGate'
  <2>1. UNCHANGED <<router, request>> /\ SameGates
    BY <1>1, CloseStep DEF SameGates
  <2> QED BY <2>1, StillGates
<1>2. CASE Tick
  <2>1. UNCHANGED <<router, request>> /\ SameGates
    BY <1>2 DEF Tick, SameGates
  <2> QED BY <2>1, StillGates
<1> QED BY <1>1, <1>2, RequestGates, PanelGates DEF Next

-----------------------------------------------------------------------------
LEMMA CallingFinite ==
    ASSUME NEW k
    PROVE  IsFiniteSet(Calling(k)) /\ Cardinality(Calling(k)) \in Nat
<1>1. IsFiniteSet(Requests)
  BY FS_Union, PoolAssumption DEF Requests
<1>2. IsFiniteSet(Calling(k))
  BY <1>1, FS_Subset DEF Calling
<1> QED BY <1>2, FS_CardinalityType

\* Who enters waited in the only gate of the key, which had room.
LEMMA EnterQuota ==
    ASSUME Inv, OneGate, QuotaShared, NEW r \in Requests, Enter(r)
    PROVE  QuotaShared'
<1>1. /\ Others(r) /\ UNCHANGED router
      /\ request[r].at = "waiting" /\ request'[r].at = "calling"
      /\ request'[r].key = request[r].key
  BY EnterStep
<1> SUFFICES ASSUME ~split, NEW k \in Keys
             PROVE  Cardinality(Calling(k)') <= PerKey
  BY <1>1 DEF QuotaShared, router
<1>2. CASE k = request[r].key
  <2>1. \A s \in Requests : Holds(s) => request[s].gate = gates[request[s].key]
    BY DEF OneGate
  <2>2. InGate(k, request[r].gate) = Calling(k)
    BY <1>1, <1>2, <2>1 DEF InGate, Calling, Holds
  <2>3. Cardinality(Calling(k)) < PerKey
    BY <1>2, <2>2 DEF Enter
  <2>4. Calling(k)' = Calling(k) \cup {r} /\ r \notin Calling(k)
    BY <1>1, <1>2 DEF Calling, Others
  <2>5. Cardinality(Calling(k)') = Cardinality(Calling(k)) + 1
    BY <2>4, CallingFinite, FS_AddElement
  <2> QED BY <2>3, <2>5, CallingFinite, PoolAssumption
<1>3. CASE k # request[r].key
  <2>1. Calling(k)' = Calling(k)
    BY <1>1, <1>3 DEF Calling, Others
  <2> QED BY <2>1 DEF QuotaShared
<1> QED BY <1>2, <1>3

LEMMA FewerCalling ==
    ASSUME QuotaShared, split => split',
           \A k \in Keys : Calling(k)' \subseteq Calling(k)
    PROVE  QuotaShared'
<1> SUFFICES ASSUME ~split, NEW k \in Keys
             PROVE  Cardinality(Calling(k)') <= PerKey
  BY DEF QuotaShared
<1>1. /\ Cardinality(Calling(k)') <= Cardinality(Calling(k))
      /\ Cardinality(Calling(k)') \in Nat /\ Cardinality(Calling(k)) \in Nat
  BY CallingFinite, FS_Subset, FS_CardinalityType
<1>2. Cardinality(Calling(k)) <= PerKey
  BY DEF QuotaShared
<1> QED BY <1>1, <1>2, PoolAssumption

LEMMA NextQuota ==
    ASSUME Inv, OneGate, QuotaShared, Next
    PROVE  QuotaShared'
<1>1. ASSUME NEW r \in Requests, Start(r) \/ Pick(r) \/ NoKey(r) \/ Answered(r) \/ Cancel(r)
      PROVE  QuotaShared'
  <2>1. Others(r) /\ UNCHANGED router
    BY <1>1, RequestGates
  <2>2. request'[r].at # "calling"
    <3>1. CASE Start(r) \/ NoKey(r)
      BY <3>1, UnheldStep DEF Holds
    <3>2. CASE Pick(r)
      BY <3>2, PickStep
    <3>3. CASE Answered(r) \/ Cancel(r)
      BY <3>3, AnsweredStep DEF Ended
    <3> QED BY <1>1, <3>1, <3>2, <3>3
  <2>3. \A k \in Keys : Calling(k)' \subseteq Calling(k)
    BY <2>1, <2>2 DEF Calling, Others
  <2> QED BY <2>1, <2>3, FewerCalling DEF router
<1>2. CASE Panel
  <2>1. request' = request /\ (split => split')
    BY <1>2, PanelGates
  <2>2. \A k \in Keys : Calling(k)' \subseteq Calling(k)
    BY <2>1 DEF Calling
  <2> QED BY <2>1, <2>2, FewerCalling
<1>3. CASE Tick \/ \E g \in Generations : Close(g)
  <2>1. request' = request /\ split' = split
    BY <1>3 DEF Tick, Close, router
  <2>2. \A k \in Keys : Calling(k)' \subseteq Calling(k)
    BY <2>1 DEF Calling
  <2> QED BY <2>1, <2>2, FewerCalling
<1> QED BY <1>1, <1>2, <1>3, EnterQuota DEF Next

\* All of it together.
PoolInv == Inv /\ HoldersAreCounted /\ OneGate /\ QuotaShared

LEMMA PoolInit ==
    Init => PoolInv
<1> SUFFICES ASSUME Init PROVE PoolInv
  OBVIOUS
<1>1. \A k \in Keys : Calling(k) = {}
  BY DEF Init, Calling, Idle
<1>2. \A k \in Keys : Cardinality(Calling(k)) = 0
  BY <1>1, FS_EmptySet
<1>3. QuotaShared
  BY <1>2, PoolAssumption DEF QuotaShared
<1> QED BY <1>3, InitInv, InitCounted DEF PoolInv

LEMMA PoolStep ==
    PoolInv /\ [Next]_vars => PoolInv'
<1> SUFFICES ASSUME PoolInv, [Next]_vars PROVE PoolInv'
  OBVIOUS
<1>1. CASE Next
  BY <1>1, NextStep, SlotsCounted, NextGates, NextQuota DEF PoolInv
<1>2. CASE UNCHANGED vars
  <2> USE DEF PoolInv
  <2>1. Inv'
    BY <1>2 DEF vars, router, Inv, TypeOK, Placed, UnderWay, Holds, Ended
  <2>2. OneGate'
    BY <1>2 DEF vars, router, OneGate, UnderWay, Holds
  <2>3. QuotaShared' /\ HoldersAreCounted'
    BY <1>2 DEF vars, router, QuotaShared, Calling, HoldersAreCounted, Holds
  <2> QED BY <2>1, <2>2, <2>3
<1> QED BY <1>1, <1>2

\* The count acquire compares for a key of a pool is, at every moment, the
\* number of requests that hold a slot of it: no failure, refusal or
\* cancellation loses one or gives one back twice (provider.py:259, 284).  And
\* at no moment do more requests call the model with one key than the limit of
\* the endpoint allows, over the provider in the router and all those it
\* replaced, unless the panel removed the provider or changed the limit under
\* requests on their way (router.py:262).
THEOREM CountedAlways == Spec => []SlotsAreCounted
<1>1. PoolInv => SlotsAreCounted
  BY DEF PoolInv, SlotsAreCounted
<1> QED BY <1>1, PoolInit, PoolStep, PTL DEF Spec

\* The same in the behaviours the run follows, where the pool is one of three
\* parts that share nothing (provider.py:259, 284, router.py:262).
THEOREM CountedInTurns == TurnsSpec => []SlotsAreCounted
<1>1. TurnsInit => PoolInv
  BY PoolInit DEF TurnsInit
<1>2. PoolInv /\ [TurnsNext]_allVars => PoolInv'
  <2> SUFFICES ASSUME PoolInv, [TurnsNext]_allVars PROVE PoolInv'
    OBVIOUS
  <2>1. [Next]_vars
    BY DEF TurnsNext, InAnalysis, InPool, InRhythm, allVars, poolVars, vars, router
  <2> QED BY <2>1, PoolStep
<1>3. PoolInv => SlotsAreCounted
  BY DEF PoolInv, SlotsAreCounted
<1> QED BY <1>1, <1>2, <1>3, PTL DEF TurnsSpec

-----------------------------------------------------------------------------
(***************************************************************************)
(* The analysis of videos.                                                 *)
(***************************************************************************)
AnalysisTyped ==
    /\ at = [a \in Video!Analyses |-> at[a]]
    /\ thread = [a \in Video!Analyses |-> thread[a]]
    /\ \A a \in Video!Analyses : thread[a] = [j \in Video!Jobs |-> thread[a][j]]
    /\ track = [a \in Video!Analyses |-> track[a]]
    /\ heard = [a \in Video!Analyses |-> heard[a]]
    /\ seen = [a \in Video!Analyses |-> seen[a]]
    /\ timer = [a \in Video!Analyses |-> timer[a]]

Left == {"flawed", "whole", "raised", "over"}

\* What is listened to is what was found: an end of the audio job that is not
\* followed by a failure is an answer about a track, or about silence.
Listened(a) ==
    \/ track[a] = "silent"
    \/ track[a] = "track" /\ heard[a] \in {"ok", "no_speech"}

\* What an analysis is about to hand over.
Evidence(a) ==
    /\ at[a] \in {"idle", "waiting", "preparing", "analysing", "whole"} => timer[a] = {}
    /\ at[a] = "preparing" /\ thread[a]["prep"] = "over" =>
          a \in dir /\ track[a] \in Video!Sounds
    /\ at[a] = "analysing" =>
          /\ thread[a]["prep"] = "over" /\ a \in dir
          /\ track[a] \in {"track", "silent", "not_cut"}
          /\ thread[a]["audio"] = "over" => heard[a] = "failed" \/ Listened(a)
    /\ at[a] = "whole" =>
          /\ a \in dir /\ a \in path /\ seen[a] > 0 /\ Listened(a)
          /\ \A j \in Video!Jobs : thread[a][j] = "over"

\* What is still to write: nothing before it began, the preparation alone
\* until it is done, and nothing that waits for a worker once it is left.
Pending(a) ==
    /\ at[a] \in {"idle", "waiting"} \/ (at[a] = "flawed" /\ a \notin path) =>
          a \notin dir /\ \A j \in Video!Jobs : thread[a][j] = "none"
    /\ at[a] = "preparing" => \A j \in {"frames", "audio"} : thread[a][j] = "none"
    /\ at[a] \in {"idle", "waiting", "preparing", "analysing", "flawed", "whole", "raised",
                  "over"}
    /\ at[a] \in Left => \A j \in Video!Jobs : thread[a][j] # "queued"
    /\ \A j \in {"frames", "audio"} :
          thread[a][j] \in {"queued", "running"} => thread[a]["prep"] = "over"
    /\ at[a] = "raised" => thread[a]["prep"] = "over"

\* Who removes what a watch leaves.
Disposal(a) ==
    /\ at[a] = "raised" => a \in path \/ a \in excused
    /\ at[a] \in {"flawed", "over"} /\ thread[a]["prep"] = "running" /\ open =>
          "sure" \in timer[a]
    /\ at[a] = "over" /\ a \in dir => timer[a] # {} \/ a \in excused

AnalysisInv ==
    /\ AnalysisTyped
    /\ \A a \in Video!Analyses : Evidence(a) /\ Pending(a)
    /\ \A a \in Watches : Disposal(a)

\* What a step leaves alone.
Same(b) ==
    /\ at'[b] = at[b] /\ thread'[b] = thread[b] /\ track'[b] = track[b]
    /\ heard'[b] = heard[b] /\ seen'[b] = seen[b] /\ timer'[b] = timer[b]
    /\ (b \in dir' <=> b \in dir) /\ (b \in path' <=> b \in path)
    /\ (b \in excused' <=> b \in excused)

LEMMA OthersStay ==
    ASSUME AnalysisInv, AnalysisTyped', UNCHANGED open, NEW a \in Video!Analyses,
           \A b \in Video!Analyses \ {a} : Same(b),
           Evidence(a)', Pending(a)', a \in Watches => Disposal(a)'
    PROVE  AnalysisInv'
<1>1. Watches \subseteq Video!Analyses
  BY DEF Video!Analyses
<1>2. ASSUME NEW b \in Video!Analyses \ {a}
      PROVE  /\ Evidence(b)' /\ Pending(b)'
             /\ b \in Watches => Disposal(b)'
  <2>1. Same(b) /\ Evidence(b) /\ Pending(b)
    BY <1>2 DEF AnalysisInv
  <2>2. Evidence(b)'
    BY <2>1 DEF Same, Evidence, Listened
  <2>3. Pending(b)'
    BY <2>1 DEF Same, Pending
  <2>4. ASSUME b \in Watches PROVE Disposal(b)'
    <3>1. Disposal(b)
      BY <2>4 DEF AnalysisInv
    <3> QED BY <2>1, <3>1 DEF Same, Disposal
  <2> QED BY <2>2, <2>3, <2>4
<1> QED BY <1>1, <1>2 DEF AnalysisInv

\* One entry of a function of the analyses.
LEMMA Entry ==
    ASSUME NEW f, f = [b \in Video!Analyses |-> f[b]], NEW a \in Video!Analyses, NEW v
    PROVE  LET g == [f EXCEPT ![a] = v]
           IN  /\ g = [b \in Video!Analyses |-> g[b]] /\ g[a] = v
               /\ \A b \in Video!Analyses \ {a} : g[b] = f[b]
OBVIOUS

LEMMA WritesDo ==
    ASSUME AnalysisTyped, NEW a \in Video!Analyses, Video!Writes(a)
    PROVE  /\ timer' = [b \in Video!Analyses |-> timer'[b]]
           /\ timer'[a] = timer[a] \ {"same"}
           /\ \A b \in Video!Analyses \ {a} : timer'[b] = timer[b]
           /\ dir' = dir \cup {a} /\ excused \subseteq excused'
           /\ at[a] = "over" /\ (thread[a]["prep"] = "over" \/ ~open) => a \in excused'
           /\ \A b \in Video!Analyses \ {a} : b \in excused' <=> b \in excused
BY DEF AnalysisTyped, Video!Writes

\* A thread takes a job, or ends it, writing or not.
LEMMA ThreadStep ==
    ASSUME AnalysisInv, NEW a \in Video!Analyses, NEW j \in Video!Jobs, NEW new,
           thread' = [thread EXCEPT ![a][j] = new],
           \/ thread[a][j] = "queued" /\ new = "running"
           \/ thread[a][j] = "running" /\ new = "over",
           UNCHANGED <<open, at, seen, path>>,
           \/ Video!Writes(a)
           \/ UNCHANGED <<dir, timer, excused>>,
           \/ UNCHANGED track
           \/ /\ j = "prep" /\ \E v : track' = [track EXCEPT ![a] = v],
           \/ UNCHANGED heard
           \/ /\ j = "audio" /\ \E v : heard' = [heard EXCEPT ![a] = v],
           j = "prep" /\ new = "over" => a \in dir' /\ track'[a] \in Video!Sounds,
           j = "audio" /\ new = "over" => heard'[a] = "failed" \/ Listened(a)'
                                              \/ track[a] \notin {"track", "silent", "not_cut"}
    PROVE  AnalysisInv'
<1>1. AnalysisTyped /\ Evidence(a) /\ Pending(a)
  BY DEF AnalysisInv
<1>2. /\ thread' = [b \in Video!Analyses |-> thread'[b]]
      /\ thread'[a] = [thread[a] EXCEPT ![j] = new]
      /\ \A b \in Video!Analyses \ {a} : thread'[b] = thread[b]
  BY <1>1 DEF AnalysisTyped
<1>3. /\ thread'[a] = [k \in Video!Jobs |-> thread'[a][k]] /\ thread'[a][j] = new
      /\ \A k \in Video!Jobs \ {j} : thread'[a][k] = thread[a][k]
  BY <1>1, <1>2 DEF AnalysisTyped
<1>4. /\ track' = [b \in Video!Analyses |-> track'[b]]
      /\ j # "prep" => track'[a] = track[a]
      /\ \A b \in Video!Analyses \ {a} : track'[b] = track[b]
  <2>1. CASE UNCHANGED track
    BY <1>1, <2>1 DEF AnalysisTyped
  <2>2. CASE j = "prep" /\ \E v : track' = [track EXCEPT ![a] = v]
    <3>1. PICK v : track' = [track EXCEPT ![a] = v]
      BY <2>2
    <3> QED BY <1>1, <2>2, <3>1 DEF AnalysisTyped
  <2> QED BY <2>1, <2>2
<1>5. /\ heard' = [b \in Video!Analyses |-> heard'[b]]
      /\ j # "audio" => heard'[a] = heard[a]
      /\ \A b \in Video!Analyses \ {a} : heard'[b] = heard[b]
  <2>1. CASE UNCHANGED heard
    BY <1>1, <2>1 DEF AnalysisTyped
  <2>2. CASE j = "audio" /\ \E v : heard' = [heard EXCEPT ![a] = v]
    <3>1. PICK v : heard' = [heard EXCEPT ![a] = v]
      BY <2>2
    <3> QED BY <1>1, <2>2, <3>1 DEF AnalysisTyped
  <2> QED BY <2>1, <2>2
<1>6. /\ timer' = [b \in Video!Analyses |-> timer'[b]]
      /\ timer'[a] \subseteq timer[a] /\ ("sure" \in timer[a] => "sure" \in timer'[a])
      /\ dir \subseteq dir' /\ excused \subseteq excused'
      /\ \A b \in Video!Analyses \ {a} :
            /\ timer'[b] = timer[b] /\ (b \in dir' <=> b \in dir)
            /\ (b \in excused' <=> b \in excused)
      /\ \/ UNCHANGED <<dir, timer, excused>>
         \/ at[a] = "over" /\ (thread[a]["prep"] = "over" \/ ~open) => a \in excused'
  <2>1. CASE UNCHANGED <<dir, timer, excused>>
    BY <1>1, <2>1 DEF AnalysisTyped
  <2>2. CASE Video!Writes(a)
    BY <1>1, <2>2, WritesDo
  <2> QED BY <2>1, <2>2
<1>7. AnalysisTyped'
  BY <1>1, <1>2, <1>3, <1>4, <1>5, <1>6 DEF AnalysisTyped
<1>8. \A b \in Video!Analyses \ {a} : Same(b)
  BY <1>2, <1>4, <1>5, <1>6 DEF Same
<1>9. Video!Jobs = {"prep", "frames", "audio"}
  BY DEF Video!Jobs
<1>10. Evidence(a)'
  <2>1. at[a] # "whole"
    BY <1>1 DEF Evidence
  <2>2. at[a] = "preparing" /\ thread'[a]["prep"] = "over" =>
          a \in dir' /\ track'[a] \in Video!Sounds
    BY <1>1, <1>3, <1>4, <1>6, <1>9 DEF Evidence
  <2>3. ASSUME at[a] = "analysing"
        PROVE  /\ thread'[a]["prep"] = "over" /\ a \in dir'
               /\ track'[a] \in {"track", "silent", "not_cut"}
               /\ thread'[a]["audio"] = "over" => heard'[a] = "failed" \/ Listened(a)'
    <3>1. /\ thread[a]["prep"] = "over" /\ a \in dir
          /\ track[a] \in {"track", "silent", "not_cut"}
          /\ thread[a]["audio"] = "over" => heard[a] = "failed" \/ Listened(a)
      BY <1>1, <2>3 DEF Evidence
    <3>2. j # "prep" /\ track'[a] = track[a] /\ thread'[a]["prep"] = "over"
      BY <1>3, <1>4, <1>9, <3>1
    <3>3. CASE j = "audio"
      BY <1>3, <1>6, <3>1, <3>2, <3>3
    <3>4. CASE j # "audio"
      BY <1>3, <1>5, <1>6, <1>9, <3>1, <3>2, <3>4 DEF Listened
    <3> QED BY <3>3, <3>4
  <2> QED BY <1>1, <1>6, <2>1, <2>2, <2>3 DEF Evidence
<1>11. Pending(a)'
  BY <1>1, <1>3, <1>6, <1>9 DEF Pending, Left
<1>12. ASSUME a \in Watches PROVE Disposal(a)'
  <2>1. Disposal(a)
    BY <1>12 DEF AnalysisInv
  <2>2. at[a] \in {"flawed", "over"} /\ thread'[a]["prep"] = "running" /\ open =>
          "sure" \in timer'[a]
    BY <1>1, <1>3, <1>6, <1>9, <2>1 DEF Disposal, Pending, Left
  <2>3. at[a] = "over" /\ a \in dir' => timer'[a] # {} \/ a \in excused'
    <3>1. CASE UNCHANGED <<dir, timer, excused>>
      BY <2>1, <3>1 DEF Disposal
    <3>2. CASE ~UNCHANGED <<dir, timer, excused>> /\ at[a] = "over"
      <4>1. CASE thread[a]["prep"] = "over" \/ ~open
        BY <1>6, <3>2, <4>1
      <4>2. CASE thread[a]["prep"] # "over" /\ open
        <5>1. j = "prep" /\ thread[a]["prep"] = "running"
          BY <1>1, <1>9, <3>2, <4>2 DEF Pending, Left
        <5> QED BY <1>6, <2>1, <3>2, <4>2, <5>1 DEF Disposal
      <4> QED BY <4>1, <4>2
    <3> QED BY <3>1, <3>2
  <2> QED BY <1>6, <2>1, <2>2, <2>3 DEF Disposal
<1> QED BY <1>7, <1>8, <1>10, <1>11, <1>12, OthersStay

LEMMA ThreadsSafe ==
    ASSUME AnalysisInv, NEW a \in Video!Analyses, Video!Thread(a)
    PROVE  AnalysisInv'
<1>1. AnalysisTyped /\ Evidence(a) /\ Pending(a)
  BY DEF AnalysisInv
<1>2. ASSUME NEW j \in Video!Jobs, Video!Begin(a, j)
      PROVE  AnalysisInv'
  <2>1. /\ thread[a][j] = "queued" /\ thread' = [thread EXCEPT ![a][j] = "running"]
        /\ UNCHANGED <<open, at, seen, path, track, heard>>
        /\ Video!Writes(a) \/ UNCHANGED <<dir, timer, excused>>
    BY <1>2 DEF Video!Begin
  <2> QED BY <2>1, ThreadStep
<1>3. CASE Video!Prepare(a)
  <2>1. /\ thread[a]["prep"] = "running"
        /\ thread' = [thread EXCEPT ![a]["prep"] = "over"]
        /\ UNCHANGED <<open, at, seen, path, heard>> /\ Video!Writes(a)
        /\ "prep" \in Video!Jobs
    BY <1>3 DEF Video!Prepare, Video!Ends, Video!Jobs
  <2>2. PICK sound \in Video!Sounds : track' = [track EXCEPT ![a] = sound]
    BY <1>3 DEF Video!Prepare
  <2>3. a \in dir' /\ track'[a] \in Video!Sounds
    BY <1>1, <2>1, <2>2, WritesDo DEF AnalysisTyped
  <2> QED BY <2>1, <2>2, <2>3, ThreadStep
<1>4. CASE Video!CutFrames(a)
  <2>1. /\ thread[a]["frames"] = "running"
        /\ thread' = [thread EXCEPT ![a]["frames"] = "over"]
        /\ UNCHANGED <<open, at, seen, path, track, heard>>
        /\ Video!Writes(a) \/ UNCHANGED <<dir, timer, excused>>
        /\ "frames" \in Video!Jobs
    BY <1>4 DEF Video!CutFrames, Video!Ends, Video!Jobs, Video!FallsBack
  <2> QED BY <2>1, ThreadStep
<1>5. CASE Video!Transcribe(a)
  <2>1. /\ thread[a]["audio"] = "running"
        /\ thread' = [thread EXCEPT ![a]["audio"] = "over"]
        /\ UNCHANGED <<open, at, seen, path, track>>
        /\ Video!Writes(a) \/ UNCHANGED <<dir, timer, excused>>
        /\ "audio" \in Video!Jobs
    BY <1>5 DEF Video!Transcribe, Video!Ends, Video!Jobs, Video!Compressed
  <2>2. PICK v : /\ heard' = [heard EXCEPT ![a] = v]
                 /\ \/ track[a] = "track" /\ v \in Video!Answers
                    \/ track[a] # "track" /\ v = Video!NoTrack(a)
    BY <1>5 DEF Video!Transcribe
  <2>3. heard'[a] = v
    BY <1>1, <2>2 DEF AnalysisTyped
  <2>4. heard'[a] = "failed" \/ Listened(a)' \/ track[a] \notin {"track", "silent", "not_cut"}
    BY <2>1, <2>2, <2>3 DEF Listened, Video!Answers, Video!NoTrack
  <2> QED BY <2>1, <2>2, <2>4, ThreadStep
<1> QED BY <1>2, <1>3, <1>4, <1>5 DEF Video!Thread

\* A variable that at most changes at one analysis.
Touched(f, g, a) == g = f \/ \E v : g = [f EXCEPT ![a] = v]

LEMMA TouchedOnce ==
    ASSUME NEW f, f = [b \in Video!Analyses |-> f[b]], NEW g, NEW a \in Video!Analyses,
           Touched(f, g, a)
    PROVE  /\ g = [b \in Video!Analyses |-> g[b]]
           /\ \A b \in Video!Analyses \ {a} : g[b] = f[b]
<1>1. CASE g = f
  BY <1>1
<1>2. CASE \E v : g = [f EXCEPT ![a] = v]
  <2>1. PICK v : g = [f EXCEPT ![a] = v]
    BY <1>2
  <2> QED BY <2>1, Entry
<1> QED BY <1>1, <1>2 DEF Touched

\* A step of the coroutine of one analysis, of its caller, or of a timer.
LEMMA OneAnalysis ==
    ASSUME AnalysisInv, NEW a \in Video!Analyses, UNCHANGED <<track, heard>>,
           Touched(at, at', a), Touched(thread, thread', a),
           Touched(seen, seen', a), Touched(timer, timer', a),
           thread'[a] = [j \in Video!Jobs |-> thread'[a][j]],
           dir' = dir \/ dir' = dir \ {a},
           path' = path \/ path' = path \cup {a},
           excused' = excused \/ excused' = excused \cup {a}
    PROVE  /\ AnalysisTyped'
           /\ \A b \in Video!Analyses \ {a} : Same(b)
<1>1. AnalysisTyped
  BY DEF AnalysisInv
<1>2. /\ at' = [b \in Video!Analyses |-> at'[b]]
      /\ \A b \in Video!Analyses \ {a} : at'[b] = at[b]
  BY <1>1, TouchedOnce DEF AnalysisTyped
<1>3. /\ thread' = [b \in Video!Analyses |-> thread'[b]]
      /\ \A b \in Video!Analyses \ {a} : thread'[b] = thread[b]
  BY <1>1, TouchedOnce DEF AnalysisTyped
<1>4. /\ seen' = [b \in Video!Analyses |-> seen'[b]]
      /\ \A b \in Video!Analyses \ {a} : seen'[b] = seen[b]
  BY <1>1, TouchedOnce DEF AnalysisTyped
<1>5. /\ timer' = [b \in Video!Analyses |-> timer'[b]]
      /\ \A b \in Video!Analyses \ {a} : timer'[b] = timer[b]
  BY <1>1, TouchedOnce DEF AnalysisTyped
<1>6. AnalysisTyped'
  BY <1>1, <1>2, <1>3, <1>4, <1>5 DEF AnalysisTyped
<1> QED BY <1>2, <1>3, <1>4, <1>5, <1>6 DEF Same

\* What is left of the futures nobody waits for any more.
LEMMA AbandonDoes ==
    ASSUME AnalysisTyped, NEW a \in Video!Analyses,
           thread' = [thread EXCEPT ![a] = Video!Abandon(a)]
    PROVE  /\ Touched(thread, thread', a)
           /\ thread'[a] = [j \in Video!Jobs |-> thread'[a][j]]
           /\ \A j \in Video!Jobs :
                 thread'[a][j] = IF thread[a][j] = "queued" THEN "over" ELSE thread[a][j]
BY DEF AnalysisTyped, Touched, Video!Abandon

LEMMA SubmitDoes ==
    ASSUME AnalysisTyped, NEW a \in Video!Analyses, NEW jobs,
           thread' = [thread EXCEPT ![a] = Video!Submit(a, jobs)]
    PROVE  /\ Touched(thread, thread', a)
           /\ thread'[a] = [j \in Video!Jobs |-> thread'[a][j]]
           /\ \A j \in Video!Jobs :
                 thread'[a][j] = IF j \in jobs THEN "queued" ELSE thread[a][j]
BY DEF AnalysisTyped, Touched, Video!Submit

\* A removal that is left to a timer.
LEMMA ScheduledDoes ==
    ASSUME AnalysisTyped, NEW a \in Video!Analyses, NEW kind,
           timer' = Video!Scheduled(a, kind)
    PROVE  /\ Touched(timer, timer', a)
           /\ timer[a] \subseteq timer'[a]
           /\ kind = "sure" \/ a \in dir => kind \in timer'[a]
BY DEF AnalysisTyped, Touched, Video!Scheduled

\* An analysis is left by its coroutine: the futures not begun are cancelled.
LEMMA LeftStep ==
    ASSUME AnalysisInv, NEW a \in Video!Analyses, NEW how \in {"flawed", "raised"},
           at[a] \in {"preparing", "analysing"}, at' = [at EXCEPT ![a] = how],
           \/ thread' = [thread EXCEPT ![a] = Video!Abandon(a)]
           \/ at[a] = "preparing" /\ thread[a]["prep"] = "over" /\ UNCHANGED thread,
           \/ UNCHANGED timer /\ thread[a]["prep"] = "over"
           \/ how = "flawed" /\ timer' = Video!Scheduled(a, "sure"),
           \/ path' = path \cup {a}
           \/ path' = path /\ excused' = excused \cup {a} /\ how = "raised",
           excused' = excused \/ excused' = excused \cup {a},
           UNCHANGED <<open, track, heard, seen, dir>>
    PROVE  AnalysisInv'
<1>1. AnalysisTyped /\ Evidence(a) /\ Pending(a)
  BY DEF AnalysisInv
<1>2. Touched(at, at', a) /\ at'[a] = how /\ Touched(seen, seen', a)
  BY <1>1 DEF AnalysisTyped, Touched
<1>3. /\ Touched(timer, timer', a)
      /\ how = "flawed" => thread[a]["prep"] = "over" \/ "sure" \in timer'[a]
      /\ how = "raised" => thread[a]["prep"] = "over"
  <2>1. CASE UNCHANGED timer /\ thread[a]["prep"] = "over"
    BY <2>1 DEF Touched
  <2>2. CASE how = "flawed" /\ timer' = Video!Scheduled(a, "sure")
    BY <1>1, <2>2, ScheduledDoes
  <2> QED BY <2>1, <2>2
<1>4. /\ Touched(thread, thread', a)
      /\ thread'[a] = [j \in Video!Jobs |-> thread'[a][j]]
      /\ \A j \in Video!Jobs : \/ thread'[a][j] = "over"
                               \/ thread'[a][j] = thread[a][j] /\ thread[a][j] # "queued"
  <2>1. CASE thread' = [thread EXCEPT ![a] = Video!Abandon(a)]
    <3>1. /\ Touched(thread, thread', a)
          /\ thread'[a] = [j \in Video!Jobs |-> thread'[a][j]]
      BY <1>1, <2>1, AbandonDoes
    <3>2. \A j \in Video!Jobs :
            thread'[a][j] = IF thread[a][j] = "queued" THEN "over" ELSE thread[a][j]
      BY <1>1, <2>1, AbandonDoes
    <3> QED BY <3>1, <3>2
  <2>2. CASE at[a] = "preparing" /\ thread[a]["prep"] = "over" /\ UNCHANGED thread
    <3>1. \A j \in Video!Jobs : thread[a][j] # "queued"
      BY <1>1, <2>2 DEF Pending, Video!Jobs
    <3> QED BY <1>1, <2>2, <3>1 DEF AnalysisTyped, Touched
  <2> QED BY <2>1, <2>2
<1>5. AnalysisTyped' /\ \A b \in Video!Analyses \ {a} : Same(b)
  BY <1>2, <1>3, <1>4, OneAnalysis
<1>6. Video!Jobs = {"prep", "frames", "audio"}
  BY DEF Video!Jobs
<1>7. Evidence(a)'
  BY <1>2 DEF Evidence
<1>8. Pending(a)'
  <2>1. at[a] = "analysing" => thread[a]["prep"] = "over"
    BY <1>1 DEF Evidence
  <2>2. \A j \in {"frames", "audio"} :
          thread'[a][j] \in {"queued", "running"} => thread'[a]["prep"] = "over"
    BY <1>1, <1>4, <1>6 DEF Pending
  <2> QED BY <1>2, <1>3, <1>4, <1>6, <2>2 DEF Pending, Left
<1>9. ASSUME a \in Watches PROVE Disposal(a)'
  BY <1>2, <1>3, <1>4, <1>6 DEF Disposal
<1> QED BY <1>5, <1>7, <1>8, <1>9, OthersStay

\* An analysis is asked for, or begins.
LEMMA AskSafe ==
    ASSUME AnalysisInv, NEW a \in Video!Analyses, Video!Ask(a)
    PROVE  AnalysisInv'
<1>1. AnalysisTyped /\ Evidence(a) /\ Pending(a)
  BY DEF AnalysisInv
<1>2. /\ at[a] = "idle" /\ Touched(at, at', a) /\ at'[a] = "waiting"
      /\ Touched(thread, thread', a) /\ thread'[a] = [j \in Video!Jobs |-> thread'[a][j]]
      /\ Touched(seen, seen', a) /\ Touched(timer, timer', a)
      /\ UNCHANGED <<open, thread, track, heard, seen, dir, timer, path, excused>>
  BY <1>1 DEF AnalysisTyped, Touched, Video!Ask, Video!media
<1>3. AnalysisTyped' /\ \A b \in Video!Analyses \ {a} : Same(b)
  BY <1>2, OneAnalysis
<1>4. Evidence(a)' /\ Pending(a)' /\ Disposal(a)'
  BY <1>1, <1>2 DEF Evidence, Pending, Disposal, Left
<1> QED BY <1>2, <1>3, <1>4, OthersStay

LEMMA AcquireSafe ==
    ASSUME AnalysisInv, NEW a \in Video!Analyses, Video!Acquire(a)
    PROVE  AnalysisInv'
<1>1. AnalysisTyped /\ Evidence(a) /\ Pending(a)
  BY DEF AnalysisInv
<1>2. /\ at[a] = "waiting"
      /\ UNCHANGED <<open, track, heard, seen, dir, timer, path, excused>>
      /\ Touched(seen, seen', a) /\ Touched(timer, timer', a)
  BY DEF Touched, Video!Acquire, Video!media
<1>3. /\ a \notin dir /\ timer[a] = {} /\ \A j \in Video!Jobs : thread[a][j] = "none"
  BY <1>1, <1>2 DEF Evidence, Pending
<1>4. Video!Jobs = {"prep", "frames", "audio"}
  BY DEF Video!Jobs
<1>5. CASE at' = [at EXCEPT ![a] = "flawed"] /\ UNCHANGED thread
  <2>1. /\ Touched(at, at', a) /\ at'[a] = "flawed"
        /\ Touched(thread, thread', a) /\ thread'[a] = [j \in Video!Jobs |-> thread'[a][j]]
    BY <1>1, <1>5 DEF AnalysisTyped, Touched
  <2>2. AnalysisTyped' /\ \A b \in Video!Analyses \ {a} : Same(b)
    BY <1>2, <2>1, OneAnalysis
  <2>3. Evidence(a)' /\ Pending(a)' /\ Disposal(a)'
    BY <1>2, <1>3, <1>4, <1>5, <2>1 DEF Evidence, Pending, Disposal, Left
  <2> QED BY <1>2, <2>2, <2>3, OthersStay
<1>6. CASE /\ at' = [at EXCEPT ![a] = "preparing"]
           /\ thread' = [thread EXCEPT ![a] = Video!Submit(a, {"prep"})]
  <2>1. Touched(at, at', a) /\ at'[a] = "preparing"
    BY <1>1, <1>6 DEF AnalysisTyped, Touched
  <2>2. Touched(thread, thread', a) /\ thread'[a] = [j \in Video!Jobs |-> thread'[a][j]]
    BY <1>1, <1>6, SubmitDoes
  <2>3. \A j \in Video!Jobs : thread'[a][j] = IF j \in {"prep"} THEN "queued" ELSE thread[a][j]
    BY <1>1, <1>6 DEF AnalysisTyped, Video!Submit
  <2>4. AnalysisTyped' /\ \A b \in Video!Analyses \ {a} : Same(b)
    BY <1>2, <2>1, <2>2, OneAnalysis
  <2>5. Evidence(a)' /\ Pending(a)' /\ Disposal(a)'
    BY <1>2, <1>3, <1>4, <2>1, <2>3 DEF Evidence, Pending, Disposal, Left
  <2> QED BY <1>2, <2>4, <2>5, OthersStay
<1> QED BY <1>5, <1>6 DEF Video!Acquire

LEMMA PrepareFailsSafe ==
    ASSUME AnalysisInv, NEW a \in Video!Analyses, Video!PrepareFails(a)
    PROVE  AnalysisInv'
BY LeftStep DEF Video!PrepareFails, Video!media

LEMMA PrepareTimesOutSafe ==
    ASSUME AnalysisInv, NEW a \in Video!Analyses, Video!PrepareTimesOut(a)
    PROVE  AnalysisInv'
BY LeftStep DEF Video!PrepareTimesOut

\* The two tracks are begun.
LEMMA AnalyseSafe ==
    ASSUME AnalysisInv, NEW a \in Video!Analyses, Video!Analyse(a)
    PROVE  AnalysisInv'
<1>1. AnalysisTyped /\ Evidence(a) /\ Pending(a)
  BY DEF AnalysisInv
<1>2. /\ at[a] = "preparing" /\ thread[a]["prep"] = "over" /\ track[a] # "raised"
      /\ UNCHANGED <<open, track, heard, seen, dir, timer, excused>>
  BY DEF Video!Analyse
<1>3. CASE at' = [at EXCEPT ![a] = "flawed"] /\ path' = path \cup {a} /\ UNCHANGED thread
  BY <1>2, <1>3, LeftStep
<1>4. CASE Video!Raise(a)
  BY <1>2, <1>4, LeftStep DEF Video!Raise, Video!Carries
<1>5. CASE /\ thread' = [thread EXCEPT ![a] = Video!Submit(a, {"frames", "audio"})]
           /\ at' = [at EXCEPT ![a] = "analysing"] /\ UNCHANGED path
  <2>1. Touched(at, at', a) /\ at'[a] = "analysing"
    BY <1>1, <1>5 DEF AnalysisTyped, Touched
  <2>2. Touched(thread, thread', a) /\ thread'[a] = [j \in Video!Jobs |-> thread'[a][j]]
    BY <1>1, <1>5, SubmitDoes
  <2>3. \A j \in Video!Jobs :
          thread'[a][j] = IF j \in {"frames", "audio"} THEN "queued" ELSE thread[a][j]
    BY <1>1, <1>5 DEF AnalysisTyped, Video!Submit
  <2>4. Touched(seen, seen', a) /\ Touched(timer, timer', a)
    BY <1>2 DEF Touched
  <2>5. AnalysisTyped' /\ \A b \in Video!Analyses \ {a} : Same(b)
    BY <1>2, <1>5, <2>1, <2>2, <2>4, OneAnalysis
  <2>6. /\ thread'[a]["prep"] = "over" /\ thread'[a]["frames"] = "queued"
        /\ thread'[a]["audio"] = "queued"
    BY <1>2, <2>3 DEF Video!Jobs
  <2>7. timer[a] = {} /\ a \in dir /\ track[a] \in {"track", "silent", "not_cut"}
    BY <1>1, <1>2 DEF Evidence, Video!Sounds
  <2>8. Evidence(a)' /\ Pending(a)' /\ Disposal(a)'
    BY <1>2, <2>1, <2>6, <2>7 DEF Evidence, Pending, Disposal, Left
  <2> QED BY <1>2, <2>5, <2>8, OthersStay
<1> QED BY <1>3, <1>4, <1>5 DEF Video!Analyse, Video!Carries

LEMMA AudioFailsSafe ==
    ASSUME AnalysisInv, NEW a \in Video!Analyses, Video!AudioFails(a)
    PROVE  AnalysisInv'
<1>1. thread[a]["prep"] = "over"
  BY DEF AnalysisInv, Evidence, Video!AudioFails
<1> QED BY <1>1, LeftStep DEF Video!AudioFails, Video!Raise, Video!Carries

LEMMA AnalysisTimesOutSafe ==
    ASSUME AnalysisInv, NEW a \in Video!Analyses, Video!AnalysisTimesOut(a)
    PROVE  AnalysisInv'
<1>1. thread[a]["prep"] = "over"
  BY DEF AnalysisInv, Evidence, Video!AnalysisTimesOut, Video!TimesOut
<1> QED BY <1>1, LeftStep DEF Video!AnalysisTimesOut, Video!TimesOut

\* The result is whole: what was listened to is known, and a frame was seen.
LEMMA CompleteSafe ==
    ASSUME AnalysisInv, NEW a \in Video!Analyses, Video!Complete(a)
    PROVE  AnalysisInv'
<1>1. AnalysisTyped /\ Evidence(a) /\ Pending(a)
  BY DEF AnalysisInv
<1>2. /\ at[a] = "analysing" /\ thread[a]["audio"] = "over" /\ heard[a] # "failed"
      /\ thread[a]["frames"] = "over"
      /\ UNCHANGED <<open, track, heard, dir, excused>>
  BY DEF Video!Complete
<1>3. /\ thread[a]["prep"] = "over" /\ a \in dir /\ Listened(a) /\ timer[a] = {}
  BY <1>1, <1>2 DEF Evidence
<1>4. PICK n \in 0 .. Frames :
        \/ /\ n >= Video!Needed
           /\ at' = [at EXCEPT ![a] = "whole"]
           /\ seen' = [seen EXCEPT ![a] = n]
           /\ path' = path \cup {a}
           /\ UNCHANGED timer /\ UNCHANGED thread
        \/ Video!Raise(a) /\ UNCHANGED <<seen, timer>>
  BY DEF Video!Complete, Video!Described, Video!Kept
<1>5. CASE Video!Raise(a) /\ UNCHANGED <<seen, timer>>
  BY <1>2, <1>3, <1>5, LeftStep DEF Video!Raise, Video!Carries
<1>6. CASE /\ n >= Video!Needed
           /\ at' = [at EXCEPT ![a] = "whole"]
           /\ seen' = [seen EXCEPT ![a] = n]
           /\ path' = path \cup {a}
           /\ UNCHANGED timer /\ UNCHANGED thread
  <2>1. /\ Touched(at, at', a) /\ at'[a] = "whole"
        /\ Touched(seen, seen', a) /\ seen'[a] = n
        /\ Touched(timer, timer', a) /\ Touched(thread, thread', a)
        /\ thread'[a] = [j \in Video!Jobs |-> thread'[a][j]]
    BY <1>1, <1>6 DEF AnalysisTyped, Touched
  <2>2. AnalysisTyped' /\ \A b \in Video!Analyses \ {a} : Same(b)
    BY <1>2, <1>6, <2>1, OneAnalysis
  <2>3. n > 0
    BY <1>6, TurnsAssumption DEF Video!Needed
  <2>4. \A j \in Video!Jobs : thread'[a][j] = "over"
    BY <1>2, <1>3, <1>6 DEF Video!Jobs
  <2>5. Listened(a)'
    BY <1>2, <1>3 DEF Listened
  <2>6. Evidence(a)' /\ Pending(a)' /\ Disposal(a)'
    BY <1>2, <1>3, <1>6, <2>1, <2>3, <2>4, <2>5
       DEF Evidence, Pending, Disposal, Left, Video!Jobs
  <2> QED BY <1>2, <2>2, <2>6, OthersStay
<1> QED BY <1>4, <1>5, <1>6

\* The caller lets go of an analysis: its directory is removed, left to a
\* timer, or was never there.
LEMMA OverStep ==
    ASSUME AnalysisInv, NEW a \in Video!Analyses, at[a] \in {"whole", "flawed", "raised"},
           at' = [at EXCEPT ![a] = "over"],
           Touched(timer, timer', a), timer[a] \subseteq timer'[a],
           dir' = dir \/ dir' = dir \ {a},
           excused' = excused \/ excused' = excused \cup {a},
           a \in Watches => a \notin dir' \/ timer'[a] # {} \/ a \in excused',
           UNCHANGED <<open, thread, track, heard, seen, path>>
    PROVE  AnalysisInv'
<1>1. AnalysisTyped /\ Evidence(a) /\ Pending(a)
  BY DEF AnalysisInv
<1>2. Touched(at, at', a) /\ at'[a] = "over" /\ Touched(seen, seen', a)
  BY <1>1 DEF AnalysisTyped, Touched
<1>3. Touched(thread, thread', a) /\ thread'[a] = [j \in Video!Jobs |-> thread'[a][j]]
  BY <1>1 DEF AnalysisTyped, Touched
<1>4. AnalysisTyped' /\ \A b \in Video!Analyses \ {a} : Same(b)
  BY <1>2, <1>3, OneAnalysis
<1>5. Evidence(a)'
  BY <1>2 DEF Evidence
<1>6. Pending(a)'
  <2>1. \A j \in Video!Jobs : thread[a][j] # "queued"
    BY <1>1 DEF Pending, Left
  <2> QED BY <1>1, <1>2, <2>1 DEF Pending, Left
<1>7. ASSUME a \in Watches PROVE Disposal(a)'
  <2>1. Disposal(a)
    BY <1>7 DEF AnalysisInv
  <2>2. thread[a]["prep"] = "running" /\ open => "sure" \in timer[a]
    <3>1. "prep" \in Video!Jobs
      BY DEF Video!Jobs
    <3> QED BY <1>1, <2>1, <3>1 DEF Disposal, Evidence, Pending
  <2> QED BY <1>2, <1>7, <2>2 DEF Disposal
<1> QED BY <1>4, <1>5, <1>6, <1>7, OthersStay

\* A directory no caller knows is not there, or has nobody to remove it.
LEMMA UnknownIsGone ==
    ASSUME AnalysisInv, NEW a \in Watches, at[a] \in {"whole", "flawed", "raised"},
           NEW caller, ~Video!Known(a, caller), at[a] = "raised" => caller = "task"
    PROVE  a \notin dir \/ a \in excused
<1>1. a \in Video!Analyses
  BY DEF Video!Analyses
<1> QED BY <1>1 DEF AnalysisInv, Evidence, Pending, Disposal, Video!Known

\* What removes a directory removes it, or says that it could not.
LEMMA RemovedDoes ==
    ASSUME NEW a \in Video!Analyses, Video!Removed(a)
    PROVE  /\ dir' = dir \/ dir' = dir \ {a}
           /\ excused' = excused \/ excused' = excused \cup {a}
           /\ a \notin dir' \/ a \in excused'
  BY DEF Video!Removed

LEMMA RemoveNowSafe ==
    ASSUME AnalysisInv, NEW a \in Video!Analyses, Video!RemoveNow(a)
    PROVE  AnalysisInv'
<1>1. PICK caller \in Video!Callers(a) :
        /\ \/ at[a] \in {"whole", "flawed"}
           \/ at[a] = "raised" /\ caller = "task"
        /\ IF Video!Known(a, caller) THEN Video!Removed(a) ELSE UNCHANGED <<dir, excused>>
  BY DEF Video!RemoveNow
<1>2. /\ at' = [at EXCEPT ![a] = "over"]
      /\ UNCHANGED <<open, thread, track, heard, seen, timer, path>>
      /\ Touched(timer, timer', a) /\ timer[a] \subseteq timer'[a]
  BY DEF Video!RemoveNow, Touched
<1>3. CASE Video!Known(a, caller)
  <2>1. Video!Removed(a)
    BY <1>1, <1>3
  <2> QED BY <1>1, <1>2, <2>1, RemovedDoes, OverStep
<1>4. CASE ~Video!Known(a, caller)
  <2>1. UNCHANGED <<dir, excused>>
    BY <1>1, <1>4
  <2>2. a \in Watches => a \notin dir' \/ a \in excused'
    BY <1>1, <1>4, <2>1, UnknownIsGone
  <2> QED BY <1>1, <1>2, <2>1, <2>2, OverStep
<1> QED BY <1>3, <1>4

LEMMA RemoveLaterSafe ==
    ASSUME AnalysisInv, NEW a \in Video!Analyses, Video!RemoveLater(a)
    PROVE  AnalysisInv'
<1>1. PICK caller \in Video!Callers(a) :
        /\ timer' = IF Video!Known(a, caller) THEN Video!Scheduled(a, "same") ELSE timer
        /\ excused' = IF at[a] = "raised" /\ caller = "mention"
                      THEN excused \cup {a} ELSE excused
  BY DEF Video!RemoveLater
<1>4. /\ at[a] \in {"whole", "flawed", "raised"} /\ at' = [at EXCEPT ![a] = "over"]
      /\ UNCHANGED <<open, thread, track, heard, seen, dir, path>>
      /\ excused' = excused \/ excused' = excused \cup {a}
  BY <1>1 DEF Video!RemoveLater
<1>2. CASE Video!Known(a, caller)
  <2>1. /\ Touched(timer, timer', a) /\ timer[a] \subseteq timer'[a]
        /\ a \in dir => "same" \in timer'[a]
    BY <1>1, <1>2, ScheduledDoes DEF AnalysisInv
  <2> QED BY <1>4, <2>1, OverStep
<1>3. CASE ~Video!Known(a, caller)
  <2>1. Touched(timer, timer', a) /\ timer[a] \subseteq timer'[a]
    BY <1>1, <1>3 DEF Touched
  <2>2. ASSUME a \in Watches
        PROVE  a \notin dir' \/ a \in excused'
    <3>1. caller \in {"task", "mention"}
      BY <2>2, TurnsAssumption DEF Video!Callers
    <3>2. CASE at[a] = "raised" /\ caller = "mention"
      BY <1>1, <3>2
    <3>3. CASE ~(at[a] = "raised" /\ caller = "mention")
      BY <1>1, <1>3, <1>4, <2>2, <3>1, <3>3, UnknownIsGone
    <3> QED BY <3>2, <3>3
  <2> QED BY <1>4, <2>1, <2>2, OverStep
<1> QED BY <1>2, <1>3

LEMMA TestTimesOutSafe ==
    ASSUME AnalysisInv, NEW a \in Video!Analyses, Video!TestTimesOut(a)
    PROVE  AnalysisInv'
<1>1. AnalysisTyped /\ Evidence(a) /\ Pending(a)
  BY DEF AnalysisInv
<1>2. /\ a \in Tests /\ at[a] \in {"waiting", "preparing", "analysing"}
      /\ thread' = [thread EXCEPT ![a] = Video!Abandon(a)]
      /\ at' = [at EXCEPT ![a] = "over"]
      /\ UNCHANGED <<open, track, heard, seen, dir, timer, path, excused>>
      /\ Touched(seen, seen', a) /\ Touched(timer, timer', a)
  BY DEF Video!TestTimesOut, Video!Inside, Video!media, Touched
<1>3. a \notin Watches
  BY <1>2, TurnsAssumption
<1>4. Touched(at, at', a) /\ at'[a] = "over"
  BY <1>1, <1>2 DEF AnalysisTyped, Touched
<1>5. Touched(thread, thread', a) /\ thread'[a] = [j \in Video!Jobs |-> thread'[a][j]]
  BY <1>1, <1>2, AbandonDoes
<1>6. \A j \in Video!Jobs :
        thread'[a][j] = IF thread[a][j] = "queued" THEN "over" ELSE thread[a][j]
  BY <1>1, <1>2 DEF AnalysisTyped, Video!Abandon
<1>7. AnalysisTyped' /\ \A b \in Video!Analyses \ {a} : Same(b)
  BY <1>2, <1>4, <1>5, OneAnalysis
<1>8. Evidence(a)'
  BY <1>4 DEF Evidence
<1>9. Pending(a)'
  BY <1>1, <1>4, <1>6 DEF Pending, Left, Video!Jobs
<1> QED BY <1>2, <1>3, <1>7, <1>8, <1>9, OthersStay

\* A timer that fires: no thread writes any more, and the directory goes.
LEMMA FireSafe ==
    ASSUME AnalysisInv, NEW a \in Video!Analyses, NEW kind, Video!Fire(a, kind)
    PROVE  AnalysisInv'
<1>1. AnalysisTyped /\ Evidence(a) /\ Pending(a)
  BY DEF AnalysisInv
<1>2. /\ kind \in timer[a] /\ timer' = [timer EXCEPT ![a] = @ \ {kind}]
      /\ thread[a]["prep"] # "running" /\ Video!Removed(a)
      /\ UNCHANGED <<open, at, thread, track, heard, seen, path>>
  BY DEF Video!Fire, Video!Running, Video!Jobs
<1>3. at[a] \in {"flawed", "raised", "over"}
  BY <1>1, <1>2 DEF Evidence, Pending
<1>4. /\ Touched(at, at', a) /\ Touched(seen, seen', a) /\ Touched(thread, thread', a)
      /\ Touched(timer, timer', a) /\ thread'[a] = [j \in Video!Jobs |-> thread'[a][j]]
  BY <1>1, <1>2 DEF AnalysisTyped, Touched
<1>9. /\ dir' = dir \/ dir' = dir \ {a}
      /\ excused' = excused \/ excused' = excused \cup {a}
      /\ a \notin dir' \/ a \in excused'
  BY <1>2, RemovedDoes
<1>5. AnalysisTyped' /\ \A b \in Video!Analyses \ {a} : Same(b)
  BY <1>2, <1>4, <1>9, OneAnalysis
<1>6. Evidence(a)'
  BY <1>2, <1>3, <1>9 DEF Evidence
<1>7. Pending(a)'
  BY <1>1, <1>2, <1>3, <1>9 DEF Pending
<1>8. ASSUME a \in Watches PROVE Disposal(a)'
  <2>1. Disposal(a)
    BY <1>8 DEF AnalysisInv
  <2> QED BY <1>2, <1>3, <1>9, <2>1 DEF Disposal
<1> QED BY <1>2, <1>5, <1>6, <1>7, <1>8, OthersStay

\* The account is stopped: every watch is over, no timer is left, and what is
\* on the disk is nobody's to remove.
LEMMA StopSafe ==
    ASSUME AnalysisInv, Video!Stop
    PROVE  AnalysisInv'
<1>1. AnalysisTyped
  BY DEF AnalysisInv
<1>2. /\ open' = FALSE /\ excused' = excused \cup dir
      /\ UNCHANGED <<track, heard, seen, dir, path>>
  BY DEF Video!Stop
<1>3. /\ at' = [a \in Video!Analyses |-> at'[a]]
      /\ \A a \in Video!Analyses :
            at'[a] = IF a \in Watches /\ at[a] # "idle" THEN "over" ELSE at[a]
  BY DEF Video!Stop
<1>4. /\ thread' = [a \in Video!Analyses |-> thread'[a]]
      /\ \A a \in Video!Analyses :
            thread'[a] = IF a \in Watches THEN Video!Abandon(a) ELSE thread[a]
  BY DEF Video!Stop
<1>5. /\ timer' = [a \in Video!Analyses |-> timer'[a]]
      /\ \A a \in Video!Analyses : timer'[a] = {}
  BY DEF Video!Stop
<1>6. ASSUME NEW a \in Video!Analyses
      PROVE  thread'[a] = [j \in Video!Jobs |-> thread'[a][j]]
  <2>1. CASE a \in Watches
    BY <1>4, <2>1 DEF Video!Abandon
  <2>2. CASE a \notin Watches
    BY <1>1, <1>4, <2>2 DEF AnalysisTyped
  <2> QED BY <2>1, <2>2
<1>7. AnalysisTyped'
  BY <1>1, <1>2, <1>3, <1>4, <1>5, <1>6 DEF AnalysisTyped
<1>8. ASSUME NEW a \in Video!Analyses
      PROVE  Evidence(a)' /\ Pending(a)'
  <2>1. Evidence(a) /\ Pending(a)
    BY DEF AnalysisInv
  <2>2. Video!Jobs = {"prep", "frames", "audio"}
    BY DEF Video!Jobs
  <2>3. CASE a \in Watches /\ at[a] # "idle"
    <3>1. at'[a] = "over"
      BY <1>3, <2>3
    <3>2. Evidence(a)'
      BY <3>1 DEF Evidence
    <3>3. \A j \in Video!Jobs :
            thread'[a][j] = IF thread[a][j] = "queued" THEN "over" ELSE thread[a][j]
      BY <1>4, <2>3 DEF Video!Abandon
    <3>4. Pending(a)'
      BY <2>1, <2>2, <2>3, <3>1, <3>3 DEF Pending, Left
    <3> QED BY <3>2, <3>4
  <2>4. CASE a \in Watches /\ at[a] = "idle"
    <3>1. at'[a] = "idle"
      BY <1>3, <2>4
    <3>2. a \notin dir /\ \A j \in Video!Jobs : thread[a][j] = "none"
      BY <2>1, <2>4 DEF Pending
    <3>3. \A j \in Video!Jobs : thread'[a][j] = "none"
      BY <1>4, <2>4, <3>2 DEF Video!Abandon
    <3>4. Evidence(a)'
      BY <1>5, <3>1 DEF Evidence
    <3>5. Pending(a)'
      BY <1>2, <2>2, <3>1, <3>2, <3>3 DEF Pending, Left
    <3> QED BY <3>4, <3>5
  <2>5. CASE a \notin Watches
    <3>1. at'[a] = at[a] /\ thread'[a] = thread[a]
      BY <1>3, <1>4, <2>5
    <3>2. Evidence(a)'
      BY <1>2, <1>5, <2>1, <3>1 DEF Evidence, Listened
    <3>3. Pending(a)'
      BY <1>2, <2>1, <3>1 DEF Pending
    <3> QED BY <3>2, <3>3
  <2> QED BY <2>3, <2>4, <2>5
<1>9. ASSUME NEW a \in Watches
      PROVE  Disposal(a)'
  <2>1. a \in Video!Analyses
    BY DEF Video!Analyses
  <2>2. at'[a] \in {"idle", "over"}
    BY <1>3, <2>1
  <2> QED BY <1>2, <2>2 DEF Disposal
<1> QED BY <1>7, <1>8, <1>9 DEF AnalysisInv

\* What changes none of this.
LEMMA AnalysisStays ==
    ASSUME AnalysisInv,
           UNCHANGED <<open, at, thread, track, heard, seen, dir, timer, path, excused>>
    PROVE  AnalysisInv'
<1>1. AnalysisTyped'
  BY DEF AnalysisInv, AnalysisTyped
<1>2. ASSUME NEW a \in Video!Analyses PROVE Evidence(a)' /\ Pending(a)'
  <2>1. Evidence(a) /\ Pending(a)
    BY DEF AnalysisInv
  <2>2. Evidence(a)'
    BY <2>1 DEF Evidence, Listened
  <2>3. Pending(a)'
    BY <2>1 DEF Pending
  <2> QED BY <2>2, <2>3
<1>3. ASSUME NEW a \in Watches PROVE Disposal(a)'
  BY DEF AnalysisInv, Disposal
<1> QED BY <1>1, <1>2, <1>3 DEF AnalysisInv

LEMMA AnalysisInit ==
    Video!Init => AnalysisInv
<1> SUFFICES ASSUME Video!Init PROVE AnalysisInv
  OBVIOUS
<1>1. Watches \subseteq Video!Analyses
  BY DEF Video!Analyses
<1>2. AnalysisTyped
  BY DEF Video!Init, AnalysisTyped, Video!Idle
<1>3. ASSUME NEW a \in Video!Analyses
      PROVE  /\ at[a] = "idle" /\ timer[a] = {} /\ a \notin dir
             /\ \A j \in Video!Jobs : thread[a][j] = "none"
  BY DEF Video!Init, Video!Idle
<1>4. \A a \in Video!Analyses : Evidence(a)
  BY <1>3 DEF Evidence
<1>5. \A a \in Video!Analyses : Pending(a)
  BY <1>3 DEF Pending, Left, Video!Jobs
<1>6. \A a \in Watches : Disposal(a)
  BY <1>1, <1>3 DEF Disposal
<1> QED BY <1>2, <1>4, <1>5, <1>6 DEF AnalysisInv

LEMMA AnalysisNext ==
    ASSUME AnalysisInv, Video!Next
    PROVE  AnalysisInv'
<1>1. ASSUME NEW a \in Video!Analyses, Video!Coroutine(a)
      PROVE  AnalysisInv'
  BY <1>1, AcquireSafe, PrepareFailsSafe, PrepareTimesOutSafe, AnalyseSafe,
     AudioFailsSafe, CompleteSafe, AnalysisTimesOutSafe DEF Video!Coroutine
<1>2. ASSUME NEW c, NEW grow, Video!Reconfigure(c, grow)
      PROVE  AnalysisInv'
  BY <1>2, AnalysisStays DEF Video!Reconfigure, Video!media
<1> QED BY <1>1, <1>2, AskSafe, ThreadsSafe, RemoveNowSafe, RemoveLaterSafe,
           TestTimesOutSafe, FireSafe, StopSafe DEF Video!Next

LEMMA AnalysisAlways ==
    TurnsSpec => []AnalysisInv
<1>1. TurnsInit => AnalysisInv
  BY AnalysisInit DEF TurnsInit
<1>2. AnalysisInv /\ [TurnsNext]_allVars => AnalysisInv'
  <2> SUFFICES ASSUME AnalysisInv, [TurnsNext]_allVars PROVE AnalysisInv'
    OBVIOUS
  <2>1. CASE UNCHANGED analysisVars
    BY <2>1, AnalysisStays DEF analysisVars
  <2>2. CASE Video!Next
    BY <2>2, AnalysisNext
  <2> QED BY <2>1, <2>2 DEF TurnsNext, InPool, InRhythm, allVars
<1> QED BY <1>1, <1>2, PTL DEF TurnsSpec

\* What an analysis hands over as a complete result was listened to, unless it
\* was silent, has a frame somebody described, and is on the disk as long as
\* its caller has not let go of it, whatever the threads, the reloads and the
\* timers of the other analyses do (service.py 528-742, 887-906).
THEOREM EvidenceIsWholeAlways ==
    TurnsSpec => []EvidenceIsWhole
<1>1. AnalysisInv => EvidenceIsWhole
  BY DEF AnalysisInv, Evidence, Listened, EvidenceIsWhole, Video!EvidenceStays,
         Video!WholeIsWhole
<1> QED BY <1>1, AnalysisAlways, PTL

\* Once a watch is over, its work directory is gone, or a timer will remove it,
\* or one of its threads still writes, or it is of a kind the code leaves to a
\* later start: preparing failed, a mention's analysis raised, a thread outlived
\* the watch, a removal failed, the account was stopped (service.py 528-549,
\* 887-906, scheduler_watch_video.py:192, cleanup.py:36).
THEOREM DirectoryGoesAlways ==
    TurnsSpec => []DirectoryGoes
<1>1. AnalysisInv => DirectoryGoes
  BY DEF AnalysisInv, Disposal, DirectoryGoes, Video!DirectoryGoes
<1> QED BY <1>1, AnalysisAlways, PTL
=============================================================================
