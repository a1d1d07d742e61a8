----------------------------- MODULE ReviewGate -----------------------------
(***************************************************************************)
(* What the review of dynamics promises, without tasks, coroutines, clocks *)
(* or restarts: a text may change while it is open; it is granted or       *)
(* closed once and for all; and only a granted text, as it stood when it   *)
(* was granted, is ever posted.                                            *)
(***************************************************************************)
EXTENDS Naturals

VARIABLES
    gate,           \* [phase, revision]
    posted          \* the revisions the platform has published

Init == /\ gate = [phase |-> "open", revision |-> 0]
        /\ posted = {}

Edit  == gate.phase = "open" /\ gate' = [gate EXCEPT !.revision = @ + 1]
Grant == gate.phase = "open" /\ gate' = [gate EXCEPT !.phase = "granted"]
Close == gate.phase = "open" /\ \E r \in {gate.revision, gate.revision + 1} :
                                  gate' = [phase |-> "closed", revision |-> r]
Post  == /\ gate.phase = "granted"
         /\ posted' = posted \cup {gate.revision}

Next == \/ (Edit \/ Grant \/ Close) /\ UNCHANGED posted
        \/ Post /\ UNCHANGED gate

Spec == Init /\ [][Next]_<<gate, posted>>
=============================================================================
