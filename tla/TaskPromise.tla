---------------------------- MODULE TaskPromise ----------------------------
(***************************************************************************)
(* What the TaskRun machinery promises, without its clock, its leases, its *)
(* coroutines and its restarts: a task waits, is executed, goes back to    *)
(* waiting or is done; work on it begins only while it waits; and once it  *)
(* is done nothing ever happens to it again.                               *)
(***************************************************************************)
EXTENDS Naturals

CONSTANT Task

VARIABLE job        \* [Task -> [phase, runs]]

Phase == {"none", "waiting", "executing", "done"}
Job == [phase : Phase, runs : Nat]

Init == job = [t \in Task |-> [phase |-> "none", runs |-> 0]]

\* What may happen to one task in one step.
Moves(j, k) ==
    \/ k = j
    \/ j.phase \in {"none", "executing"} /\ k = [j EXCEPT !.phase = "waiting"]
    \/ j.phase = "waiting" /\ k = [phase |-> "executing", runs |-> j.runs + 1]
    \/ j.phase \in {"waiting", "executing"} /\ k = [j EXCEPT !.phase = "done"]

\* Tasks move independently, and a restart moves many of them at once.
Next == /\ job' = [t \in Task |-> job'[t]]
        /\ \A t \in Task : Moves(job[t], job'[t])

Spec == Init /\ [][Next]_job
=============================================================================
