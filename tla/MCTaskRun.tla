----------------------------- MODULE MCTaskRun -----------------------------
(* Model values and the plan of the day for checking TaskRun with TLC.     *)
EXTENDS TaskRun, TLC

CONSTANTS v1, d1, m1

OneDynamic == d1 :> 1
OneVideo == v1 :> 1
=============================================================================
