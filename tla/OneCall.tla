------------------------------ MODULE OneCall ------------------------------
(***************************************************************************)
(* The state of one call of a function that goes through its argument in   *)
(* a loop: what it was called with, its locals, and what it returned.      *)
(***************************************************************************)
EXTENDS Characters, SequencesExt

VARIABLES
  job,     \* the function that is called, and its arguments
  st,      \* its locals
  result   \* what it returned

callVars == <<job, st, result>>

Running == <<>>
Runs(function) == job.function = function /\ result = Running

(* The loop goes on with other locals; the function returns.               *)
Goes(locals) == st' = locals /\ UNCHANGED <<job, result>>
Returns(answer) == result' = <<answer>> /\ UNCHANGED <<job, st>>

Returned(function) == job.function = function /\ result # Running
Answer == result[1]
=============================================================================
