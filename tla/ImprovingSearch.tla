-------------------------- MODULE ImprovingSearch ---------------------------
(***************************************************************************)
(* What a search promises to whoever observes it: each solution reported   *)
(* is strictly better than the last, and the one answer that ends it is    *)
(* about the last solution reported.  No bounds, no workers, no status on  *)
(* the way.  StreamSolve takes this for granted of CP-SAT.                 *)
(***************************************************************************)
EXTENDS Integers, Sequences

CONSTANTS
  None,            \* no answer yet
  PosInf,          \* the value of no solution
  CloseTo(_, _)    \* whether a value is as good as another, by the gap limits

VARIABLES
  feasible,  \* the objective values the model's solutions have
  reported,  \* those the callbacks were given
  answer     \* the final response

vars == <<feasible, reported, answer>>

Init ==
  /\ feasible \subseteq Int
  /\ reported = <<>>
  /\ answer = None

Last == reported[Len(reported)]

Report(v) ==
  /\ answer = None
  /\ v \in feasible
  /\ reported # <<>> => v < Last
  /\ reported' = Append(reported, v)
  /\ UNCHANGED <<feasible, answer>>

Answer(status) ==
  /\ answer = None
  /\ status \in {"FEASIBLE", "OPTIMAL"} <=> reported # <<>>
  /\ status = "INFEASIBLE" => feasible = {}
  /\ status = "OPTIMAL" => \A f \in feasible : f >= Last \/ CloseTo(Last, f)
  /\ answer' = [status |-> status,
                solution |-> IF reported = <<>> THEN PosInf ELSE Last]
  /\ UNCHANGED <<feasible, reported>>

Next ==
  \/ \E v \in feasible : Report(v)
  \/ \E status \in {"UNKNOWN", "FEASIBLE", "OPTIMAL", "INFEASIBLE"} : Answer(status)

Spec == Init /\ [][Next]_vars
=============================================================================
