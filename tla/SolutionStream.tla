--------------------------- MODULE SolutionStream ---------------------------
(***************************************************************************)
(* What solveWithResultCallback promises its caller (Cpsat/Solver.lean):   *)
(* every improving solution the search reports is delivered, in order,     *)
(* before the final response is returned; a call that fails instead leaves *)
(* a prefix delivered; and in either case the call only returns once its   *)
(* search has ended.  There is no queue, no thread and no token here.      *)
(***************************************************************************)
EXTENDS Integers, Sequences

CONSTANTS Streams, Values, HasObjective, NoSolution, None

VARIABLES
  phase,          \* "idle", "running" or "returned"
  found,          \* the solutions the search has reported
  final_response, \* the response the search ended with, None before
  delivered,      \* the solutions handed to onSolution
  outcome,        \* how pulling ended, "pending" before
  result          \* the response returned

vars == <<phase, found, final_response, delivered, outcome, result>>

Init ==
  /\ phase = [s \in Streams |-> "idle"]
  /\ found = [s \in Streams |-> <<>>]
  /\ final_response = [s \in Streams |-> None]
  /\ delivered = [s \in Streams |-> <<>>]
  /\ outcome = [s \in Streams |-> "pending"]
  /\ result = [s \in Streams |-> None]

Running(s) == phase[s] = "running"

Start(s) ==
  /\ phase[s] = "idle"
  /\ phase' = [phase EXCEPT ![s] = "running"]
  /\ UNCHANGED <<found, final_response, delivered, outcome, result>>

Report(s, v) ==
  /\ Running(s) /\ final_response[s] = None
  /\ HasObjective => \A i \in 1..Len(found[s]) : v < found[s][i]
  /\ found' = [found EXCEPT ![s] = Append(@, v)]
  /\ UNCHANGED <<phase, final_response, delivered, outcome, result>>

(* With an objective, a solution at least as good as every one reported. *)
IsBest(r, f) ==
  IF f = <<>> THEN r = NoSolution
  ELSE /\ \E i \in 1..Len(f) : r = f[i]
       /\ HasObjective => \A i \in 1..Len(f) : r <= f[i]

End(s, r) ==
  /\ Running(s) /\ final_response[s] = None
  /\ IsBest(r, found[s])
  /\ final_response' = [final_response EXCEPT ![s] = r]
  /\ UNCHANGED <<phase, found, delivered, outcome, result>>

Deliver(s) ==
  /\ Running(s) /\ outcome[s] = "pending"
  /\ Len(delivered[s]) < Len(found[s])
  /\ delivered' = [delivered EXCEPT ![s] = Append(@, found[s][Len(@) + 1])]
  /\ UNCHANGED <<phase, found, final_response, outcome, result>>

Complete(s) ==
  /\ Running(s) /\ outcome[s] = "pending"
  /\ final_response[s] # None
  /\ delivered[s] = found[s]
  /\ outcome' = [outcome EXCEPT ![s] = "final"]
  /\ result' = [result EXCEPT ![s] = final_response[s]]
  /\ UNCHANGED <<phase, found, final_response, delivered>>

(* The callback throws, a response cannot be decoded, or the caller asks for  *)
(* an update after the final one.                                             *)
Fail(s, why) ==
  /\ Running(s)
  /\ outcome[s] = IF why = "finished_error" THEN "final" ELSE "pending"
  /\ outcome' = [outcome EXCEPT ![s] = why]
  /\ UNCHANGED <<phase, found, final_response, delivered, result>>

Return(s) ==
  /\ Running(s) /\ outcome[s] # "pending"
  /\ final_response[s] # None
  /\ phase' = [phase EXCEPT ![s] = "returned"]
  /\ UNCHANGED <<found, final_response, delivered, outcome, result>>

Next ==
  \E s \in Streams :
    \/ Start(s)
    \/ \E v \in Values : Report(s, v)
    \/ \E r \in Values \cup {NoSolution} : End(s, r)
    \/ Deliver(s)
    \/ Complete(s)
    \/ \E why \in {"undecodable", "thrown", "finished_error"} : Fail(s, why)
    \/ Return(s)

Spec == Init /\ [][Next]_vars

=============================================================================
