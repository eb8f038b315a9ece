------------------------ MODULE MCInterruptibleSolve ------------------------
(* InterruptibleSolve on small problems.                                       *)
EXTENDS InterruptibleSolve

Problem(objective, solutions, hint) ==
  [valid |-> TRUE, objective |-> objective, solutions |-> solutions, hint |-> hint]

(* With and without an objective, a good hint and a bad one; one problem that  *)
(* CP-SAT rejects.                                                             *)
AllProblems ==
  {Problem(o, {}, None) : o \in BOOLEAN}
    \cup {Problem(TRUE, {1, 2, 3}, None)}
    \cup {Problem(o, {1, 3}, h) : o \in BOOLEAN, h \in {2, 3}}
    \cup {[Problem(FALSE, {}, None) EXCEPT !.valid = FALSE]}

(* Two problems that share a solution, and one without any. *)
FewProblems == {Problem(TRUE, {1, 2}, None), Problem(TRUE, {2, 3}, None), Problem(TRUE, {}, None)}

=============================================================================
