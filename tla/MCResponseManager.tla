-------------------------- MODULE MCResponseManager -------------------------
(* ResponseManager with two workers on every objective with values in a small  *)
(* domain.                                                                     *)
EXTENDS ResponseManager, TLC

CONSTANTS w1, w2

MCWorkers == {w1, w2}
MCSymmetry == Permutations(MCWorkers)
=============================================================================
