--------------------------- MODULE MCStreamSolve ----------------------------
(* StreamSolve on small instances.  Two streams and one other task are enough  *)
(* for every pair of critical sections to meet.                                *)
EXTENDS StreamSolveInv, TLC

CONSTANTS s1, s2, t1

TwoStreams == {s1, s2}
OneStream == {s1}
NoStopper == {}
OneStopper == {t1}
OneRank == 1..1
ThreeRanks == 1..3

StreamSymmetry == Permutations(TwoStreams)

=============================================================================
