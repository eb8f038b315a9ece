--------------------------- MODULE MCStreamQueue ----------------------------
(* StreamQueue on small instances: three tasks, so that one can wait, one take *)
(* and one be woken in vain at the same time.                                  *)
EXTENDS StreamQueue

CONSTANTS p1, p2, p3

ThreePullers == {p1, p2, p3}

=============================================================================
