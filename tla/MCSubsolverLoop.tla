--------------------------- MODULE MCSubsolverLoop --------------------------
(* SubsolverLoop with one subsolver of each kind on two threads.               *)
EXTENDS SubsolverLoop

OneOfEach == <<"full", "first", "shaving", "lns">>

=============================================================================
