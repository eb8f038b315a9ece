--------------------------- MODULE UpdateChannel ---------------------------
(***************************************************************************)
(* What cpsat_solve_stream_next promises to tasks that pull from one       *)
(* handle: updates 1, 2, ... come out once each and in the order they were *)
(* sent, each to some task that asks; after the last one, which closes the *)
(* channel, a task that asks is refused.  No mutex, no queue, no waiting.  *)
(***************************************************************************)
EXTENDS Integers, Sequences

CONSTANTS Pullers, MaxUpdates

VARIABLES
  sent,    \* how many updates the search has sent
  closed,  \* whether the last of them was the done update
  taken,   \* how many were received
  got,     \* which ones each puller received, in order
  asking   \* the pullers with a call in progress

vars == <<sent, closed, taken, got, asking>>

Init ==
  /\ sent = 0
  /\ closed = FALSE
  /\ taken = 0
  /\ got = [p \in Pullers |-> <<>>]
  /\ asking = {}

Ask(p) ==
  /\ asking' = asking \cup {p}
  /\ UNCHANGED <<sent, closed, taken, got>>

Send(done) ==
  /\ ~closed
  /\ sent < MaxUpdates
  /\ sent' = sent + 1
  /\ closed' = done
  /\ UNCHANGED <<taken, got, asking>>

Receive(p) ==
  /\ p \in asking
  /\ taken < sent
  /\ taken' = taken + 1
  /\ got' = [got EXCEPT ![p] = Append(@, taken + 1)]
  /\ asking' = asking \ {p}
  /\ UNCHANGED <<sent, closed>>

Refuse(p) ==
  /\ p \in asking
  /\ closed /\ taken = sent
  /\ asking' = asking \ {p}
  /\ UNCHANGED <<sent, closed, taken, got>>

Next ==
  \/ \E p \in Pullers : Ask(p) \/ Receive(p) \/ Refuse(p)
  \/ \E done \in BOOLEAN : Send(done)

Spec == Init /\ [][Next]_vars

(* What was sent does not stay behind while somebody asks for it. *)
FairSpec == Spec /\ WF_vars(\E p \in Pullers : Receive(p))
=============================================================================
