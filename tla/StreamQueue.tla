---------------------------- MODULE StreamQueue ----------------------------
(***************************************************************************)
(* One StreamState (native/cpsat_shim.cpp 100-105) between the background  *)
(* thread of RunStream and several tasks that call                         *)
(* cpsat_solve_stream_next on the same handle.  Cpsat.Solver never shares  *)
(* a handle; cpsatSolveStreamNext lets a caller do it.  Every action is    *)
(* one critical section under StreamState::mu, or one notify_one, which    *)
(* the code calls after the lock is released.  Updates are numbered as     *)
(* they are pushed; the done update is the last.                           *)
(***************************************************************************)
EXTENDS Integers, Sequences, FiniteSets

CONSTANTS
  Pullers,    \* tasks that pull from the handle
  MaxUpdates  \* bound: updates of one search, the done update included

ASSUME QueueAssumption ==
  /\ IsFiniteSet(Pullers)
  /\ MaxUpdates \in Nat \ {0}

VARIABLES
  worker,   \* where RunStream is
  queue,    \* StreamState::queue
  finished, \* StreamState::finished
  sent,     \* how many updates were pushed
  pc,       \* where each puller is
  got       \* the updates each puller's calls returned

vars == <<worker, queue, finished, sent, pc, got>>

Init ==
  /\ worker = "search"
  /\ queue = <<>>
  /\ finished = FALSE
  /\ sent = 0
  /\ pc = [p \in Pullers |-> "idle"]
  /\ got = [p \in Pullers |-> <<>>]

Goto(p, label) == pc' = [pc EXCEPT ![p] = label]

Waiting == {p \in Pullers : pc[p] = "waiting"}
Locking == {p \in Pullers : pc[p] = "locking"}

-----------------------------------------------------------------------------
(* cpsat_solve_stream_next.                                                    *)

NextCall(p) ==
  /\ pc[p] = "idle"
  /\ Goto(p, "locking")
  /\ UNCHANGED <<worker, queue, finished, sent, got>>

(* cv.wait releases the lock and waits in one step. *)
NextWait(p) ==
  /\ pc[p] = "locking"
  /\ queue = <<>>
  /\ ~finished
  /\ Goto(p, "waiting")
  /\ UNCHANGED <<worker, queue, finished, sent, got>>

SpuriousWakeup(p) ==
  /\ pc[p] = "waiting"
  /\ Goto(p, "locking")
  /\ UNCHANGED <<worker, queue, finished, sent, got>>

(* Mutant: the newest update is taken. *)
NextTakeBack(p) ==
  /\ pc[p] = "locking"
  /\ queue # <<>>
  /\ queue' = SubSeq(queue, 1, Len(queue) - 1)
  /\ got' = [got EXCEPT ![p] = Append(@, queue[Len(queue)])]
  /\ Goto(p, "idle")
  /\ UNCHANGED <<worker, finished, sent>>

NextTake(p) ==
  /\ pc[p] = "locking"
  /\ queue # <<>>
  /\ queue' = Tail(queue)
  /\ got' = [got EXCEPT ![p] = Append(@, Head(queue))]
  /\ Goto(p, "idle")
  /\ UNCHANGED <<worker, finished, sent>>

NextError(p) ==
  /\ pc[p] = "locking"
  /\ queue = <<>>
  /\ finished
  /\ Goto(p, "idle")
  /\ UNCHANGED <<worker, queue, finished, sent, got>>

-----------------------------------------------------------------------------
(* RunStream.                                                                  *)

Observe ==
  /\ worker = "search"
  /\ sent < MaxUpdates - 1
  /\ sent' = sent + 1
  /\ queue' = Append(queue, sent + 1)
  /\ worker' = "notify"
  /\ UNCHANGED <<finished, pc, got>>

Publish ==
  /\ worker = "search"
  /\ sent' = sent + 1
  /\ queue' = Append(queue, sent + 1)
  /\ finished' = TRUE
  /\ worker' = "notify_done"
  /\ UNCHANGED <<pc, got>>

(* Mutant: the wakeup goes to a puller only when the queue was empty before. *)
NotifyWhenFirst ==
  IF Len(queue) = 1 /\ Waiting # {} THEN \E p \in Waiting : Goto(p, "locking")
  ELSE UNCHANGED pc

(* notify_one wakes one waiting thread, whichever. *)
NotifyOne ==
  IF Waiting = {} THEN UNCHANGED pc ELSE \E p \in Waiting : Goto(p, "locking")

Notify ==
  /\ worker \in {"notify", "notify_done"}
  /\ worker' = IF worker = "notify" THEN "search" ELSE "exited"
  /\ NotifyOne
  /\ UNCHANGED <<queue, finished, sent, got>>

-----------------------------------------------------------------------------
PullNext(p) == NextWait(p) \/ NextTake(p) \/ NextError(p)

Next ==
  \/ \E p \in Pullers : NextCall(p) \/ SpuriousWakeup(p) \/ PullNext(p)
  \/ Observe
  \/ Publish
  \/ Notify

Spec == Init /\ [][Next]_vars

(* Threads that can run do, the search ends; wakeups need not be spurious. *)
FairSpec ==
  /\ Spec
  /\ WF_vars(Publish)
  /\ WF_vars(Notify)
  /\ \A p \in Pullers : WF_vars(PullNext(p))

-----------------------------------------------------------------------------
TypeOK ==
  /\ worker \in {"search", "notify", "notify_done", "exited"}
  /\ queue \in Seq(Nat)
  /\ finished \in BOOLEAN
  /\ sent \in Nat
  /\ pc \in [Pullers -> {"idle", "locking", "waiting"}]
  /\ got \in [Pullers -> Seq(Nat)]

Taken == sent - Len(queue)

(* The queue holds exactly the updates nobody has taken, in order. *)
QueueIsRest ==
  /\ Len(queue) <= sent
  /\ \A i \in 1..Len(queue) : queue[i] = Taken + i

(* finished is set with the done update and not before. *)
FinishedWithDone == finished = TRUE <=> worker \in {"notify_done", "exited"}

(* Every update is given to one call of one task, and the calls of a task see  *)
(* their updates in the order pushed ("blocks until the next update").         *)
DeliveredOnce ==
  /\ \A p \in Pullers : \A i \in 1..Len(got[p]) :
       /\ got[p][i] \in 1..Taken
       /\ \A j \in 1..(i - 1) : got[p][j] < got[p][i]
  /\ \A p, r \in Pullers : p # r =>
       \A i \in 1..Len(got[p]), j \in 1..Len(got[r]) : got[p][i] # got[r][j]

(* Room for the done update is kept while the search runs. *)
WithinBound == worker \in {"search", "notify"} => sent < MaxUpdates

PendingNotify == IF worker \in {"notify", "notify_done"} THEN 1 ELSE 0

(* One notify_one per update is enough: while a task waits, there are at least *)
(* as many tasks on their way to the lock, or about to be woken, as updates in *)
(* the queue.  No update is left behind with everybody asleep.                 *)
EnoughAwake ==
  Waiting # {} => Len(queue) <= Cardinality(Locking) + PendingNotify

IInv ==
  /\ TypeOK
  /\ QueueIsRest
  /\ FinishedWithDone
  /\ WithinBound
  /\ EnoughAwake

Channel == INSTANCE UpdateChannel
             WITH closed <- finished, taken <- Taken,
                  asking <- Waiting \cup Locking

(* Several tasks on one handle see one channel. *)
KeepsChannel == Channel!Spec

(* What was pushed does not stay in the queue while some task asks for it. *)
KeepsFairChannel == Channel!FairSpec

=============================================================================
