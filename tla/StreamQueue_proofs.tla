------------------------- MODULE StreamQueue_proofs -------------------------
(***************************************************************************)
(* Proofs about StreamQueue, for every finite set of pullers and every     *)
(* number of updates: no update is left in the queue with everybody        *)
(* asleep, each is delivered once and in order, and several tasks on one   *)
(* handle see the channel of UpdateChannel.                                *)
(***************************************************************************)
EXTENDS StreamQueue, FiniteSetTheorems, TLAPS

LEMMA AppendElements ==
  ASSUME NEW S, NEW q \in Seq(S), NEW e \in S
  PROVE  /\ Append(q, e) \in Seq(S)
         /\ Len(q) \in Nat
         /\ Len(Append(q, e)) = Len(q) + 1
         /\ Append(q, e)[Len(q) + 1] = e
         /\ \A i \in 1..Len(q) : Append(q, e)[i] = q[i] /\ q[i] \in S
OBVIOUS

LEMMA AppendCases ==
  ASSUME NEW q \in Seq(Nat), NEW e \in Nat, NEW i \in 1..Len(Append(q, e))
  PROVE  \/ i = Len(q) + 1 /\ Append(q, e)[i] = e
         \/ i \in 1..Len(q) /\ \A j \in 1..i : Append(q, e)[j] = q[j]
<1>1. /\ Len(q) \in Nat /\ Len(Append(q, e)) = Len(q) + 1 /\ Append(q, e)[Len(q) + 1] = e
      /\ \A j \in 1..Len(q) : Append(q, e)[j] = q[j]
  BY AppendElements
<1>2. i = Len(q) + 1 \/ i \in 1..Len(q)
  BY <1>1
<1>3. ASSUME i \in 1..Len(q), NEW j \in 1..i PROVE j \in 1..Len(q)
  BY <1>1, <1>3
<1> QED BY <1>1, <1>2, <1>3

LEMMA TailElements ==
  ASSUME NEW S, NEW q \in Seq(S), q # <<>>
  PROVE  /\ Len(q) \in Nat /\ Len(q) >= 1
         /\ Head(q) = q[1] /\ Head(q) \in S
         /\ Tail(q) \in Seq(S)
         /\ Len(Tail(q)) = Len(q) - 1
         /\ \A i \in 1..(Len(q) - 1) : Tail(q)[i] = q[i + 1]
OBVIOUS

LEMMA EmptySeq ==
  /\ Len(<<>>) = 0
  /\ \A S : \A q \in Seq(S) : Len(q) \in Nat /\ (Len(q) = 0 <=> q = <<>>)
OBVIOUS

LEMMA Updated ==
  ASSUME NEW D, NEW S, NEW f \in [D -> S], NEW d \in D, NEW e \in S
  PROVE  /\ [f EXCEPT ![d] = e] \in [D -> S]
         /\ [f EXCEPT ![d] = e][d] = e
         /\ \A c \in D : c # d => [f EXCEPT ![d] = e][c] = f[c]
OBVIOUS

-----------------------------------------------------------------------------
(* The sets of waiting and of woken pullers after a puller moves.              *)

LEMMA Finite ==
  /\ IsFiniteSet(Locking)
  /\ Cardinality(Locking) \in Nat
<1>1. Locking \subseteq Pullers
  BY DEF Locking
<1> QED BY <1>1, FS_Subset, FS_CardinalityType, QueueAssumption

LEMMA ToLocking ==
  ASSUME TypeOK, NEW p \in Pullers, pc[p] # "locking", Goto(p, "locking")
  PROVE  /\ Waiting' = Waiting \ {p}
         /\ Cardinality(Locking') = Cardinality(Locking) + 1
         /\ pc' \in [Pullers -> {"idle", "locking", "waiting"}]
<1>1. Waiting' = Waiting \ {p} /\ pc' \in [Pullers -> {"idle", "locking", "waiting"}]
  BY DEF Goto, Waiting, TypeOK
<1>2. Locking' = Locking \cup {p} /\ p \notin Locking
  BY DEF Goto, Locking, TypeOK
<1> QED BY <1>1, <1>2, Finite, FS_AddElement

LEMMA FromLocking ==
  ASSUME TypeOK, NEW p \in Pullers, pc[p] = "locking", NEW label \in {"idle", "waiting"},
         Goto(p, label)
  PROVE  /\ label = "idle" => Waiting' = Waiting
         /\ Cardinality(Locking') = Cardinality(Locking) - 1
         /\ pc' \in [Pullers -> {"idle", "locking", "waiting"}]
<1>1. /\ label = "idle" => Waiting' = Waiting
      /\ pc' \in [Pullers -> {"idle", "locking", "waiting"}]
  BY DEF Goto, Waiting, TypeOK
<1>2. Locking' = Locking \ {p} /\ p \in Locking
  BY DEF Goto, Locking, TypeOK
<1> QED BY <1>1, <1>2, Finite, FS_RemoveElement

-----------------------------------------------------------------------------
LEMMA InvInit == Init => IInv
<1> SUFFICES ASSUME Init PROVE IInv
  OBVIOUS
<1>1. <<>> \in Seq(Nat) /\ Len(<<>>) = 0
  OBVIOUS
<1>2. TypeOK
  BY <1>1 DEF Init, TypeOK
<1>3. QueueIsRest /\ EnoughAwake
  BY <1>1 DEF Init, QueueIsRest, Taken, EnoughAwake, Waiting
<1>5. WithinBound
  BY QueueAssumption DEF Init, WithinBound
<1>4. FinishedWithDone
  <2>1. finished # TRUE /\ ~(worker \in {"notify_done", "exited"})
    BY DEF Init
  <2> QED BY <2>1 DEF FinishedWithDone
<1> QED BY <1>2, <1>3, <1>4, <1>5 DEF IInv

LEMMA BoundKept ==
  ASSUME IInv, [Next]_vars
  PROVE  WithinBound'
<1> USE DEF IInv, WithinBound, TypeOK
<1>1. CASE Observe \/ Publish \/ Notify
  BY <1>1, QueueAssumption DEF Observe, Publish, Notify
<1>2. CASE worker' = worker /\ sent' = sent
  BY <1>2
<1>3. ASSUME NEW p \in Pullers, NextCall(p) \/ SpuriousWakeup(p) \/ PullNext(p)
      PROVE  worker' = worker /\ sent' = sent
  BY <1>3 DEF NextCall, SpuriousWakeup, PullNext, NextWait, NextTake, NextError
<1> QED BY <1>1, <1>2, <1>3 DEF Next, vars

LEMMA InvWait ==
  ASSUME IInv, NEW p \in Pullers, NextWait(p)
  PROVE  TypeOK' /\ QueueIsRest' /\ FinishedWithDone' /\ EnoughAwake'
<1> USE DEF IInv
<1>1. /\ pc' \in [Pullers -> {"idle", "locking", "waiting"}]
      /\ Cardinality(Locking') = Cardinality(Locking) - 1
      /\ p \in Locking
  BY FromLocking DEF NextWait, Locking
<1>2. Len(queue) = 0 /\ Cardinality(Locking') >= 0
  <2>1. Cardinality(Locking) # 0
    BY <1>1, Finite, FS_EmptySet
  <2> QED BY <1>1, <2>1, Finite, EmptySeq DEF NextWait, TypeOK
<1>3. TypeOK' /\ QueueIsRest' /\ FinishedWithDone'
  BY <1>1 DEF NextWait, TypeOK, QueueIsRest, Taken, FinishedWithDone
<1>4. EnoughAwake'
  BY <1>1, <1>2, Finite DEF NextWait, EnoughAwake, PendingNotify
<1> QED BY <1>3, <1>4

LEMMA InvTake ==
  ASSUME IInv, NEW p \in Pullers, NextTake(p)
  PROVE  TypeOK' /\ QueueIsRest' /\ FinishedWithDone' /\ EnoughAwake'
<1> USE DEF IInv
<1>1. /\ Waiting' = Waiting
      /\ Cardinality(Locking') = Cardinality(Locking) - 1
      /\ pc' \in [Pullers -> {"idle", "locking", "waiting"}]
  BY FromLocking DEF NextTake
<1>2. /\ Len(queue) \in Nat /\ Len(queue) >= 1
      /\ Head(queue) \in Nat
      /\ Tail(queue) \in Seq(Nat)
      /\ Len(Tail(queue)) = Len(queue) - 1
      /\ \A i \in 1..(Len(queue) - 1) : Tail(queue)[i] = queue[i + 1]
  BY TailElements DEF NextTake, TypeOK
<1>3. TypeOK'
  <2>1. Append(got[p], Head(queue)) \in Seq(Nat)
    BY <1>2, AppendElements DEF TypeOK
  <2>2. got' \in [Pullers -> Seq(Nat)]
    BY <2>1, Updated DEF NextTake, TypeOK
  <2> QED BY <1>1, <1>2, <2>2 DEF NextTake, TypeOK
<1>4. QueueIsRest'
  BY <1>2 DEF NextTake, TypeOK, QueueIsRest, Taken
<1>5. FinishedWithDone'
  BY DEF NextTake, FinishedWithDone
<1>6. EnoughAwake'
  BY <1>1, <1>2, Finite DEF NextTake, EnoughAwake, PendingNotify
<1> QED BY <1>3, <1>4, <1>5, <1>6

LEMMA InvPuller ==
  ASSUME IInv, NEW p \in Pullers, NextCall(p) \/ SpuriousWakeup(p) \/ PullNext(p)
  PROVE  TypeOK' /\ QueueIsRest' /\ FinishedWithDone' /\ EnoughAwake'
<1> USE DEF IInv
<1>1. CASE NextCall(p)
  <2>1. /\ Waiting' = Waiting \ {p}
        /\ Cardinality(Locking') = Cardinality(Locking) + 1
        /\ pc' \in [Pullers -> {"idle", "locking", "waiting"}]
    BY <1>1, ToLocking DEF NextCall
  <2>2. TypeOK' /\ QueueIsRest' /\ FinishedWithDone'
    BY <1>1, <2>1 DEF NextCall, TypeOK, QueueIsRest, Taken, FinishedWithDone
  <2>3. EnoughAwake'
    BY <1>1, <2>1, Finite, EmptySeq DEF NextCall, EnoughAwake, PendingNotify, TypeOK
  <2> QED BY <2>2, <2>3
<1>2. CASE SpuriousWakeup(p)
  <2>1. /\ Waiting' = Waiting \ {p}
        /\ Cardinality(Locking') = Cardinality(Locking) + 1
        /\ pc' \in [Pullers -> {"idle", "locking", "waiting"}]
    BY <1>2, ToLocking DEF SpuriousWakeup
  <2>2. TypeOK' /\ QueueIsRest' /\ FinishedWithDone'
    BY <1>2, <2>1 DEF SpuriousWakeup, TypeOK, QueueIsRest, Taken, FinishedWithDone
  <2>3. EnoughAwake'
    BY <1>2, <2>1, Finite, EmptySeq DEF SpuriousWakeup, EnoughAwake, PendingNotify, TypeOK
  <2> QED BY <2>2, <2>3
<1>3. CASE NextError(p)
  <2>1. /\ Waiting' = Waiting
        /\ Cardinality(Locking') = Cardinality(Locking) - 1
        /\ pc' \in [Pullers -> {"idle", "locking", "waiting"}]
        /\ p \in Locking
    BY <1>3, FromLocking DEF NextError, Locking
  <2>2. Len(queue) = 0 /\ Cardinality(Locking) # 0
    BY <1>3, <2>1, EmptySeq, Finite, FS_EmptySet DEF NextError, TypeOK
  <2>3. TypeOK' /\ QueueIsRest' /\ FinishedWithDone'
    BY <1>3, <2>1 DEF NextError, TypeOK, QueueIsRest, Taken, FinishedWithDone
  <2>4. EnoughAwake'
    BY <1>3, <2>1, <2>2, Finite DEF NextError, EnoughAwake, PendingNotify
  <2> QED BY <2>3, <2>4
<1> QED BY <1>1, <1>2, <1>3, InvWait, InvTake DEF PullNext

LEMMA NotFinished ==
  ASSUME IInv, worker = "search"
  PROVE  finished = FALSE
<1>1. finished # TRUE
  BY DEF IInv, FinishedWithDone
<1> QED BY <1>1 DEF IInv, TypeOK

LEMMA InvPush ==
  ASSUME IInv, Observe \/ Publish
  PROVE  TypeOK' /\ QueueIsRest' /\ FinishedWithDone' /\ EnoughAwake'
<1> USE DEF IInv
<1>1. /\ queue' = Append(queue, sent + 1) /\ sent' = sent + 1 /\ sent + 1 \in Nat
      /\ pc' = pc /\ got' = got /\ worker = "search"
  BY DEF Observe, Publish, TypeOK
<1>2. /\ queue' \in Seq(Nat) /\ Len(queue) \in Nat
      /\ Len(queue') = Len(queue) + 1 /\ queue'[Len(queue) + 1] = sent + 1
      /\ \A i \in 1..Len(queue) : queue'[i] = queue[i]
  BY <1>1, AppendElements DEF TypeOK
<1>3. TypeOK'
  BY <1>1, <1>2 DEF Observe, Publish, TypeOK
<1>4. QueueIsRest'
  BY <1>1, <1>2 DEF QueueIsRest, Taken, TypeOK
<1>5. FinishedWithDone'
  <2>1. finished = FALSE
    BY <1>1, NotFinished
  <2>2. CASE Observe
    <3>1. finished' # TRUE /\ worker' = "notify"
      BY <2>1, <2>2 DEF Observe
    <3> QED BY <3>1 DEF FinishedWithDone
  <2>3. CASE Publish
    <3>1. finished' = TRUE /\ worker' = "notify_done"
      BY <2>3 DEF Publish
    <3> QED BY <3>1 DEF FinishedWithDone
  <2> QED BY <2>2, <2>3
<1>6. EnoughAwake'
  <2>1. Waiting' = Waiting /\ Locking' = Locking
    BY <1>1 DEF Waiting, Locking
  <2>2. PendingNotify = 0 /\ PendingNotify' = 1
    BY <1>1 DEF Observe, Publish, PendingNotify
  <2> QED BY <1>2, <2>1, <2>2, Finite DEF EnoughAwake
<1> QED BY <1>3, <1>4, <1>5, <1>6

LEMMA InvNotify ==
  ASSUME IInv, Notify
  PROVE  TypeOK' /\ QueueIsRest' /\ FinishedWithDone' /\ EnoughAwake'
<1> USE DEF IInv
<1>1. /\ queue' = queue /\ finished' = finished /\ sent' = sent /\ got' = got
      /\ worker \in {"notify", "notify_done"} /\ worker' \in {"search", "exited"}
      /\ worker' = "exited" <=> worker = "notify_done"
  BY DEF Notify
<1>2. /\ QueueIsRest'
      /\ PendingNotify = 1 /\ PendingNotify' = 0
      /\ FinishedWithDone'
  BY <1>1 DEF QueueIsRest, Taken, PendingNotify, FinishedWithDone
<1>3. CASE Waiting = {}
  <2>1. pc' = pc
    BY <1>3 DEF Notify, NotifyOne
  <2>2. TypeOK' /\ EnoughAwake'
    BY <1>1, <1>3, <2>1 DEF TypeOK, EnoughAwake, Waiting
  <2> QED BY <1>2, <2>2
<1>4. CASE Waiting # {}
  <2>1. PICK p \in Waiting : Goto(p, "locking")
    BY <1>4 DEF Notify, NotifyOne
  <2>2. /\ Cardinality(Locking') = Cardinality(Locking) + 1
        /\ pc' \in [Pullers -> {"idle", "locking", "waiting"}]
    BY <2>1, ToLocking DEF Waiting
  <2>3. TypeOK'
    BY <1>1, <2>2 DEF TypeOK
  <2>4. Len(queue) <= Cardinality(Locking) + 1
    BY <1>2, <1>4 DEF EnoughAwake
  <2>5. EnoughAwake'
    BY <1>1, <1>2, <2>2, <2>4, Finite DEF EnoughAwake
  <2> QED BY <1>2, <2>3, <2>5
<1> QED BY <1>3, <1>4

LEMMA InvNext == IInv /\ [Next]_vars => IInv'
<1> SUFFICES ASSUME IInv, [Next]_vars PROVE IInv'
  OBVIOUS
<1>1. WithinBound'
  BY BoundKept
<1>2. CASE UNCHANGED vars
  BY <1>2 DEF vars, IInv, TypeOK, QueueIsRest, Taken, FinishedWithDone, EnoughAwake, Waiting,
              Locking, PendingNotify, WithinBound
<1>3. CASE Next
  BY <1>1, <1>3, InvPuller, InvPush, InvNotify DEF Next, IInv
<1> QED BY <1>2, <1>3

(* The queue's bookkeeping and its wakeups, whatever the number of tasks that  *)
(* pull from the handle and of solutions the search reports.                   *)
THEOREM Invariance == Spec => []IInv
<1>1. Init => IInv
  BY InvInit
<1>2. IInv /\ [Next]_vars => IInv'
  BY InvNext
<1> QED BY <1>1, <1>2, PTL DEF Spec

(* One notify_one per update is enough for any number of pulling tasks.        *)
THEOREM NobodySleepsThrough == Spec => []EnoughAwake
<1>1. IInv => EnoughAwake
  BY DEF IInv
<1> QED BY <1>1, Invariance, PTL

-----------------------------------------------------------------------------
(* DeliveredOnce is inductive beside IInv: what a call takes is the update     *)
(* after all those that were taken.                                            *)

LEMMA OnceTake ==
  ASSUME IInv, DeliveredOnce, NEW p \in Pullers, NextTake(p)
  PROVE  DeliveredOnce'
<1> USE DEF IInv
<1>1. /\ Len(queue) \in Nat /\ Len(queue) >= 1 /\ Head(queue) = queue[1]
      /\ Len(queue') = Len(queue) - 1 /\ sent' = sent
  BY TailElements DEF NextTake, TypeOK
<1>2. Head(queue) = Taken + 1 /\ Taken' = Taken + 1 /\ Taken \in Nat
  BY <1>1 DEF QueueIsRest, Taken, TypeOK
<1>3. /\ got[p] \in Seq(Nat) /\ Len(got[p]) \in Nat
      /\ got'[p] = Append(got[p], Taken + 1)
      /\ \A r \in Pullers : r # p => got'[r] = got[r]
      /\ \A r \in Pullers : Len(got[r]) \in Nat
  BY <1>2, EmptySeq DEF NextTake, TypeOK
<1>4. /\ Len(got'[p]) = Len(got[p]) + 1 /\ got'[p][Len(got[p]) + 1] = Taken + 1
      /\ \A i \in 1..Len(got[p]) : got'[p][i] = got[p][i]
  BY <1>2, <1>3, AppendElements
<1>5. ASSUME NEW r \in Pullers, NEW i \in 1..Len(got'[r])
      PROVE  \/ r = p /\ i = Len(got[p]) + 1 /\ got'[r][i] = Taken + 1
             \/ i \in 1..Len(got[r]) /\ \A j \in 1..i : got'[r][j] = got[r][j]
  <2>1. CASE r = p
    <3> DEFINE q == got[p]
    <3>1. i \in 1..Len(Append(q, Taken + 1)) /\ Taken + 1 \in Nat /\ q \in Seq(Nat)
      BY <1>2, <1>3, <2>1
    <3>2. \/ i = Len(q) + 1 /\ Append(q, Taken + 1)[i] = Taken + 1
          \/ i \in 1..Len(q) /\ \A j \in 1..i : Append(q, Taken + 1)[j] = q[j]
      BY <3>1, AppendCases
    <3> QED BY <1>3, <2>1, <3>2
  <2>2. CASE r # p
    <3>1. got'[r] = got[r]
      BY <1>3, <2>2
    <3> QED BY <3>1
  <2> QED BY <2>1, <2>2
<1>6. ASSUME NEW r \in Pullers, NEW i \in 1..Len(got'[r])
      PROVE  /\ got'[r][i] \in 1..Taken'
             /\ \A j \in 1..(i - 1) : got'[r][j] < got'[r][i]
  <2>1. CASE r = p /\ i = Len(got[p]) + 1 /\ got'[r][i] = Taken + 1
    <3>1. \A j \in 1..Len(got[p]) : got[p][j] \in 1..Taken
      BY DEF DeliveredOnce
    <3>2. ASSUME NEW j \in 1..(i - 1) PROVE j \in 1..Len(got[p])
      BY <1>3, <2>1
    <3>3. ASSUME NEW j \in 1..(i - 1) PROVE got'[r][j] < Taken + 1
      <4>1. got'[p][j] = got[p][j] /\ got[p][j] \in 1..Taken
        BY <1>4, <3>1, <3>2, <3>3
      <4> QED BY <1>2, <2>1, <4>1
    <3>4. got'[r][i] \in 1..Taken'
      BY <1>2, <2>1
    <3> QED BY <2>1, <3>3, <3>4
  <2>2. CASE i \in 1..Len(got[r]) /\ \A j \in 1..i : got'[r][j] = got[r][j]
    <3>1. got[r][i] \in 1..Taken /\ \A j \in 1..(i - 1) : got[r][j] < got[r][i]
      BY <2>2 DEF DeliveredOnce
    <3>2. i \in Nat /\ got'[r][i] = got[r][i] /\ \A j \in 1..(i - 1) : got'[r][j] = got[r][j]
      BY <1>3, <2>2
    <3> QED BY <1>2, <3>1, <3>2
  <2> QED BY <1>5, <2>1, <2>2
<1>7. ASSUME NEW r \in Pullers, NEW i \in 1..Len(got'[r])
      PROVE  \/ r = p /\ got'[r][i] = Taken + 1
             \/ /\ i \in 1..Len(got[r]) /\ got'[r][i] = got[r][i]
                /\ got'[r][i] # Taken + 1
  <2>1. CASE i \in 1..Len(got[r]) /\ \A j \in 1..i : got'[r][j] = got[r][j]
    <3>1. got[r][i] \in 1..Taken
      BY <2>1 DEF DeliveredOnce
    <3>2. i \in 1..i
      BY <1>3, <2>1
    <3> QED BY <1>2, <2>1, <3>1, <3>2
  <2> QED BY <1>5, <2>1
<1>8. ASSUME NEW r \in Pullers, NEW c \in Pullers, r # c, NEW i \in 1..Len(got'[r]),
             NEW j \in 1..Len(got'[c])
      PROVE  got'[r][i] # got'[c][j]
  <2>1. CASE r # p /\ c # p
    <3>1. i \in 1..Len(got[r]) /\ got'[r][i] = got[r][i]
      BY <1>7, <2>1
    <3>2. j \in 1..Len(got[c]) /\ got'[c][j] = got[c][j]
      BY <1>7, <2>1
    <3> QED BY <1>8, <3>1, <3>2 DEF DeliveredOnce
  <2>2. CASE r = p
    <3>1. j \in 1..Len(got[c]) /\ got'[c][j] = got[c][j] /\ got'[c][j] # Taken + 1
      BY <1>7, <1>8, <2>2
    <3>2. got'[r][i] = Taken + 1 \/ (i \in 1..Len(got[r]) /\ got'[r][i] = got[r][i])
      BY <1>7
    <3> QED BY <1>8, <3>1, <3>2 DEF DeliveredOnce
  <2>3. CASE c = p
    <3>1. i \in 1..Len(got[r]) /\ got'[r][i] = got[r][i] /\ got'[r][i] # Taken + 1
      BY <1>7, <1>8, <2>3
    <3>2. got'[c][j] = Taken + 1 \/ (j \in 1..Len(got[c]) /\ got'[c][j] = got[c][j])
      BY <1>7
    <3> QED BY <1>8, <3>1, <3>2 DEF DeliveredOnce
  <2> QED BY <2>1, <2>2, <2>3
<1> QED BY <1>6, <1>8 DEF DeliveredOnce

LEMMA OnceOther ==
  ASSUME IInv, DeliveredOnce, got' = got, Taken' = Taken
  PROVE  DeliveredOnce'
BY DEF DeliveredOnce

LEMMA TakenIsInt == IInv => Len(queue) \in Nat /\ Taken \in Nat
BY EmptySeq DEF IInv, TypeOK, QueueIsRest, Taken

LEMMA TakenOnlyByTake ==
  ASSUME IInv, [Next]_vars, ~\E p \in Pullers : NextTake(p)
  PROVE  got' = got /\ Taken' = Taken
<1>1. CASE UNCHANGED vars
  BY <1>1 DEF vars, Taken
<1>2. CASE Observe \/ Publish
  <2>1. Len(queue') = Len(queue) + 1 /\ sent' = sent + 1 /\ got' = got
    BY <1>2, AppendElements DEF Observe, Publish, IInv, TypeOK
  <2> QED BY <2>1, TakenIsInt DEF Taken, IInv, TypeOK
<1>3. CASE Notify
  BY <1>3 DEF Notify, Taken
<1>4. ASSUME NEW p \in Pullers, NextCall(p) \/ SpuriousWakeup(p) \/ NextWait(p) \/ NextError(p)
      PROVE  got' = got /\ Taken' = Taken
  BY <1>4 DEF NextCall, SpuriousWakeup, NextWait, NextError, Taken
<1> QED BY <1>1, <1>2, <1>3, <1>4 DEF Next, PullNext

(* Every update goes to one call of one task, and each task sees its updates   *)
(* in the order the search reported them.                                      *)
THEOREM EachUpdateOnce == Spec => []DeliveredOnce
<1>1. Init => DeliveredOnce
  BY DEF Init, DeliveredOnce
<1>2. IInv /\ DeliveredOnce /\ [Next]_vars => DeliveredOnce'
  BY OnceTake, OnceOther, TakenOnlyByTake
<1> QED BY <1>1, <1>2, Invariance, PTL DEF Spec

-----------------------------------------------------------------------------
(* StreamQueue implements UpdateChannel.                                       *)

LEMMA Asking ==
  ASSUME TypeOK, NEW p \in Pullers, NEW label \in {"idle", "locking", "waiting"},
         Goto(p, label)
  PROVE  /\ (Waiting \cup Locking)' =
              IF label = "idle" THEN (Waiting \cup Locking) \ {p}
              ELSE (Waiting \cup Locking) \cup {p}
         /\ p \in Waiting \cup Locking <=> pc[p] # "idle"
BY DEF Goto, Waiting, Locking, TypeOK

LEMMA ChannelStep ==
  ASSUME IInv, [Next]_vars
  PROVE  [Channel!Next]_(Channel!vars)
<1> USE DEF IInv
<1>1. CASE UNCHANGED vars
  BY <1>1 DEF vars, Channel!vars, Taken, Waiting, Locking
<1>2. ASSUME NEW p \in Pullers, NextCall(p) PROVE Channel!Ask(p)
  BY <1>2, Asking DEF NextCall, Channel!Ask, Taken
<1>3. ASSUME NEW p \in Pullers, NextWait(p) \/ SpuriousWakeup(p)
      PROVE  UNCHANGED Channel!vars
  BY <1>3, Asking DEF NextWait, SpuriousWakeup, Channel!vars, Taken
<1>4. ASSUME NEW p \in Pullers, NextTake(p) PROVE Channel!Receive(p)
  <2>1. /\ Len(queue) \in Nat /\ Len(queue) >= 1 /\ Head(queue) = queue[1]
        /\ Len(queue') = Len(queue) - 1 /\ sent' = sent
    BY <1>4, TailElements DEF NextTake, TypeOK
  <2>2. Head(queue) = Taken + 1 /\ Taken' = Taken + 1 /\ Taken < sent
    BY <2>1 DEF QueueIsRest, Taken, TypeOK
  <2> QED BY <1>4, <2>2, Asking DEF NextTake, Channel!Receive
<1>5. ASSUME NEW p \in Pullers, NextError(p) PROVE Channel!Refuse(p)
  <2>1. Taken = sent
    BY <1>5, EmptySeq DEF NextError, Taken, TypeOK
  <2> QED BY <1>5, <2>1, Asking DEF NextError, Channel!Refuse, Taken
<1>6. CASE Observe \/ Publish
  <2>1. got' = got /\ Taken' = Taken /\ (Waiting \cup Locking)' = Waiting \cup Locking
    BY <1>6, TakenOnlyByTake DEF Observe, Publish, NextTake, Next, Waiting, Locking, TypeOK
  <2>2. worker = "search" /\ sent' = sent + 1 /\ finished' \in BOOLEAN
    BY <1>6 DEF Observe, Publish, TypeOK
  <2>3. finished = FALSE /\ sent < MaxUpdates
    BY <2>2, NotFinished DEF WithinBound
  <2> QED BY <2>1, <2>2, <2>3 DEF Channel!Next, Channel!Send
<1>7. CASE Notify
  <2>1. (Waiting \cup Locking)' = Waiting \cup Locking
    BY <1>7, Asking DEF Notify, NotifyOne, Waiting, Locking
  <2> QED BY <1>7, <2>1 DEF Notify, Channel!vars, Taken
<1> QED BY <1>1, <1>2, <1>3, <1>4, <1>5, <1>6, <1>7 DEF Next, PullNext, Channel!Next

(* Several tasks on one handle see one channel: updates come out once each, in *)
(* order, and a call is refused only after the done update was taken.          *)
THEOREM Refinement == Spec => KeepsChannel
<1>1. Init => Channel!Init
  <2> SUFFICES ASSUME Init PROVE Channel!Init
    OBVIOUS
  <2>1. Waiting \cup Locking = {}
    BY DEF Init, Waiting, Locking
  <2>2. Len(queue) = 0 /\ sent = 0
    BY EmptySeq DEF Init
  <2>3. Taken = 0
    BY <2>2 DEF Taken
  <2> QED BY <2>1, <2>3 DEF Init, Channel!Init
<1>2. IInv /\ [Next]_vars => [Channel!Next]_(Channel!vars)
  BY ChannelStep
<1> QED BY <1>1, <1>2, Invariance, PTL DEF Spec, KeepsChannel, Channel!Spec

=============================================================================
