------------------------- MODULE StreamSolve_proofs -------------------------
(***************************************************************************)
(* Proofs about StreamSolve, for every set of streams, stoppers and values *)
(* and every bound: IInv is inductive, and with it the safety properties   *)
(* that MCStreamSolve checks hold, and the refinement of SolutionStream.   *)
(* One lemma per conjunct of IInv shows that a step preserves it, with one *)
(* step per action that can disturb it.                                    *)
(***************************************************************************)
EXTENDS StreamSolveInv, TLAPS

LEMMA AppendAt ==
  ASSUME NEW S, NEW D, NEW q \in [D -> Seq(S)], NEW d \in D, NEW e \in S
  PROVE  [q EXCEPT ![d] = Append(@, e)] \in [D -> Seq(S)]
OBVIOUS

LEMMA AppendElements ==
  ASSUME NEW S, NEW q \in Seq(S), NEW e \in S
  PROVE  /\ Len(q) \in Nat
         /\ Len(Append(q, e)) = Len(q) + 1
         /\ Append(q, e)[Len(q) + 1] = e
         /\ \A i \in 1..Len(q) : Append(q, e)[i] = q[i] /\ q[i] \in S
OBVIOUS

LEMMA EmptySeq ==
  ASSUME NEW S, NEW q \in Seq(S), Len(q) = 0
  PROVE  q = <<>>
OBVIOUS

LEMMA TailElements ==
  ASSUME NEW S, NEW q \in Seq(S), q # <<>>
  PROVE  /\ Len(q) \in Nat /\ Len(q) >= 1
         /\ Head(q) = q[1]
         /\ Len(Tail(q)) = Len(q) - 1
         /\ \A i \in 1..(Len(q) - 1) : Tail(q)[i] = q[i + 1]
OBVIOUS

LEMMA LastElement ==
  ASSUME NEW S, NEW q \in Seq(S), NEW i \in 1..Len(q)
  PROVE  /\ Len(q) \in Nat /\ Len(q) \in 1..Len(q)
         /\ q[i] \in S /\ q[Len(q)] \in S
         /\ i = Len(q) \/ i < Len(q)
<1>1. Len(q) \in Nat /\ q[i] \in S
  OBVIOUS
<1>2. Len(q) \in 1..Len(q)
  BY <1>1
<1>3. q[Len(q)] \in S
  BY <1>2
<1> QED BY <1>1, <1>2, <1>3

LEMMA TailAt ==
  ASSUME NEW S, NEW D, NEW q \in [D -> Seq(S)], NEW d \in D, q[d] # <<>>
  PROVE  /\ [q EXCEPT ![d] = Tail(@)] \in [D -> Seq(S)]
         /\ Head(q[d]) \in S
OBVIOUS

-----------------------------------------------------------------------------
(* TypeOK. Publish pushes a response only because the search has ended. *)

LEMMA TypeInit == Init => TypeOK
<1> SUFFICES ASSUME Init PROVE TypeOK
  OBVIOUS
<1>1. /\ delivered \in [Streams -> Seq(Values)]
      /\ found \in [Streams -> Seq(Values)]
      /\ queue \in [Streams -> Seq(Updates)]
  BY DEF Init
<1>2. /\ pc \in [Tasks -> TaskStates]
      /\ outcome \in [Streams -> Outcomes]
      /\ wpc \in [Streams -> WorkerStates]
  BY DEF Init, TaskStates, WorkerStates, Outcomes
<1> QED
  BY <1>1, <1>2 DEF Init, TypeOK

LEMMA TypeWorker ==
  ASSUME TypeOK, WorkerInv, NEW s \in Streams, WorkerNext(s)
  PROVE  TypeOK'
<1> USE DEF TypeOK, WorkerGoto, callVars, streamVars, stopVars, refVars, WorkerStates
<1>1. CASE Register(s)
  BY <1>1 DEF Register
<1>2. ASSUME NEW v \in Values, Observe(s, v) PROVE TypeOK'
  <2>1. Update(FALSE, v) \in Updates
    BY DEF Update, Updates
  <2>2. queue' \in [Streams -> Seq(Updates)]
    BY <1>2, <2>1, AppendAt DEF Observe
  <2>3. found' \in [Streams -> Seq(Values)]
    BY <1>2 DEF Observe
  <2> QED BY <1>2, <2>2, <2>3 DEF Observe
<1>3. CASE ObserverNotify(s)
  BY <1>3 DEF ObserverNotify, NotifyOne, TaskStates, Tasks
<1>4. CASE SearchEnd(s)
  <2>1. BestOf(found[s]) \subseteq Values \cup {NoSolution}
    BY DEF BestOf
  <2> QED BY <1>4, <2>1 DEF SearchEnd
<1>5. CASE Unregister(s)
  BY <1>5 DEF Unregister
<1>6. CASE Publish(s)
  <2>1. Update(TRUE, final_response[s]) \in Updates
    BY <1>6 DEF Publish, WorkerInv, WorkerAt, Ended, Update, Updates
  <2>2. queue' \in [Streams -> Seq(Updates)]
    BY <1>6, <2>1, AppendAt DEF Publish
  <2> QED BY <1>6, <2>2 DEF Publish
<1>7. CASE NotifyDone(s)
  BY <1>7 DEF NotifyDone, NotifyOne, TaskStates, Tasks
<1>8. CASE Exit(s)
  BY <1>8 DEF Exit
<1> QED
  BY <1>1, <1>2, <1>3, <1>4, <1>5, <1>6, <1>7, <1>8 DEF WorkerNext

(* What the puller finds at the head of a queue that is not empty. *)
LEMMA QueueHead ==
  ASSUME TypeOK, OutcomeInv, QueueInv, NEW s \in Streams, pc[s] = "next", queue[s] # <<>>
  PROVE  /\ outcome[s] = "pending"
         /\ Head(queue[s]).is_done =>
              /\ finished[s]
              /\ Len(queue[s]) = 1
              /\ delivered[s] = found[s]
              /\ Head(queue[s]).value = final_response[s]
         /\ ~Head(queue[s]).is_done =>
              /\ Undelivered(s) > 0
              /\ Head(queue[s]).value = found[s][Len(delivered[s]) + 1]
<1>1. DeliveredPrefix(s) /\ outcome[s] = "pending"
  BY DEF OutcomeInv, OutcomeAt, QueueInv, QueueAt, TypeOK, Outcomes, Dropping, AllDelivered
<1>2. QueueHoldsRest(s)
  BY <1>1 DEF QueueInv, QueueAt
<1>3. /\ found[s] \in Seq(Values) /\ delivered[s] \in Seq(Values) /\ queue[s] \in Seq(Updates)
      /\ Head(queue[s]) = queue[s][1] /\ Len(queue[s]) \in Nat /\ Len(queue[s]) > 0
      /\ Len(found[s]) \in Nat /\ Len(delivered[s]) \in Nat
      /\ finished[s] \in BOOLEAN
  BY DEF TypeOK
<1>4. Undelivered(s) \in Nat
  BY <1>1, <1>3 DEF DeliveredPrefix, Undelivered
<1>5. CASE Undelivered(s) > 0
  <2>1. queue[s][1] = [is_done |-> FALSE, value |-> found[s][Len(delivered[s]) + 1]]
    BY <1>2, <1>4, <1>5 DEF QueueHoldsRest, Update
  <2> QED BY <1>1, <1>3, <1>5, <2>1 DEF Update
<1>6. CASE Undelivered(s) = 0
  <2>1. finished[s] /\ Len(queue[s]) = 1 /\ queue[s][1] = [is_done |-> TRUE, value |-> final_response[s]]
    BY <1>2, <1>3, <1>6 DEF QueueHoldsRest, Update
  <2>2. Len(delivered[s]) = Len(found[s])
    BY <1>3, <1>6 DEF Undelivered
  <2>3. delivered[s] = found[s]
    BY <1>1, <1>3, <2>2 DEF DeliveredPrefix
  <2> QED BY <1>1, <1>3, <2>1, <2>3 DEF Update
<1> QED BY <1>4, <1>5, <1>6

LEMMA TypeCall ==
  ASSUME TypeOK, OutcomeInv, QueueInv, NEW s \in Streams, CallNext(s)
  PROVE  TypeOK'
<1> USE DEF TypeOK, Goto, WorkerGoto, callVars, searchVars, streamVars, stopVars, refVars,
            TaskStates, Tasks, Outcomes
<1>1. CASE StreamStart(s)
  BY <1>1 DEF StreamStart, WorkerStates
<1>2. CASE NextWait(s) \/ SpuriousWakeup(s) \/ CallbackReturn(s) \/ PullAgain(s)
  BY <1>2 DEF NextWait, SpuriousWakeup, CallbackReturn, PullAgain
<1>3. CASE NextImproving(s)
  <2>1. queue' \in [Streams -> Seq(Updates)] /\ Head(queue[s]) \in Updates
    BY <1>3, TailAt DEF NextImproving
  <2>2. Head(queue[s]).value \in Values
    <3>1. /\ found[s] \in Seq(Values)
          /\ Len(delivered[s]) + 1 \in 1..Len(found[s])
      BY <1>3, QueueHead DEF NextImproving, Undelivered
    <3>2. Head(queue[s]).value = found[s][Len(delivered[s]) + 1]
      BY <1>3, QueueHead DEF NextImproving
    <3> QED BY <3>1, <3>2
  <2>3. delivered' \in [Streams -> Seq(Values)]
    BY <1>3, <2>2, AppendAt DEF NextImproving
  <2> QED BY <1>3, <2>1, <2>3 DEF NextImproving
<1>4. CASE NextDone(s)
  <2>1. queue' \in [Streams -> Seq(Updates)] /\ Head(queue[s]) \in Updates
    BY <1>4, TailAt DEF NextDone
  <2>2. Head(queue[s]).value \in Values \cup {NoSolution}
    BY <2>1 DEF Updates
  <2> QED BY <1>4, <2>1, <2>2 DEF NextDone
<1>5. CASE NextUndecodable(s)
  <2>1. queue' \in [Streams -> Seq(Updates)]
    BY <1>5, TailAt DEF NextUndecodable
  <2> QED BY <1>5, <2>1 DEF NextUndecodable
<1>6. CASE NextError(s) \/ CallbackThrow(s)
  BY <1>6 DEF NextError, CallbackThrow
<1>7. CASE FinalizeCheck(s) \/ FinalizeLock(s) \/ FinalizeJoin(s)
  BY <1>7 DEF FinalizeCheck, FinalizeLock, FinalizeJoin
<1>8. CASE FinalizeBody(s)
  BY <1>8 DEF FinalizeBody, StopUnderLock
<1> QED
  BY <1>1, <1>2, <1>3, <1>4, <1>5, <1>6, <1>7, <1>8 DEF CallNext, PullNext, FinalizeNext

LEMMA TypeToken ==
  ASSUME TypeOK, NEW t \in Tasks, TokenNext(t)
  PROVE  TypeOK'
<1> USE DEF TypeOK, Goto, callVars, searchVars, streamVars, stopVars, refVars, TaskStates
<1>1. CASE StopCall(t) \/ StopLock(t) \/ ReleaseToken(t)
  BY <1>1 DEF StopCall, StopLock, ReleaseToken
<1>2. CASE StopBody(t)
  BY <1>2 DEF StopBody, StopUnderLock
<1> QED
  BY <1>1, <1>2 DEF TokenNext

LEMMA TypeStep ==
  ASSUME TypeOK, OutcomeInv, WorkerInv, QueueInv, [Next]_vars
  PROVE  TypeOK'
<1>1. CASE UNCHANGED vars
  BY <1>1 DEF vars, callVars, searchVars, streamVars, stopVars, refVars, TypeOK
<1>2. CASE Next
  BY <1>1, <1>2, TypeWorker, TypeCall, TypeToken DEF Next, Terminated
<1> QED
  BY <1>1, <1>2

-----------------------------------------------------------------------------
(* What each of the three kinds of step leaves alone, and how it moves its own *)
(* thread.                                                                     *)

LEMMA WorkerFrame ==
  ASSUME TypeOK, NEW s \in Streams, WorkerNext(s)
  PROVE  /\ UNCHANGED <<delivered, outcome, result, stopped, legacy_stopped, taskRefs, handleRefs>>
         /\ wpc[s] \notin {"none", "exited"} /\ wpc'[s] # "none"
         /\ \A r \in Streams \ {s} : wpc'[r] = wpc[r]
         /\ \A t \in Tasks : \/ pc'[t] = pc[t]
                             \/ t = s /\ pc[t] = "waiting" /\ pc'[t] = "next"
<1> USE DEF TypeOK, WorkerGoto, callVars, stopVars, refVars
<1>1. CASE Register(s)
  BY <1>1 DEF Register
<1>2. ASSUME NEW v \in Values, Observe(s, v)
      PROVE  wpc[s] = "search" /\ wpc' = [wpc EXCEPT ![s] = "notify"]
             /\ UNCHANGED <<callVars, stopVars, refVars>>
  BY <1>2 DEF Observe
<1>3. CASE ObserverNotify(s)
  BY <1>3 DEF ObserverNotify, NotifyOne, Tasks
<1>4. CASE SearchEnd(s)
  BY <1>4 DEF SearchEnd
<1>5. CASE Unregister(s)
  BY <1>5 DEF Unregister
<1>6. CASE Publish(s)
  BY <1>6 DEF Publish
<1>7. CASE NotifyDone(s)
  BY <1>7 DEF NotifyDone, NotifyOne, Tasks
<1>8. CASE Exit(s)
  BY <1>8 DEF Exit
<1> QED
  BY <1>1, <1>2, <1>3, <1>4, <1>5, <1>6, <1>7, <1>8 DEF WorkerNext

LEMMA CallFrame ==
  ASSUME TypeOK, NEW s \in Streams, CallNext(s)
  PROVE  /\ UNCHANGED <<found, final_response, finished, legacy_stopped, active_stream_limit,
                        taskRefs>>
         /\ pc[s] \notin {"stop_lock", "stop_body", "returned"}
         /\ pc'[s] \notin {"idle", "stop_lock", "stop_body"}
         /\ \A t \in Tasks \ {s} : pc'[t] = pc[t]
         /\ \A r \in Streams \ {s} :
              /\ wpc'[r] = wpc[r]
              /\ r \in handleRefs' <=> r \in handleRefs
              /\ queue'[r] = queue[r] /\ delivered'[r] = delivered[r]
              /\ outcome'[r] = outcome[r] /\ result'[r] = result[r]
         /\ \/ pc[s] = "idle" /\ StreamStart(s)
            \/ /\ pc[s] = "join" /\ pc'[s] = "returned" /\ FinalizeJoin(s)
            \/ /\ pc[s] # "idle" /\ pc'[s] # "returned"
               /\ UNCHANGED <<wpc, handleRefs>>
<1> USE DEF TypeOK, Goto, WorkerGoto, callVars, searchVars, streamVars, stopVars, refVars, Tasks
<1>1. CASE StreamStart(s)
  BY <1>1 DEF StreamStart
<1>2. CASE NextWait(s) \/ NextImproving(s) \/ NextDone(s) \/ NextUndecodable(s) \/ NextError(s)
  BY <1>2 DEF NextWait, NextImproving, NextDone, NextUndecodable, NextError
<1>3. CASE SpuriousWakeup(s) \/ CallbackReturn(s) \/ CallbackThrow(s) \/ PullAgain(s)
  BY <1>3 DEF SpuriousWakeup, CallbackReturn, CallbackThrow, PullAgain
<1>4. CASE FinalizeCheck(s) \/ FinalizeLock(s) \/ FinalizeBody(s)
  BY <1>4 DEF FinalizeCheck, FinalizeLock, FinalizeBody
<1>5. CASE FinalizeJoin(s)
  BY <1>5 DEF FinalizeJoin
<1> QED
  BY <1>1, <1>2, <1>3, <1>4, <1>5 DEF CallNext, PullNext, FinalizeNext

LEMMA TokenFrame ==
  ASSUME TypeOK, NEW t \in Tasks, TokenNext(t)
  PROVE  /\ UNCHANGED <<delivered, outcome, result, wpc, found, final_response, queue, finished,
                        active_stream_limit, handleRefs>>
         /\ \A u \in Tasks \ {t} :
              /\ pc'[u] = pc[u]
              /\ u \in taskRefs' <=> u \in taskRefs
         /\ \/ /\ StopCall(t) /\ pc[t] = (IF t \in Stoppers THEN "idle" ELSE "callback")
               /\ pc'[t] = "stop_lock" /\ legacy_stopped' /\ t \in taskRefs'
            \/ /\ StopLock(t) /\ pc[t] = "stop_lock" /\ pc'[t] = "stop_body"
               /\ UNCHANGED <<legacy_stopped, taskRefs>>
            \/ /\ StopBody(t) /\ pc[t] = "stop_body"
               /\ pc'[t] = (IF t \in Stoppers THEN "returned" ELSE "after_stop")
               /\ UNCHANGED <<legacy_stopped, taskRefs>>
            \/ /\ ReleaseToken(t) /\ pc[t] \notin {"stop_lock", "stop_body"}
               /\ UNCHANGED <<pc, legacy_stopped, stopped>>
<1> USE DEF TypeOK, Goto, callVars, searchVars, streamVars, stopVars, refVars
<1>1. CASE StopCall(t)
  BY <1>1 DEF StopCall
<1>2. CASE StopLock(t)
  BY <1>2 DEF StopLock
<1>3. CASE StopBody(t)
  BY <1>3 DEF StopBody
<1>4. CASE ReleaseToken(t)
  BY <1>4 DEF ReleaseToken
<1> QED
  BY <1>1, <1>2, <1>3, <1>4 DEF TokenNext

-----------------------------------------------------------------------------
(* LifeInv: who is where, and the references they hold. *)

LEMMA StreamLifeStep ==
  ASSUME TypeOK, LifeInv, Next, NEW r \in Streams
  PROVE  StreamLife(r)'
<1>1. StreamLife(r) /\ r \in Tasks /\ r \notin Stoppers
  BY ConstantsAssumption DEF LifeInv, Tasks
<1>2. ASSUME NEW s \in Streams, WorkerNext(s) PROVE StreamLife(r)'
  BY <1>1, <1>2, WorkerFrame DEF StreamLife
<1>3. ASSUME NEW s \in Streams, CallNext(s) PROVE StreamLife(r)'
  <2>1. CASE r # s
    BY <1>1, <1>3, <2>1, CallFrame DEF StreamLife
  <2>2. CASE r = s /\ StreamStart(s)
    BY <1>1, <2>2 DEF StreamStart, StreamLife, Goto, WorkerGoto, TypeOK
  <2>3. CASE r = s /\ FinalizeJoin(s)
    BY <1>1, <2>3 DEF FinalizeJoin, StreamLife, Goto, searchVars, TypeOK
  <2>4. CASE r = s /\ ~StreamStart(s) /\ ~FinalizeJoin(s)
    BY <1>1, <1>3, <2>4, CallFrame DEF StreamLife
  <2> QED BY <2>1, <2>2, <2>3, <2>4
<1>4. ASSUME NEW t \in Tasks, TokenNext(t) PROVE StreamLife(r)'
  BY <1>1, <1>4, TokenFrame DEF StreamLife
<1> QED
  BY <1>1, <1>2, <1>3, <1>4
     DEF Next, Terminated, vars, callVars, searchVars, refVars, StreamLife

LEMMA StopCallLifeStep ==
  ASSUME TypeOK, LifeInv, Next, NEW r \in Tasks
  PROVE  StopCallLife(r)'
<1>1. StopCallLife(r)
  BY DEF LifeInv
<1>2. ASSUME NEW s \in Streams, WorkerNext(s) PROVE StopCallLife(r)'
  BY <1>1, <1>2, WorkerFrame DEF StopCallLife
<1>3. ASSUME NEW s \in Streams, CallNext(s) PROVE StopCallLife(r)'
  <2>1. s \notin Stoppers
    BY ConstantsAssumption
  <2> QED BY <1>1, <1>3, <2>1, CallFrame DEF StopCallLife
<1>4. ASSUME NEW t \in Tasks, TokenNext(t) PROVE StopCallLife(r)'
  BY <1>1, <1>4, TokenFrame DEF StopCallLife
<1> QED
  BY <1>1, <1>2, <1>3, <1>4
     DEF Next, Terminated, vars, callVars, stopVars, refVars, StopCallLife

LEMMA LifeStep ==
  ASSUME TypeOK, LifeInv, Next
  PROVE  LifeInv'
BY StreamLifeStep, StopCallLifeStep DEF LifeInv

-----------------------------------------------------------------------------
(* LimitInv: only Register and Unregister move the registered limit, and only  *)
(* the registered stream's own thread could leave the section between them.    *)

LEMMA LimitStep ==
  ASSUME TypeOK, LifeInv, LimitInv, Next
  PROVE  LimitInv'
<1> USE DEF LimitInv
<1>0. None \notin Streams
  BY ConstantsAssumption DEF Tasks
<1>1. ASSUME NEW s \in Streams, WorkerNext(s) PROVE LimitInv'
  <2> USE DEF WorkerGoto, TypeOK, stopVars
  <2>1. CASE Register(s)
    BY <2>1 DEF Register
  <2>2. CASE Unregister(s)
    BY <2>2 DEF Unregister
  <2>3. ASSUME NEW v \in Values, Observe(s, v) PROVE LimitInv'
    BY <2>3 DEF Observe
  <2>4. CASE ObserverNotify(s)
    BY <2>4 DEF ObserverNotify
  <2>5. CASE SearchEnd(s)
    BY <2>5 DEF SearchEnd
  <2>6. CASE Publish(s)
    BY <2>6 DEF Publish
  <2>7. CASE NotifyDone(s)
    BY <2>7 DEF NotifyDone
  <2>8. CASE Exit(s)
    BY <2>8 DEF Exit
  <2> QED BY <1>1, <2>1, <2>2, <2>3, <2>4, <2>5, <2>6, <2>7, <2>8 DEF WorkerNext
<1>2. ASSUME NEW s \in Streams, CallNext(s) PROVE LimitInv'
  <2>1. CASE StreamStart(s)
    BY <2>1 DEF StreamStart, WorkerGoto, TypeOK, stopVars, LifeInv, StreamLife
  <2>2. CASE ~StreamStart(s)
    BY <1>2, <2>2, CallFrame DEF FinalizeJoin, searchVars
  <2> QED BY <2>1, <2>2
<1>3. ASSUME NEW t \in Tasks, TokenNext(t) PROVE LimitInv'
  BY <1>3, TokenFrame
<1> QED
  BY <1>1, <1>2, <1>3 DEF Next, Terminated, vars, searchVars, stopVars

-----------------------------------------------------------------------------
(* OutcomeInv *)

LEMMA OutcomeStep ==
  ASSUME TypeOK, OutcomeInv, QueueInv, Next, NEW r \in Streams
  PROVE  OutcomeAt(r)'
<1>1. OutcomeAt(r) /\ r \in Tasks /\ r \notin Stoppers
  BY ConstantsAssumption DEF OutcomeInv, Tasks
<1> USE DEF OutcomeAt, Pulling, Dropping
<1>2. ASSUME NEW s \in Streams, WorkerNext(s) PROVE OutcomeAt(r)'
  BY <1>1, <1>2, WorkerFrame
<1>3. ASSUME NEW s \in Streams, CallNext(s) PROVE OutcomeAt(r)'
  <2>1. CASE r # s
    BY <1>1, <1>3, <2>1, CallFrame
  <2>2. CASE r = s
    <3> USE <1>1, <2>2 DEF TypeOK, Goto, Outcomes
    <3>1. CASE StreamStart(s)
      BY <3>1 DEF StreamStart
    <3>2. CASE NextWait(s) \/ SpuriousWakeup(s) \/ NextImproving(s) \/ NextDone(s)
               \/ NextUndecodable(s)
      <4>1. outcome[s] = "pending"
        BY <3>2, QueueHead DEF NextWait, SpuriousWakeup, NextImproving, NextDone,
           NextUndecodable, OutcomeInv, QueueInv, QueueAt, AllDelivered
      <4> QED BY <3>2, <4>1 DEF NextWait, SpuriousWakeup, NextImproving, NextDone,
                NextUndecodable
    <3>3. CASE NextError(s) \/ CallbackReturn(s) \/ CallbackThrow(s) \/ PullAgain(s)
      BY <3>3 DEF NextError, CallbackReturn, CallbackThrow, PullAgain
    <3>4. CASE FinalizeCheck(s)
      <4>1. outcome[s] \in {"final", "finished_error"} => finished[s]
        BY DEF QueueInv, QueueAt, AllDelivered
      <4> QED BY <3>4, <4>1 DEF FinalizeCheck
    <3>5. CASE FinalizeLock(s) \/ FinalizeBody(s) \/ FinalizeJoin(s)
      BY <3>5 DEF FinalizeLock, FinalizeBody, FinalizeJoin
    <3> QED
      BY <1>3, <3>1, <3>2, <3>3, <3>4, <3>5 DEF CallNext, PullNext, FinalizeNext
  <2> QED BY <2>1, <2>2
<1>4. ASSUME NEW t \in Tasks, TokenNext(t) PROVE OutcomeAt(r)'
  BY <1>1, <1>4, TokenFrame DEF TypeOK, Outcomes
<1> QED
  BY <1>1, <1>2, <1>3, <1>4 DEF Next, Terminated, vars, callVars

-----------------------------------------------------------------------------
(* WorkerInv and ImprovingInv: what the background threads do to their own     *)
(* stream.  SearchEnd and Observe both need a search that has not ended.       *)

LEMMA WorkerStep ==
  ASSUME TypeOK, LifeInv, WorkerInv, Next, NEW r \in Streams
  PROVE  WorkerAt(r)'
<1>1. WorkerAt(r) /\ StreamLife(r) /\ wpc[r] \in WorkerStates
  BY DEF WorkerInv, LifeInv, TypeOK
<1> USE DEF WorkerAt, Published, Ended
<1>2. ASSUME NEW s \in Streams, WorkerNext(s) PROVE WorkerAt(r)'
  <2> USE <1>1 DEF WorkerGoto, TypeOK, streamVars
  <2>1. CASE Register(s) \/ ObserverNotify(s)
    BY <2>1 DEF Register, ObserverNotify
  <2>2. ASSUME NEW v \in Values, Observe(s, v) PROVE WorkerAt(r)'
    BY <2>2 DEF Observe
  <2>3. CASE SearchEnd(s)
    <3>1. None \notin BestOf(found[s])
      BY ConstantsAssumption DEF BestOf
    <3>2. wpc[s] = "search" /\ wpc'[s] = "unregister" /\ final_response'[s] # None
      BY <2>3, <3>1 DEF SearchEnd
    <3>3. CASE r = s
      BY <2>3, <3>2, <3>3 DEF SearchEnd
    <3>4. CASE r # s
      BY <2>3, <3>4 DEF SearchEnd
    <3> QED BY <3>3, <3>4
  <2>4. CASE Unregister(s) \/ Publish(s)
    BY <2>4 DEF Unregister, Publish
  <2>5. CASE NotifyDone(s) \/ Exit(s)
    BY <2>5 DEF NotifyDone, Exit
  <2> QED BY <1>2, <2>1, <2>2, <2>3, <2>4, <2>5 DEF WorkerNext
<1>3. ASSUME NEW s \in Streams, CallNext(s) PROVE WorkerAt(r)'
  <2>1. CASE r = s /\ StreamStart(s)
    BY <1>1, <2>1 DEF StreamStart, StreamLife, WorkerGoto, TypeOK, streamVars
  <2>2. CASE r # s /\ StreamStart(s)
    BY <1>1, <1>3, <2>2, CallFrame
  <2>3. CASE ~StreamStart(s)
    BY <1>1, <1>3, <2>3, CallFrame DEF FinalizeJoin, searchVars
  <2> QED BY <2>1, <2>2, <2>3
<1>4. ASSUME NEW t \in Tasks, TokenNext(t) PROVE WorkerAt(r)'
  BY <1>1, <1>4, TokenFrame
<1> QED
  BY <1>1, <1>2, <1>3, <1>4 DEF Next, Terminated, vars, searchVars, streamVars

LEMMA ImprovingStep ==
  ASSUME TypeOK, WorkerInv, ImprovingInv, Next, NEW r \in Streams
  PROVE  Improving(r)'
<1>1. Improving(r) /\ WorkerAt(r)
  BY DEF ImprovingInv, WorkerInv
<1>2. ASSUME NEW s \in Streams, NEW v \in Values, Observe(s, v) PROVE Improving(r)'
  <2>1. CASE r # s
    BY <1>1, <1>2, <2>1 DEF Observe, TypeOK, Improving, BestOf
  <2>2. CASE r = s
    <3> DEFINE n == Len(found[s])
    <3>1. /\ found[s] \in Seq(Values) /\ n \in Nat
          /\ found'[s] = Append(found[s], v)
          /\ Len(found'[s]) = n + 1
          /\ found'[s][n + 1] = v
          /\ \A i \in 1..n : found'[s][i] = found[s][i] /\ found[s][i] \in Int
          /\ v \in Int
          /\ final_response'[s] = final_response[s]
      <4>1. found[s] \in Seq(Values) /\ Values \subseteq Int /\ v \in Values
        BY ConstantsAssumption DEF TypeOK
      <4>2. found'[s] = Append(found[s], v) /\ final_response'[s] = final_response[s]
        BY <1>2 DEF Observe, TypeOK
      <4>3. /\ n \in Nat
            /\ Len(Append(found[s], v)) = n + 1
            /\ Append(found[s], v)[n + 1] = v
            /\ \A i \in 1..n : /\ Append(found[s], v)[i] = found[s][i]
                              /\ found[s][i] \in Values
        BY <4>1, AppendElements
      <4> QED BY <4>1, <4>2, <4>3
    <3>2. final_response[s] = None
      BY <1>1, <1>2, <2>2 DEF Observe, WorkerAt, Ended
    <3>3. ASSUME HasObjective, NEW i \in 1..n PROVE v < found[s][i]
      <4>1. v < found[s][n] /\ n >= 1
        BY <1>2, <3>1, <3>3 DEF Observe, Improves
      <4>2. i = n \/ found[s][n] < found[s][i]
        BY <1>1, <2>2, <3>1, <3>3, <4>1 DEF Improving
      <4> QED BY <3>1, <4>1, <4>2
    <3>4. ASSUME HasObjective, NEW i \in 1..(n + 1), NEW j \in 1..(n + 1), i < j
          PROVE  found'[s][j] < found'[s][i]
      <4>1. CASE j = n + 1
        BY <3>1, <3>3, <3>4, <4>1
      <4>2. CASE j # n + 1
        BY <1>1, <2>2, <3>1, <3>4, <4>2 DEF Improving
      <4> QED BY <4>1, <4>2
    <3> QED BY <2>2, <3>1, <3>2, <3>4 DEF Improving
  <2> QED BY <2>1, <2>2
<1>3. ASSUME NEW s \in Streams, SearchEnd(s) PROVE Improving(r)'
  BY <1>1, <1>3 DEF SearchEnd, TypeOK, Improving, BestOf
<1>4. CASE UNCHANGED <<found, final_response>>
  BY <1>1, <1>4 DEF Improving, BestOf
<1>5. ASSUME NEW s \in Streams, WorkerNext(s)
      PROVE  \/ \E v \in Values : Observe(s, v)
             \/ SearchEnd(s)
             \/ UNCHANGED <<found, final_response>>
  BY <1>5 DEF WorkerNext, Register, ObserverNotify, Unregister, Publish, NotifyDone, Exit
<1> QED
  BY <1>2, <1>3, <1>4, <1>5, CallFrame, TokenFrame DEF Next, Terminated, vars, searchVars

-----------------------------------------------------------------------------
(* QueueInv: a solution is pushed as it is found and leaves the queue as it is *)
(* delivered; the final response follows the last of them.                     *)

LEMMA QueueObserve ==
  ASSUME TypeOK, OutcomeInv, WorkerInv, QueueInv, NEW s \in Streams, NEW v \in Values,
         Observe(s, v)
  PROVE  QueueAt(s)'
<1> DEFINE n == Len(found[s])
           d == Len(delivered[s])
           q == Len(queue[s])
           u == [is_done |-> FALSE, value |-> v]
<1>1. ~finished[s] /\ QueueAt(s)
  BY DEF Observe, WorkerInv, WorkerAt, Published, QueueInv
<1>2. /\ found'[s] = Append(found[s], v) /\ queue'[s] = Append(queue[s], u)
      /\ delivered'[s] = delivered[s] /\ outcome'[s] = outcome[s]
      /\ finished'[s] = finished[s]
  BY DEF Observe, TypeOK, Update, callVars
<1>3. /\ found[s] \in Seq(Values) /\ delivered[s] \in Seq(Values) /\ queue[s] \in Seq(Updates)
      /\ u \in Updates
  BY DEF TypeOK, Updates
<1>4. /\ n \in Nat /\ Len(found'[s]) = n + 1 /\ found'[s][n + 1] = v
      /\ \A i \in 1..n : found'[s][i] = found[s][i]
  BY <1>2, <1>3, AppendElements
<1>5. /\ q \in Nat /\ Len(queue'[s]) = q + 1 /\ queue'[s][q + 1] = u
      /\ \A i \in 1..q : queue'[s][i] = queue[s][i]
  BY <1>2, <1>3, AppendElements
<1>6. n \in Nat /\ d \in Nat /\ d <= n
  BY <1>1, <1>3 DEF QueueAt, DeliveredPrefix
<1>7. DeliveredPrefix(s)'
  BY <1>1, <1>2, <1>4, <1>6 DEF QueueAt, DeliveredPrefix
<1>8. ASSUME outcome[s] = "pending" PROVE QueueHoldsRest(s)'
  <2>1. QueueHoldsRest(s) /\ Undelivered(s) = n - d /\ q = n - d
    BY <1>1, <1>8 DEF QueueAt, QueueHoldsRest, Undelivered
  <2>2. Undelivered(s)' = n - d + 1
    BY <1>2, <1>4, <1>6 DEF Undelivered
  <2>3. ASSUME NEW i \in 1..(n - d + 1)
        PROVE  queue'[s][i] = [is_done |-> FALSE, value |-> found'[s][d + i]]
    <3>1. CASE i \in 1..(n - d)
      <4>1. queue[s][i] = [is_done |-> FALSE, value |-> found[s][d + i]]
        BY <2>1, <3>1 DEF QueueHoldsRest, Update
      <4>2. d + i \in 1..n
        BY <1>6, <3>1
      <4>3. i \in 1..q
        BY <2>1, <3>1
      <4>4. found'[s][d + i] = found[s][d + i] /\ queue'[s][i] = queue[s][i]
        BY <1>4, <1>5, <4>2, <4>3
      <4> QED BY <4>1, <4>4
    <3>2. CASE i = n - d + 1
      <4>1. d + i = n + 1 /\ i = q + 1
        BY <1>6, <2>1, <3>2
      <4>2. queue'[s][i] = u
        BY <1>5, <4>1
      <4>3. found'[s][d + i] = v
        BY <1>4, <4>1
      <4> QED BY <4>2, <4>3
    <3> QED BY <1>6, <3>1, <3>2
  <2>4. Len(queue'[s]) = n - d + 1 /\ ~finished'[s] /\ Len(delivered'[s]) = d
    BY <1>1, <1>2, <1>5, <2>1
  <2> QED BY <1>2, <2>2, <2>3, <2>4 DEF QueueHoldsRest, Update
<1> QED BY <1>1, <1>2, <1>7, <1>8 DEF QueueAt, AllDelivered

LEMMA QueuePublish ==
  ASSUME TypeOK, OutcomeInv, WorkerInv, QueueInv, NEW s \in Streams, Publish(s)
  PROVE  QueueAt(s)'
<1> DEFINE q == Len(queue[s])
           u == [is_done |-> TRUE, value |-> final_response[s]]
<1>1. ~finished[s] /\ QueueAt(s)
  BY DEF Publish, WorkerInv, WorkerAt, Published, QueueInv
<1>2. /\ found' = found /\ queue'[s] = Append(queue[s], u)
      /\ delivered' = delivered /\ outcome' = outcome /\ result' = result
      /\ final_response' = final_response
      /\ finished'[s] = TRUE
  BY DEF Publish, TypeOK, Update, callVars
<1>3. queue[s] \in Seq(Updates) /\ u \in Updates
  <2>1. final_response[s] \in Values \cup {NoSolution}
    BY DEF TypeOK, WorkerInv, WorkerAt, Ended, Publish
  <2> QED BY <2>1 DEF TypeOK, Updates
<1>4. /\ q \in Nat /\ Len(queue'[s]) = q + 1 /\ queue'[s][q + 1] = u
      /\ \A i \in 1..q : queue'[s][i] = queue[s][i]
  BY <1>2, <1>3, AppendElements
<1>5. ASSUME outcome[s] = "pending" PROVE QueueHoldsRest(s)'
  <2>1. QueueHoldsRest(s) /\ q = Undelivered(s)
    BY <1>1, <1>5 DEF QueueAt, QueueHoldsRest
  <2> QED BY <1>2, <1>4, <2>1 DEF QueueHoldsRest, Undelivered, Update
<1> QED BY <1>1, <1>2, <1>5 DEF QueueAt, DeliveredPrefix, AllDelivered

(* The arithmetic of taking one update off the queue: n solutions found, d of *)
(* them delivered, q updates queued.                                          *)
LEMMA NextIndex ==
  ASSUME NEW n \in Nat, NEW d \in Nat, n - d > 0
  PROVE  d + 1 \in 1..n /\ d < n
OBVIOUS

LEMMA NothingLeft ==
  ASSUME NEW n \in Nat, NEW d \in Nat, d <= n
  PROVE  (n - d) + 1 # 0
OBVIOUS

LEMMA ShiftedIndex ==
  ASSUME NEW n \in Nat, NEW d \in Nat, NEW q \in Nat, NEW i \in 1..(n - (d + 1)),
         q = n - d + 1 \/ q = n - d
  PROVE  i + 1 \in 1..(n - d) /\ i \in 1..(q - 1) /\ d + (i + 1) = (d + 1) + i
OBVIOUS

LEMMA QueueNextImproving ==
  ASSUME TypeOK, OutcomeInv, QueueInv, NEW s \in Streams, NextImproving(s)
  PROVE  QueueAt(s)'
<1> DEFINE n == Len(found[s])
           d == Len(delivered[s])
           q == Len(queue[s])
           v == found[s][d + 1]
<1>1. /\ outcome[s] = "pending" /\ Undelivered(s) > 0
      /\ Head(queue[s]).value = v
      /\ DeliveredPrefix(s) /\ QueueHoldsRest(s)
  BY QueueHead DEF NextImproving, QueueInv, QueueAt
<1>2. /\ found' = found /\ finished' = finished /\ final_response' = final_response
      /\ queue'[s] = Tail(queue[s]) /\ delivered'[s] = Append(delivered[s], v)
      /\ outcome' = outcome
  BY <1>1 DEF NextImproving, TypeOK, searchVars
<1>3. n \in Nat /\ d \in Nat /\ d + 1 \in 1..n /\ v \in Values /\ Undelivered(s) = n - d
  <2>1. found[s] \in Seq(Values) /\ delivered[s] \in Seq(Values)
    BY DEF TypeOK
  <2>2. n \in Nat /\ d \in Nat
    BY <2>1
  <2>3. Undelivered(s) = n - d /\ n - d > 0
    BY <1>1 DEF Undelivered
  <2>4. d + 1 \in 1..n
    BY <2>2, <2>3, NextIndex
  <2> QED BY <2>1, <2>2, <2>3, <2>4
<1>4. /\ Len(delivered'[s]) = d + 1 /\ delivered'[s][d + 1] = v
      /\ \A i \in 1..d : delivered'[s][i] = delivered[s][i]
  <2>1. delivered[s] \in Seq(Values)
    BY DEF TypeOK
  <2> QED BY <1>2, <1>3, <2>1, AppendElements
<1>5. /\ q \in Nat /\ q >= 1 /\ Len(queue'[s]) = q - 1
      /\ \A i \in 1..(q - 1) : queue'[s][i] = queue[s][i + 1]
  <2>1. queue[s] \in Seq(Updates) /\ queue[s] # <<>>
    BY DEF TypeOK, NextImproving
  <2> QED BY <1>2, <2>1, TailElements
<1>6. DeliveredPrefix(s)'
  <2>1. ASSUME NEW i \in 1..(d + 1) PROVE delivered'[s][i] = found[s][i]
    BY <1>1, <1>3, <1>4 DEF DeliveredPrefix
  <2> QED BY <1>2, <1>3, <1>4, <2>1 DEF DeliveredPrefix
<1>7. QueueHoldsRest(s)'
  <2>1. Undelivered(s)' = n - (d + 1)
    BY <1>2, <1>4 DEF Undelivered
  <2>2. q = IF finished[s] THEN n - d + 1 ELSE n - d
    BY <1>1, <1>3 DEF QueueHoldsRest
  <2>3. ASSUME NEW i \in 1..(n - (d + 1))
        PROVE  queue'[s][i] = [is_done |-> FALSE, value |-> found[s][(d + 1) + i]]
    <3>1. q = n - d + 1 \/ q = n - d
      BY <2>2
    <3>2. i + 1 \in 1..(n - d) /\ i \in 1..(q - 1) /\ d + (i + 1) = (d + 1) + i
      <4> HIDE DEF n, d, q
      <4> QED BY <1>3, <1>5, <3>1, ShiftedIndex
    <3>3. queue[s][i + 1] = [is_done |-> FALSE, value |-> found[s][d + (i + 1)]]
      BY <1>1, <1>3, <3>2 DEF QueueHoldsRest, Update
    <3> QED BY <1>5, <3>2, <3>3
  <2>4. ASSUME finished[s]
        PROVE  queue'[s][n - (d + 1) + 1] = [is_done |-> TRUE, value |-> final_response[s]]
    <3>1. n - (d + 1) + 1 \in 1..(q - 1) /\ (n - (d + 1) + 1) + 1 = n - d + 1
      BY <1>3, <2>2, <2>4
    <3>2. queue[s][n - d + 1] = [is_done |-> TRUE, value |-> final_response[s]]
      BY <1>1, <1>3, <2>4 DEF QueueHoldsRest, Update
    <3> QED BY <1>5, <3>1, <3>2
  <2>5. Len(queue'[s]) = IF finished[s] THEN (n - (d + 1)) + 1 ELSE n - (d + 1)
    BY <1>3, <1>5, <2>2
  <2> QED BY <1>2, <1>4, <2>1, <2>3, <2>4, <2>5 DEF QueueHoldsRest, Update
<1> QED BY <1>1, <1>2, <1>6, <1>7 DEF QueueAt

LEMMA QueueNextDone ==
  ASSUME TypeOK, OutcomeInv, QueueInv, NEW s \in Streams, NextDone(s)
  PROVE  QueueAt(s)'
<1>1. /\ finished[s] /\ Len(queue[s]) = 1 /\ delivered[s] = found[s]
      /\ Head(queue[s]).value = final_response[s]
      /\ DeliveredPrefix(s)
  BY QueueHead DEF NextDone, QueueInv, QueueAt
<1>2. /\ found' = found /\ finished' = finished /\ final_response' = final_response
      /\ delivered' = delivered
      /\ queue'[s] = Tail(queue[s]) /\ result'[s] = final_response[s]
      /\ outcome'[s] = "final"
  BY <1>1 DEF NextDone, TypeOK, searchVars
<1>3. Tail(queue[s]) = <<>>
  <2>1. queue[s] \in Seq(Updates) /\ queue[s] # <<>>
    BY DEF TypeOK, NextDone
  <2>2. Tail(queue[s]) \in Seq(Updates) /\ Len(Tail(queue[s])) = 0
    BY <1>1, <2>1, TailElements
  <2> QED BY <2>2, EmptySeq
<1> QED BY <1>1, <1>2, <1>3 DEF QueueAt, DeliveredPrefix, AllDelivered

LEMMA QueueStep ==
  ASSUME TypeOK, OutcomeInv, WorkerInv, QueueInv, Next, NEW r \in Streams
  PROVE  QueueAt(r)'
<1>1. QueueAt(r)
  BY DEF QueueInv
<1> USE DEF QueueAt, DeliveredPrefix, QueueHoldsRest, Undelivered, AllDelivered
<1>2. CASE UNCHANGED <<delivered, outcome, result, found, final_response, queue, finished>>
  BY <1>1, <1>2
<1>3. ASSUME NEW s \in Streams, WorkerNext(s) PROVE QueueAt(r)'
  <2>1. CASE \E v \in Values : Observe(s, v)
    <3>1. CASE r = s
      BY <2>1, <3>1, QueueObserve
    <3>2. CASE r # s
      BY <1>1, <2>1, <3>2 DEF Observe, TypeOK, callVars
    <3> QED BY <3>1, <3>2
  <2>2. CASE Publish(s)
    <3>1. CASE r = s
      BY <2>2, <3>1, QueuePublish
    <3>2. CASE r # s
      BY <1>1, <2>2, <3>2 DEF Publish, TypeOK, callVars
    <3> QED BY <3>1, <3>2
  <2>3. CASE SearchEnd(s)
    <3>1. ~finished[s] /\ finished' = finished
      BY <2>3 DEF SearchEnd, WorkerInv, WorkerAt, Published, streamVars
    <3>2. CASE r = s
      BY <1>1, <2>3, <3>1, <3>2 DEF SearchEnd, callVars, streamVars
    <3>3. CASE r # s
      BY <1>1, <2>3, <3>3 DEF SearchEnd, TypeOK, callVars, streamVars
    <3> QED BY <3>2, <3>3
  <2>4. CASE Register(s) \/ ObserverNotify(s) \/ Unregister(s) \/ NotifyDone(s) \/ Exit(s)
    BY <1>2, <2>4 DEF Register, ObserverNotify, Unregister, NotifyDone, Exit, callVars,
       streamVars
  <2> QED BY <1>3, <2>1, <2>2, <2>3, <2>4 DEF WorkerNext
<1>4. ASSUME NEW s \in Streams, CallNext(s) PROVE QueueAt(r)'
  <2>1. CASE r # s
    <3>1. /\ UNCHANGED <<found, final_response, finished>>
          /\ queue'[r] = queue[r] /\ delivered'[r] = delivered[r]
          /\ outcome'[r] = outcome[r] /\ result'[r] = result[r]
      BY <1>4, <2>1, CallFrame
    <3> QED BY <1>1, <3>1
  <2>2. CASE r = s
    <3>1. CASE NextImproving(s)
      BY <2>2, <3>1, QueueNextImproving
    <3>2. CASE NextDone(s)
      BY <2>2, <3>2, QueueNextDone
    <3>3. CASE NextUndecodable(s) \/ CallbackThrow(s)
      BY <1>1, <2>2, <3>3 DEF NextUndecodable, CallbackThrow, TypeOK, searchVars
    <3>4. CASE NextError(s)
      <4>1. outcome[s] = "final"
        <5>1. outcome[s] \in {"pending", "final"}
          BY <3>4 DEF NextError, OutcomeInv, OutcomeAt, Dropping, TypeOK, Outcomes
        <5>2. Len(queue[s]) = 0 /\ finished[s]
          BY <3>4 DEF NextError
        <5>3. Len(found[s]) \in Nat /\ Len(delivered[s]) \in Nat
          BY DEF TypeOK
        <5>4. ASSUME outcome[s] = "pending" PROVE FALSE
          <6>1. Len(queue[s]) = (Len(found[s]) - Len(delivered[s])) + 1
            BY <1>1, <2>2, <5>2, <5>4
          <6>2. Len(delivered[s]) <= Len(found[s])
            BY <1>1, <2>2
          <6>3. (Len(found[s]) - Len(delivered[s])) + 1 # 0
            BY <5>3, <6>2, NothingLeft
          <6> QED BY <5>2, <6>1, <6>3
        <5> QED BY <5>1, <5>4
      <4> QED BY <1>1, <2>2, <3>4, <4>1 DEF NextError, TypeOK, searchVars, streamVars
    <3>5. CASE StreamStart(s) \/ NextWait(s) \/ SpuriousWakeup(s) \/ CallbackReturn(s)
               \/ PullAgain(s)
      BY <1>2, <3>5 DEF StreamStart, NextWait, SpuriousWakeup, CallbackReturn, PullAgain,
         searchVars, streamVars
    <3>6. CASE FinalizeNext(s)
      BY <1>2, <3>6 DEF FinalizeNext, FinalizeCheck, FinalizeLock, FinalizeBody, FinalizeJoin,
         searchVars, streamVars
    <3> QED
      BY <1>4, <3>1, <3>2, <3>3, <3>4, <3>5, <3>6 DEF CallNext, PullNext
  <2> QED BY <2>1, <2>2
<1>5. ASSUME NEW t \in Tasks, TokenNext(t) PROVE QueueAt(r)'
  BY <1>2, <1>5, TokenFrame
<1> QED
  BY <1>2, <1>3, <1>4, <1>5 DEF Next, Terminated, vars, callVars, searchVars, streamVars

-----------------------------------------------------------------------------
(* OnlyEarlyDropStops: `stopped` is set by StopBody, which follows a StopCall,  *)
(* and by FinalizeBody, which only a call that failed reaches.                 *)

LEMMA StopsStep ==
  ASSUME TypeOK, LifeInv, OutcomeInv, OnlyEarlyDropStops, Next
  PROVE  OnlyEarlyDropStops'
<1> USE DEF OnlyEarlyDropStops
<1>1. ASSUME NEW s \in Streams, WorkerNext(s) PROVE OnlyEarlyDropStops'
  BY <1>1, WorkerFrame
<1>2. ASSUME NEW s \in Streams, CallNext(s) PROVE OnlyEarlyDropStops'
  <2>1. legacy_stopped' = legacy_stopped
    BY <1>2, CallFrame
  <2>2. ASSUME NEW r \in Streams, outcome[r] \in {"thrown", "undecodable"}
        PROVE  outcome'[r] \in {"thrown", "undecodable"}
    <3>1. CASE r # s
      BY <1>2, <2>2, <3>1, CallFrame
    <3>2. CASE r = s
      <4>1. pc[s] \in Dropping
        BY <1>2, <2>2, <3>2, CallFrame DEF OutcomeInv, OutcomeAt
      <4>2. outcome' = outcome
        <5>1. CASE FinalizeNext(s)
          BY <5>1 DEF FinalizeNext, FinalizeCheck, FinalizeLock, FinalizeBody, FinalizeJoin
        <5>2. CASE PullNext(s)
          BY <4>1, <5>2 DEF PullNext, NextWait, NextImproving, NextDone, NextUndecodable,
             NextError, Dropping
        <5>3. CASE StreamStart(s) \/ SpuriousWakeup(s) \/ CallbackReturn(s) \/ PullAgain(s)
          BY <5>3 DEF StreamStart, SpuriousWakeup, CallbackReturn, PullAgain
        <5>4. CASE CallbackThrow(s)
          BY <4>1, <5>4 DEF CallbackThrow, Dropping
        <5> QED BY <1>2, <5>1, <5>2, <5>3, <5>4 DEF CallNext
      <4> QED BY <2>2, <4>2
    <3> QED BY <3>1, <3>2
  <2>3. CASE FinalizeBody(s)
    <3>1. outcome[s] \in {"thrown", "undecodable"}
      BY <2>3 DEF FinalizeBody, OutcomeInv, OutcomeAt, Pulling, TypeOK, Outcomes
    <3> QED BY <2>2, <3>1
  <2>4. CASE stopped' = stopped
    BY <2>1, <2>2, <2>4
  <2>5. FinalizeBody(s) \/ stopped' = stopped
    BY <1>2 DEF CallNext, PullNext, FinalizeNext, StreamStart, NextWait, NextImproving, NextDone,
       NextUndecodable, NextError, SpuriousWakeup, CallbackReturn, CallbackThrow, PullAgain,
       FinalizeCheck, FinalizeLock, FinalizeJoin, stopVars
  <2> QED BY <2>3, <2>4, <2>5
<1>3. ASSUME NEW t \in Tasks, TokenNext(t) PROVE OnlyEarlyDropStops'
  <2>1. outcome' = outcome
    BY <1>3, TokenFrame
  <2>2. CASE StopBody(t)
    BY <2>2 DEF StopBody, LifeInv, StopCallLife
  <2>3. CASE StopCall(t)
    BY <2>3 DEF StopCall
  <2>4. CASE StopLock(t) \/ ReleaseToken(t)
    BY <2>1, <2>4 DEF StopLock, ReleaseToken, stopVars
  <2> QED BY <1>3, <2>2, <2>3, <2>4 DEF TokenNext
<1> QED
  BY <1>1, <1>2, <1>3 DEF Next, Terminated, vars, callVars, stopVars

-----------------------------------------------------------------------------
(* ExclusiveInv: with one stream at a time no Register or Unregister takes the *)
(* limit of another stream's search away.                                      *)

LEMMA AloneStep ==
  ASSUME TypeOK, LifeInv, OneAtATime, Alone, Next
  PROVE  Alone'
<1>1. ASSUME NEW s \in Streams, WorkerNext(s) PROVE \A r \in Streams : Running(r)' => Running(r)
  BY <1>1, WorkerFrame DEF Running, Tasks
<1>2. ASSUME NEW t \in Tasks, TokenNext(t) PROVE \A r \in Streams : Running(r)' => Running(r)
  <2>1. t \in Stoppers => t \notin Streams
    BY ConstantsAssumption
  <2> QED BY <1>2, <2>1, TokenFrame DEF Running, Tasks
<1>3. ASSUME NEW s \in Streams, CallNext(s), ~StreamStart(s)
      PROVE  \A r \in Streams : Running(r)' => Running(r)
  BY <1>3, CallFrame DEF Running, Tasks
<1>4. ASSUME NEW s \in Streams, StreamStart(s) PROVE Alone'
  <2>1. \A r \in Streams : ~Running(r)
    BY <1>4 DEF StreamStart, Running
  <2>2. \A r \in Streams : Running(r)' => r = s
    BY <1>4, <2>1 DEF StreamStart, Goto, Running, TypeOK, Tasks
  <2> QED BY <2>2 DEF Alone
<1>5. CASE \A r \in Streams : Running(r)' => Running(r)
  BY <1>5 DEF Alone
<1>6. CASE Terminated
  BY <1>5, <1>6 DEF Terminated, vars, callVars, Running
<1> QED
  BY <1>1, <1>2, <1>3, <1>4, <1>5, <1>6 DEF Next

(* Whose thread is within RunStream, its call has not returned. *)
LEMMA RunningAlone ==
  ASSUME LifeInv, Alone, NEW r \in Streams, NEW s \in Streams, r # s,
         wpc[s] \notin {"none", "exited"}
  PROVE  wpc[r] \in {"none", "exited"}
BY DEF LifeInv, StreamLife, Alone, Running

LEMMA ExclusiveStep ==
  ASSUME TypeOK, LifeInv, LimitInv, OneAtATime, Alone, Next,
         NEW r \in Streams, SearchIsRegistered(r), SearchIsTold(r)
  PROVE  SearchIsRegistered(r)' /\ SearchIsTold(r)'
<1> DEFINE Goal == SearchIsRegistered(r)' /\ SearchIsTold(r)'
<1> USE DEF SearchIsRegistered, SearchIsTold
<1>0. None \notin Streams
  BY ConstantsAssumption DEF Tasks
<1>1. ASSUME NEW s \in Streams, WorkerNext(s), r # s PROVE Goal
  BY <1>1, RunningAlone, WorkerFrame
<1>2. ASSUME WorkerNext(r) PROVE Goal
  <2> USE DEF WorkerGoto, TypeOK, stopVars
  <2>1. CASE Register(r)
    BY <2>1 DEF Register
  <2>2. CASE Unregister(r)
    BY <2>2 DEF Unregister
  <2>3. ASSUME NEW v \in Values, Observe(r, v) PROVE Goal
    BY <2>3 DEF Observe
  <2>4. CASE ObserverNotify(r)
    BY <2>4 DEF ObserverNotify
  <2>5. CASE SearchEnd(r)
    BY <2>5 DEF SearchEnd
  <2>6. CASE Publish(r)
    BY <2>6 DEF Publish
  <2>7. CASE NotifyDone(r)
    BY <2>7 DEF NotifyDone
  <2>8. CASE Exit(r)
    BY <2>8 DEF Exit
  <2> QED BY <1>2, <2>1, <2>2, <2>3, <2>4, <2>5, <2>6, <2>7, <2>8 DEF WorkerNext
<1>3. ASSUME StopUnderLock, UNCHANGED <<wpc, active_stream_limit>> PROVE Goal
  BY <1>0, <1>3 DEF StopUnderLock, TypeOK
<1>4. ASSUME NEW s \in Streams, CallNext(s) PROVE Goal
  <2>1. CASE StreamStart(s)
    <3>1. active_stream_limit' = active_stream_limit /\ stopped' = stopped /\ limit' = limit
      BY <2>1 DEF StreamStart, stopVars
    <3>2. wpc'[r] \in {"search", "notify", "unregister"} => wpc'[r] = wpc[r]
      BY <2>1 DEF StreamStart, WorkerGoto, TypeOK
    <3> QED BY <3>1, <3>2
  <2>2. CASE FinalizeBody(s)
    BY <1>3, <2>2 DEF FinalizeBody
  <2>3. CASE UNCHANGED <<wpc, limit, stopped, active_stream_limit>>
    BY <2>3
  <2> QED
    BY <1>4, <2>1, <2>2, <2>3 DEF CallNext, PullNext, FinalizeNext, NextWait, NextImproving,
       NextDone, NextUndecodable, NextError, SpuriousWakeup, CallbackReturn, CallbackThrow,
       PullAgain, FinalizeCheck, FinalizeLock, FinalizeJoin, searchVars, stopVars
<1>5. ASSUME NEW t \in Tasks, TokenNext(t) PROVE Goal
  <2>1. CASE StopBody(t)
    BY <1>3, <2>1 DEF StopBody
  <2>2. CASE StopCall(t) \/ StopLock(t) \/ ReleaseToken(t)
    BY <2>2 DEF StopCall, StopLock, ReleaseToken, searchVars, stopVars
  <2> QED BY <1>5, <2>1, <2>2 DEF TokenNext
<1>6. CASE Terminated
  BY <1>6 DEF Terminated, vars, searchVars, stopVars
<1> QED
  BY <1>1, <1>2, <1>4, <1>5, <1>6 DEF Next

-----------------------------------------------------------------------------
(* The invariant. *)

LEMMA NoElements == Len(<<>>) = 0 /\ 1..0 = {} /\ 0 - 0 = 0
OBVIOUS

LEMMA InvInit == Init => IInv
<1> SUFFICES ASSUME Init PROVE IInv
  OBVIOUS
<1>1. TypeOK
  BY TypeInit
<1>2. \A s \in Streams : s \in Tasks /\ pc[s] = "idle"
  BY DEF Init, Tasks
<1>3. LifeInv
  BY <1>2 DEF Init, LifeInv, StreamLife, StopCallLife
<1>4. LimitInv /\ OnlyEarlyDropStops
  BY DEF Init, LimitInv, OnlyEarlyDropStops
<1>5. OutcomeInv /\ WorkerInv
  BY <1>2 DEF Init, OutcomeInv, OutcomeAt, WorkerInv, WorkerAt, Published, Ended
<1>6. ImprovingInv
  <2>1. ASSUME NEW s \in Streams PROVE found[s] = <<>> /\ final_response[s] = None
    BY DEF Init
  <2> QED BY <2>1, NoElements DEF ImprovingInv, Improving
<1>7. ASSUME NEW s \in Streams PROVE QueueAt(s)
  <2>1. /\ found[s] = <<>> /\ delivered[s] = <<>> /\ queue[s] = <<>>
        /\ outcome[s] = "pending" /\ finished[s] = FALSE
    BY DEF Init
  <2>2. Len(found[s]) = 0 /\ Len(delivered[s]) = 0 /\ Len(queue[s]) = 0
    BY <2>1, NoElements
  <2>3. DeliveredPrefix(s) /\ Undelivered(s) = 0
    BY <2>2, NoElements DEF DeliveredPrefix, Undelivered
  <2>4. QueueHoldsRest(s)
    BY <2>1, <2>2, <2>3, NoElements DEF QueueHoldsRest
  <2> QED BY <2>1, <2>3, <2>4 DEF QueueAt
<1>8. ExclusiveInv
  BY <1>2 DEF Init, ExclusiveInv, Alone, Running, SearchIsRegistered, SearchIsTold
<1> QED
  BY <1>1, <1>3, <1>4, <1>5, <1>6, <1>7, <1>8 DEF IInv, QueueInv

LEMMA InvStep == IInv /\ [Next]_vars => IInv'
<1>1. CASE IInv /\ UNCHANGED vars
  <2> USE <1>1 DEF IInv, vars, callVars, searchVars, streamVars, stopVars, refVars
  <2>1. TypeOK' /\ LimitInv' /\ OnlyEarlyDropStops'
    BY DEF TypeOK, LimitInv, OnlyEarlyDropStops
  <2>2. LifeInv'
    BY DEF LifeInv, StreamLife, StopCallLife
  <2>3. OutcomeInv' /\ WorkerInv'
    BY DEF OutcomeInv, OutcomeAt, WorkerInv, WorkerAt
  <2>4. ImprovingInv'
    BY DEF ImprovingInv, Improving
  <2>5. QueueInv'
    BY DEF QueueInv, QueueAt, DeliveredPrefix, QueueHoldsRest, Undelivered, AllDelivered
  <2>6. ExclusiveInv'
    BY DEF ExclusiveInv, Alone, Running, SearchIsRegistered, SearchIsTold
  <2> QED BY <2>1, <2>2, <2>3, <2>4, <2>5, <2>6
<1>2. CASE IInv /\ Next
  <2> USE <1>2 DEF IInv
  <2>1. TypeOK'
    BY TypeStep
  <2>2. LifeInv' /\ LimitInv'
    BY LifeStep, LimitStep
  <2>3. OutcomeInv' /\ WorkerInv'
    BY OutcomeStep, WorkerStep DEF OutcomeInv, WorkerInv
  <2>4. ImprovingInv' /\ QueueInv'
    BY ImprovingStep, QueueStep DEF ImprovingInv, QueueInv
  <2>5. OnlyEarlyDropStops'
    BY StopsStep
  <2>6. ExclusiveInv'
    BY AloneStep, ExclusiveStep DEF ExclusiveInv
  <2> QED BY <2>1, <2>2, <2>3, <2>4, <2>5, <2>6
<1> QED BY <1>1, <1>2

(* Every conjunct of IInv holds of every behaviour of the streaming shim.      *)
THEOREM Invariance == Spec => []IInv
<1>1. Init => IInv
  BY InvInit
<1>2. IInv /\ [Next]_vars => IInv'
  BY InvStep
<1> QED BY <1>1, <1>2, PTL DEF Spec

-----------------------------------------------------------------------------
(* What follows from it. *)

(* Every variable of the handles, the token and the threads stays in its type; *)
(* in particular a done update always carries a response (final_response is    *)
(* never pushed before SolveCpModel returned it).                              *)
THEOREM TypeCorrect == Spec => []TypeOK
<1>1. IInv => TypeOK
  BY DEF IInv
<1> QED BY <1>1, Invariance, PTL

(* RunStream, StopToken.stop and the finalizer only touch the LeanStopToken    *)
(* while a reference keeps it alive, whoever lets go of it and when.           *)
THEOREM TokenNotUsedAfterFree == Spec => []NoUseAfterFree
<1>1. IInv => NoUseAfterFree
  <2> SUFFICES ASSUME IInv PROVE NoUseAfterFree
    OBVIOUS
  <2>1. ASSUME NEW s \in Streams,
               wpc[s] \in {"register", "search", "notify", "unregister"}
        PROVE  TokenAlive
    BY <2>1 DEF IInv, LifeInv, StreamLife, TokenAlive
  <2>2. ASSUME NEW t \in Tasks, pc[t] \in {"stop_lock", "stop_body"}
        PROVE  TokenAlive
    BY <2>2 DEF IInv, LifeInv, StopCallLife, TokenAlive
  <2>3. ASSUME NEW t \in Tasks, pc[t] \in {"fin_lock", "fin_body"}
        PROVE  TokenAlive
    BY <2>3 DEF IInv, LifeInv, StreamLife, StopCallLife, TokenAlive, Tasks
  <2> QED BY <2>1, <2>2, <2>3 DEF NoUseAfterFree
<1> QED BY <1>1, Invariance, PTL

(* active_stream_limit never points into a Model that RunStream destroyed.     *)
THEOREM LimitNeverDangles == Spec => []NoDanglingLimit
<1>1. IInv => NoDanglingLimit
  BY DEF IInv, LimitInv, NoDanglingLimit
<1> QED BY <1>1, Invariance, PTL

(* Only StopToken.stop, or a handle dropped before its search was done, stops  *)
(* the token: draining a stream leaves it usable.                              *)
THEOREM TokenStoppedWithCause == Spec => []OnlyEarlyDropStops
<1>1. IInv => OnlyEarlyDropStops
  BY DEF IInv
<1> QED BY <1>1, Invariance, PTL

(* onSolution sees a prefix of what the observer was given, in its order, and  *)
(* strictly improving when there is an objective.                              *)
THEOREM SolutionsDeliveredInOrder == Spec => []DeliveredInOrder
<1>1. ASSUME IInv, NEW s \in Streams
      PROVE  /\ Len(delivered[s]) <= Len(found[s])
             /\ Len(delivered[s]) \in Nat /\ Len(found[s]) \in Nat
             /\ \A i \in 1..Len(delivered[s]) : delivered[s][i] = found[s][i]
             /\ HasObjective =>
                  \A i, j \in 1..Len(found[s]) : i < j => found[s][j] < found[s][i]
  BY <1>1 DEF IInv, TypeOK, QueueInv, QueueAt, DeliveredPrefix, ImprovingInv, Improving
<1>2. ASSUME IInv, NEW s \in Streams, HasObjective,
             NEW i \in 1..Len(delivered[s]), NEW j \in 1..Len(delivered[s]), i < j
      PROVE  delivered[s][j] < delivered[s][i]
  <2>1. i \in 1..Len(found[s]) /\ j \in 1..Len(found[s])
    BY <1>1, <1>2
  <2>2. found[s][j] < found[s][i]
    BY <1>1, <1>2, <2>1
  <2> QED BY <1>1, <1>2, <2>2
<1>3. IInv => DeliveredInOrder
  BY <1>1, <1>2 DEF DeliveredInOrder
<1> QED BY <1>3, Invariance, PTL

(* A call returns its own search's final response, after the last solution was *)
(* delivered, and nothing delivered is better.                                 *)
THEOREM FinalResponseIsBest == Spec => []FinalIsLastAndBest
<1>1. ASSUME IInv, NEW s \in Streams, outcome[s] \in {"final", "finished_error"}
      PROVE  /\ final_response[s] # None /\ result[s] = final_response[s]
             /\ delivered[s] = found[s]
  <2>1. AllDelivered(s) /\ WorkerAt(s)
    BY <1>1 DEF IInv, QueueInv, QueueAt, WorkerInv
  <2> QED BY <2>1 DEF AllDelivered, WorkerAt, Published, Ended
<1>2. ASSUME IInv, NEW s \in Streams, outcome[s] \in {"final", "finished_error"},
             HasObjective, NEW i \in 1..Len(delivered[s])
      PROVE  result[s] <= delivered[s][i]
  <2>1. found[s] \in Seq(Values) /\ Values \subseteq Int
    BY <1>2, ConstantsAssumption DEF IInv, TypeOK
  <2>2. i \in 1..Len(found[s])
    BY <1>1, <1>2
  <2>3. /\ Len(found[s]) \in 1..Len(found[s]) /\ found[s] # <<>>
        /\ found[s][i] \in Int
        /\ found[s][Len(found[s])] \in Int
        /\ i = Len(found[s]) \/ i < Len(found[s])
    <3>1. /\ found[s][i] \in Values /\ found[s][Len(found[s])] \in Values
          /\ Len(found[s]) \in 1..Len(found[s])
          /\ i = Len(found[s]) \/ i < Len(found[s])
      BY <2>1, <2>2, LastElement
    <3>2. found[s] # <<>>
      BY <3>1, NoElements
    <3> QED BY <2>1, <3>1, <3>2
  <2>4. result[s] = found[s][Len(found[s])]
    <3>1. result[s] \in BestOf(found[s])
      BY <1>1, <1>2 DEF IInv, ImprovingInv, Improving
    <3> QED BY <1>2, <2>3, <3>1 DEF BestOf
  <2>5. CASE i < Len(found[s])
    <3>1. found[s][Len(found[s])] < found[s][i]
      BY <1>2, <2>2, <2>3, <2>5 DEF IInv, ImprovingInv, Improving
    <3> QED BY <1>1, <1>2, <2>3, <2>4, <3>1
  <2>6. CASE i = Len(found[s])
    BY <1>1, <1>2, <2>3, <2>4, <2>6
  <2> QED BY <2>3, <2>5, <2>6
<1>3. IInv => FinalIsLastAndBest
  BY <1>1, <1>2 DEF FinalIsLastAndBest
<1> QED BY <1>3, Invariance, PTL

(* While callers run one stream at a time, StopToken.stop cancels whichever    *)
(* solve is using the token (StopToken.stop, cpsat_stop_token_stop).           *)
THEOREM StopIsNeverLost ==
  ASSUME OneAtATime
  PROVE  Spec => []StopReachesSearch
<1>1. IInv => StopReachesSearch
  BY DEF IInv, ExclusiveInv, SearchIsTold, StopReachesSearch
<1> QED BY <1>1, Invariance, PTL

(* Once the done update was pulled, a further pull fails and hands out nothing *)
(* (cpsat_solve_stream_next, "solution stream already finished").              *)
THEOREM NothingPulledAfterDone == Spec => NothingAfterDone
<1>1. ASSUME IInv, [Next]_vars, NEW r \in Streams, outcome[r] = "final"
      PROVE  /\ outcome'[r] \in {"final", "finished_error"}
             /\ delivered'[r] = delivered[r] /\ result'[r] = result[r]
  <2>1. queue[r] = <<>> /\ pc[r] \notin Pulling \ {"next"}
    BY <1>1 DEF IInv, QueueInv, QueueAt, AllDelivered, OutcomeInv, OutcomeAt, Pulling
  <2>2. CASE UNCHANGED <<delivered, outcome, result>>
    BY <1>1, <2>2
  <2>3. ASSUME NEW s \in Streams, CallNext(s), r # s
        PROVE  /\ outcome'[r] = outcome[r]
               /\ delivered'[r] = delivered[r] /\ result'[r] = result[r]
    BY <1>1, <2>3, CallFrame DEF IInv
  <2>4. ASSUME CallNext(r)
        PROVE  NextError(r) \/ UNCHANGED <<delivered, outcome, result>>
    <3>1. ~NextImproving(r) /\ ~NextDone(r) /\ ~NextUndecodable(r)
      BY <2>1 DEF NextImproving, NextDone, NextUndecodable
    <3>2. ~CallbackThrow(r)
      BY <1>1, <2>1 DEF CallbackThrow, Pulling
    <3> QED
      BY <2>4, <3>1, <3>2 DEF CallNext, PullNext, FinalizeNext, StreamStart, NextWait,
         SpuriousWakeup, CallbackReturn, PullAgain, FinalizeCheck, FinalizeLock, FinalizeBody,
         FinalizeJoin
  <2>5. CASE NextError(r)
    BY <1>1, <2>5 DEF NextError, IInv, TypeOK
  <2>6. ASSUME NEW s \in Streams, WorkerNext(s)
        PROVE  UNCHANGED <<delivered, outcome, result>>
    BY <1>1, <2>6, WorkerFrame DEF IInv
  <2>7. ASSUME NEW t \in Tasks, TokenNext(t)
        PROVE  UNCHANGED <<delivered, outcome, result>>
    BY <1>1, <2>7, TokenFrame DEF IInv
  <2>8. CASE UNCHANGED vars
    BY <2>2, <2>8 DEF vars, callVars
  <2>9. CASE \E s \in Streams : CallNext(s)
    <3>1. PICK s \in Streams : CallNext(s)
      BY <2>9
    <3>2. CASE r = s
      BY <2>2, <2>4, <2>5, <3>1, <3>2
    <3>3. CASE r # s
      BY <1>1, <2>3, <3>1, <3>3
    <3> QED BY <3>2, <3>3
  <2> QED
    BY <1>1, <2>2, <2>6, <2>7, <2>8, <2>9 DEF Next, Terminated
<1>2. IInv /\ [Next]_vars => [DoneIsLast]_vars
  BY <1>1 DEF DoneIsLast
<1> QED BY <1>2, Invariance, PTL DEF Spec, NothingAfterDone

=============================================================================
