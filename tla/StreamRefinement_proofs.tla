----------------------- MODULE StreamRefinement_proofs -----------------------
(***************************************************************************)
(* StreamSolve implements SolutionStream: each step of the threads, the    *)
(* queue and the token is a step of the abstract call or leaves it alone.  *)
(***************************************************************************)
EXTENDS StreamSolve_proofs

(* The abstract phase of a call only depends on where its task is. *)
PhaseMap == [s \in Streams |-> Phase(s)]

PhaseKept(s) == Phase(s)' = Phase(s)

LEMMA PhaseStutter ==
  ASSUME \A s \in Streams : PhaseKept(s)
  PROVE  PhaseMap' = PhaseMap
BY DEF PhaseMap, PhaseKept

LEMMA PhaseMove ==
  ASSUME NEW s \in Streams, NEW p, Phase(s)' = p, \A r \in Streams \ {s} : PhaseKept(r)
  PROVE  PhaseMap' = [PhaseMap EXCEPT ![s] = p]
BY DEF PhaseMap, PhaseKept

LEMMA PhaseRunning ==
  ASSUME NEW s \in Streams, pc[s] \notin {"idle", "returned"}
  PROVE  PhaseMap[s] = "running"
BY DEF PhaseMap, Phase

-----------------------------------------------------------------------------
(* The initial states. *)

LEMMA RefineInit == Init => Promise!Init
<1> SUFFICES ASSUME Init PROVE Promise!Init
  OBVIOUS
<1>1. PhaseMap = [s \in Streams |-> "idle"]
  BY DEF Init, PhaseMap, Phase, Tasks
<1> QED BY <1>1 DEF Init, PhaseMap, Promise!Init

-----------------------------------------------------------------------------
(* The background thread: Observe reports a solution, SearchEnd ends the       *)
(* search, the rest is invisible.                                              *)

LEMMA WorkerPhase ==
  ASSUME TypeOK, LifeInv, NEW s \in Streams, WorkerNext(s)
  PROVE  PhaseMap' = PhaseMap /\ PhaseMap[s] = "running"
<1>1. ASSUME NEW r \in Streams PROVE PhaseKept(r)
  BY <1>1, WorkerFrame DEF PhaseKept, Phase, Tasks
<1>2. pc[s] \notin {"idle", "returned"}
  BY WorkerFrame DEF LifeInv, StreamLife
<1> QED BY <1>1, <1>2, PhaseStutter, PhaseRunning

LEMMA RefineObserve ==
  ASSUME IInv, NEW s \in Streams, NEW v \in Values, Observe(s, v)
  PROVE  Promise!Report(s, v)
<1>1. PhaseMap' = PhaseMap /\ PhaseMap[s] = "running"
  BY WorkerPhase DEF IInv, WorkerNext
<1>2. final_response[s] = None
  BY DEF IInv, WorkerInv, WorkerAt, Observe, Ended
<1>3. ASSUME HasObjective, NEW i \in 1..Len(found[s]) PROVE v < found[s][i]
  <2>1. found[s] \in Seq(Values) /\ Values \subseteq Int
    BY ConstantsAssumption DEF IInv, TypeOK
  <2>2. /\ Len(found[s]) \in 1..Len(found[s])
        /\ found[s][i] \in Int /\ found[s][Len(found[s])] \in Int
        /\ i = Len(found[s]) \/ i < Len(found[s])
    BY <1>3, <2>1, LastElement
  <2>3. v < found[s][Len(found[s])]
    <3>1. found[s] # <<>>
      BY <1>3, NoElements
    <3> QED BY <1>3, <3>1 DEF Observe, Improves
  <2>4. CASE i = Len(found[s])
    BY <2>3, <2>4
  <2>5. CASE i < Len(found[s])
    <3>1. found[s][Len(found[s])] < found[s][i]
      BY <1>3, <2>2, <2>5 DEF IInv, ImprovingInv, Improving
    <3>2. v \in Int
      BY <2>1
    <3> QED BY <2>2, <2>3, <3>1, <3>2
  <2> QED BY <2>2, <2>4, <2>5
<1>4. found' = [found EXCEPT ![s] = Append(@, v)]
      /\ UNCHANGED <<final_response, delivered, outcome, result>>
  BY DEF Observe, callVars
<1> QED
  BY <1>1, <1>2, <1>3, <1>4 DEF Promise!Report, Promise!Running, PhaseMap

LEMMA RefineSearchEnd ==
  ASSUME IInv, NEW s \in Streams, SearchEnd(s)
  PROVE  \E r \in Values \cup {NoSolution} : Promise!End(s, r)
<1>1. PhaseMap' = PhaseMap /\ PhaseMap[s] = "running"
  BY WorkerPhase DEF IInv, WorkerNext
<1>2. PICK r \in BestOf(found[s]) : final_response' = [final_response EXCEPT ![s] = r]
  BY DEF SearchEnd
<1>3. final_response[s] = None
  BY DEF IInv, WorkerInv, WorkerAt, SearchEnd, Ended
<1>4. found[s] \in Seq(Values) /\ Values \subseteq Int
  BY ConstantsAssumption DEF IInv, TypeOK
<1>5. r \in Values \cup {NoSolution} /\ Promise!IsBest(r, found[s])
  <2>1. CASE found[s] = <<>>
    BY <1>2, <2>1 DEF BestOf, Promise!IsBest
  <2>2. ASSUME found[s] # <<>>, ~HasObjective
        PROVE  r \in Values /\ Promise!IsBest(r, found[s])
    <3>1. PICK i \in 1..Len(found[s]) : r = found[s][i]
      BY <1>2, <2>2 DEF BestOf
    <3>2. r \in Values
      BY <1>4, <3>1
    <3> QED BY <2>2, <3>1, <3>2 DEF Promise!IsBest
  <2>3. ASSUME found[s] # <<>>, HasObjective
        PROVE  r \in Values /\ Promise!IsBest(r, found[s])
    <3>1. r = found[s][Len(found[s])]
      BY <1>2, <2>3 DEF BestOf
    <3>2. Len(found[s]) \in 1..Len(found[s])
      <4>1. Len(found[s]) \in Nat /\ Len(found[s]) # 0
        BY <1>4, <2>3, EmptySeq
      <4> QED BY <4>1
    <3>3. ASSUME NEW i \in 1..Len(found[s]) PROVE r <= found[s][i]
      <4>1. /\ found[s][i] \in Int /\ r \in Int
            /\ i = Len(found[s]) \/ i < Len(found[s])
        BY <1>4, <3>1, <3>3, LastElement
      <4>2. i < Len(found[s]) => r < found[s][i]
        BY <2>3, <3>1, <3>2 DEF IInv, ImprovingInv, Improving
      <4> QED BY <3>1, <4>1, <4>2
    <3>4. r \in Values
      BY <1>4, <3>1, <3>2
    <3> QED BY <2>3, <3>1, <3>2, <3>3, <3>4 DEF Promise!IsBest
  <2> QED BY <2>1, <2>2, <2>3, <1>2 DEF BestOf
<1>6. UNCHANGED <<found, delivered, outcome, result>>
  BY DEF SearchEnd, callVars
<1> QED
  BY <1>1, <1>2, <1>3, <1>5, <1>6 DEF Promise!End, Promise!Running, PhaseMap

LEMMA RefineWorker ==
  ASSUME IInv, NEW s \in Streams, WorkerNext(s)
  PROVE  Promise!Next \/ UNCHANGED Promise!vars
<1>1. CASE \E v \in Values : Observe(s, v)
  BY <1>1, RefineObserve DEF Promise!Next
<1>2. CASE SearchEnd(s)
  BY <1>2, RefineSearchEnd DEF Promise!Next
<1>3. ASSUME ~(\E v \in Values : Observe(s, v)), ~SearchEnd(s)
      PROVE  UNCHANGED Promise!vars
  <2>1. UNCHANGED <<delivered, outcome, result>> /\ PhaseMap' = PhaseMap
    BY WorkerFrame, WorkerPhase DEF IInv
  <2>2. UNCHANGED <<found, final_response>>
    BY <1>3 DEF WorkerNext, Register, ObserverNotify, Unregister, Publish, NotifyDone, Exit
  <2> QED BY <2>1, <2>2 DEF Promise!vars, PhaseMap
<1> QED BY <1>1, <1>2, <1>3

-----------------------------------------------------------------------------
(* The call: starting, delivering, completing, failing and returning are seen; *)
(* waiting, waking and the finalizer's steps are not.                          *)

LEMMA CallPhase ==
  ASSUME TypeOK, NEW s \in Streams, CallNext(s),
         pc[s] # "idle", pc'[s] # "returned"
  PROVE  PhaseMap' = PhaseMap /\ PhaseMap[s] = "running"
<1>1. pc[s] \notin {"idle", "returned"} /\ pc'[s] \notin {"idle", "returned"}
  BY CallFrame
<1>2. ASSUME NEW r \in Streams PROVE PhaseKept(r)
  <2>1. CASE r = s
    BY <1>1, <2>1 DEF PhaseKept, Phase
  <2>2. CASE r # s
    BY <2>2, CallFrame DEF PhaseKept, Phase, Tasks
  <2> QED BY <2>1, <2>2
<1> QED BY <1>1, <1>2, PhaseStutter, PhaseRunning

LEMMA RefineStart ==
  ASSUME IInv, NEW s \in Streams, StreamStart(s)
  PROVE  Promise!Start(s)
<1>1. pc[s] = "idle" /\ pc'[s] = "next"
  BY DEF StreamStart, Goto, IInv, TypeOK, Tasks
<1>2. \A r \in Streams \ {s} : PhaseKept(r)
  BY CallFrame DEF IInv, CallNext, PhaseKept, Phase, Tasks
<1>3. PhaseMap' = [PhaseMap EXCEPT ![s] = "running"] /\ PhaseMap[s] = "idle"
  BY <1>1, <1>2, PhaseMove DEF Phase, PhaseMap
<1>4. UNCHANGED <<found, final_response, delivered, outcome, result>>
  BY DEF StreamStart
<1> QED BY <1>3, <1>4 DEF Promise!Start, PhaseMap

LEMMA RefineReturn ==
  ASSUME IInv, NEW s \in Streams, FinalizeJoin(s)
  PROVE  Promise!Return(s)
<1>1. pc[s] = "join" /\ pc'[s] = "returned" /\ wpc[s] = "exited"
  BY DEF FinalizeJoin, Goto, IInv, TypeOK, Tasks
<1>2. \A r \in Streams \ {s} : PhaseKept(r)
  BY CallFrame DEF IInv, CallNext, FinalizeNext, PhaseKept, Phase, Tasks
<1>3. PhaseMap' = [PhaseMap EXCEPT ![s] = "returned"] /\ PhaseMap[s] = "running"
  BY <1>1, <1>2, PhaseMove DEF Phase, PhaseMap
<1>4. outcome[s] # "pending"
  BY <1>1 DEF IInv, OutcomeInv, OutcomeAt, Pulling
<1>5. final_response[s] # None
  BY <1>1 DEF IInv, WorkerInv, WorkerAt, Ended
<1>6. UNCHANGED <<found, final_response, delivered, outcome, result>>
  BY DEF FinalizeJoin, searchVars
<1> QED BY <1>3, <1>4, <1>5, <1>6 DEF Promise!Return, Promise!Running, PhaseMap

LEMMA RefineDeliver ==
  ASSUME IInv, NEW s \in Streams, NextImproving(s)
  PROVE  Promise!Deliver(s)
<1>1. pc[s] = "next" /\ pc'[s] = "callback"
  BY DEF NextImproving, Goto, IInv, TypeOK, Tasks
<1>2. PhaseMap' = PhaseMap /\ PhaseMap[s] = "running"
  BY <1>1, CallPhase DEF IInv, CallNext, PullNext
<1>3. /\ outcome[s] = "pending" /\ Undelivered(s) > 0
      /\ Head(queue[s]).value = found[s][Len(delivered[s]) + 1]
  BY QueueHead DEF NextImproving, IInv
<1>4. Len(delivered[s]) < Len(found[s])
  <2>1. Len(delivered[s]) \in Nat /\ Len(found[s]) \in Nat
    BY DEF IInv, TypeOK
  <2>2. Len(found[s]) - Len(delivered[s]) > 0
    BY <1>3 DEF Undelivered
  <2> QED BY <2>1, <2>2, NextIndex
<1>5. /\ delivered' = [delivered EXCEPT ![s] = Append(@, found[s][Len(@) + 1])]
      /\ UNCHANGED <<found, final_response, outcome, result>>
  BY <1>3 DEF NextImproving, searchVars
<1> QED BY <1>2, <1>3, <1>4, <1>5 DEF Promise!Deliver, Promise!Running, PhaseMap

LEMMA RefineComplete ==
  ASSUME IInv, NEW s \in Streams, NextDone(s)
  PROVE  Promise!Complete(s)
<1>1. pc[s] = "next" /\ pc'[s] = "drop"
  BY DEF NextDone, Goto, IInv, TypeOK, Tasks
<1>2. PhaseMap' = PhaseMap /\ PhaseMap[s] = "running"
  BY <1>1, CallPhase DEF IInv, CallNext, PullNext
<1>3. /\ outcome[s] = "pending" /\ finished[s] /\ delivered[s] = found[s]
      /\ Head(queue[s]).value = final_response[s]
  BY QueueHead DEF NextDone, IInv
<1>4. final_response[s] # None
  BY <1>3 DEF IInv, WorkerInv, WorkerAt, Published, Ended
<1>5. /\ outcome' = [outcome EXCEPT ![s] = "final"]
      /\ result' = [result EXCEPT ![s] = final_response[s]]
      /\ UNCHANGED <<found, final_response, delivered>>
  BY <1>3 DEF NextDone, searchVars
<1> QED BY <1>2, <1>3, <1>4, <1>5 DEF Promise!Complete, Promise!Running, PhaseMap

LEMMA RefineFail ==
  ASSUME IInv, NEW s \in Streams, NextUndecodable(s) \/ NextError(s) \/ CallbackThrow(s)
  PROVE  \E why \in {"undecodable", "thrown", "finished_error"} : Promise!Fail(s, why)
<1>1. pc[s] # "idle" /\ pc'[s] = "drop"
  BY DEF NextUndecodable, NextError, CallbackThrow, Goto, IInv, TypeOK, Tasks
<1>2. PhaseMap' = PhaseMap /\ PhaseMap[s] = "running"
  BY <1>1, CallPhase DEF IInv, CallNext, PullNext
<1>3. UNCHANGED <<found, final_response, delivered, result>>
  BY DEF NextUndecodable, NextError, CallbackThrow, searchVars
<1> USE <1>2, <1>3 DEF Promise!Fail, Promise!Running, PhaseMap
<1>4. CASE NextUndecodable(s)
  <2>1. outcome[s] = "pending"
    BY <1>4 DEF NextUndecodable, IInv, TypeOK, Outcomes, OutcomeInv, OutcomeAt, Dropping,
       QueueInv, QueueAt, AllDelivered
  <2>2. Promise!Fail(s, "undecodable")
    BY <1>4, <2>1 DEF NextUndecodable
  <2> QED BY <2>2
<1>5. CASE NextError(s)
  <2>1. outcome[s] = "final"
    <3>1. outcome[s] \in {"pending", "final"}
      BY <1>5 DEF NextError, IInv, TypeOK, Outcomes, OutcomeInv, OutcomeAt, Dropping
    <3>2. ASSUME outcome[s] = "pending" PROVE FALSE
      <4>1. DeliveredPrefix(s) /\ QueueHoldsRest(s) /\ finished[s] /\ Len(queue[s]) = 0
        BY <1>5, <3>2, NoElements DEF NextError, IInv, QueueInv, QueueAt
      <4>2. /\ Len(delivered[s]) \in Nat /\ Len(found[s]) \in Nat
            /\ Len(delivered[s]) <= Len(found[s])
        BY <4>1 DEF IInv, TypeOK, DeliveredPrefix
      <4>3. (Len(found[s]) - Len(delivered[s])) + 1 = 0
        BY <4>1 DEF QueueHoldsRest, Undelivered
      <4> QED BY <4>2, <4>3, NothingLeft
    <3> QED BY <3>1, <3>2
  <2>2. Promise!Fail(s, "finished_error")
    BY <1>5, <2>1 DEF NextError
  <2> QED BY <2>2
<1>6. CASE CallbackThrow(s)
  <2>1. outcome[s] = "pending"
    BY <1>6 DEF CallbackThrow, IInv, TypeOK, Outcomes, OutcomeInv, OutcomeAt, Dropping
  <2>2. Promise!Fail(s, "thrown")
    BY <1>6, <2>1 DEF CallbackThrow
  <2> QED BY <2>2
<1> QED BY <1>4, <1>5, <1>6

LEMMA RefineCall ==
  ASSUME IInv, NEW s \in Streams, CallNext(s)
  PROVE  Promise!Next \/ UNCHANGED Promise!vars
<1>1. CASE StreamStart(s) \/ FinalizeJoin(s)
  BY <1>1, RefineStart, RefineReturn DEF Promise!Next
<1>2. CASE NextImproving(s) \/ NextDone(s)
  BY <1>2, RefineDeliver, RefineComplete DEF Promise!Next
<1>3. CASE NextUndecodable(s) \/ NextError(s) \/ CallbackThrow(s)
  BY <1>3, RefineFail DEF Promise!Next
<1>4. ASSUME \/ NextWait(s) \/ SpuriousWakeup(s) \/ CallbackReturn(s) \/ PullAgain(s)
             \/ FinalizeCheck(s) \/ FinalizeLock(s) \/ FinalizeBody(s)
      PROVE  UNCHANGED Promise!vars
  <2>1. /\ pc[s] # "idle" /\ pc'[s] # "returned"
        /\ UNCHANGED <<delivered, outcome, result>>
    BY <1>4 DEF NextWait, SpuriousWakeup, CallbackReturn, PullAgain, FinalizeCheck,
       FinalizeLock, FinalizeBody, Goto, IInv, TypeOK, Tasks
  <2>2. PhaseMap' = PhaseMap /\ UNCHANGED <<found, final_response>>
    BY <2>1, CallPhase, CallFrame DEF IInv
  <2> QED BY <2>1, <2>2 DEF Promise!vars, PhaseMap
<1> QED BY <1>1, <1>2, <1>3, <1>4 DEF CallNext, PullNext, FinalizeNext

-----------------------------------------------------------------------------
(* Stopping the token is invisible to the callers of its streams.              *)

LEMMA RefineToken ==
  ASSUME IInv, NEW t \in Tasks, TokenNext(t)
  PROVE  UNCHANGED Promise!vars
<1>1. UNCHANGED <<found, final_response, delivered, outcome, result>>
  BY TokenFrame DEF IInv
<1>2. ASSUME NEW s \in Streams PROVE PhaseKept(s)
  <2>1. s \notin Stoppers /\ s \in Tasks
    BY ConstantsAssumption DEF Tasks
  <2> QED BY <2>1, TokenFrame DEF IInv, PhaseKept, Phase
<1> QED BY <1>1, <1>2, PhaseStutter DEF Promise!vars, PhaseMap

LEMMA RefineStep == IInv /\ [Next]_vars => [Promise!Next]_(Promise!vars)
<1>1. CASE IInv /\ UNCHANGED vars
  <2>1. PhaseMap' = PhaseMap /\ UNCHANGED <<found, final_response, delivered, outcome, result>>
    BY <1>1 DEF vars, callVars, searchVars, PhaseMap, Phase
  <2> QED BY <2>1 DEF Promise!vars, PhaseMap
<1>2. CASE IInv /\ Next
  BY <1>1, <1>2, RefineWorker, RefineCall, RefineToken DEF Next, Terminated
<1> QED BY <1>1, <1>2

(* solveWithResultCallback keeps its promise through every interleaving of the *)
(* background threads, the queues, the token and the finalizers.               *)
THEOREM Refinement == Spec => KeepsPromise
<1>1. Init => Promise!Init
  BY RefineInit
<1>2. IInv /\ [Next]_vars => [Promise!Next]_(Promise!vars)
  BY RefineStep
<1> QED BY <1>1, <1>2, Invariance, PTL DEF Spec, KeepsPromise, Promise!Spec

=============================================================================
