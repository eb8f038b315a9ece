----------------------- MODULE ResponseManager_proofs -----------------------
(***************************************************************************)
(* Proofs about ResponseManager, for every set of workers, every domain    *)
(* and every gap limit: the bounds are valid, the status is true, and      *)
(* observers see the improving search of ImprovingSearch.                  *)
(***************************************************************************)
EXTENDS ResponseManager, TLAPS

-----------------------------------------------------------------------------
(* Operators.                                                                  *)

LEMMA Updated ==
  ASSUME NEW D, NEW S, NEW f \in [D -> S], NEW d \in D, NEW e \in S
  PROVE  /\ [f EXCEPT ![d] = e] \in [D -> S]
         /\ [f EXCEPT ![d] = e][d] = e
         /\ \A c \in D : c # d => [f EXCEPT ![d] = e][c] = f[c]
OBVIOUS

LEMMA AppendLast ==
  ASSUME NEW q \in Seq(Int), NEW e \in Int
  PROVE  /\ Append(q, e) \in Seq(Int)
         /\ Append(q, e) # <<>>
         /\ Append(q, e)[Len(Append(q, e))] = e
OBVIOUS

LEMMA LesserOf ==
  ASSUME NEW a \in Int, NEW b \in Int
  PROVE  /\ Lesser(a, b) \in Int /\ Lesser(a, b) <= a /\ Lesser(a, b) <= b
         /\ Lesser(a, b) = a \/ Lesser(a, b) = b
BY DEF Lesser

LEMMA GreaterOf ==
  ASSUME NEW a \in Int, NEW b \in Int
  PROVE  /\ Greater(a, b) \in Int /\ Greater(a, b) >= a /\ Greater(a, b) >= b
         /\ Greater(a, b) = a \/ Greater(a, b) = b
BY DEF Greater

(* A value between the bound and the best is closer than the bound.            *)
LEMMA CloserThanBound ==
  ASSUME NEW value \in Int, NEW low \in Int, NEW f \in Int,
         low <= f, f <= value, CloseTo(value, low)
  PROVE  CloseTo(value, f)
<1> DEFINE allowed == RelativeGap * Greater(1, Distance(value, 0))
<1>1. allowed \in Int
  <2>1. Greater(1, Distance(value, 0)) \in Int
    BY DEF Greater, Distance
  <2> QED BY <2>1, ManagerAssumption
<1>2. Distance(value, low) = value - low /\ Distance(value, f) = value - f
  BY DEF Distance
<1>3. AbsoluteGap \in Int
  BY ManagerAssumption
<1>4. value - low <= AbsoluteGap \/ 100 * (value - low) < allowed
  BY <1>2 DEF CloseTo
<1> HIDE DEF allowed
<1>5. value - f <= AbsoluteGap \/ 100 * (value - f) < allowed
  BY <1>1, <1>3, <1>4
<1> QED BY <1>2, <1>5 DEF CloseTo, allowed

(* What the manager keeps and promises, whatever its workers do.               *)
ManagerType ==
  /\ lb \in Int /\ ub \in Int /\ best \in Int /\ sync_lb \in Int /\ sync_ub \in Int
  /\ pool \in Int /\ added \in Int /\ status \in Statuses /\ sync_status \in Statuses
  /\ reported \in Seq(Int) /\ stopped \in BOOLEAN

ManagerInv ==
  /\ ManagerType
  /\ feasible \subseteq MinValue..MaxValue
  /\ BoundsAreValid
  /\ BestIsKnown
  /\ StatusIsTrue
  /\ PoolHasBest

WorkerInv ==
  /\ pc \in [Workers -> {"search", "import", "synchronize", "done"}]
  /\ worker_lb \in [Workers -> Int] /\ worker_ub \in [Workers -> Int]
  /\ exported \in [Workers -> Int]
  /\ WorkersAreValid

AnswerInv ==
  /\ answer # None => \A w \in Workers : pc[w] = "done"
  /\ ResponseIsConsistent

LEMMA Values ==
  ASSUME feasible \subseteq MinValue..MaxValue
  PROVE  \A f \in feasible : f \in Int /\ f >= MinValue /\ f < PosInf
BY ManagerAssumption

LEMMA Parts == IInv <=> ManagerInv /\ WorkerInv /\ AnswerInv
<1>1. MinValue..MaxValue \subseteq Int
  OBVIOUS
<1> QED
  BY <1>1 DEF IInv, TypeOK, ManagerInv, ManagerType, WorkerInv, AnswerInv

LEMMA PartsNext == IInv' <=> ManagerInv' /\ WorkerInv' /\ AnswerInv'
<1>1. MinValue..MaxValue \subseteq Int
  OBVIOUS
<1> QED
  BY <1>1 DEF IInv, TypeOK, ManagerInv, ManagerType, WorkerInv, AnswerInv

(* The status left by TestGapLimitsIfNeeded or by bounds that crossed.         *)
LEMMA SetStatusCases ==
  ASSUME stopped \in BOOLEAN, NEW low, NEW up, NEW value,
         NEW crossed \in Statuses, NEW open \in Statuses,
         SetStatus(low, up, value, crossed, open)
  PROVE  /\ status' \in Statuses /\ stopped' \in BOOLEAN
         /\ sync_status' = status' \/ sync_status' = sync_status
         /\ \/ low > up /\ status' = crossed
            \/ ~(low > up) /\ GapIsClosed(value, low) /\ status' = "OPTIMAL"
            \/ ~(low > up) /\ ~GapIsClosed(value, low) /\ status' = open
BY Zenon DEF SetStatus, UpdateBestStatus, Statuses

-----------------------------------------------------------------------------
(* The manager's operations.                                                   *)

LEMMA UpdateKeeps ==
  ASSUME ManagerInv, NEW l \in Int, NEW u \in Int,
         \A f \in feasible : f \in l..u \/ f >= best,
         UpdateInnerObjectiveBounds(l, u),
         UNCHANGED <<feasible, poolVars, reported>>
  PROVE  ManagerInv' /\ best' = best
<1> USE DEF ManagerInv, ManagerType
<1>1. \A f \in feasible : f \in Int /\ f >= MinValue /\ f < PosInf
  BY Values
<1>2. CASE UNCHANGED <<boundVars, syncVars>>
  <2>1. UNCHANGED <<feasible, lb, ub, best, status, stopped, sync_lb, sync_ub, sync_status, pool, added, reported>>
    BY <1>2 DEF boundVars, syncVars, poolVars
  <2> QED
    BY <2>1 DEF BoundsAreValid, BestIsKnown, StatusIsTrue, PoolHasBest,
                Globally, Improving, HasSolution
<1>3. CASE ~UNCHANGED <<boundVars, syncVars>>
  <2> DEFINE crossed == IF HasSolution THEN "OPTIMAL" ELSE "INFEASIBLE"
  <2>1. /\ lb' = IF l > lb THEN Lesser(best, l) ELSE lb
        /\ ub' = Lesser(ub, u)
        /\ sync_lb' = lb' \/ sync_lb' = sync_lb
        /\ sync_ub' = ub' \/ sync_ub' = sync_ub
        /\ SetStatus(lb', ub', best, crossed, status)
        /\ best' = best
    BY <1>3 DEF UpdateInnerObjectiveBounds, CappedBound, boundVars
  <2>2. UNCHANGED <<feasible, pool, added, reported>>
    BY DEF poolVars
  <2>3. /\ lb' \in Int /\ ub' \in Int
        /\ ub' <= ub /\ ub' <= u
        /\ ub' = ub \/ ub' = u
        /\ lb' = lb \/ (lb' <= best /\ lb' <= l)
    BY <2>1, LesserOf
  <2>4. crossed \in Statuses
    BY DEF Statuses
  <2>5. /\ status' \in Statuses /\ stopped' \in BOOLEAN
        /\ sync_status' = status' \/ sync_status' = sync_status
        /\ \/ lb' > ub' /\ status' = crossed
           \/ ~(lb' > ub') /\ GapIsClosed(best, lb') /\ status' = "OPTIMAL"
           \/ ~(lb' > ub') /\ ~GapIsClosed(best, lb') /\ status' = status
    <3> HIDE DEF crossed
    <3> QED BY <2>1, <2>4, SetStatusCases
  <2>6. ManagerType'
    BY <2>1, <2>2, <2>3, <2>5
  <2>7. \A f \in feasible : (f >= lb' /\ (f <= ub' \/ f >= best))
    <3> SUFFICES ASSUME NEW f \in feasible PROVE f >= lb' /\ (f <= ub' \/ f >= best)
      OBVIOUS
    <3>1. f \in Int /\ f >= lb /\ (f <= ub \/ f >= best) /\ ((l <= f /\ f <= u) \/ f >= best)
      BY <1>1 DEF BoundsAreValid, Globally, Improving
    <3> QED BY <3>1, <2>3
  <2>8. BoundsAreValid'
    BY <2>1, <2>2, <2>7 DEF BoundsAreValid, Globally, Improving
  <2>9. HasSolution <=> HasSolution'
    <3>1. CASE GapIsClosed(best, lb')
      BY <3>1, <2>5 DEF GapIsClosed, HasSolution, BestIsKnown
    <3>2. CASE ~GapIsClosed(best, lb')
      BY <3>2, <2>5 DEF HasSolution
    <3> QED BY <3>1, <3>2
  <2>10. BestIsKnown'
    BY <2>9, <2>1, <2>2, <2>3 DEF BestIsKnown
  <2>11. StatusIsTrue'
    <3>1. ASSUME status' = "INFEASIBLE" PROVE feasible = {}
      <4>1. CASE status = "INFEASIBLE"
        BY <4>1 DEF StatusIsTrue
      <4>2. CASE status # "INFEASIBLE"
        <5>1. lb' > ub' /\ ~HasSolution
          BY <2>5, <3>1, <4>2
        <5>2. best = PosInf
          BY <5>1 DEF BestIsKnown
        <5> QED BY <5>1, <5>2, <2>7, <1>1, <2>3
      <4> QED BY <4>1, <4>2
    <3>2. ASSUME status' = "OPTIMAL", NEW f \in feasible PROVE f >= best \/ CloseTo(best, f)
      <4>1. CASE lb' > ub'
        BY <4>1, <2>7, <2>3, <1>1
      <4>2. CASE GapIsClosed(best, lb')
        BY <4>2, <2>7, <2>3, <1>1, CloserThanBound DEF GapIsClosed
      <4>3. CASE status = "OPTIMAL"
        BY <4>3 DEF StatusIsTrue
      <4> QED BY <4>1, <4>2, <4>3, <2>5, <3>2
    <3>3. sync_status' = "INFEASIBLE" => feasible = {}
      BY <3>1, <2>5 DEF StatusIsTrue
    <3>4. sync_status' = "OPTIMAL" => HasSolution'
      BY <2>9, <2>5 DEF StatusIsTrue, HasSolution
    <3> QED BY <3>1, <3>2, <3>3, <3>4, <2>1, <2>2 DEF StatusIsTrue
  <2>12. PoolHasBest'
    BY <2>1, <2>2 DEF PoolHasBest, always_synchronize
  <2> QED BY <2>6, <2>8, <2>10, <2>11, <2>12, <2>1, <2>2
<1> QED BY <1>2, <1>3 DEF boundVars

LEMMA NotifyKeeps ==
  ASSUME ManagerInv, \A f \in feasible : f >= best,
         NotifyThatImprovingProblemIsInfeasible,
         UNCHANGED <<feasible, poolVars, reported>>
  PROVE  ManagerInv' /\ best' = best
<1> USE DEF ManagerInv, ManagerType
<1>1. \A f \in feasible : f \in Int /\ f >= MinValue /\ f < PosInf
  BY Values
<1>2. /\ status' = IF HasSolution THEN "OPTIMAL" ELSE "INFEASIBLE"
      /\ sync_status' = status' \/ sync_status' = sync_status
      /\ lb' = IF HasSolution THEN best ELSE lb
      /\ stopped' \in BOOLEAN
      /\ UNCHANGED <<ub, best, sync_lb, sync_ub, feasible, pool, added, reported>>
  <2>1. stopped' \in BOOLEAN
    BY Zenon DEF NotifyThatImprovingProblemIsInfeasible
  <2> QED BY <2>1 DEF NotifyThatImprovingProblemIsInfeasible, UpdateBestStatus, poolVars
<1>3. ~HasSolution => feasible = {}
  BY <1>1 DEF BestIsKnown
<1>4. ManagerType'
  BY <1>2 DEF Statuses
<1>5. BoundsAreValid'
  BY <1>2 DEF BoundsAreValid, Globally, Improving
<1>6. HasSolution <=> HasSolution'
  BY <1>2 DEF HasSolution
<1>7. BestIsKnown'
  BY <1>2, <1>6 DEF BestIsKnown
<1>8. StatusIsTrue'
  BY <1>2, <1>3, <1>6 DEF StatusIsTrue, HasSolution
<1>9. PoolHasBest'
  BY <1>2 DEF PoolHasBest, always_synchronize
<1> QED BY <1>2, <1>4, <1>5, <1>7, <1>8, <1>9

LEMMA SynchronizeKeeps ==
  ASSUME ManagerInv, Synchronize, UNCHANGED <<feasible, boundVars, reported>>
  PROVE  ManagerInv' /\ best' = best /\ pool' = best
<1> USE DEF ManagerInv, ManagerType
<1>1. /\ pool' = best /\ added' = PosInf
      /\ sync_lb' = lb /\ sync_ub' = ub /\ sync_status' = status
      /\ UNCHANGED <<feasible, lb, ub, best, status, stopped, reported>>
  BY DEF Synchronize, MergePool, boundVars, PoolHasBest
<1>2. PosInf \in Int
  BY ManagerAssumption
<1>3. ManagerType'
  BY <1>1, <1>2
<1>4. BoundsAreValid'
  BY <1>1 DEF BoundsAreValid, Globally, Improving
<1>5. BestIsKnown'
  BY <1>1 DEF BestIsKnown, HasSolution
<1>6. StatusIsTrue'
  BY <1>1 DEF StatusIsTrue, HasSolution
<1>7. PoolHasBest'
  <2>1. best <= PosInf
    BY <1>2, Values DEF BestIsKnown
  <2> QED BY <2>1, <1>1, <1>2 DEF PoolHasBest, Lesser
<1> QED BY <1>1, <1>3, <1>4, <1>5, <1>6, <1>7

(* A new solution is reported exactly when it is better than the best.         *)
LEMMA NewSolutionKeeps ==
  ASSUME ManagerInv, NEW v \in feasible, NewSolution(v), UNCHANGED feasible
  PROVE  /\ ManagerInv'
         /\ best' <= best /\ best' <= v
         /\ \/ UNCHANGED <<best, status, reported>>
            \/ /\ v < best
               /\ reported' = Append(reported, v)
<1> USE DEF ManagerInv, ManagerType
<1>1. \A f \in feasible : f \in Int /\ f >= MinValue /\ f < PosInf
  BY Values
<1>2. PosInf \in Int /\ v \in Int
  BY ManagerAssumption, <1>1
<1>3. Lesser(added, v) \in Int /\ Lesser(added, v) <= v /\ Lesser(added, v) <= added
  BY <1>2, LesserOf
<1>4. CASE ~Improves(v)
  <2>1. /\ added' = Lesser(added, v)
        /\ UNCHANGED <<feasible, lb, ub, best, status, stopped, sync_lb, sync_ub, sync_status, pool, reported>>
    BY <1>4 DEF NewSolution, boundVars, syncVars
  <2>2. v >= best
    BY <1>2, <1>4 DEF BoundsAreValid, Improving, Improves
  <2>3. PoolHasBest'
    BY <1>2, <2>1, <2>2 DEF PoolHasBest, Lesser, always_synchronize
  <2>4. ManagerType' /\ BoundsAreValid' /\ BestIsKnown' /\ StatusIsTrue'
    BY <1>3, <2>1 DEF BoundsAreValid, Globally, Improving, BestIsKnown, StatusIsTrue, HasSolution
  <2> QED BY <2>1, <2>2, <2>3, <2>4
<1>5. CASE Improves(v)
  <2>1. /\ best' = v /\ ub' = v - 1 /\ reported' = Append(reported, v)
        /\ SetStatus(lb, ub', v, "OPTIMAL", "FEASIBLE")
        /\ UNCHANGED <<feasible, lb, sync_lb, sync_ub>>
    BY <1>5 DEF NewSolution, UpperBoundBelow
  <2>2. /\ status' \in Statuses /\ stopped' \in BOOLEAN
        /\ sync_status' = status' \/ sync_status' = sync_status
        /\ \/ lb > ub' /\ status' = "OPTIMAL"
           \/ ~(lb > ub') /\ GapIsClosed(v, lb) /\ status' = "OPTIMAL"
           \/ ~(lb > ub') /\ ~GapIsClosed(v, lb) /\ status' = "FEASIBLE"
    BY <2>1, SetStatusCases DEF Statuses
  <2>3. v < best
    BY <1>2, <1>5 DEF Improves, BestIsKnown
  <2>4. /\ Append(reported, v) \in Seq(Int) /\ Append(reported, v) # <<>>
        /\ Append(reported, v)[Len(Append(reported, v))] = v
    BY <1>2, AppendLast
  <2>5. pool' \in Int /\ added' \in Int /\ PoolHasBest'
    <3>1. CASE always_synchronize
      <4>1. pool' = Lesser(pool, Lesser(added, v)) /\ added' = PosInf
        BY <1>5, <3>1 DEF NewSolution, MergePool
      <4> QED
        BY <4>1, <1>1, <1>2, <2>1, <2>3 DEF PoolHasBest, Lesser
    <3>2. CASE ~always_synchronize
      <4>1. pool' = pool /\ added' = Lesser(added, v)
        BY <1>5, <3>2 DEF NewSolution
      <4> QED
        BY <4>1, <3>2, <1>2, <2>1, <2>3 DEF PoolHasBest, Lesser, always_synchronize
    <3> QED BY <3>1, <3>2
  <2>6. ManagerType'
    BY <1>2, <2>1, <2>2, <2>4, <2>5
  <2>7. BoundsAreValid'
    <3>1. \A f \in feasible : f <= v - 1 \/ f >= v
      BY <1>1, <1>2
    <3>2. \A f \in feasible : f <= sync_ub \/ f >= v
      BY <1>1, <1>2, <2>3 DEF BoundsAreValid, Improving
    <3> QED BY <3>1, <3>2, <2>1 DEF BoundsAreValid, Globally, Improving
  <2>8. HasSolution'
    BY <2>2 DEF HasSolution
  <2>9. BestIsKnown'
    <3>1. v \in feasible' /\ lb <= v
      BY <2>1 DEF BoundsAreValid, Globally
    <3> QED BY <3>1, <2>1, <2>4, <2>8, <1>2 DEF BestIsKnown
  <2>10. StatusIsTrue'
    <3>1. ASSUME status' = "OPTIMAL", NEW f \in feasible PROVE f >= v \/ CloseTo(v, f)
      <4>1. f \in Int /\ f >= lb
        BY <1>1 DEF BoundsAreValid, Globally
      <4>2. CASE lb > ub'
        BY <4>1, <4>2, <2>1, <1>2
      <4>3. CASE GapIsClosed(v, lb)
        <5>1. lb \in Int /\ CloseTo(v, lb)
          BY <4>3 DEF GapIsClosed
        <5>2. f <= v => CloseTo(v, f)
          BY <5>1, <4>1, <1>2, CloserThanBound
        <5> QED BY <5>2, <4>1, <1>2
      <4> QED BY <4>2, <4>3, <2>2, <3>1
    <3>2. status' # "INFEASIBLE"
      BY <2>8 DEF HasSolution
    <3>3. sync_status' = "INFEASIBLE" => feasible = {}
      BY <2>2, <3>2 DEF StatusIsTrue
    <3> QED BY <3>1, <3>2, <3>3, <2>1, <2>8 DEF StatusIsTrue
  <2> QED BY <2>1, <2>3, <2>5, <2>6, <2>7, <2>9, <2>10, <1>2
<1> QED BY <1>4, <1>5

-----------------------------------------------------------------------------
(* The invariant.                                                              *)

LEMMA InitKeeps == Init => IInv
<1> SUFFICES ASSUME Init PROVE ManagerInv /\ WorkerInv /\ AnswerInv
  BY Parts
<1> USE ManagerAssumption DEF Init
<1>1. ManagerType
  <2>1. <<>> \in Seq(Int)
    OBVIOUS
  <2> QED BY <2>1 DEF ManagerType, Statuses, always_synchronize
<1>2. BoundsAreValid /\ BestIsKnown
  BY DEF BoundsAreValid, Globally, Improving, BestIsKnown, HasSolution
<1>3. StatusIsTrue /\ PoolHasBest
  BY DEF StatusIsTrue, PoolHasBest, Lesser
<1>4. WorkerInv
  BY DEF WorkerInv, WorkersAreValid
<1>5. AnswerInv
  BY DEF AnswerInv, ResponseIsConsistent
<1> QED BY <1>1, <1>2, <1>3, <1>4, <1>5 DEF ManagerInv

LEMMA ManagerUnchanged ==
  ASSUME ManagerInv, UNCHANGED <<feasible, managerVars>>
  PROVE  ManagerInv'
<1>1. UNCHANGED <<feasible, lb, ub, best, status, stopped, sync_lb, sync_ub,
                  sync_status, pool, added, reported>>
  BY DEF managerVars, boundVars, syncVars, poolVars
<1> QED
  BY <1>1 DEF ManagerInv, ManagerType, BoundsAreValid, Globally, Improving, BestIsKnown,
              StatusIsTrue, PoolHasBest, HasSolution, always_synchronize

(* A worker that is not done moves: no answer has been given.                  *)
LEMMA NoAnswerYet ==
  ASSUME IInv, NEW w \in Workers, pc[w] # "done", UNCHANGED answer
  PROVE  answer = None /\ AnswerInv'
BY Parts DEF AnswerInv, ResponseIsConsistent

(* What a worker has left to search stays enough when its bounds only lose     *)
(* values that are no solution or no improvement, and the best only improves.  *)
LEMMA WorkerMoves ==
  ASSUME WorkerInv, feasible \subseteq MinValue..MaxValue, UNCHANGED feasible,
         NEW w \in Workers, NEW lo \in Int, NEW hi \in Int,
         best \in Int, best' \in Int, best' <= best,
         pc' \in [Workers -> {"search", "import", "synchronize", "done"}],
         exported' \in [Workers -> Int],
         worker_lb' = [worker_lb EXCEPT ![w] = lo],
         worker_ub' = [worker_ub EXCEPT ![w] = hi],
         \A f \in feasible : f \in worker_lb[w]..worker_ub[w] => f \in lo..hi \/ f >= best'
  PROVE  WorkerInv'
<1> USE DEF WorkerInv
<1>1. /\ worker_lb' \in [Workers -> Int] /\ worker_lb'[w] = lo
      /\ \A c \in Workers : c # w => worker_lb'[c] = worker_lb[c]
  BY Updated
<1>2. /\ worker_ub' \in [Workers -> Int] /\ worker_ub'[w] = hi
      /\ \A c \in Workers : c # w => worker_ub'[c] = worker_ub[c]
  BY Updated
<1>3. WorkersAreValid'
  <2> SUFFICES ASSUME NEW c \in Workers, NEW f \in feasible
               PROVE  f \in worker_lb'[c]..worker_ub'[c] \/ f >= best'
    BY DEF WorkersAreValid
  <2>1. f \in Int
    BY Values
  <2>2. f \in worker_lb[c]..worker_ub[c] \/ f >= best
    BY DEF WorkersAreValid
  <2>3. f >= best => f >= best'
    BY <2>1
  <2>4. CASE c = w
    BY <1>1, <1>2, <2>2, <2>3, <2>4
  <2>5. CASE c # w
    BY <1>1, <1>2, <2>2, <2>3, <2>5
  <2> QED BY <2>4, <2>5
<1> QED BY <1>1, <1>2, <1>3

(* The same for a step that leaves the workers' bounds alone.                  *)
LEMMA WorkersStay ==
  ASSUME WorkerInv, feasible \subseteq MinValue..MaxValue, UNCHANGED feasible,
         best \in Int, best' \in Int, best' <= best,
         pc' \in [Workers -> {"search", "import", "synchronize", "done"}],
         exported' \in [Workers -> Int],
         UNCHANGED <<worker_lb, worker_ub>>
  PROVE  WorkerInv'
<1>1. \A f \in feasible : f >= best => f >= best'
  BY Values
<1> QED BY <1>1 DEF WorkerInv, WorkersAreValid

LEMMA MovedPc ==
  ASSUME WorkerInv, NEW w \in Workers,
         NEW label \in {"search", "import", "synchronize", "done"}, Goto(w, label)
  PROVE  pc' \in [Workers -> {"search", "import", "synchronize", "done"}]
BY Updated DEF WorkerInv, Goto

LEMMA StepKeeps == IInv /\ [Next]_vars => IInv'
<1> SUFFICES ASSUME IInv, [Next]_vars PROVE ManagerInv' /\ WorkerInv' /\ AnswerInv'
  BY PartsNext
<1> USE Parts
<1>1. /\ ManagerInv /\ WorkerInv /\ AnswerInv /\ feasible \subseteq MinValue..MaxValue
      /\ best \in Int /\ MaxValue \in Int /\ MinValue \in Int
  BY ManagerAssumption DEF ManagerInv, ManagerType
<1>2. \A f \in feasible : f \in Int
  BY <1>1, Values
<1>3. ASSUME NEW w \in Workers
      PROVE  /\ worker_lb[w] \in Int /\ worker_ub[w] \in Int
             /\ worker_lb = [worker_lb EXCEPT ![w] = worker_lb[w]]
             /\ worker_ub = [worker_ub EXCEPT ![w] = worker_ub[w]]
             /\ \A f \in feasible : f \in worker_lb[w]..worker_ub[w] \/ f >= best
  BY <1>1, <1>3 DEF WorkerInv, WorkersAreValid
<1>4. sync_lb \in Int /\ sync_ub \in Int /\ Globally(sync_lb) /\ Improving(sync_ub)
  BY <1>1 DEF ManagerInv, ManagerType, BoundsAreValid
<1>5. ASSUME NEW w \in Workers, ImportLb(w) PROVE ManagerInv' /\ WorkerInv' /\ AnswerInv'
  <2> DEFINE lo == Greater(worker_lb[w], sync_lb)
  <2>1. lo \in Int /\ lo >= worker_lb[w] /\ lo >= sync_lb /\ (lo = worker_lb[w] \/ lo = sync_lb)
    BY <1>3, <1>4, GreaterOf
  <2>2. /\ worker_lb' = [worker_lb EXCEPT ![w] = lo]
        /\ worker_ub' = [worker_ub EXCEPT ![w] = worker_ub[w]]
        /\ UNCHANGED <<feasible, managerVars, exported, answer>>
        /\ pc[w] # "done" /\ exported' \in [Workers -> Int]
    BY <1>1, <1>3, <1>5 DEF ImportLb, WorkerInv
  <2>3. pc' \in [Workers -> {"search", "import", "synchronize", "done"}]
    BY <1>1, <1>5, MovedPc DEF ImportLb
  <2>4. ManagerInv' /\ best' = best /\ best' \in Int /\ best' <= best /\ feasible' = feasible
    BY <1>1, <2>2, ManagerUnchanged DEF managerVars, boundVars
  <2>5. \A f \in feasible : f \in worker_lb[w]..worker_ub[w] => f \in lo..worker_ub[w] \/ f >= best'
    BY <1>2, <1>3, <1>4, <2>1 DEF Globally
  <2> HIDE DEF lo
  <2>6. WorkerInv'
    BY <1>1, <1>3, <2>1, <2>2, <2>3, <2>4, <2>5, WorkerMoves
  <2> QED BY <2>2, <2>4, <2>6, NoAnswerYet
<1>6. ASSUME NEW w \in Workers, ImportUb(w) PROVE ManagerInv' /\ WorkerInv' /\ AnswerInv'
  <2> DEFINE hi == Lesser(worker_ub[w], sync_ub)
  <2>1. hi \in Int /\ (hi = worker_ub[w] \/ hi = sync_ub)
    BY <1>3, <1>4, LesserOf
  <2>2. /\ worker_lb' = [worker_lb EXCEPT ![w] = worker_lb[w]]
        /\ worker_ub' = [worker_ub EXCEPT ![w] = hi]
        /\ UNCHANGED <<feasible, managerVars, exported, answer>>
        /\ pc[w] # "done" /\ exported' \in [Workers -> Int]
    BY <1>1, <1>3, <1>6 DEF ImportUb, WorkerInv
  <2>3. pc' \in [Workers -> {"search", "import", "synchronize", "done"}]
    BY <1>1, <1>6, MovedPc DEF ImportUb
  <2>4. ManagerInv' /\ best' = best /\ best' \in Int /\ best' <= best /\ feasible' = feasible
    BY <1>1, <2>2, ManagerUnchanged DEF managerVars, boundVars
  <2>5. \A f \in feasible : f \in worker_lb[w]..worker_ub[w] => f \in worker_lb[w]..hi \/ f >= best'
    BY <1>2, <1>3, <1>4, <2>1, <2>4 DEF Improving
  <2> HIDE DEF hi
  <2>6. WorkerInv'
    BY <1>1, <1>3, <2>1, <2>2, <2>3, <2>4, <2>5, WorkerMoves
  <2> QED BY <2>2, <2>4, <2>6, NoAnswerYet
<1>7. ASSUME NEW w \in Workers, Deduce(w) PROVE ManagerInv' /\ WorkerInv' /\ AnswerInv'
  <2>1. PICK lo \in worker_lb[w]..(MaxValue + 1), hi \in (MinValue - 1)..worker_ub[w] :
          /\ \A f \in feasible : f \in worker_lb[w]..worker_ub[w] => f \in lo..hi
          /\ worker_lb' = [worker_lb EXCEPT ![w] = lo]
          /\ worker_ub' = [worker_ub EXCEPT ![w] = hi]
    BY <1>7 DEF Deduce
  <2>2. lo \in Int /\ hi \in Int
    BY <1>1, <1>3, <2>1
  <2>3. /\ UNCHANGED <<feasible, managerVars, pc, exported, answer>>
        /\ pc[w] # "done" /\ exported' \in [Workers -> Int]
        /\ pc' \in [Workers -> {"search", "import", "synchronize", "done"}]
    BY <1>1, <1>7 DEF Deduce, WorkerInv
  <2>4. ManagerInv' /\ best' = best /\ best' \in Int /\ best' <= best /\ feasible' = feasible
    BY <1>1, <2>3, ManagerUnchanged DEF managerVars, boundVars
  <2>6. /\ worker_lb' = [worker_lb EXCEPT ![w] = lo]
        /\ worker_ub' = [worker_ub EXCEPT ![w] = hi]
        /\ \A f \in feasible : f \in worker_lb[w]..worker_ub[w] => f \in lo..hi \/ f >= best'
    BY <2>1
  <2>5. WorkerInv'
    BY <1>1, <2>2, <2>3, <2>4, <2>6, WorkerMoves
  <2> QED BY <2>3, <2>4, <2>5, NoAnswerYet
<1>8. ASSUME NEW w \in Workers, Export(w) PROVE ManagerInv' /\ WorkerInv' /\ AnswerInv'
  <2>1. /\ UpdateInnerObjectiveBounds(worker_lb[w], worker_ub[w])
        /\ UNCHANGED <<feasible, poolVars, reported, worker_lb, worker_ub, answer>>
        /\ pc[w] # "done"
    BY <1>8 DEF Export
  <2>2. ManagerInv' /\ best' = best
    BY <1>1, <1>3, <2>1, UpdateKeeps
  <2>3. pc' \in [Workers -> {"search", "import", "synchronize", "done"}]
    BY <1>1, <1>8, MovedPc DEF Export
  <2>4. exported' \in [Workers -> Int]
    BY <1>1, <1>3, <1>8, Updated DEF Export, WorkerInv
  <2>5. WorkerInv'
    BY <1>1, <2>1, <2>2, <2>3, <2>4, WorkersStay
  <2> QED BY <2>1, <2>2, <2>5, NoAnswerYet
<1>9. ASSUME NEW w \in Workers, SynchronizeExport(w) PROVE ManagerInv' /\ WorkerInv' /\ AnswerInv'
  <2>1. /\ Synchronize
        /\ UNCHANGED <<feasible, boundVars, reported, worker_lb, worker_ub, exported, answer>>
        /\ pc[w] # "done" /\ exported' \in [Workers -> Int]
    BY <1>1, <1>9 DEF SynchronizeExport, WorkerInv
  <2>2. ManagerInv' /\ best' = best
    BY <1>1, <2>1, SynchronizeKeeps
  <2>3. pc' \in [Workers -> {"search", "import", "synchronize", "done"}]
    BY <1>1, <1>9, MovedPc DEF SynchronizeExport
  <2>4. WorkerInv'
    BY <1>1, <2>1, <2>2, <2>3, WorkersStay
  <2> QED BY <2>1, <2>2, <2>4, NoAnswerYet
<1>10. ASSUME NEW w \in Workers, Report(w) PROVE ManagerInv' /\ WorkerInv' /\ AnswerInv'
  <2>1. PICK v \in feasible, whole \in BOOLEAN :
          /\ NewSolution(v)
          /\ worker_ub' = IF whole THEN [worker_ub EXCEPT ![w] = Lesser(@, v - 1)] ELSE worker_ub
    BY <1>10 DEF Report
  <2>2. /\ UNCHANGED <<feasible, pc, worker_lb, exported, answer>>
        /\ pc[w] # "done" /\ exported' \in [Workers -> Int]
        /\ pc' \in [Workers -> {"search", "import", "synchronize", "done"}]
    BY <1>1, <1>10 DEF Report, WorkerInv
  <2>3. ManagerInv' /\ best' <= best /\ best' <= v
    BY <1>1, <2>1, <2>2, NewSolutionKeeps
  <2>4. best' \in Int /\ v \in Int
    BY <1>2, <2>3 DEF ManagerInv, ManagerType
  <2>5. ASSUME whole PROVE WorkerInv'
    <3> DEFINE hi == Lesser(worker_ub[w], v - 1)
    <3>1. hi \in Int /\ (hi = worker_ub[w] \/ hi = v - 1)
      BY <1>3, <2>4, LesserOf
    <3>2. /\ worker_lb' = [worker_lb EXCEPT ![w] = worker_lb[w]]
          /\ worker_ub' = [worker_ub EXCEPT ![w] = hi]
      BY <1>3, <2>1, <2>2, <2>5
    <3>3. \A f \in feasible : f \in worker_lb[w]..worker_ub[w] => f \in worker_lb[w]..hi \/ f >= best'
      BY <1>2, <1>3, <2>3, <2>4, <3>1
    <3> HIDE DEF hi
    <3> QED BY <1>1, <1>3, <2>2, <2>3, <2>4, <3>1, <3>2, <3>3, WorkerMoves
  <2>6. ASSUME ~whole PROVE WorkerInv'
    BY <1>1, <2>1, <2>2, <2>3, <2>4, <2>6, WorkersStay
  <2> QED BY <2>2, <2>3, <2>5, <2>6, NoAnswerYet
<1>11. ASSUME NEW w \in Workers, Conclude(w) PROVE ManagerInv' /\ WorkerInv' /\ AnswerInv'
  <2>1. /\ NotifyThatImprovingProblemIsInfeasible
        /\ UNCHANGED <<feasible, poolVars, reported, worker_lb, worker_ub, exported, answer>>
        /\ pc[w] # "done" /\ exported' \in [Workers -> Int] /\ worker_lb[w] > worker_ub[w]
    BY <1>1, <1>11 DEF Conclude, WorkerInv
  <2>2. \A f \in feasible : f >= best
    BY <1>2, <1>3, <2>1
  <2>3. ManagerInv' /\ best' = best
    BY <1>1, <2>1, <2>2, NotifyKeeps
  <2>4. pc' \in [Workers -> {"search", "import", "synchronize", "done"}]
    BY <1>1, <1>11, MovedPc DEF Conclude
  <2>5. WorkerInv'
    BY <1>1, <2>1, <2>3, <2>4, WorkersStay
  <2> QED BY <2>1, <2>3, <2>5, NoAnswerYet
<1>12. ASSUME NEW w \in Workers, Quit(w) PROVE ManagerInv' /\ WorkerInv' /\ AnswerInv'
  <2>1. /\ UNCHANGED <<feasible, managerVars, worker_lb, worker_ub, exported, answer>>
        /\ pc[w] # "done" /\ exported' \in [Workers -> Int]
    BY <1>1, <1>12 DEF Quit, WorkerInv
  <2>2. ManagerInv' /\ best' = best
    BY <1>1, <2>1, ManagerUnchanged DEF managerVars, boundVars
  <2>3. pc' \in [Workers -> {"search", "import", "synchronize", "done"}]
    BY <1>1, <1>12, MovedPc DEF Quit
  <2>4. WorkerInv'
    BY <1>1, <2>1, <2>2, <2>3, WorkersStay
  <2> QED BY <2>1, <2>2, <2>4, NoAnswerYet
<1>13. ASSUME SynchronizeAll PROVE ManagerInv' /\ WorkerInv' /\ AnswerInv'
  <2>1. Synchronize /\ UNCHANGED <<feasible, boundVars, reported, workerVars, answer>> /\ answer = None
    BY <1>13 DEF SynchronizeAll
  <2>2. ManagerInv' /\ best' = best
    BY <1>1, <2>1, SynchronizeKeeps
  <2>3. WorkerInv'
    BY <1>1, <2>1, <2>2 DEF workerVars, WorkerInv, WorkersAreValid
  <2> QED BY <2>1, <2>2, <2>3 DEF AnswerInv, ResponseIsConsistent
<1>14. ASSUME GetResponse PROVE ManagerInv' /\ WorkerInv' /\ AnswerInv'
  <2>1. /\ Synchronize /\ UNCHANGED <<feasible, boundVars, reported, workerVars>>
        /\ \A w \in Workers : pc[w] = "done"
        /\ answer' = [status |-> status, objective |-> best, bound |-> lb,
                      solution |-> IF HasSolution THEN pool' ELSE PosInf]
    BY <1>14 DEF GetResponse
  <2>2. ManagerInv' /\ best' = best /\ pool' = best
    BY <1>1, <2>1, SynchronizeKeeps
  <2>3. WorkerInv'
    BY <1>1, <2>1, <2>2 DEF workerVars, WorkerInv, WorkersAreValid
  <2>4. HasSolution => best = reported[Len(reported)] /\ lb <= best
    BY <1>1, Values, ManagerAssumption DEF ManagerInv, BestIsKnown
  <2>5. AnswerInv'
    BY <2>1, <2>2, <2>4 DEF AnswerInv, ResponseIsConsistent, workerVars, HasSolution
  <2> QED BY <2>2, <2>3, <2>5
<1>15. ASSUME UNCHANGED vars PROVE ManagerInv' /\ WorkerInv' /\ AnswerInv'
  <2>1. UNCHANGED <<feasible, managerVars, pc, worker_lb, worker_ub, exported, answer>>
    BY <1>15 DEF vars, workerVars
  <2>2. ManagerInv' /\ best' = best /\ reported' = reported
    BY <1>1, <2>1, ManagerUnchanged DEF managerVars, boundVars
  <2> QED
    BY <1>1, <2>1, <2>2 DEF WorkerInv, WorkersAreValid, AnswerInv, ResponseIsConsistent
<1> DEFINE Kept == ManagerInv' /\ WorkerInv' /\ AnswerInv'
<1>16. ASSUME NEW w \in Workers,
              \/ ImportLb(w) \/ ImportUb(w) \/ Deduce(w) \/ Export(w)
              \/ SynchronizeExport(w) \/ Report(w) \/ Conclude(w) \/ Quit(w)
       PROVE  Kept
  BY ONLY <1>5, <1>6, <1>7, <1>8, <1>9, <1>10, <1>11, <1>12, <1>16, Zenon
<1>17. Kept
  <2> HIDE DEF Kept
  <2>1. SynchronizeAll => Kept
    BY ONLY <1>13, Zenon DEF Kept
  <2>2. GetResponse => Kept
    BY ONLY <1>14, Zenon DEF Kept
  <2>3. UNCHANGED vars => Kept
    BY ONLY <1>15, Zenon DEF Kept
  <2> QED BY <1>16, <2>1, <2>2, <2>3, Zenon DEF Next
<1> QED BY ONLY <1>17, Zenon

(* Every step keeps the bounds valid, the status true and the pool's best the  *)
(* best solution reported.                                                     *)
THEOREM Invariance == Spec => []IInv
BY InitKeeps, StepKeeps, PTL DEF Spec

(* The bounds kept and handed out are valid, the lower one for the whole       *)
(* problem, the upper one for solutions better than the best (header comment   *)
(* of SharedResponseManager::Synchronize).                                     *)
THEOREM ValidBounds == Spec => []BoundsAreValid
BY Invariance, PTL DEF IInv

(* INFEASIBLE and OPTIMAL are never reported of a problem that is not.         *)
THEOREM TrueStatus == Spec => []StatusIsTrue
BY Invariance, PTL DEF IInv

(* NewSolution's assertions about an improving solution hold.                  *)
THEOREM ExpectedImprovements == Spec => []ImprovementsAreExpected
<1>1. IInv => ImprovementsAreExpected
  <2> SUFFICES ASSUME IInv, NEW f \in feasible, Improves(f) PROVE f >= lb /\ f < best
    BY DEF ImprovementsAreExpected
  <2>1. f \in Int /\ ub \in Int /\ best \in Int
    BY Values DEF IInv, TypeOK
  <2> QED BY <2>1 DEF IInv, BoundsAreValid, BestIsKnown, Globally, Improves
<1> QED BY <1>1, Invariance, PTL

(* GetResponse gives the solution whose value it states, the last reported.    *)
THEOREM ConsistentResponse == Spec => []ResponseIsConsistent
BY Invariance, PTL DEF IInv

-----------------------------------------------------------------------------
(* The status.                                                                 *)

(* Without a relative gap limit a value between the bound and the best is as   *)
(* close to the bound as the best was.                                         *)
LEMMA CloserToBound ==
  ASSUME RelativeGap = 0, NEW value \in Int, NEW low \in Int, NEW v \in Int,
         low <= v, v <= value, CloseTo(value, low)
  PROVE  CloseTo(v, low)
<1>1. Distance(value, low) = value - low /\ Distance(v, low) = v - low
  BY DEF Distance
<1>2. Greater(1, Distance(value, 0)) \in Int
  BY DEF Greater, Distance
<1>3. RelativeGap * Greater(1, Distance(value, 0)) = 0
  BY <1>2
<1>4. value - low <= AbsoluteGap
  BY <1>1, <1>3, ManagerAssumption DEF CloseTo
<1> QED BY <1>1, <1>4, ManagerAssumption DEF CloseTo

(* An OPTIMAL status was reached by bounds that crossed or by the gap.         *)
OptimalBecause ==
  status = "OPTIMAL" => lb > ub \/ GapIsClosed(best, lb)

StatusStep ==
  /\ status # "UNKNOWN" => status' # "UNKNOWN"
  /\ status = "OPTIMAL" => status' = "OPTIMAL"
  /\ status = "INFEASIBLE" => status' = "INFEASIBLE"
  /\ status = "FEASIBLE" => status' # "INFEASIBLE"

LEMMA UpdateEvolves ==
  ASSUME ManagerInv, OptimalBecause, NEW l \in Int, NEW u \in Int,
         UpdateInnerObjectiveBounds(l, u), UNCHANGED best
  PROVE  StatusStep /\ OptimalBecause'
<1> USE DEF ManagerInv, ManagerType
<1>1. CASE UNCHANGED <<boundVars, syncVars>>
  BY <1>1 DEF StatusStep, OptimalBecause, boundVars, GapIsClosed
<1>2. CASE ~UNCHANGED <<boundVars, syncVars>>
  <2> DEFINE crossed == IF HasSolution THEN "OPTIMAL" ELSE "INFEASIBLE"
  <2>1. /\ lb <= ub
        /\ lb' = IF l > lb THEN Lesser(best, l) ELSE lb
        /\ ub' = Lesser(ub, u)
        /\ SetStatus(lb', ub', best, crossed, status)
    BY <1>2 DEF UpdateInnerObjectiveBounds, CappedBound
  <2>2. /\ lb' \in Int /\ ub' \in Int /\ ub' < best
        /\ lb' = lb \/ (lb' <= best /\ lb' >= lb)
    <3>1. ub < best
      BY DEF BestIsKnown
    <3>2. ub' \in Int /\ ub' <= ub
      BY <2>1, LesserOf
    <3>3. lb' = lb \/ (l > lb /\ lb' = Lesser(best, l))
      BY <2>1
    <3>4. Lesser(best, l) \in Int /\ Lesser(best, l) <= best /\ (Lesser(best, l) = best \/ Lesser(best, l) = l)
      BY LesserOf
    <3>5. l > lb => Lesser(best, l) >= lb
      BY <3>1, <3>4, <2>1
    <3> QED BY <3>1, <3>2, <3>3, <3>4, <3>5
  <2>3. crossed \in Statuses
    BY DEF Statuses
  <2>4. \/ lb' > ub' /\ status' = crossed
        \/ ~(lb' > ub') /\ GapIsClosed(best, lb') /\ status' = "OPTIMAL"
        \/ ~(lb' > ub') /\ ~GapIsClosed(best, lb') /\ status' = status
    <3> HIDE DEF crossed
    <3> QED BY <2>1, <2>3, SetStatusCases
  <2>5. ASSUME status = "OPTIMAL" PROVE lb' > ub' \/ GapIsClosed(best, lb')
    <3>1. GapIsClosed(best, lb)
      BY <2>1, <2>5 DEF OptimalBecause
    <3>2. lb <= best /\ lb > NegInf /\ NegInf \in Int
      BY <3>1, <2>1, ManagerAssumption DEF GapIsClosed, BestIsKnown
    <3>3. CloseTo(best, lb')
      BY <3>1, <3>2, <2>2, CloserThanBound DEF GapIsClosed
    <3> QED BY <3>1, <3>2, <3>3, <2>2 DEF GapIsClosed
  <2>6. GapIsClosed(best, lb') => HasSolution
    BY DEF GapIsClosed, BestIsKnown
  <2>7. StatusStep
    BY <2>4, <2>5, <2>6 DEF StatusStep, HasSolution
  <2>8. OptimalBecause'
    BY <2>4, <2>5 DEF OptimalBecause, GapIsClosed
  <2> QED BY <2>7, <2>8
<1> QED BY <1>1, <1>2

LEMMA NotifyEvolves ==
  ASSUME ManagerInv, NotifyThatImprovingProblemIsInfeasible
  PROVE  StatusStep /\ OptimalBecause'
<1> USE DEF ManagerInv, ManagerType
<1>1. /\ status' = IF HasSolution THEN "OPTIMAL" ELSE "INFEASIBLE"
      /\ lb' = IF HasSolution THEN best ELSE lb
      /\ ub' = ub
  BY DEF NotifyThatImprovingProblemIsInfeasible, UpdateBestStatus
<1>2. StatusStep
  BY <1>1 DEF StatusStep, HasSolution
<1>3. OptimalBecause'
  BY <1>1 DEF OptimalBecause, BestIsKnown
<1> QED BY <1>2, <1>3

LEMMA NewSolutionEvolves ==
  ASSUME RelativeGap = 0, ManagerInv, OptimalBecause, NEW v \in feasible, NewSolution(v)
  PROVE  StatusStep /\ OptimalBecause'
<1> USE DEF ManagerInv, ManagerType
<1>1. CASE ~Improves(v)
  BY <1>1 DEF NewSolution, boundVars, StatusStep, OptimalBecause, GapIsClosed
<1>2. CASE Improves(v)
  <2>1. /\ best' = v /\ ub' = v - 1 /\ lb' = lb
        /\ SetStatus(lb, ub', v, "OPTIMAL", "FEASIBLE")
    BY <1>2 DEF NewSolution, UpperBoundBelow
  <2>2. \/ lb > ub' /\ status' = "OPTIMAL"
        \/ ~(lb > ub') /\ GapIsClosed(v, lb) /\ status' = "OPTIMAL"
        \/ ~(lb > ub') /\ ~GapIsClosed(v, lb) /\ status' = "FEASIBLE"
    BY <2>1, SetStatusCases DEF Statuses
  <2>3. v \in Int /\ v < PosInf /\ lb <= v /\ v <= ub /\ v < best
    BY <1>2, Values DEF BoundsAreValid, Globally, Improves, BestIsKnown
  <2>4. ASSUME status = "OPTIMAL" PROVE status' = "OPTIMAL"
    <3>1. GapIsClosed(best, lb)
      BY <2>3, <2>4 DEF OptimalBecause
    <3>2. CloseTo(v, lb)
      BY <3>1, <2>3, CloserToBound DEF GapIsClosed
    <3> QED BY <3>1, <3>2, <2>2, <2>3 DEF GapIsClosed
  <2>5. status # "INFEASIBLE"
    BY DEF StatusIsTrue
  <2>6. StatusStep
    BY <2>2, <2>4, <2>5 DEF StatusStep
  <2>7. OptimalBecause'
    <3>1. GapIsClosed(v, lb) => GapIsClosed(best, lb)'
      BY <2>1 DEF GapIsClosed
    <3> QED BY <3>1, <2>1, <2>2 DEF OptimalBecause
  <2> QED BY <2>6, <2>7
<1> QED BY <1>1, <1>2

LEMMA StatusKept ==
  ASSUME OptimalBecause, UNCHANGED boundVars
  PROVE  StatusStep /\ OptimalBecause'
BY DEF StatusStep, OptimalBecause, boundVars, GapIsClosed

LEMMA StepEvolves ==
  ASSUME RelativeGap = 0, IInv, OptimalBecause, [Next]_vars
  PROVE  StatusStep /\ OptimalBecause'
<1>1. ManagerInv /\ WorkerInv
  BY Parts
<1>2. ASSUME NEW w \in Workers, Export(w) PROVE StatusStep /\ OptimalBecause'
  <2>1. worker_lb[w] \in Int /\ worker_ub[w] \in Int
    BY <1>1 DEF WorkerInv
  <2>2. UpdateInnerObjectiveBounds(worker_lb[w], worker_ub[w]) /\ UNCHANGED best
    BY <1>2 DEF Export, UpdateInnerObjectiveBounds, boundVars
  <2> QED BY <1>1, <2>1, <2>2, UpdateEvolves
<1>3. ASSUME NEW w \in Workers, Report(w) PROVE StatusStep /\ OptimalBecause'
  BY <1>1, <1>3, NewSolutionEvolves DEF Report
<1>4. ASSUME NEW w \in Workers, Conclude(w) PROVE StatusStep /\ OptimalBecause'
  BY <1>1, <1>4, NotifyEvolves DEF Conclude
<1>5. ASSUME NEW w \in Workers,
             \/ ImportLb(w) \/ ImportUb(w) \/ Deduce(w) \/ SynchronizeExport(w) \/ Quit(w)
      PROVE  UNCHANGED boundVars
  BY <1>5 DEF ImportLb, ImportUb, Deduce, SynchronizeExport, Quit, managerVars
<1>6. SynchronizeAll \/ GetResponse \/ UNCHANGED vars => UNCHANGED boundVars
  BY DEF SynchronizeAll, GetResponse, vars, managerVars
<1> DEFINE Kept == StatusStep /\ OptimalBecause'
<1>7. UNCHANGED boundVars => Kept
  BY StatusKept
<1>8. (\E w \in Workers : Export(w) \/ Report(w) \/ Conclude(w)) => Kept
  BY <1>2, <1>3, <1>4
<1> HIDE DEF Kept
<1>9. Kept
  BY <1>5, <1>6, <1>7, <1>8 DEF Next
<1> QED BY <1>9 DEF Kept

(* "UNKNOWN -> FEASIBLE -> OPTIMAL, UNKNOWN -> INFEASIBLE", when no relative   *)
(* gap limit is set.                                                           *)
THEOREM StatusOnlyEvolves ==
  ASSUME RelativeGap = 0 PROVE Spec => StatusEvolves
<1>1. Init => OptimalBecause
  BY DEF Init, OptimalBecause
<1>2. IInv /\ OptimalBecause /\ [Next]_vars => StatusStep /\ OptimalBecause'
  BY StepEvolves
<1> QED
  BY <1>1, <1>2, Invariance, PTL DEF Spec, StatusEvolves, StatusStep

-----------------------------------------------------------------------------
(* The refinement.                                                             *)

Seen == IF answer = None THEN None
        ELSE [status |-> answer.status, solution |-> answer.solution]

LEMMA ReportImplements ==
  ASSUME IInv, NEW w \in Workers, Report(w)
  PROVE  [Search!Next]_(Search!vars)
<1> USE DEF ManagerInv, ManagerType
<1>1. ManagerInv /\ answer = None
  BY Parts, NoAnswerYet DEF Report
<1>2. PICK v \in feasible : NewSolution(v)
  BY DEF Report
<1>3. feasible' = feasible /\ answer' = answer
  BY DEF Report
<1>4. CASE UNCHANGED <<best, status, reported>>
  BY <1>3, <1>4 DEF Search!vars
<1>5. CASE v < best /\ reported' = Append(reported, v)
  <2>1. reported # <<>> => v < reported[Len(reported)]
    BY <1>1, <1>5 DEF BestIsKnown
  <2>2. Search!Report(v)
    BY <1>1, <1>2, <1>3, <1>5, <2>1 DEF Search!Report, Search!Last
  <2> QED BY <2>2, <1>2 DEF Search!Next
<1> QED BY <1>1, <1>2, <1>3, <1>4, <1>5, NewSolutionKeeps

LEMMA ResponseImplements ==
  ASSUME IInv, GetResponse
  PROVE  Search!Next
<1> USE DEF ManagerInv, ManagerType
<1>1. ManagerInv
  BY Parts
<1>2. /\ answer = None /\ UNCHANGED <<feasible, reported>>
      /\ answer' = [status |-> status, objective |-> best, bound |-> lb,
                    solution |-> IF HasSolution THEN pool' ELSE PosInf]
  BY DEF GetResponse
<1>3. pool' = best
  BY <1>1, SynchronizeKeeps DEF GetResponse
<1>4. /\ HasSolution <=> reported # <<>>
      /\ HasSolution => best = reported[Len(reported)]
  BY <1>1 DEF BestIsKnown
<1>5. Seen' = [status |-> status,
               solution |-> IF reported = <<>> THEN PosInf ELSE reported[Len(reported)]]
  <2>1. answer' \in [status : Statuses, objective : Int, bound : Int, solution : Int]
    <3>1. (IF HasSolution THEN pool' ELSE PosInf) \in Int
      BY <1>1, <1>3, ManagerAssumption
    <3> QED BY <1>1, <1>2, <3>1
  <2>2. answer' # None
    BY <2>1, ManagerAssumption
  <2> QED BY <2>2, <1>2, <1>3, <1>4 DEF Seen
<1>6. Search!Answer(status)
  <2>1. status = "OPTIMAL" => \A f \in feasible : f >= Search!Last \/ CloseTo(Search!Last, f)
    <3>1. status = "OPTIMAL" => Search!Last = best
      BY <1>4 DEF HasSolution, Search!Last
    <3> QED BY <3>1, <1>1 DEF StatusIsTrue
  <2>2. Seen = None
    BY <1>2 DEF Seen
  <2> QED
    BY <1>1, <1>2, <1>4, <1>5, <2>1, <2>2
    DEF Search!Answer, Search!Last, Seen, HasSolution, StatusIsTrue
<1> QED
  BY <1>1, <1>6 DEF Search!Next, Statuses

LEMMA StepImplements == IInv /\ [Next]_vars => [Search!Next]_(Search!vars)
<1> SUFFICES ASSUME IInv, [Next]_vars PROVE [Search!Next]_(Search!vars)
  OBVIOUS
<1>1. ASSUME NEW w \in Workers,
             \/ ImportLb(w) \/ ImportUb(w) \/ Deduce(w) \/ Export(w)
             \/ SynchronizeExport(w) \/ Conclude(w) \/ Quit(w)
      PROVE  UNCHANGED <<feasible, reported, answer>>
  BY <1>1 DEF ImportLb, ImportUb, Deduce, Export, SynchronizeExport, Conclude, Quit, managerVars
<1>2. SynchronizeAll \/ UNCHANGED vars => UNCHANGED <<feasible, reported, answer>>
  BY DEF SynchronizeAll, vars, managerVars
<1>3. UNCHANGED <<feasible, reported, answer>> => UNCHANGED Search!vars
  BY DEF Search!vars
<1> DEFINE Implemented == [Search!Next]_(Search!vars)
<1>4. UNCHANGED Search!vars => Implemented
  OBVIOUS
<1>5. GetResponse => Implemented
  BY ResponseImplements
<1>6. (\E w \in Workers : Report(w)) => Implemented
  BY ReportImplements
<1> HIDE DEF Implemented
<1>7. Implemented
  BY <1>1, <1>2, <1>3, <1>4, <1>5, <1>6 DEF Next
<1> QED BY <1>7 DEF Implemented

(* Observers of the manager see an improving search and the answer to it, as   *)
(* StreamSolve takes for granted of its Observe and SearchEnd.                 *)
THEOREM Refinement == Spec => KeepsSearch
<1>1. Init => Search!Init
  BY ManagerAssumption DEF Init, Search!Init
<1> QED
  BY <1>1, StepImplements, Invariance, PTL DEF Spec, KeepsSearch, Search!Spec

=============================================================================
