-------------------------- MODULE ResponseManager ---------------------------
(***************************************************************************)
(* SharedResponseManager of CP-SAT for a model with an objective, between  *)
(* the workers of one solve: what they report and prove, the status, the   *)
(* bounds they are given back, and the response.  An action is one section *)
(* under mutex_.  A worker stands for any subsolver: it imports the shared *)
(* bounds (one lock for each), deduces, exports what it proved and reports *)
(* solutions.  All values are of the inner objective, minimised.           *)
(***************************************************************************)
EXTENDS Integers, Sequences

CONSTANTS
  Workers,
  MinValue, MaxValue, \* the domain of the objective
  NegInf, PosInf,     \* kMinIntegerValue, kMaxIntegerValue
  AbsoluteGap,        \* absolute_gap_limit, rounded down
  RelativeGap,        \* relative_gap_limit, in per cent
  Interleave,         \* interleave_search
  None                \* no answer yet

Statuses == {"UNKNOWN", "FEASIBLE", "OPTIMAL", "INFEASIBLE"}

ASSUME ManagerAssumption ==
  /\ {MinValue, MaxValue, NegInf, PosInf} \subseteq Int
  /\ NegInf < MinValue /\ MinValue <= MaxValue /\ MaxValue < PosInf
  /\ AbsoluteGap \in Nat /\ RelativeGap \in Nat
  /\ Interleave \in BOOLEAN
  /\ None \notin [status : Statuses, objective : Int, bound : Int, solution : Int]

VARIABLES
  feasible,    \* the objective values of the model's solutions
  lb, ub,      \* inner_objective_lower_bound_, inner_objective_upper_bound_
  best,        \* best_solution_objective_value_
  status,      \* best_status_
  sync_lb, sync_ub, sync_status,
  pool,        \* the rank of BestSolutions().GetSolution(0)
  added,       \* the best rank among the solutions the pool has not merged yet
  reported,    \* the values the solution callbacks were called with
  stopped,     \* shared_time_limit_ is stopped
  pc,          \* where each worker is
  worker_lb, worker_ub, \* the level zero bounds of each worker's objective
  exported,    \* best_obj_lb of each worker's export callback
  answer       \* what GetResponse returned at the end

boundVars == <<lb, ub, best, status, stopped>>
syncVars == <<sync_lb, sync_ub, sync_status>>
poolVars == <<pool, added>>
managerVars == <<boundVars, syncVars, poolVars, reported>>
workerVars == <<pc, worker_lb, worker_ub, exported>>
vars == <<feasible, managerVars, workerVars, answer>>

always_synchronize == ~Interleave

Lesser(a, b) == IF a < b THEN a ELSE b
Greater(a, b) == IF a > b THEN a ELSE b
Distance(a, b) == IF a > b THEN a - b ELSE b - a

Goto(w, label) == pc' = [pc EXCEPT ![w] = label]

(* After InitializeObjective, whose bounds only reach the workers that ask in  *)
(* always_synchronize mode; each worker loads the objective's domain itself.   *)
Init ==
  /\ feasible \in SUBSET (MinValue..MaxValue)
  /\ lb = MinValue /\ ub = MaxValue
  /\ best = PosInf
  /\ status = "UNKNOWN"
  /\ sync_lb = IF always_synchronize THEN MinValue ELSE NegInf
  /\ sync_ub = IF always_synchronize THEN MaxValue ELSE PosInf
  /\ sync_status = "UNKNOWN"
  /\ pool = PosInf /\ added = PosInf
  /\ reported = <<>>
  /\ stopped = FALSE
  /\ pc = [w \in Workers |-> "search"]
  /\ worker_lb = [w \in Workers |-> MinValue]
  /\ worker_ub = [w \in Workers |-> MaxValue]
  /\ exported = [w \in Workers |-> NegInf]
  /\ answer = None

(* Mutant: a problem solved twice counts as one without a solution. *)
HasFeasible == status = "FEASIBLE"

HasSolution == status \in {"FEASIBLE", "OPTIMAL"}

UpdateBestStatus(s) ==
  /\ status' = s
  /\ sync_status' = IF always_synchronize THEN s ELSE sync_status

(* TestGapLimitsIfNeeded, for bounds that have not crossed. *)
CloseTo(value, bound) ==
  \/ Distance(value, bound) <= AbsoluteGap
  \/ 100 * Distance(value, bound) < RelativeGap * Greater(1, Distance(value, 0))

GapIsClosed(value, bound) == value < PosInf /\ bound > NegInf /\ CloseTo(value, bound)

(* Mutant: the bounds count as crossed when they meet. *)
SetStatusEarly(low, up, value, crossed, open) ==
  IF low >= up THEN UpdateBestStatus(crossed) /\ UNCHANGED stopped
  ELSE UpdateBestStatus(open) /\ UNCHANGED stopped

(* Both gap tests stop the limit as well, a crossing of the bounds does not. *)
SetStatus(low, up, value, crossed, open) ==
  IF low > up THEN UpdateBestStatus(crossed) /\ UNCHANGED stopped
  ELSE IF GapIsClosed(value, low)
       THEN UpdateBestStatus("OPTIMAL") /\ stopped' = (stopped \/ always_synchronize)
       ELSE UpdateBestStatus(open) /\ UNCHANGED stopped
-----------------------------------------------------------------------------
(* The manager's operations.                                                   *)

(* Mutant: a lower bound beyond the best solution is taken as it is. *)
UncappedBound(l) == l

(* An improving problem that is infeasible has any lower bound. *)
CappedBound(l) == Lesser(best, l)

UpdateInnerObjectiveBounds(l, u) ==
  IF lb > ub \/ (l <= lb /\ u >= ub)
  THEN UNCHANGED <<boundVars, syncVars>>
  ELSE /\ lb' = IF l > lb THEN CappedBound(l) ELSE lb
       /\ ub' = Lesser(ub, u)
       /\ sync_lb' = IF always_synchronize THEN lb' ELSE sync_lb
       /\ sync_ub' = IF always_synchronize THEN ub' ELSE sync_ub
       /\ SetStatus(lb', ub', best, IF HasSolution THEN "OPTIMAL" ELSE "INFEASIBLE", status)
       /\ UNCHANGED best

NotifyThatImprovingProblemIsInfeasible ==
  /\ UpdateBestStatus(IF HasSolution THEN "OPTIMAL" ELSE "INFEASIBLE")
  /\ lb' = IF HasSolution THEN best ELSE lb
  /\ stopped' = (stopped \/ always_synchronize)
  /\ UNCHANGED <<ub, best, sync_lb, sync_ub>>

(* Mutant: the newest solution comes first. *)
MergeNewest(new) ==
  /\ pool' = IF new < PosInf THEN new ELSE pool
  /\ added' = PosInf

(* SharedSolutionRepository::Synchronize, as far as the best rank goes. *)
MergePool(new) ==
  /\ pool' = Lesser(pool, new)
  /\ added' = PosInf

Synchronize ==
  /\ MergePool(added)
  /\ sync_lb' = lb
  /\ sync_ub' = ub
  /\ sync_status' = status

(* Mutant: a solution as good as the best one counts as improving. *)
ImprovesWeakly(v) == v <= ub + 1

Improves(v) == v <= ub

(* Mutant: the new upper bound still admits the solution. *)
NewUpperBound(v) == v

(* The next solution has to be strictly better. *)
UpperBoundBelow(v) == v - 1

(* The synchronized bounds are left as they are, in both modes. *)
NewSolution(v) ==
  IF Improves(v)
  THEN /\ best' = v
       /\ ub' = UpperBoundBelow(v)
       /\ IF always_synchronize THEN MergePool(Lesser(added, v))
          ELSE added' = Lesser(added, v) /\ UNCHANGED pool
       /\ SetStatus(lb, ub', v, "OPTIMAL", "FEASIBLE")
       /\ reported' = Append(reported, v)
       /\ UNCHANGED <<lb, sync_lb, sync_ub>>
  ELSE /\ added' = Lesser(added, v)
       /\ UNCHANGED <<boundVars, syncVars, pool, reported>>

-----------------------------------------------------------------------------
(* The workers.                                                                *)

(* The two bounds are read under two locks. *)
ImportLb(w) ==
  /\ pc[w] = "search"
  /\ worker_lb' = [worker_lb EXCEPT ![w] = Greater(@, sync_lb)]
  /\ Goto(w, IF worker_lb'[w] > worker_ub[w] THEN "search" ELSE "import")
  /\ UNCHANGED <<feasible, managerVars, worker_ub, exported, answer>>

ImportUb(w) ==
  /\ pc[w] = "import"
  /\ worker_ub' = [worker_ub EXCEPT ![w] = Lesser(@, sync_ub)]
  /\ Goto(w, "search")
  /\ UNCHANGED <<feasible, managerVars, worker_lb, exported, answer>>

(* A worker's propagation and search lose no solution between its bounds. *)
Deduce(w) ==
  /\ pc[w] = "search"
  /\ worker_lb[w] <= worker_ub[w]
  /\ \E lo \in worker_lb[w]..(MaxValue + 1), hi \in (MinValue - 1)..worker_ub[w] :
       /\ <<lo, hi>> # <<worker_lb[w], worker_ub[w]>>
       /\ \A f \in feasible : f \in worker_lb[w]..worker_ub[w] => f \in lo..hi
       /\ worker_lb' = [worker_lb EXCEPT ![w] = lo]
       /\ worker_ub' = [worker_ub EXCEPT ![w] = hi]
  /\ UNCHANGED <<feasible, managerVars, pc, exported, answer>>

Export(w) ==
  /\ pc[w] = "search"
  /\ worker_lb[w] > exported[w]
  /\ exported' = [exported EXCEPT ![w] = worker_lb[w]]
  /\ UpdateInnerObjectiveBounds(worker_lb[w], worker_ub[w])
  /\ Goto(w, IF Interleave THEN "search" ELSE "synchronize")
  /\ UNCHANGED <<feasible, poolVars, reported, worker_lb, worker_ub, answer>>

SynchronizeExport(w) ==
  /\ pc[w] = "synchronize"
  /\ Synchronize
  /\ Goto(w, "search")
  /\ UNCHANGED <<feasible, boundVars, reported, worker_lb, worker_ub, exported, answer>>

(* Any subsolver reports any solution; one that searches the whole problem     *)
(* then asks for a better one.                                                 *)
Report(w) ==
  /\ pc[w] = "search"
  /\ \E v \in feasible, whole \in BOOLEAN :
       /\ NewSolution(v)
       /\ worker_ub' = IF whole THEN [worker_ub EXCEPT ![w] = Lesser(@, v - 1)] ELSE worker_ub
  /\ UNCHANGED <<feasible, pc, worker_lb, exported, answer>>

Conclude(w) ==
  /\ pc[w] = "search"
  /\ worker_lb[w] > worker_ub[w]
  /\ NotifyThatImprovingProblemIsInfeasible
  /\ Goto(w, "done")
  /\ UNCHANGED <<feasible, poolVars, reported, worker_lb, worker_ub, exported, answer>>

(* A limit, or ProblemIsSolved. *)
Quit(w) ==
  /\ pc[w] = "search"
  /\ Goto(w, "done")
  /\ UNCHANGED <<feasible, managerVars, worker_lb, worker_ub, exported, answer>>

(* SynchronizeAll of the loop over subsolvers. *)
SynchronizeAll ==
  /\ answer = None
  /\ Synchronize
  /\ UNCHANGED <<feasible, boundVars, reported, workerVars, answer>>

(* GetResponse, after the last SynchronizeAll of the loop. *)
GetResponse ==
  /\ answer = None
  /\ \A w \in Workers : pc[w] = "done"
  /\ Synchronize
  /\ answer' = [status |-> status, objective |-> best, bound |-> lb,
                solution |-> IF HasSolution THEN pool' ELSE PosInf]
  /\ UNCHANGED <<feasible, boundVars, reported, workerVars>>

Next ==
  \/ \E w \in Workers :
       \/ ImportLb(w) \/ ImportUb(w) \/ Deduce(w) \/ Export(w)
       \/ SynchronizeExport(w) \/ Report(w) \/ Conclude(w) \/ Quit(w)
  \/ SynchronizeAll
  \/ GetResponse

Spec == Init /\ [][Next]_vars

-----------------------------------------------------------------------------
TypeOK ==
  /\ feasible \subseteq Int
  /\ {lb, ub, best, sync_lb, sync_ub, pool, added} \subseteq Int
  /\ {status, sync_status} \subseteq Statuses
  /\ reported \in Seq(Int)
  /\ stopped \in BOOLEAN
  /\ pc \in [Workers -> {"search", "import", "synchronize", "done"}]
  /\ worker_lb \in [Workers -> Int]
  /\ worker_ub \in [Workers -> Int]
  /\ exported \in [Workers -> Int]

Globally(low) == \A f \in feasible : f >= low
Improving(up) == \A f \in feasible : f <= up \/ f >= best

(* "the lower bound is always a valid bound for the global problem, but the    *)
(* upper bound is NOT": an upper bound is one on the solutions better than the *)
(* best.  True of the manager's bounds and of the ones handed out.             *)
BoundsAreValid ==
  /\ Globally(lb) /\ Improving(ub)
  /\ Globally(sync_lb) /\ Improving(sync_ub)

(* What a worker keeps is what it has left to search. *)
WorkersAreValid ==
  \A w \in Workers : \A f \in feasible :
    f \in worker_lb[w]..worker_ub[w] \/ f >= best

(* "we shouldn't be in the infeasible setting yet": an improving solution is   *)
(* above the lower bound and below the best, as NewSolution asserts.           *)
ImprovementsAreExpected ==
  \A f \in feasible : Improves(f) => f >= lb /\ f < best

BestIsKnown ==
  /\ HasSolution => best \in feasible /\ lb <= best
  /\ HasSolution <=> reported # <<>>
  /\ best = IF reported = <<>> THEN PosInf ELSE reported[Len(reported)]
  /\ ub < best

(* The status is never a guess: INFEASIBLE without solutions, OPTIMAL with one *)
(* that is best or as close to all better ones as the gap limits ask.          *)
StatusIsTrue ==
  /\ status = "INFEASIBLE" => feasible = {}
  /\ status = "OPTIMAL" => \A f \in feasible : f >= best \/ CloseTo(best, f)
  /\ sync_status = "INFEASIBLE" => feasible = {}
  /\ sync_status = "OPTIMAL" => HasSolution

(* The pool's best is the best solution once it has merged what it was given;  *)
(* in always_synchronize mode that is in the same section.                     *)
PoolHasBest ==
  /\ Lesser(pool, added) = best
  /\ always_synchronize => pool = best

(* "UNKNOWN -> FEASIBLE -> OPTIMAL, UNKNOWN -> INFEASIBLE" *)
StatusEvolves ==
  [][/\ status # "UNKNOWN" => status' # "UNKNOWN"
     /\ status = "OPTIMAL" => status' = "OPTIMAL"
     /\ status = "INFEASIBLE" => status' = "INFEASIBLE"
     /\ status = "FEASIBLE" => status' # "INFEASIBLE"]_vars

(* The response is one story: its solution has the value it states, the one    *)
(* reported last, within the bound it states.                                  *)
ResponseIsConsistent ==
  answer # None /\ answer.status \in {"FEASIBLE", "OPTIMAL"} =>
    /\ answer.solution = answer.objective
    /\ answer.objective = reported[Len(reported)]
    /\ answer.bound <= answer.objective

(* Everything that holds after every step, and holds because of the rest.      *)
IInv ==
  /\ TypeOK
  /\ feasible \subseteq MinValue..MaxValue
  /\ BoundsAreValid
  /\ WorkersAreValid
  /\ BestIsKnown
  /\ StatusIsTrue
  /\ PoolHasBest
  /\ answer # None => \A w \in Workers : pc[w] = "done"
  /\ ResponseIsConsistent

Search == INSTANCE ImprovingSearch
            WITH answer <- IF answer = None THEN None
                           ELSE [status |-> answer.status, solution |-> answer.solution]

(* Observers see an improving search and the answer to it. *)
KeepsSearch == Search!Spec
=============================================================================
