------------------------- MODULE InterruptibleSolve -------------------------
(***************************************************************************)
(* solve and solveInterruptible (Cpsat/Solver.lean): a task has CP-SAT     *)
(* solve one problem after the other while other tasks may call            *)
(* StopToken.stop.  Both end in SolveCpInterruptible, on the CpSatEnv of   *)
(* the caller's token or on one of its own; the Model in it outlives the   *)
(* call, and with it the stop flag and SharedResponseManager.              *)
(*                                                                         *)
(* A solution stands for the assignment it is: it is the same one under    *)
(* every problem, and its own objective value, minimised, where a problem  *)
(* has an objective.  The workers of a search are one worker here: how     *)
(* several share the response manager is ResponseManager's.                *)
(***************************************************************************)
EXTENDS Integers

CONSTANTS
  Problems,           \* what the task solves: see ProblemType
  MinValue, MaxValue, \* the domain of every objective
  PosInf,             \* kMaxIntegerValue
  Reuse,              \* the task solves more than once with one token
  None                \* no hint, no answer, nothing appended, no solution

Values == MinValue..MaxValue

ProblemType ==
  [valid : BOOLEAN, objective : BOOLEAN, solutions : SUBSET Values, hint : Values \cup {None}]

Statuses == {"UNKNOWN", "FEASIBLE", "OPTIMAL", "INFEASIBLE", "MODEL_INVALID"}

ResponseType == [status : Statuses, solution : Values \cup {None}]

ASSUME SolveAssumption ==
  /\ MinValue \in Nat \ {0} /\ MaxValue \in Nat /\ PosInf \in Nat
  /\ MinValue <= MaxValue /\ MaxValue < PosInf
  /\ Problems \subseteq ProblemType
  /\ Reuse \in BOOLEAN
  /\ None \notin Int /\ None \notin Statuses /\ None \notin ResponseType

VARIABLES
  env,        \* the Model of the token's CpSatEnv and of a plain solve's
  sigints,    \* num_calls_ of the SigintHandler in each Model: how often ^C was pressed
  requested,  \* StopToken.stop was called on the task's token
  pc,         \* where the task is in SolveCpModel
  on,         \* the environment it solves in
  problem,    \* what it solves
  many,       \* num_workers > 1
  expired,    \* max_time_in_seconds has passed
  found,      \* the solutions this search found
  answer      \* the response of the last call, and what it answers

callVars == <<on, problem, many, expired>>
vars == <<env, sigints, requested, pc, callVars, found, answer>>

(* CpSatEnv(), and what GetOrCreate puts into its Model. *)
FreshEnv ==
  [stopped |-> FALSE,        \* stopped_boolean_ of ModelSharedTimeLimit
   used |-> FALSE,           \* postprocessors of an earlier CpModelSolver are registered
   registered |-> FALSE,     \* SharedLPSolutionRepository is registered
   status |-> "UNKNOWN",     \* best_status_
   lb |-> -PosInf, ub |-> PosInf, best |-> PosInf,
   rank |-> PosInf, solution |-> None, \* BestSolutions().GetSolution(0)
   front |-> None]           \* the status in subsolver_responses_.front()

Init ==
  /\ env = [e \in {"token", "local"} |-> FreshEnv]
  /\ sigints = [e \in {"token", "local"} |-> 0]
  /\ requested = FALSE
  /\ pc = "idle"
  /\ on = "local" /\ problem \in Problems /\ many = FALSE /\ expired = FALSE
  /\ found = {}
  /\ answer = None

Lesser(a, b) == IF a < b THEN a ELSE b

LimitReached == env[on].stopped \/ expired

(* Mutant: an OPTIMAL response has no solution. *)
HasFeasible(m) == m.status = "FEASIBLE"

HasSolution(m) == m.status \in {"FEASIBLE", "OPTIMAL"}
ProblemIsSolved(m) == m.status \in {"OPTIMAL", "INFEASIBLE"}
Objective(v) == IF problem.objective THEN v ELSE 0

(* A step of the call that leaves its Model as m. *)
Step(from, to, m) ==
  /\ pc = from
  /\ pc' = to
  /\ env' = [env EXCEPT ![on] = m]
  /\ UNCHANGED <<sigints, requested, callVars>>

AppendResponseToBeMerged(m, status) ==
  [m EXCEPT !.front = IF @ = None THEN status ELSE @]
-----------------------------------------------------------------------------
(* SharedResponseManager, as far as one worker sees it.                        *)

UpdateInnerObjectiveBounds(m, l, u) ==
  IF m.lb > m.ub \/ (l <= m.lb /\ u >= m.ub) THEN m
  ELSE LET lb == IF l > m.lb THEN Lesser(m.best, l) ELSE m.lb
           ub == Lesser(m.ub, u)
       IN [m EXCEPT !.lb = lb, !.ub = ub,
             !.status = IF lb <= ub THEN @ ELSE IF HasSolution(m) THEN "OPTIMAL" ELSE "INFEASIBLE"]

First(m, v) == [m EXCEPT !.rank = Objective(v), !.solution = v]

(* Mutant: the newest solution comes first. *)
PoolNewest(m, v) == {First(m, v)}

(* solution_pool_.Add and Synchronize: by rank, and among equals any may be first. *)
Pool(m, v) ==
  IF Objective(v) < m.rank THEN {First(m, v)}
  ELSE IF Objective(v) = m.rank THEN {First(m, v), m}
  ELSE {m}

Improving(m, v) ==
  [m EXCEPT !.best = v, !.ub = v - 1, !.status = IF m.lb > v - 1 THEN "OPTIMAL" ELSE "FEASIBLE"]

(* What a new solution may make of the manager. *)
NewSolution(m, v) ==
  IF ~problem.objective THEN {[p EXCEPT !.status = "OPTIMAL"] : p \in Pool(m, v)}
  ELSE IF v > m.ub THEN Pool(m, v)
  ELSE {Improving(p, v) : p \in Pool(m, v)}

NotifyThatImprovingProblemIsInfeasible(m) ==
  [m EXCEPT !.status = IF HasSolution(m) THEN "OPTIMAL" ELSE "INFEASIBLE",
            !.lb = IF HasSolution(m) THEN m.best ELSE @,
            !.stopped = TRUE]
-----------------------------------------------------------------------------
(* The task, and the others that hold its token.                               *)

newStopToken ==
  /\ pc = "idle"
  /\ env' = [env EXCEPT !["token"] = FreshEnv]
  /\ sigints' = [sigints EXCEPT !["token"] = 0]
  /\ requested' = FALSE
  /\ answer' = None
  /\ UNCHANGED <<pc, callVars, found>>

stop ==
  /\ pc \notin {"aborted", "exited"}
  /\ env' = [env EXCEPT !["token"].stopped = TRUE]
  /\ requested' = TRUE
  /\ UNCHANGED <<sigints, pc, callVars, found, answer>>

(* Mutant: a solve starts with its stop flag cleared. *)
StartOver(m) == [m EXCEPT !.stopped = FALSE]

(* The limit is reset to the call's own, the stop flag stays. *)
ResetLimitFromParameters(m) == m

(* A plain solve has a CpSatEnv of its own, which is gone when it returns. *)
Call(e, p, w) ==
  /\ pc = "idle"
  /\ e = "token" /\ env[e].used => Reuse
  /\ pc' = "validate"
  /\ on' = e /\ problem' = p /\ many' = w /\ expired' = FALSE
  /\ env' = [env EXCEPT !["local"] = FreshEnv,
                        !["token"] = IF e = "token" THEN ResetLimitFromParameters(@) ELSE @]
  /\ sigints' = [sigints EXCEPT !["local"] = 0]
  /\ found' = {} /\ answer' = None
  /\ UNCHANGED requested

Expire ==
  /\ pc \notin {"idle", "aborted", "exited"}
  /\ expired' = TRUE
  /\ UNCHANGED <<env, sigints, requested, pc, on, problem, many, found, answer>>

(* The handler that AddSigintHandler registers before ValidateInputProto, in   *)
(* every call: the first ^C stops the limit, the third ends the program.       *)
Interrupt ==
  /\ pc \notin {"idle", "aborted", "exited"}
  /\ sigints' = [sigints EXCEPT ![on] = @ + 1]
  /\ env' = IF sigints'[on] = 1 THEN [env EXCEPT ![on].stopped = TRUE] ELSE env
  /\ pc' = IF sigints'[on] = 3 THEN "exited" ELSE pc
  /\ UNCHANGED <<requested, callVars, found, answer>>

-----------------------------------------------------------------------------
(* SolveCpModel.                                                               *)

ValidateInputProto ==
  /\ IF problem.valid THEN Step("validate", "presolve", env[on])
     ELSE Step("validate", "closed", AppendResponseToBeMerged(env[on], "MODEL_INVALID"))
  /\ UNCHANGED <<found, answer>>

(* CopyInputProto and Presolve, which may close a problem. *)
Presolve ==
  /\ \/ Step("presolve", "share", env[on])
     \/ /\ problem.solutions = {}
        /\ Step("presolve", "closed", AppendResponseToBeMerged(env[on], "INFEASIBLE"))
  /\ UNCHANGED <<found, answer>>

(* SharedClasses(), which checks that it registers nothing twice, then         *)
(* StopAfterPresolve().                                                        *)
Share ==
  LET m == [env[on] EXCEPT !.registered = @ \/ many]
  IN /\ IF many /\ env[on].registered THEN Step("share", "aborted", env[on])
        ELSE IF LimitReached THEN Step("share", "ended", AppendResponseToBeMerged(m, "UNKNOWN"))
        ELSE Step("share", "load", m)
     /\ UNCHANGED <<found, answer>>

(* A hint that is feasible may not survive the presolve. *)
LoadPresolvedModel ==
  LET m == IF problem.objective THEN UpdateInnerObjectiveBounds(env[on], MinValue, MaxValue)
           ELSE env[on]
  IN /\ \/ /\ Step("load", "start", m)
           /\ UNCHANGED found
        \/ /\ problem.hint \in problem.solutions
           /\ \E n \in NewSolution(m, problem.hint) : Step("load", "start", n)
           /\ found' = {problem.hint}
     /\ UNCHANGED answer

SolvePresolvedModel ==
  /\ Step("start", IF LimitReached THEN "ended" ELSE "search", env[on])
  /\ UNCHANGED <<found, answer>>

Improve(v) ==
  /\ v \in problem.solutions
  /\ \E n \in NewSolution(env[on], v) : Step("search", "search", n)
  /\ found' = found \cup {v}
  /\ UNCHANGED answer

(* A lower bound on the solutions that are better than the best. *)
Bound(l) ==
  /\ problem.objective
  /\ l > env[on].lb
  /\ \A v \in problem.solutions : v <= env[on].ub => v >= l
  /\ Step("search", "search", UpdateInnerObjectiveBounds(env[on], l, env[on].ub))
  /\ UNCHANGED <<found, answer>>

Conclude ==
  /\ IF problem.objective
     THEN \A v \in problem.solutions : v \notin env[on].lb..env[on].ub
     ELSE problem.solutions = {}
  /\ Step("search", "search", NotifyThatImprovingProblemIsInfeasible(env[on]))
  /\ UNCHANGED <<found, answer>>

(* SearchIsDone() stops the limit of a problem that is solved. *)
SearchEnd ==
  LET m == env[on]
  IN /\ ProblemIsSolved(m) \/ LimitReached
     /\ Step("search", "ended",
             AppendResponseToBeMerged([m EXCEPT !.stopped = @ \/ ProblemIsSolved(m)], "UNKNOWN"))
     /\ UNCHANGED <<found, answer>>

(* Mutant: a status that is not set is merged like any other. *)
MergedAlways(m) == IF m.front = None THEN m.status ELSE m.front

(* MergeFrom leaves what is not set, and UNKNOWN is zero. *)
MergedStatus(m) == IF m.front \in {None, "UNKNOWN"} THEN m.status ELSE m.front

(* Postprocessors of earlier calls refer to a CpModelSolver that is gone: they *)
(* act on the one that took its place, or on anything.  This call's own checks *)
(* the solution, once it got as far as adding it.                              *)
GetResponse ==
  LET m == env[on]
      solution == IF HasSolution(m) THEN m.solution ELSE None
      wrong == solution \notin problem.solutions \cup {None}
  IN /\ pc \in {"closed", "ended"}
     /\ pc' \in IF pc = "ended" /\ wrong THEN {"aborted"}
                ELSE IF m.used THEN {"idle", "aborted"} ELSE {"idle"}
     /\ answer' = IF pc' = "idle" THEN [status |-> MergedStatus(m), solution |-> solution]
                  ELSE None
     /\ env' = [env EXCEPT ![on].used = TRUE]
     /\ UNCHANGED <<sigints, requested, callVars, found>>

SolveNext ==
  \/ ValidateInputProto \/ Presolve \/ Share \/ LoadPresolvedModel \/ SolvePresolvedModel
  \/ SearchEnd \/ GetResponse

Next ==
  \/ newStopToken \/ stop
  \/ \E e \in DOMAIN env, p \in Problems, w \in BOOLEAN : Call(e, p, w)
  \/ Expire \/ Interrupt
  \/ SolveNext
  \/ \E v \in Values : Improve(v)
  \/ \E l \in MinValue..MaxValue + 1 : Bound(l)
  \/ Conclude
  \/ pc = "exited" /\ UNCHANGED vars

Spec == Init /\ [][Next]_vars

(* SolveCpModel runs on, and its search tests the limit; how soon it finds or  *)
(* proves anything is open.                                                    *)
FairSpec == Spec /\ WF_vars(SolveNext)
-----------------------------------------------------------------------------
TypeOK ==
  /\ env \in [{"token", "local"} ->
       [stopped : BOOLEAN, used : BOOLEAN, registered : BOOLEAN, status : Statuses,
        lb : Int, ub : Int, best : Int, rank : Int, solution : Values \cup {None},
        front : {None, "UNKNOWN", "INFEASIBLE", "MODEL_INVALID"}]]
  /\ sigints \in [{"token", "local"} -> Nat]
  /\ requested \in BOOLEAN
  /\ pc \in {"idle", "validate", "presolve", "share", "load", "start", "search", "closed",
             "ended", "aborted", "exited"}
  /\ on \in {"token", "local"} /\ problem \in Problems
  /\ many \in BOOLEAN /\ expired \in BOOLEAN
  /\ found \subseteq Values
  /\ answer \in {None} \cup ResponseType

NoBetter(v) == problem.objective => \A w \in problem.solutions : v <= w

(* "Like `solve`": the response is true of the problem that was asked, by its  *)
(* status and by its solution.                                                 *)
AnswersTheProblem ==
  answer # None =>
    /\ answer.status = "MODEL_INVALID" <=> ~problem.valid
    /\ answer.status = "INFEASIBLE" => problem.solutions = {}
    /\ IF answer.status \in {"FEASIBLE", "OPTIMAL"} THEN answer.solution \in problem.solutions
       ELSE answer.solution = None
    /\ answer.status = "OPTIMAL" => NoBetter(answer.solution)

(* Somebody stopped the limit of the call: StopToken.stop, on its token, or ^C.*)
StopRequested == (on = "token" /\ requested) \/ sigints[on] > 0

(* Only StopToken.stop, ^C and the call's own time limit leave a problem       *)
(* unsolved: no step of the call ends or loses its search otherwise, and no    *)
(* appended response makes a finished search look unfinished.                  *)
UnsolvedIsAskedFor ==
  answer # None /\ answer.status \in {"UNKNOWN", "FEASIBLE"} => expired \/ StopRequested

(* A search that is cut short gives back the best it found.                    *)
FoundIsKept ==
  answer # None /\ found # {} =>
    /\ answer.solution \in found
    /\ problem.objective => \A v \in found : answer.solution <= v

(* "cooperatively cancellable via `token`", and "catching the SIGINT signal     *)
(* will terminate the search gracefully": whenever stop was called, before the *)
(* call or at any point in it, or ^C pressed, the call ends.                   *)
StopEndsCall == (StopRequested /\ pc # "idle") ~> (pc \in {"idle", "aborted", "exited"})

-----------------------------------------------------------------------------
(* Why the answers hold, for a token that serves one solve.                    *)

(* A Model in which no search has begun. *)
Unsearched(m) ==
  /\ ~m.used /\ m.status = "UNKNOWN"
  /\ m.lb = -PosInf /\ m.ub = PosInf /\ m.best = PosInf
  /\ m.rank = PosInf /\ m.solution = None

(* A token that has not been used is fresh, but for a stop.                    *)
UnusedIsFresh ==
  LET m == env["token"]
  IN (pc = "idle" \/ on = "local") /\ ~m.used =>
       Unsearched(m) /\ ~m.registered /\ m.front = None /\ (m.stopped <=> requested)
         /\ sigints["token"] = 0

(* Every found solution is in the pool behind the best, and the bounds leave   *)
(* room for every better one.                                                  *)
SearchIsSound ==
  LET m == env[on]
  IN /\ ~m.used
     /\ m.stopped => ProblemIsSolved(m) \/ StopRequested
     /\ found \subseteq problem.solutions
     /\ HasSolution(m) <=> found # {}
     /\ m.solution \in (IF found = {} THEN {None} ELSE found)
     /\ m.rank = IF found = {} THEN PosInf ELSE Objective(m.solution)
     /\ m.best = IF problem.objective /\ found # {} THEN m.solution ELSE PosInf
     /\ problem.objective =>
          /\ \A v \in found : m.solution <= v
          /\ found # {} => m.ub < m.best
          /\ \A v \in problem.solutions : v < m.best => v \in m.lb..m.ub
     /\ m.status = "OPTIMAL" => NoBetter(m.solution)
     /\ m.status = "INFEASIBLE" => problem.solutions = {}
     /\ m.status # "MODEL_INVALID"

(* What is left to GetResponse at the end of either path. *)
EndIsSound ==
  LET m == env[on]
  IN /\ pc \notin {"closed", "ended"} => m.front = None
     /\ pc \in {"validate", "presolve", "share", "load", "closed"} => Unsearched(m)
     /\ pc \in {"validate", "presolve", "share", "closed"} => ~m.registered
     /\ pc \notin {"validate", "closed"} => problem.valid
     /\ pc = "closed" => \/ m.front = "MODEL_INVALID" /\ ~problem.valid
                         \/ m.front = "INFEASIBLE" /\ problem.valid /\ problem.solutions = {}
     /\ pc = "ended" => /\ m.front \in {None, "UNKNOWN"}
                        /\ ProblemIsSolved(m) \/ expired \/ StopRequested

IInv ==
  /\ TypeOK
  /\ UnusedIsFresh
  /\ pc # "aborted"
  /\ pc \notin {"idle", "exited"} => SearchIsSound /\ EndIsSound
  /\ pc # "idle" => answer = None
  /\ AnswersTheProblem /\ UnsolvedIsAskedFor /\ FoundIsKept

=============================================================================
