---------------------- MODULE InterruptibleSolve_proofs ---------------------
(***************************************************************************)
(* Proofs about InterruptibleSolve, for every set of problems and every    *)
(* domain of their objectives: when each token serves one solve, a call    *)
(* answers the problem it was given, with the best it found.               *)
(***************************************************************************)
EXTENDS InterruptibleSolve, TLAPS

-----------------------------------------------------------------------------
(* The Model of a call, apart from where the call is.                          *)

EnvType ==
  [stopped : BOOLEAN, used : BOOLEAN, registered : BOOLEAN, status : Statuses,
   lb : Int, ub : Int, best : Int, rank : Int, solution : Values \cup {None},
   front : {None, "UNKNOWN", "INFEASIBLE", "MODEL_INVALID"}]

(* SearchIsSound of the Model m and the found solutions f. *)
SoundEnv(m, f) ==
  /\ ~m.used
  /\ m.stopped => ProblemIsSolved(m) \/ StopRequested
  /\ f \subseteq problem.solutions
  /\ HasSolution(m) <=> f # {}
  /\ m.solution \in (IF f = {} THEN {None} ELSE f)
  /\ m.rank = IF f = {} THEN PosInf ELSE Objective(m.solution)
  /\ m.best = IF problem.objective /\ f # {} THEN m.solution ELSE PosInf
  /\ problem.objective =>
       /\ \A v \in f : m.solution <= v
       /\ f # {} => m.ub < m.best
       /\ \A v \in problem.solutions : v < m.best => v \in m.lb..m.ub
  /\ m.status = "OPTIMAL" => NoBetter(m.solution)
  /\ m.status = "INFEASIBLE" => problem.solutions = {}
  /\ m.status # "MODEL_INVALID"

(* EndIsSound of the Model m at a step of the call. *)
EndEnv(step, m) ==
  /\ step \notin {"closed", "ended"} => m.front = None
  /\ step \in {"validate", "presolve", "share", "load", "closed"} => Unsearched(m)
  /\ step \in {"validate", "presolve", "share", "closed"} => ~m.registered
  /\ step \notin {"validate", "closed"} => problem.valid
  /\ step = "closed" => \/ m.front = "MODEL_INVALID" /\ ~problem.valid
                        \/ m.front = "INFEASIBLE" /\ problem.valid /\ problem.solutions = {}
  /\ step = "ended" => /\ m.front \in {None, "UNKNOWN"}
                       /\ ProblemIsSolved(m) \/ expired \/ StopRequested

Steps == {"validate", "presolve", "share", "load", "start", "search", "closed", "ended"}

LEMMA FreshIsTyped == FreshEnv \in EnvType
BY SolveAssumption DEF FreshEnv, EnvType, Statuses, Values

(* What an answer may be derived from is in the type of the problem.           *)
LEMMA ProblemFields ==
  ASSUME problem \in Problems
  PROVE  /\ problem.valid \in BOOLEAN /\ problem.objective \in BOOLEAN
         /\ problem.solutions \subseteq Values
         /\ \A v \in problem.solutions : v \in Nat /\ MinValue <= v /\ v <= MaxValue /\ v < PosInf
         /\ None \notin problem.solutions
BY SolveAssumption DEF ProblemType, Values
-----------------------------------------------------------------------------
(* The operations of the response manager keep its Model sound.                *)

LEMMA LesserOf ==
  ASSUME NEW a \in Int, NEW b \in Int
  PROVE  /\ Lesser(a, b) \in Int
         /\ Lesser(a, b) = IF a < b THEN a ELSE b
BY DEF Lesser

LEMMA AppendIsSound ==
  ASSUME NEW m \in EnvType, NEW status \in {"UNKNOWN", "INFEASIBLE", "MODEL_INVALID"}, NEW f,
         SoundEnv(m, f), m.front = None
  PROVE  LET n == AppendResponseToBeMerged(m, status)
         IN /\ n \in EnvType /\ SoundEnv(n, f)
            /\ n.front = status /\ n.registered = m.registered
            /\ ProblemIsSolved(n) <=> ProblemIsSolved(m)
            /\ Unsearched(m) => Unsearched(n)
<1> DEFINE n == AppendResponseToBeMerged(m, status)
<1>1. n = [m EXCEPT !.front = status]
  BY DEF AppendResponseToBeMerged, EnvType
<1> HIDE DEF n
<1>2. /\ n \in EnvType /\ n.front = status
      /\ n.stopped = m.stopped /\ n.used = m.used /\ n.registered = m.registered
      /\ n.status = m.status /\ n.lb = m.lb /\ n.ub = m.ub /\ n.best = m.best
      /\ n.rank = m.rank /\ n.solution = m.solution
  BY <1>1 DEF EnvType
<1>3. SoundEnv(n, f)
  BY <1>2 DEF SoundEnv, HasSolution, ProblemIsSolved
<1>4. /\ ProblemIsSolved(n) <=> ProblemIsSolved(m)
      /\ Unsearched(m) => Unsearched(n)
  BY <1>2 DEF ProblemIsSolved, Unsearched
<1> QED BY <1>2, <1>3, <1>4 DEF n

LEMMA BoundsAreSound ==
  ASSUME problem \in Problems, problem.objective,
         NEW m \in EnvType, NEW f, SoundEnv(m, f),
         NEW l \in Int, NEW u \in Int,
         \A v \in problem.solutions : v < m.best => l <= v /\ v <= u
  PROVE  LET n == UpdateInnerObjectiveBounds(m, l, u)
         IN n \in EnvType /\ SoundEnv(n, f) /\ n.front = m.front
<1> DEFINE n == UpdateInnerObjectiveBounds(m, l, u)
<1>a. m.lb \in Int /\ m.ub \in Int /\ m.best \in Int /\ PosInf \in Int
  BY SolveAssumption DEF EnvType
<1>b. \A v \in problem.solutions : v \in Nat /\ v < PosInf
  BY ProblemFields
<1>1. CASE m.lb > m.ub \/ (l <= m.lb /\ u >= m.ub)
  BY <1>1 DEF UpdateInnerObjectiveBounds
<1>2. CASE ~(m.lb > m.ub \/ (l <= m.lb /\ u >= m.ub))
  <2> DEFINE lb == IF l > m.lb THEN Lesser(m.best, l) ELSE m.lb
             ub == Lesser(m.ub, u)
             status == IF lb <= ub THEN m.status
                       ELSE IF HasSolution(m) THEN "OPTIMAL" ELSE "INFEASIBLE"
  <2>1. n = [m EXCEPT !.lb = lb, !.ub = ub, !.status = status]
    BY <1>2 DEF UpdateInnerObjectiveBounds
  <2>2. lb \in Int /\ ub \in Int /\ (lb <= m.best \/ lb = m.lb)
    BY <1>a DEF Lesser
  <2>3. /\ lb \in Int /\ ub \in Int /\ ub <= m.ub
        /\ \A v \in problem.solutions : v < m.best => v \in m.lb..m.ub
        /\ \A v \in problem.solutions : v < m.best => v \in lb..ub
    BY <1>a, <1>b DEF Lesser, SoundEnv
  <2>4. status \in Statuses
    BY DEF Statuses, EnvType
  <2> HIDE DEF n, lb, ub
  <2>5. /\ n \in EnvType /\ n.lb = lb /\ n.ub = ub /\ n.status = status
        /\ n.front = m.front /\ n.stopped = m.stopped /\ n.used = m.used
        /\ n.best = m.best /\ n.rank = m.rank /\ n.solution = m.solution
    BY <2>1, <2>3, <2>4 DEF EnvType
  <2>6. /\ HasSolution(n) <=> HasSolution(m)
        /\ ProblemIsSolved(m) => ProblemIsSolved(n)
    BY <2>5 DEF HasSolution, ProblemIsSolved
  <2>7. n.status = "OPTIMAL" => NoBetter(n.solution)
    <3>1. CASE lb <= ub
      BY <2>5, <3>1 DEF SoundEnv
    <3>2. CASE ~(lb <= ub) /\ HasSolution(m)
      <4>1. \A v \in problem.solutions : ~(v < m.best)
        BY <2>3, <3>2
      <4>2. m.best = m.solution
        BY <3>2 DEF SoundEnv
      <4> QED BY <4>1, <4>2, <2>5, <1>a, <1>b DEF NoBetter
    <3>3. CASE ~(lb <= ub) /\ ~HasSolution(m)
      BY <2>5, <3>3
    <3> QED BY <3>1, <3>2, <3>3
  <2>8. n.status = "INFEASIBLE" => problem.solutions = {}
    <3>1. CASE lb <= ub
      BY <2>5, <3>1 DEF SoundEnv
    <3>2. CASE ~(lb <= ub) /\ ~HasSolution(m)
      <4>1. m.best = PosInf
        BY <3>2 DEF SoundEnv
      <4> QED BY <4>1, <2>3, <3>2, <1>b
    <3>3. CASE ~(lb <= ub) /\ HasSolution(m)
      BY <2>5, <3>3
    <3> QED BY <3>1, <3>2, <3>3
  <2>9. n.status # "MODEL_INVALID"
    BY <2>5 DEF SoundEnv
  <2>10. f # {} => n.ub < n.best
    BY <2>3, <2>5, <1>a DEF SoundEnv
  <2> HIDE DEF status
  <2>11. SoundEnv(n, f)
    BY <2>3, <2>5, <2>6, <2>7, <2>8, <2>9, <2>10 DEF SoundEnv
  <2> QED BY <2>5, <2>11 DEF n
<1> QED BY <1>1, <1>2

LEMMA SolutionIsSound ==
  ASSUME problem \in Problems,
         NEW m \in EnvType, NEW f, SoundEnv(m, f),
         NEW v \in problem.solutions, NEW n \in NewSolution(m, v)
  PROVE  n \in EnvType /\ SoundEnv(n, f \cup {v}) /\ n.front = m.front
<1> DEFINE g == f \cup {v}
<1>a. m.lb \in Int /\ m.ub \in Int /\ m.best \in Int /\ m.rank \in Int /\ PosInf \in Int
  BY SolveAssumption DEF EnvType
<1>b. /\ problem.objective \in BOOLEAN /\ problem.solutions \subseteq Values
      /\ \A w \in problem.solutions : w \in Nat /\ w < PosInf
  BY ProblemFields
<1>c. v \in Nat /\ v < PosInf /\ v \in Values /\ 0 < PosInf
  BY <1>b, SolveAssumption
<1>d. Objective(v) \in Int
  BY <1>c DEF Objective
<1>e. LET p == First(m, v)
      IN /\ p \in EnvType /\ p.rank = Objective(v) /\ p.solution = v
         /\ p.front = m.front /\ p.stopped = m.stopped /\ p.used = m.used
         /\ p.lb = m.lb /\ p.ub = m.ub /\ p.best = m.best /\ p.status = m.status
  BY <1>c, <1>d DEF First, EnvType
<1>f. f \subseteq problem.solutions /\ g \subseteq problem.solutions /\ g # {}
  BY DEF SoundEnv
<1>1. CASE ~problem.objective
  <2>1. PICK p \in Pool(m, v) : n = [p EXCEPT !.status = "OPTIMAL"]
    BY <1>1 DEF NewSolution
  <2>2. p \in EnvType /\ (p = m \/ p = First(m, v))
    BY <2>1, <1>e DEF Pool
  <2>3. /\ n \in EnvType /\ n.status = "OPTIMAL"
        /\ n.front = p.front /\ n.stopped = p.stopped /\ n.used = p.used
        /\ n.best = p.best /\ n.rank = p.rank /\ n.solution = p.solution
    BY <2>1, <2>2 DEF EnvType, Statuses
  <2>4. n.front = m.front /\ n.stopped = m.stopped /\ n.used = m.used /\ n.best = m.best
    BY <2>2, <2>3, <1>e
  <2>5. n.solution \in g /\ n.rank = 0
    <3>1. CASE p = First(m, v)
      BY <3>1, <2>3, <1>e, <1>1 DEF Objective
    <3>2. CASE p = m /\ p # First(m, v)
      <4>1. Objective(v) = 0 /\ ~(0 < m.rank)
        BY <3>2, <2>1, <1>1 DEF Pool, Objective
      <4>2. f # {}
        BY <4>1, <1>c, <1>1 DEF SoundEnv
      <4> QED BY <4>2, <3>2, <2>3, <1>1 DEF SoundEnv, Objective
    <3> QED BY <3>1, <3>2, <2>2
  <2>6. HasSolution(n) /\ ProblemIsSolved(n)
    BY <2>3 DEF HasSolution, ProblemIsSolved
  <2>7. n.best = PosInf
    BY <2>4, <1>1 DEF SoundEnv
  <2>8. ~n.used
    BY <2>4 DEF SoundEnv
  <2>9. SoundEnv(n, g)
    BY <2>3, <2>5, <2>6, <2>7, <2>8, <1>1, <1>f DEF SoundEnv, Objective, NoBetter
  <2> QED BY <2>3, <2>4, <2>9
<1>2. CASE problem.objective /\ v > m.ub
  <2>1. f # {} /\ m.best = m.solution /\ m.rank = m.solution /\ m.solution \in f
        /\ ~(v < m.best)
    BY <1>2, <1>a, <1>c DEF SoundEnv, Objective
  <2>2. n \in Pool(m, v) /\ Objective(v) = v
    BY <1>2 DEF NewSolution, Objective
  <2>3. n = m \/ (n = First(m, v) /\ v = m.solution)
    BY <2>1, <2>2, <1>a, <1>c DEF Pool
  <2>4. /\ n \in EnvType /\ n.rank = m.rank /\ n.solution = m.solution
        /\ n.front = m.front /\ n.stopped = m.stopped /\ n.used = m.used
        /\ n.lb = m.lb /\ n.ub = m.ub /\ n.best = m.best /\ n.status = m.status
    BY <2>1, <2>2, <2>3, <1>e
  <2>5. \A w \in g : n.solution <= w
    BY <2>1, <2>4, <1>a, <1>c, <1>2 DEF SoundEnv
  <2>6. /\ HasSolution(n) <=> HasSolution(m)
        /\ ProblemIsSolved(n) <=> ProblemIsSolved(m)
    BY <2>4 DEF HasSolution, ProblemIsSolved
  <2>7. SoundEnv(n, g)
    BY <2>1, <2>4, <2>5, <2>6, <1>2, <1>f DEF SoundEnv, Objective
  <2> QED BY <2>4, <2>7
<1>3. CASE problem.objective /\ ~(v > m.ub)
  <2>1. v < m.best /\ v < m.rank /\ m.solution \in (IF f = {} THEN {None} ELSE f)
    BY <1>3, <1>a, <1>c DEF SoundEnv, Objective
  <2>2. n = Improving(First(m, v), v) /\ Objective(v) = v
    BY <1>3, <2>1 DEF NewSolution, Pool, Objective
  <2>3. /\ n \in EnvType /\ n.rank = v /\ n.solution = v
        /\ n.front = m.front /\ n.stopped = m.stopped /\ n.used = m.used
        /\ n.lb = m.lb /\ n.ub = v - 1 /\ n.best = v
        /\ n.status = IF m.lb > v - 1 THEN "OPTIMAL" ELSE "FEASIBLE"
    <3> DEFINE p == First(m, v)
               u == v - 1
               s == IF m.lb > v - 1 THEN "OPTIMAL" ELSE "FEASIBLE"
    <3>1. p \in EnvType /\ s \in Statuses /\ u \in Int /\ v \in Int
      BY <1>c, <1>e DEF Statuses
    <3>2. n = [p EXCEPT !.best = v, !.ub = u, !.status = s]
      BY <2>2, <1>e DEF Improving
    <3> HIDE DEF p, u, s
    <3>3. /\ n \in EnvType /\ n.rank = p.rank /\ n.solution = p.solution
          /\ n.front = p.front /\ n.stopped = p.stopped /\ n.used = p.used
          /\ n.lb = p.lb /\ n.ub = u /\ n.best = v /\ n.status = s
      BY <3>1, <3>2 DEF EnvType
    <3> QED BY <3>3, <1>e, <2>2 DEF p, u, s
  <2>4. \A w \in g : v <= w
    <3>1. \A w \in f : m.best <= w
      BY <1>3 DEF SoundEnv
    <3> QED BY <3>1, <2>1, <1>a, <1>b, <1>f
  <2>5. \A w \in problem.solutions : w < v => w \in m.lb..(v - 1)
    BY <2>1, <1>3, <1>a, <1>b, <1>c DEF SoundEnv
  <2>6. n.status = "OPTIMAL" => NoBetter(v)
    BY <2>3, <2>5, <1>a, <1>b, <1>c DEF NoBetter
  <2>7. ~ProblemIsSolved(m)
    <3>1. m.status # "INFEASIBLE"
      BY DEF SoundEnv
    <3>2. ASSUME m.status = "OPTIMAL" PROVE FALSE
      <4>1. f # {} /\ m.best = m.solution /\ NoBetter(m.solution)
        BY <3>2, <1>3 DEF SoundEnv, HasSolution
      <4> QED BY <4>1, <2>1, <1>3, <1>a, <1>c DEF NoBetter
    <3> QED BY <3>1, <3>2 DEF ProblemIsSolved
  <2>8. HasSolution(n)
    BY <2>3 DEF HasSolution
  <2>9. m.stopped => StopRequested
    BY <2>7 DEF SoundEnv
  <2>10. n.status \notin {"INFEASIBLE", "MODEL_INVALID"}
    BY <2>3
  <2>11. n.ub < n.best
    BY <2>3, <1>c
  <2>12. ~n.used
    BY <2>3 DEF SoundEnv
  <2>13. SoundEnv(n, g)
    BY <2>3, <2>4, <2>5, <2>6, <2>8, <2>9, <2>10, <2>11, <2>12, <1>3, <1>f, <2>2
       DEF SoundEnv, Objective
  <2> QED BY <2>3, <2>13
<1> QED BY <1>1, <1>2, <1>3

LEMMA ConclusionIsSound ==
  ASSUME problem \in Problems,
         NEW m \in EnvType, NEW f, SoundEnv(m, f),
         IF problem.objective THEN \A v \in problem.solutions : v \notin m.lb..m.ub
         ELSE problem.solutions = {}
  PROVE  LET n == NotifyThatImprovingProblemIsInfeasible(m)
         IN n \in EnvType /\ SoundEnv(n, f) /\ n.front = m.front
<1> DEFINE n == NotifyThatImprovingProblemIsInfeasible(m)
<1>a. m.lb \in Int /\ m.ub \in Int /\ m.best \in Int /\ PosInf \in Int
  BY SolveAssumption DEF EnvType
<1>b. \A v \in problem.solutions : v \in Nat /\ v < PosInf
  BY ProblemFields
<1>1. /\ n \in EnvType /\ n.front = m.front /\ n.stopped = TRUE /\ n.used = m.used
      /\ n.ub = m.ub /\ n.best = m.best /\ n.rank = m.rank /\ n.solution = m.solution
      /\ n.lb = IF HasSolution(m) THEN m.best ELSE m.lb
      /\ n.status = IF HasSolution(m) THEN "OPTIMAL" ELSE "INFEASIBLE"
  BY DEF NotifyThatImprovingProblemIsInfeasible, EnvType, Statuses
<1> HIDE DEF n
<1>2. HasSolution(n) <=> HasSolution(m)
  BY <1>1 DEF HasSolution
<1>3. ProblemIsSolved(n)
  BY <1>1 DEF ProblemIsSolved
<1>4. problem.objective => \A v \in problem.solutions : ~(v < m.best)
  BY DEF SoundEnv
<1>5. n.status = "OPTIMAL" => NoBetter(n.solution)
  <2> SUFFICES ASSUME HasSolution(m), problem.objective
               PROVE  \A w \in problem.solutions : n.solution <= w
    BY <1>1 DEF NoBetter
  <2>1. m.best = m.solution
    BY DEF SoundEnv
  <2> QED BY <2>1, <1>1, <1>4, <1>a, <1>b
<1>6. n.status = "INFEASIBLE" => problem.solutions = {}
  <2> SUFFICES ASSUME ~HasSolution(m), problem.objective PROVE problem.solutions = {}
    BY <1>1
  <2>1. m.best = PosInf
    BY DEF SoundEnv
  <2> QED BY <2>1, <1>4, <1>b
<1>7. problem.objective => \A v \in problem.solutions : v < n.best => v \in n.lb..n.ub
  BY <1>1, <1>4
<1>8. n.status # "MODEL_INVALID"
  BY <1>1
<1>9. SoundEnv(n, f)
  BY <1>1, <1>2, <1>3, <1>5, <1>6, <1>7, <1>8 DEF SoundEnv
<1> QED BY <1>1, <1>9 DEF n

-----------------------------------------------------------------------------
(* The steps of a call.                                                        *)

(* What the invariant says of the call in progress. *)
LEMMA InCall ==
  ASSUME IInv, pc \in Steps
  PROVE  /\ env[on] \in EnvType /\ problem \in Problems /\ answer = None
         /\ found \subseteq Values
         /\ SoundEnv(env[on], found) /\ EndEnv(pc, env[on])
<1>1. pc \notin {"idle", "exited"}
  BY DEF Steps
<1>2. SearchIsSound /\ EndIsSound /\ answer = None /\ TypeOK
  BY <1>1 DEF IInv
<1>3. SoundEnv(env[on], found)
  BY <1>2 DEF SearchIsSound, SoundEnv
<1>4. EndEnv(pc, env[on])
  BY <1>2 DEF EndIsSound, EndEnv
<1>5. env[on] \in EnvType /\ problem \in Problems /\ found \subseteq Values
  BY <1>2 DEF TypeOK, EnvType
<1> QED BY <1>2, <1>3, <1>4, <1>5

(* A step that leaves a sound Model keeps the invariant. *)
LEMMA StepKeeps ==
  ASSUME IInv, NEW from \in Steps, NEW to \in Steps, NEW n \in EnvType, Step(from, to, n),
         answer' = answer, found' \subseteq Values,
         SoundEnv(n, found'), EndEnv(to, n)
  PROVE  IInv'
<1>1. /\ pc = from /\ pc' = to /\ env' = [env EXCEPT ![on] = n]
      /\ UNCHANGED <<sigints, requested, on, problem, many, expired>>
  BY DEF Step, callVars
<1>2. pc # "idle" /\ pc' # "idle" /\ pc' # "aborted" /\ answer = None /\ answer' = None
  BY <1>1 DEF IInv, Steps
<1>3. TypeOK
  BY DEF IInv
<1>4. /\ env'[on] = n
      /\ on = "local" => env'["token"] = env["token"]
      /\ env' \in [{"token", "local"} -> EnvType]
  BY <1>1, <1>3 DEF TypeOK, EnvType
<1>5. TypeOK'
  BY <1>1, <1>2, <1>3, <1>4 DEF TypeOK, EnvType, Steps
<1>6. UnusedIsFresh'
  <2>1. UnusedIsFresh
    BY DEF IInv
  <2>2. CASE on = "token"
    BY <1>1, <1>2, <2>2 DEF UnusedIsFresh
  <2>3. CASE on = "local"
    BY <1>1, <1>4, <2>1, <2>3 DEF UnusedIsFresh, Unsearched
  <2> QED BY <2>2, <2>3, <1>3 DEF TypeOK
<1>7. SearchIsSound'
  BY <1>1, <1>4 DEF SoundEnv, SearchIsSound, Objective, NoBetter, StopRequested
<1>8. EndIsSound'
  BY <1>1, <1>4 DEF EndEnv, EndIsSound, StopRequested
<1>9. (AnswersTheProblem /\ UnsolvedIsAskedFor /\ FoundIsKept)'
  BY <1>2 DEF AnswersTheProblem, UnsolvedIsAskedFor, FoundIsKept
<1> QED BY <1>2, <1>5, <1>6, <1>7, <1>8, <1>9 DEF IInv


LEMMA ValidateKeeps == ASSUME IInv, ValidateInputProto PROVE IInv'
<1>1. pc = "validate" /\ pc \in Steps /\ found' = found /\ answer' = answer
  BY DEF ValidateInputProto, Step, Steps
<1>2. /\ env[on] \in EnvType /\ SoundEnv(env[on], found) /\ EndEnv("validate", env[on])
      /\ found \subseteq Values
  BY <1>1, InCall
<1>3. CASE problem.valid
  <2>1. Step("validate", "presolve", env[on])
    BY <1>3 DEF ValidateInputProto
  <2>2. EndEnv("presolve", env[on])
    BY <1>2, <1>3 DEF EndEnv
  <2> QED BY <1>1, <1>2, <2>1, <2>2, StepKeeps DEF Steps
<1>4. CASE ~problem.valid
  <2> DEFINE n == AppendResponseToBeMerged(env[on], "MODEL_INVALID")
  <2>1. Step("validate", "closed", n)
    BY <1>4 DEF ValidateInputProto
  <2>2. env[on].front = None /\ Unsearched(env[on]) /\ ~env[on].registered
    BY <1>2 DEF EndEnv
  <2>3. /\ n \in EnvType /\ SoundEnv(n, found) /\ n.front = "MODEL_INVALID"
        /\ n.registered = env[on].registered /\ Unsearched(n)
    BY <1>2, <2>2, AppendIsSound
  <2> HIDE DEF n
  <2>4. EndEnv("closed", n)
    BY <1>4, <2>2, <2>3 DEF EndEnv
  <2> QED BY <1>1, <1>2, <2>1, <2>3, <2>4, StepKeeps DEF Steps
<1> QED BY <1>3, <1>4

LEMMA PresolveKeeps == ASSUME IInv, Presolve PROVE IInv'
<1>1. pc = "presolve" /\ pc \in Steps /\ found' = found /\ answer' = answer
  BY DEF Presolve, Step, Steps
<1>2. /\ env[on] \in EnvType /\ SoundEnv(env[on], found) /\ EndEnv("presolve", env[on])
      /\ found \subseteq Values
  BY <1>1, InCall
<1>3. CASE Step("presolve", "share", env[on])
  <2>1. EndEnv("share", env[on])
    BY <1>2 DEF EndEnv
  <2> QED BY <1>1, <1>2, <1>3, <2>1, StepKeeps DEF Steps
<1>4. CASE /\ problem.solutions = {}
           /\ Step("presolve", "closed", AppendResponseToBeMerged(env[on], "INFEASIBLE"))
  <2> DEFINE n == AppendResponseToBeMerged(env[on], "INFEASIBLE")
  <2>1. Step("presolve", "closed", n)
    BY <1>4
  <2>2. env[on].front = None /\ Unsearched(env[on]) /\ ~env[on].registered /\ problem.valid
    BY <1>2 DEF EndEnv
  <2>3. /\ n \in EnvType /\ SoundEnv(n, found) /\ n.front = "INFEASIBLE"
        /\ n.registered = env[on].registered /\ Unsearched(n)
    BY <1>2, <2>2, AppendIsSound
  <2> HIDE DEF n
  <2>4. EndEnv("closed", n)
    BY <1>4, <2>2, <2>3 DEF EndEnv
  <2> QED BY <1>1, <1>2, <2>1, <2>3, <2>4, StepKeeps DEF Steps
<1> QED BY <1>3, <1>4 DEF Presolve

LEMMA ShareKeeps == ASSUME IInv, Share PROVE IInv'
<1> DEFINE m == [env[on] EXCEPT !.registered = @ \/ many]
           n == AppendResponseToBeMerged(m, "UNKNOWN")
<1>1. pc = "share" /\ pc \in Steps /\ found' = found /\ answer' = answer
  BY DEF Share, Step, Steps
<1>2. /\ env[on] \in EnvType /\ SoundEnv(env[on], found) /\ EndEnv("share", env[on])
      /\ found \subseteq Values
  BY <1>1, InCall
<1>3. env[on].front = None /\ Unsearched(env[on]) /\ ~env[on].registered /\ problem.valid
  BY <1>2 DEF EndEnv
<1>4. many \in BOOLEAN
  BY DEF IInv, TypeOK
<1>5. /\ m \in EnvType /\ m.front = None
      /\ m.stopped = env[on].stopped /\ m.used = env[on].used
      /\ m.status = env[on].status /\ m.lb = env[on].lb /\ m.ub = env[on].ub
      /\ m.best = env[on].best /\ m.rank = env[on].rank /\ m.solution = env[on].solution
  <2> DEFINE e == env[on]
             r == e.registered \/ many
  <2>1. e \in EnvType /\ r \in BOOLEAN /\ m = [e EXCEPT !.registered = r]
    BY <1>2, <1>4 DEF EnvType
  <2>2. e.front = None
    BY <1>3
  <2> HIDE DEF e, r, m
  <2>3. /\ m \in EnvType /\ m.front = e.front /\ m.stopped = e.stopped /\ m.used = e.used
        /\ m.status = e.status /\ m.lb = e.lb /\ m.ub = e.ub
        /\ m.best = e.best /\ m.rank = e.rank /\ m.solution = e.solution
    BY <2>1 DEF EnvType
  <2> QED BY <2>2, <2>3 DEF e
<1>6. SoundEnv(m, found) /\ Unsearched(m)
  BY <1>2, <1>3, <1>5 DEF SoundEnv, HasSolution, ProblemIsSolved, Unsearched
<1>7. \/ LimitReached /\ Step("share", "ended", n)
      \/ Step("share", "load", m)
  BY <1>3 DEF Share
<1> HIDE DEF m
<1>8. CASE LimitReached /\ Step("share", "ended", n)
  <2>1. n \in EnvType /\ SoundEnv(n, found) /\ n.front = "UNKNOWN"
    BY <1>5, <1>6, AppendIsSound
  <2>2. expired \/ StopRequested
    BY <1>2, <1>3, <1>8 DEF LimitReached, SoundEnv, Unsearched, ProblemIsSolved
  <2> HIDE DEF n
  <2>3. EndEnv("ended", n)
    BY <1>3, <2>1, <2>2 DEF EndEnv
  <2> QED BY <1>1, <1>2, <1>8, <2>1, <2>3, StepKeeps DEF Steps
<1>9. CASE Step("share", "load", m)
  <2>1. EndEnv("load", m)
    BY <1>3, <1>5, <1>6 DEF EndEnv
  <2> QED BY <1>1, <1>2, <1>5, <1>6, <1>9, <2>1, StepKeeps DEF Steps
<1> QED BY <1>7, <1>8, <1>9

LEMMA LoadKeeps == ASSUME IInv, LoadPresolvedModel PROVE IInv'
<1> DEFINE m == IF problem.objective THEN UpdateInnerObjectiveBounds(env[on], MinValue, MaxValue)
                ELSE env[on]
<1>1. pc = "load" /\ pc \in Steps /\ answer' = answer
  BY DEF LoadPresolvedModel, Step, Steps
<1>2. /\ env[on] \in EnvType /\ SoundEnv(env[on], found) /\ EndEnv("load", env[on])
      /\ found \subseteq Values /\ problem \in Problems
  BY <1>1, InCall
<1>3. env[on].front = None /\ Unsearched(env[on]) /\ problem.valid
  BY <1>2 DEF EndEnv
<1>4. m \in EnvType /\ SoundEnv(m, found) /\ m.front = None
  <2>1. CASE problem.objective
    <3>1. \A v \in problem.solutions : MinValue <= v /\ v <= MaxValue
      BY <1>2, ProblemFields
    <3>2. MinValue \in Int /\ MaxValue \in Int
      BY SolveAssumption
    <3> QED BY <1>2, <1>3, <2>1, <3>1, <3>2, BoundsAreSound
  <2>2. CASE ~problem.objective
    BY <1>2, <1>3, <2>2
  <2> QED BY <2>1, <2>2
<1>5. found = {}
  BY <1>2, <1>3 DEF SoundEnv, Unsearched, HasSolution
<1>6. \/ Step("load", "start", m) /\ found' = found
      \/ \E n \in NewSolution(m, problem.hint) :
           /\ problem.hint \in problem.solutions
           /\ Step("load", "start", n)
           /\ found' = {problem.hint}
  BY DEF LoadPresolvedModel
<1> HIDE DEF m
<1>7. CASE Step("load", "start", m) /\ found' = found
  <2>1. EndEnv("start", m)
    BY <1>3, <1>4 DEF EndEnv
  <2> QED BY <1>1, <1>2, <1>4, <1>7, <2>1, StepKeeps DEF Steps
<1>8. ASSUME NEW n \in NewSolution(m, problem.hint), problem.hint \in problem.solutions,
             Step("load", "start", n), found' = {problem.hint}
      PROVE  IInv'
  <2>1. n \in EnvType /\ SoundEnv(n, found \cup {problem.hint}) /\ n.front = None
    BY <1>2, <1>4, <1>8, SolutionIsSound
  <2>2. SoundEnv(n, found') /\ found' \subseteq Values
    <3>1. found' = found \cup {problem.hint} /\ problem.solutions \subseteq Values
      BY <1>2, <1>5, <1>8, ProblemFields
    <3> QED BY <2>1, <3>1, <1>8
  <2>3. EndEnv("start", n)
    BY <1>3, <2>1 DEF EndEnv
  <2> QED BY <1>1, <1>8, <2>1, <2>2, <2>3, StepKeeps DEF Steps
<1> QED BY <1>6, <1>7, <1>8


LEMMA StartKeeps == ASSUME IInv, SolvePresolvedModel PROVE IInv'
<1>1. pc = "start" /\ pc \in Steps /\ found' = found /\ answer' = answer
  BY DEF SolvePresolvedModel, Step, Steps
<1>2. /\ env[on] \in EnvType /\ SoundEnv(env[on], found) /\ EndEnv("start", env[on])
      /\ found \subseteq Values
  BY <1>1, InCall
<1>3. CASE LimitReached
  <2>1. Step("start", "ended", env[on])
    BY <1>3 DEF SolvePresolvedModel
  <2>2. EndEnv("ended", env[on])
    BY <1>2, <1>3 DEF EndEnv, SoundEnv, LimitReached
  <2> QED BY <1>1, <1>2, <2>1, <2>2, StepKeeps DEF Steps
<1>4. CASE ~LimitReached
  <2>1. Step("start", "search", env[on])
    BY <1>4 DEF SolvePresolvedModel
  <2>2. EndEnv("search", env[on])
    BY <1>2 DEF EndEnv
  <2> QED BY <1>1, <1>2, <2>1, <2>2, StepKeeps DEF Steps
<1> QED BY <1>3, <1>4

(* A step within the search. *)
LEMMA SearchKeeps ==
  ASSUME IInv, NEW n \in EnvType, Step("search", "search", n), answer' = answer,
         found' \subseteq Values, SoundEnv(n, found'), n.front = env[on].front
  PROVE  IInv'
<1>1. pc = "search" /\ pc \in Steps
  BY DEF Step, Steps
<1>2. EndEnv("search", env[on])
  BY <1>1, InCall
<1>3. EndEnv("search", n)
  BY <1>2 DEF EndEnv
<1> QED BY <1>1, <1>3, StepKeeps DEF Steps

LEMMA ImproveKeeps == ASSUME IInv, NEW v \in Values, Improve(v) PROVE IInv'
<1>1. pc = "search" /\ pc \in Steps /\ answer' = answer /\ v \in problem.solutions
      /\ found' = found \cup {v}
  BY DEF Improve, Step, Steps
<1>2. /\ env[on] \in EnvType /\ SoundEnv(env[on], found) /\ found \subseteq Values
      /\ problem \in Problems
  BY <1>1, InCall
<1>3. PICK n \in NewSolution(env[on], v) : Step("search", "search", n)
  BY DEF Improve
<1>4. n \in EnvType /\ SoundEnv(n, found \cup {v}) /\ n.front = env[on].front
  BY <1>1, <1>2, SolutionIsSound
<1>5. SoundEnv(n, found') /\ found' \subseteq Values
  BY <1>1, <1>2, <1>4
<1> QED BY <1>1, <1>3, <1>4, <1>5, SearchKeeps

LEMMA BoundKeeps == ASSUME IInv, NEW l \in Int, Bound(l) PROVE IInv'
<1> DEFINE n == UpdateInnerObjectiveBounds(env[on], l, env[on].ub)
<1>1. /\ pc = "search" /\ pc \in Steps /\ answer' = answer /\ found' = found
      /\ problem.objective /\ Step("search", "search", n)
  BY DEF Bound, Step, Steps
<1>2. /\ env[on] \in EnvType /\ SoundEnv(env[on], found) /\ found \subseteq Values
      /\ problem \in Problems
  BY <1>1, InCall
<1>3. env[on].ub \in Int
  BY <1>2 DEF EnvType
<1>4. \A v \in problem.solutions : v < env[on].best => l <= v /\ v <= env[on].ub
  <2>1. \A v \in problem.solutions : v < env[on].best => v \in env[on].lb..env[on].ub
    BY <1>1, <1>2 DEF SoundEnv
  <2>2. \A v \in problem.solutions : v <= env[on].ub => v >= l
    BY DEF Bound
  <2>3. \A v \in problem.solutions : v \in Nat
    BY <1>2, ProblemFields
  <2> QED BY <2>1, <2>2, <2>3, <1>3
<1>5. n \in EnvType /\ SoundEnv(n, found) /\ n.front = env[on].front
  BY <1>1, <1>2, <1>3, <1>4, BoundsAreSound
<1> HIDE DEF n
<1>6. SoundEnv(n, found') /\ found' \subseteq Values
  BY <1>1, <1>2, <1>5
<1> QED BY <1>1, <1>5, <1>6, SearchKeeps

LEMMA ConcludeKeeps == ASSUME IInv, Conclude PROVE IInv'
<1> DEFINE n == NotifyThatImprovingProblemIsInfeasible(env[on])
<1>1. /\ pc = "search" /\ pc \in Steps /\ answer' = answer /\ found' = found
      /\ Step("search", "search", n)
  BY DEF Conclude, Step, Steps
<1>2. /\ env[on] \in EnvType /\ SoundEnv(env[on], found) /\ found \subseteq Values
      /\ problem \in Problems
  BY <1>1, InCall
<1>3. n \in EnvType /\ SoundEnv(n, found) /\ n.front = env[on].front
  BY <1>2, ConclusionIsSound DEF Conclude
<1> HIDE DEF n
<1>4. SoundEnv(n, found') /\ found' \subseteq Values
  BY <1>1, <1>2, <1>3
<1> QED BY <1>1, <1>3, <1>4, SearchKeeps

LEMMA SearchEndKeeps == ASSUME IInv, SearchEnd PROVE IInv'
<1> DEFINE e == env[on]
           stops == e.stopped \/ ProblemIsSolved(e)
           m == [e EXCEPT !.stopped = stops]
           n == AppendResponseToBeMerged(m, "UNKNOWN")
<1>1. /\ pc = "search" /\ pc \in Steps /\ answer' = answer /\ found' = found
      /\ ProblemIsSolved(e) \/ LimitReached
  BY DEF SearchEnd, Step, Steps
<1>2. /\ e \in EnvType /\ SoundEnv(e, found) /\ EndEnv("search", e) /\ found \subseteq Values
  BY <1>1, InCall
<1>3. Step("search", "ended", n)
  BY DEF SearchEnd
<1>4. e.front = None /\ problem.valid
  BY <1>2 DEF EndEnv
<1>5. stops \in BOOLEAN
  BY <1>2 DEF EnvType, ProblemIsSolved
<1>6. ProblemIsSolved(e) \/ expired \/ StopRequested
  BY <1>1, <1>2 DEF SoundEnv, LimitReached
<1> HIDE DEF e, n
<1>7. stops => ProblemIsSolved(e) \/ StopRequested
  BY <1>2 DEF SoundEnv
<1> HIDE DEF stops
<1>8. /\ m \in EnvType /\ m.front = None /\ m.stopped = stops /\ m.used = e.used
      /\ m.status = e.status /\ m.lb = e.lb /\ m.ub = e.ub
      /\ m.best = e.best /\ m.rank = e.rank /\ m.solution = e.solution
  BY <1>2, <1>4, <1>5 DEF EnvType
<1> HIDE DEF m
<1>9. SoundEnv(m, found) /\ (ProblemIsSolved(m) <=> ProblemIsSolved(e))
  BY <1>2, <1>7, <1>8 DEF SoundEnv, HasSolution, ProblemIsSolved
<1>10. /\ n \in EnvType /\ SoundEnv(n, found) /\ n.front = "UNKNOWN"
       /\ ProblemIsSolved(n) <=> ProblemIsSolved(e)
  BY <1>8, <1>9, AppendIsSound DEF n
<1>11. EndEnv("ended", n)
  BY <1>4, <1>6, <1>10 DEF EndEnv
<1>12. SoundEnv(n, found') /\ found' \subseteq Values
  BY <1>1, <1>2, <1>10
<1> QED BY <1>1, <1>3, <1>10, <1>11, <1>12, StepKeeps DEF Steps

LEMMA GetResponseKeeps == ASSUME IInv, GetResponse PROVE IInv'
<1> DEFINE m == env[on]
           solution == IF HasSolution(m) THEN m.solution ELSE None
<1>1. /\ pc \in {"closed", "ended"} /\ pc \in Steps
      /\ UNCHANGED <<sigints, requested, on, problem, many, expired, found>>
  BY DEF GetResponse, Steps, callVars
<1>2. /\ m \in EnvType /\ SoundEnv(m, found) /\ EndEnv(pc, m) /\ found \subseteq Values
      /\ problem \in Problems /\ TypeOK /\ UnusedIsFresh
  BY <1>1, InCall DEF IInv
<1>3. /\ found \subseteq problem.solutions /\ ~m.used
      /\ HasSolution(m) <=> found # {}
      /\ HasSolution(m) => m.solution \in found
  BY <1>2 DEF SoundEnv
<1>4. /\ solution \in problem.solutions \cup {None}
      /\ solution \in Values \cup {None}
  BY <1>2, <1>3
<1>5. pc' = "idle"
  BY <1>3, <1>4 DEF GetResponse
<1>6. answer' = [status |-> MergedStatus(m), solution |-> solution]
  BY <1>5 DEF GetResponse
<1>7. ASSUME pc = "closed"
      PROVE  /\ solution = None /\ found = {}
             /\ \/ MergedStatus(m) = "MODEL_INVALID" /\ ~problem.valid
                \/ MergedStatus(m) = "INFEASIBLE" /\ problem.valid /\ problem.solutions = {}
  <2>1. /\ Unsearched(m)
        /\ \/ m.front = "MODEL_INVALID" /\ ~problem.valid
           \/ m.front = "INFEASIBLE" /\ problem.valid /\ problem.solutions = {}
    BY <1>2, <1>7 DEF EndEnv
  <2>2. MergedStatus(m) = m.front
    BY <2>1, SolveAssumption DEF MergedStatus, Statuses
  <2>3. solution = None /\ found = {}
    BY <2>1, <1>3 DEF Unsearched, HasSolution
  <2> QED BY <2>1, <2>2, <2>3
<1>8. ASSUME pc = "ended"
      PROVE  /\ problem.valid /\ MergedStatus(m) = m.status
             /\ ProblemIsSolved(m) \/ expired \/ StopRequested
  BY <1>2, <1>8 DEF EndEnv, MergedStatus
<1>9. MergedStatus(m) \in Statuses
  BY <1>1, <1>2, <1>7, <1>8 DEF EnvType, Statuses
<1> HIDE DEF solution
<1>10. answer' \in ResponseType /\ answer' # None
       /\ answer'.status = MergedStatus(m) /\ answer'.solution = solution
  <2>1. answer' \in ResponseType
    BY <1>4, <1>6, <1>9 DEF ResponseType
  <2> QED BY <2>1, <1>6, SolveAssumption
<1>11. AnswersTheProblem'
  <2>1. CASE pc = "closed"
    BY <1>1, <1>7, <1>10, <2>1 DEF AnswersTheProblem
  <2>2. CASE pc = "ended"
    <3>1. /\ m.status = "OPTIMAL" => NoBetter(m.solution)
          /\ m.status = "INFEASIBLE" => problem.solutions = {}
          /\ m.status # "MODEL_INVALID"
      BY <1>2 DEF SoundEnv
    <3>2. /\ m.status \in {"FEASIBLE", "OPTIMAL"} => solution = m.solution /\ solution \in problem.solutions
          /\ m.status \notin {"FEASIBLE", "OPTIMAL"} => solution = None
      BY <1>3 DEF solution, HasSolution
    <3> QED BY <1>1, <1>8, <1>10, <2>2, <3>1, <3>2 DEF AnswersTheProblem, NoBetter
  <2> QED BY <1>1, <2>1, <2>2
<1>12. UnsolvedIsAskedFor'
  <2>1. CASE pc = "closed"
    BY <1>1, <1>7, <1>10, <2>1 DEF UnsolvedIsAskedFor
  <2>2. CASE pc = "ended"
    BY <1>1, <1>8, <1>10, <2>2 DEF UnsolvedIsAskedFor, ProblemIsSolved, StopRequested
  <2> QED BY <1>1, <2>1, <2>2
<1>13. FoundIsKept'
  <2>1. CASE pc = "closed"
    BY <1>1, <1>7, <2>1 DEF FoundIsKept
  <2>2. ASSUME found # {}
        PROVE  /\ solution \in found
               /\ problem.objective => \A v \in found : solution <= v
    BY <1>2, <1>3, <2>2 DEF solution, SoundEnv
  <2> QED BY <1>1, <1>10, <2>2 DEF FoundIsKept
<1>14. env' = [env EXCEPT ![on].used = TRUE]
  BY DEF GetResponse
<1>15. TypeOK'
  <2>1. env' \in [{"token", "local"} -> EnvType]
    BY <1>2, <1>14 DEF TypeOK, EnvType
  <2> QED BY <1>1, <1>2, <1>5, <1>10, <2>1 DEF TypeOK, EnvType
<1>16. UnusedIsFresh'
  <2>1. CASE on = "token"
    <3>1. env'["token"].used = TRUE
      BY <1>2, <1>14, <2>1 DEF TypeOK
    <3> QED BY <3>1 DEF UnusedIsFresh
  <2>2. CASE on = "local"
    <3>1. env'["token"] = env["token"]
      BY <1>2, <1>14, <2>2 DEF TypeOK
    <3> QED BY <1>1, <1>2, <2>2, <3>1 DEF UnusedIsFresh, Unsearched
  <2> QED BY <1>2, <2>1, <2>2 DEF TypeOK
<1> QED BY <1>5, <1>11, <1>12, <1>13, <1>15, <1>16 DEF IInv


-----------------------------------------------------------------------------
(* The steps of the others, and the beginning of a call.                       *)

(* Apart from its stop flag, the Model of a call is left alone. *)
LEMMA InterruptionKeeps ==
  ASSUME IInv, UNCHANGED <<on, problem, many, found, answer>>, TypeOK', UnusedIsFresh',
         pc' = pc \/ (pc # "idle" /\ pc' = "exited"),
         StopRequested => StopRequested', expired => expired',
         env'[on] = [env[on] EXCEPT !.stopped = env'[on].stopped],
         env'[on].stopped => env[on].stopped \/ StopRequested'
  PROVE  IInv'
<1> DEFINE m == env[on]
           n == env'[on]
<1>1. TypeOK /\ m \in EnvType /\ StopRequested \in BOOLEAN /\ expired \in BOOLEAN
  BY DEF IInv, TypeOK, EnvType, StopRequested
<1>2. /\ n.used = m.used /\ n.registered = m.registered /\ n.status = m.status
      /\ n.lb = m.lb /\ n.ub = m.ub /\ n.best = m.best /\ n.rank = m.rank
      /\ n.solution = m.solution /\ n.front = m.front
  <2> DEFINE x == env'[on].stopped
  <2> HIDE DEF m, x
  <2>1. LET r == [m EXCEPT !.stopped = x]
        IN /\ r.used = m.used /\ r.registered = m.registered /\ r.status = m.status
           /\ r.lb = m.lb /\ r.ub = m.ub /\ r.best = m.best /\ r.rank = m.rank
           /\ r.solution = m.solution /\ r.front = m.front
    BY <1>1 DEF EnvType
  <2>2. n = [m EXCEPT !.stopped = x]
    BY DEF m, x
  <2> QED BY <2>1, <2>2
<1>3. ASSUME pc' \notin {"idle", "exited"}
      PROVE  SearchIsSound' /\ EndIsSound'
  <2>1. SearchIsSound /\ EndIsSound /\ pc' = pc
    BY <1>3 DEF IInv
  <2>2. SearchIsSound'
    <3>1. n.stopped => ProblemIsSolved(n) \/ StopRequested'
      BY <2>1, <1>2 DEF SearchIsSound, ProblemIsSolved
    <3>2. (HasSolution(n) <=> HasSolution(m)) /\ env'[on'] = n
      BY <1>2 DEF HasSolution
    <3> HIDE DEF n
    <3> QED BY <2>1, <3>1, <3>2, <1>2 DEF SearchIsSound, Objective, NoBetter
  <2>3. EndIsSound'
    <3>1. (ProblemIsSolved(n) <=> ProblemIsSolved(m)) /\ env'[on'] = n
      BY <1>2 DEF ProblemIsSolved
    <3> HIDE DEF n
    <3> QED BY <2>1, <3>1, <1>2 DEF EndIsSound, Unsearched
  <2> QED BY <2>2, <2>3
<1>4. (AnswersTheProblem /\ FoundIsKept)'
  BY DEF IInv, AnswersTheProblem, FoundIsKept, NoBetter
<1>5. UnsolvedIsAskedFor'
  BY DEF IInv, UnsolvedIsAskedFor
<1>6. pc' # "aborted" /\ (pc' # "idle" => answer' = None)
  BY DEF IInv
<1> QED BY <1>3, <1>4, <1>5, <1>6 DEF IInv

LEMMA ExpireKeeps == ASSUME IInv, Expire PROVE IInv'
<1>1. /\ UNCHANGED <<env, sigints, requested, pc, on, problem, many, found, answer>>
      /\ expired' = TRUE /\ TypeOK /\ UnusedIsFresh
  BY DEF Expire, IInv
<1>2. TypeOK' /\ UnusedIsFresh'
  BY <1>1 DEF TypeOK, UnusedIsFresh, Unsearched
<1>3. env'[on] = [env[on] EXCEPT !.stopped = env'[on].stopped]
  BY <1>1 DEF TypeOK
<1>4. StopRequested' = StopRequested
  BY <1>1 DEF StopRequested
<1> QED BY <1>1, <1>2, <1>3, <1>4, InterruptionKeeps

(* A ^C stops the limit of the call at most, and is counted. *)
LEMMA InterruptKeeps == ASSUME IInv, Interrupt PROVE IInv'
<1> DEFINE m == env[on]
           x == IF sigints'[on] = 1 THEN TRUE ELSE m.stopped
           n == [m EXCEPT !.stopped = x]
<1>1. /\ UNCHANGED <<requested, on, problem, many, expired, found, answer>>
      /\ pc \notin {"idle", "exited"} /\ TypeOK /\ UnusedIsFresh
      /\ sigints' = [sigints EXCEPT ![on] = @ + 1]
      /\ pc' = IF sigints'[on] = 3 THEN "exited" ELSE pc
  BY DEF Interrupt, IInv, callVars
<1>2. m \in EnvType /\ on \in {"token", "local"} /\ env \in [{"token", "local"} -> EnvType]
  BY <1>1 DEF TypeOK, EnvType
<1>3. env' = [env EXCEPT ![on] = n]
  <2>1. CASE sigints'[on] = 1
    BY <2>1 DEF Interrupt
  <2>2. CASE sigints'[on] # 1
    <3>1. env' = env
      BY <2>2 DEF Interrupt
    <3>2. n = m
      BY <2>2, <1>2 DEF EnvType
    <3> QED BY <3>1, <3>2, <1>2
  <2> QED BY <2>1, <2>2
<1>4. x \in BOOLEAN
  BY <1>2 DEF EnvType
<1> HIDE DEF x
<1>5. n \in EnvType /\ n.stopped = x
  <2> HIDE DEF m
  <2> QED BY <1>2, <1>4 DEF EnvType
<1> HIDE DEF n
<1>6. /\ env'[on] = n /\ env' \in [{"token", "local"} -> EnvType]
      /\ on = "local" => env'["token"] = env["token"]
  BY <1>2, <1>3, <1>5
<1>7. /\ sigints' \in [{"token", "local"} -> Nat] /\ sigints'[on] > 0
      /\ on = "local" => sigints'["token"] = sigints["token"]
  <2>1. sigints \in [{"token", "local"} -> Nat]
    BY <1>1 DEF TypeOK
  <2> QED BY <2>1, <1>1, <1>2
<1>8. TypeOK'
  BY <1>1, <1>6, <1>7 DEF TypeOK, EnvType
<1>9. UnusedIsFresh'
  <2>1. CASE on = "token"
    BY <1>1, <2>1 DEF UnusedIsFresh
  <2>2. CASE on = "local"
    BY <1>1, <1>6, <1>7, <2>2 DEF UnusedIsFresh, Unsearched
  <2> QED BY <1>2, <2>1, <2>2
<1>10. StopRequested'
  BY <1>1, <1>7 DEF StopRequested
<1>11. env'[on] = [env[on] EXCEPT !.stopped = env'[on].stopped]
  BY <1>5, <1>6 DEF n, m
<1> QED BY <1>1, <1>8, <1>9, <1>10, <1>11, InterruptionKeeps

LEMMA StopKeeps == ASSUME IInv, stop PROVE IInv'
<1> DEFINE m == env["token"]
           n == [m EXCEPT !.stopped = TRUE]
<1>1. /\ UNCHANGED <<sigints, pc, on, problem, many, expired, found, answer>>
      /\ requested' = TRUE /\ TypeOK /\ UnusedIsFresh
  BY DEF stop, IInv, callVars
<1>2. m \in EnvType /\ env' = [env EXCEPT !["token"] = n]
  BY <1>1 DEF stop, TypeOK, EnvType
<1>3. /\ n \in EnvType /\ n.stopped = TRUE
      /\ n.used = m.used /\ n.registered = m.registered /\ n.status = m.status
      /\ n.lb = m.lb /\ n.ub = m.ub /\ n.best = m.best /\ n.rank = m.rank
      /\ n.solution = m.solution /\ n.front = m.front
  BY <1>2 DEF EnvType
<1>4. env'["token"] = n /\ (on = "local" => env'[on] = env[on])
  BY <1>1, <1>2 DEF TypeOK
<1>5. on \in {"token", "local"} /\ env[on] \in EnvType
  BY <1>1 DEF TypeOK, EnvType
<1>6. env'[on] = [env[on] EXCEPT !.stopped = env'[on].stopped]
  <2>1. CASE on = "token"
    BY <1>3, <1>4, <2>1
  <2>2. CASE on = "local"
    BY <1>4, <1>5, <2>2 DEF EnvType
  <2> QED BY <1>5, <2>1, <2>2
<1> HIDE DEF n
<1>7. TypeOK'
  BY <1>1, <1>2, <1>3 DEF TypeOK, EnvType
<1>8. UnusedIsFresh'
  BY <1>1, <1>3, <1>4 DEF UnusedIsFresh, Unsearched
<1>9. /\ env'[on].stopped => env[on].stopped \/ StopRequested'
      /\ StopRequested => StopRequested'
  BY <1>1, <1>4, <1>5 DEF StopRequested
<1> QED BY <1>1, <1>6, <1>7, <1>8, <1>9, InterruptionKeeps

LEMMA NewTokenKeeps == ASSUME IInv, newStopToken PROVE IInv'
<1>1. /\ UNCHANGED <<pc, on, problem, many, expired, found>> /\ requested' = FALSE
      /\ pc = "idle" /\ answer' = None /\ TypeOK
      /\ env' = [env EXCEPT !["token"] = FreshEnv]
      /\ sigints' = [sigints EXCEPT !["token"] = 0]
  BY DEF newStopToken, IInv, callVars
<1>2. env' \in [{"token", "local"} -> EnvType] /\ env'["token"] = FreshEnv
  BY <1>1, FreshIsTyped DEF TypeOK, EnvType
<1>3. TypeOK'
  BY <1>1, <1>2 DEF TypeOK, EnvType
<1>4. UnusedIsFresh'
  <2>1. sigints'["token"] = 0
    BY <1>1 DEF TypeOK
  <2> QED BY <1>1, <1>2, <2>1 DEF UnusedIsFresh, Unsearched, FreshEnv
<1>5. (AnswersTheProblem /\ UnsolvedIsAskedFor /\ FoundIsKept)'
  BY <1>1 DEF AnswersTheProblem, UnsolvedIsAskedFor, FoundIsKept
<1> QED BY <1>1, <1>3, <1>4, <1>5 DEF IInv

(* A call that does not find its token used begins with a fresh Model. *)
LEMMA CallKeeps ==
  ASSUME ~Reuse, IInv, NEW e \in {"token", "local"}, NEW p \in Problems, NEW w \in BOOLEAN,
         Call(e, p, w)
  PROVE  IInv'
<1> DEFINE n == IF e = "token" THEN env["token"] ELSE FreshEnv
<1>1. /\ pc = "idle" /\ pc' = "validate" /\ on' = e /\ problem' = p /\ many' = w
      /\ expired' = FALSE /\ found' = {} /\ answer' = None /\ requested' = requested
      /\ e = "token" => ~env["token"].used
      /\ sigints' = [sigints EXCEPT !["local"] = 0]
      /\ TypeOK /\ UnusedIsFresh
  BY DEF Call, IInv
<1>2. n \in EnvType
  BY <1>1, FreshIsTyped DEF TypeOK, EnvType
<1>3. env' = [env EXCEPT !["local"] = FreshEnv]
  BY <1>1 DEF Call, ResetLimitFromParameters, TypeOK
<1>4. /\ Unsearched(n) /\ ~n.registered /\ n.front = None
      /\ n.stopped => StopRequested'
  <2>1. CASE e = "token"
    BY <1>1, <2>1 DEF UnusedIsFresh, StopRequested
  <2>2. CASE e = "local"
    BY <2>2 DEF FreshEnv, Unsearched
  <2> QED BY <2>1, <2>2
<1>5. /\ env'[on'] = n /\ env'["token"] = env["token"]
      /\ env' \in [{"token", "local"} -> EnvType]
  BY <1>1, <1>2, <1>3, FreshIsTyped DEF TypeOK, EnvType
<1> HIDE DEF n
<1>6. TypeOK'
  BY <1>1, <1>5 DEF TypeOK, EnvType
<1>7. UnusedIsFresh'
  BY <1>1, <1>5 DEF UnusedIsFresh, Unsearched
<1>8. SearchIsSound'
  <2>1. p \in ProblemType /\ p.solutions \subseteq Values
    BY SolveAssumption DEF ProblemType
  <2>2. \A v \in p.solutions : v \in (-PosInf)..PosInf
    BY <2>1, SolveAssumption DEF Values
  <2>3. /\ ~HasSolution(n) /\ ~ProblemIsSolved(n) /\ n.status = "UNKNOWN" /\ ~n.used
        /\ n.lb = -PosInf /\ n.ub = PosInf /\ n.best = PosInf /\ n.rank = PosInf
        /\ n.solution = None
    BY <1>4 DEF Unsearched, HasSolution, ProblemIsSolved
  <2> QED BY <1>1, <1>4, <1>5, <2>2, <2>3 DEF SearchIsSound
<1>9. EndIsSound'
  BY <1>1, <1>4, <1>5 DEF EndIsSound
<1>10. (AnswersTheProblem /\ UnsolvedIsAskedFor /\ FoundIsKept)'
  BY <1>1 DEF AnswersTheProblem, UnsolvedIsAskedFor, FoundIsKept
<1> QED BY <1>1, <1>6, <1>7, <1>8, <1>9, <1>10 DEF IInv

LEMMA UnchangedKeeps == ASSUME IInv, UNCHANGED vars PROVE IInv'
<1>1. /\ UNCHANGED <<env, sigints, requested, pc, on, problem, many, expired, found, answer>>
      /\ TypeOK /\ UnusedIsFresh
  BY DEF vars, callVars, IInv
<1>2. TypeOK' /\ UnusedIsFresh'
  BY <1>1 DEF TypeOK, UnusedIsFresh, Unsearched
<1>3. env'[on] = [env[on] EXCEPT !.stopped = env'[on].stopped]
  BY <1>1 DEF TypeOK
<1>4. StopRequested' = StopRequested
  BY <1>1 DEF StopRequested
<1> QED BY <1>1, <1>2, <1>3, <1>4, InterruptionKeeps

LEMMA InitSatisfies == ASSUME Init PROVE IInv
<1>1. env["token"] = FreshEnv /\ pc = "idle" /\ requested = FALSE /\ answer = None
  BY DEF Init
<1>2. TypeOK
  BY FreshIsTyped DEF Init, TypeOK, EnvType
<1>3. UnusedIsFresh
  <2>1. sigints["token"] = 0
    BY DEF Init
  <2> QED BY <1>1, <2>1 DEF UnusedIsFresh, Unsearched, FreshEnv
<1> QED BY <1>1, <1>2, <1>3
        DEF IInv, AnswersTheProblem, UnsolvedIsAskedFor, FoundIsKept

LEMMA NextKeeps == ASSUME ~Reuse, IInv, [Next]_vars PROVE IInv'
<1>1. DOMAIN env = {"token", "local"}
  BY DEF IInv, TypeOK
<1>2. ASSUME SolveNext PROVE IInv'
  BY <1>2, ValidateKeeps, PresolveKeeps, ShareKeeps, LoadKeeps, StartKeeps, SearchEndKeeps,
     GetResponseKeeps DEF SolveNext
<1>3. ASSUME NEW l \in MinValue..MaxValue + 1, Bound(l) PROVE IInv'
  BY <1>3, BoundKeeps, SolveAssumption
<1> QED BY <1>1, <1>2, <1>3, NewTokenKeeps, StopKeeps, CallKeeps, ExpireKeeps,
           InterruptKeeps, ImproveKeeps, ConcludeKeeps, UnchangedKeeps DEF Next

-----------------------------------------------------------------------------
(* The invariant holds as long as no token serves a second solve: without      *)
(* that the Model of the second begins with what the first left there.         *)
THEOREM Invariance == ASSUME ~Reuse PROVE Spec => []IInv
<1>1. Init => IInv
  BY InitSatisfies
<1>2. IInv /\ [Next]_vars => IInv'
  BY NextKeeps
<1> QED BY <1>1, <1>2, PTL DEF Spec

(* The response of a plain or interruptible solve is true of the problem it    *)
(* was asked, by its status and by its solution.                               *)
THEOREM TrueAnswer == ASSUME ~Reuse PROVE Spec => []AnswersTheProblem
<1>1. IInv => AnswersTheProblem
  BY DEF IInv
<1> QED BY <1>1, Invariance, PTL

(* Only a stop on the call's token, a ^C or its own time limit leaves its      *)
(* problem without an answer that settles it.                                  *)
THEOREM UnsolvedWithCause == ASSUME ~Reuse PROVE Spec => []UnsolvedIsAskedFor
<1>1. IInv => UnsolvedIsAskedFor
  BY DEF IInv
<1> QED BY <1>1, Invariance, PTL

(* A call that found solutions returns the best of them, wherever it was cut   *)
(* short.                                                                      *)
THEOREM BestIsReturned == ASSUME ~Reuse PROVE Spec => []FoundIsKept
<1>1. IInv => FoundIsKept
  BY DEF IInv
<1> QED BY <1>1, Invariance, PTL

=============================================================================
