---------------------------- MODULE ModelBuilder ----------------------------
(***************************************************************************)
(* A model as its caller builds it with CpModelM (Cpsat/Model.lean), is    *)
(* encoded by modelStateToProto (Cpsat/Proto.lean) and answered by CP-SAT. *)
(* What the caller said is kept beside what was built, so that the two can *)
(* be compared: `stated` has, for every constraint, the relation the add   *)
(* function is named for and the literals onlyEnforceIf was given.  Names  *)
(* of models, variables and constraints are left out.                      *)
(***************************************************************************)
EXTENDS LinearModel

CONSTANTS
  Domains,        \* domains the caller uses
  Exprs,          \* linear expressions the caller uses in constraints
  Goals,          \* linear expressions the caller optimises
  Lits,           \* literals the caller uses
  GivenKinds,     \* constraints whose kind CP-SAT gets as the caller gives it
  HintValues,     \* values the caller hints
  Double(_),      \* Float.ofInt: the double nearest to an Int64
  Precision,      \* sums of doubles are off by at most a Precision-th of their terms
  MaxVars,        \* bound: variables
  MaxCalls,       \* bound: calls that add to the model
  None            \* no objective, no response yet

(* The constraint kinds that have an add function of their own (addGiven). *)
GivenType ==
  [kind : {"intDiv", "intMod"}, target : ExprType, exprs : ExprType \X ExprType]
    \cup [kind : {"intProd"}, target : ExprType, exprs : Seq(ExprType)]
    \cup [kind : {"element"}, index : ExprType, exprs : Seq(ExprType), target : ExprType]
    \cup [kind : {"allDifferent"}, exprs : Seq(ExprType)]
    \cup [kind : {"inverse"}, vars : Seq(Nat), invVars : Seq(Nat)]
    \cup [kind : {"boolOr", "boolAnd", "atMostOne", "exactlyOne", "boolXor"}, lits : Seq(Int)]

ASSUME BuilderAssumption ==
  /\ Domains \subseteq DomainType
  /\ Exprs \cup Goals \subseteq ExprType
  /\ GivenKinds \subseteq GivenType
  /\ Lits \subseteq Int
  /\ HintValues \subseteq Int64
  /\ Precision \in Nat \ {0}
  /\ \A i \in Int64 : Double(i) \in Int /\ Abs(Double(i) - i) <= Abs(i) \div Precision
  /\ MaxVars \in Nat /\ MaxCalls \in Nat

VARIABLES
  varDomains,   \* the domain of each IntVar, the first at 1
  constraints,  \* kind and enforcement literals
  objective,    \* <<expr, maximize?>>
  assumptions,
  solutionHint, \* <<variable, value>> pairs
  stated,       \* what the caller said with each constraint
  hinted,       \* <<literal, value>> pairs the caller hinted
  response      \* the CpSolverResponse

vars == <<varDomains, constraints, objective, assumptions, solutionHint, stated, hinted,
          response>>

LinearKinds == [kind : {"linear"}, expr : ExprType, domain : DomainType]
MaxKinds == [kind : {"linMax"}, target : ExprType, exprs : Seq(ExprType)]
OrKinds == [kind : {"boolOr"}, lits : Seq(Int)]

Statements ==
  [says : {"=", "<=", ">=", "#", "abs"}, args : ExprType \X ExprType, when : SUBSET Int]
    \cup [says : {"in"}, args : ExprType \X DomainType, when : SUBSET Int]
    \cup [says : {"max", "min"}, args : ExprType \X (Seq(ExprType) \ {<<>>}), when : SUBSET Int]
    \cup [says : {"implies"}, args : Int \X Int, when : SUBSET Int]
    \cup [says : {"given"}, args : {<<k>> : k \in GivenKinds}, when : SUBSET Int]

Statuses == {"modelInvalid", "infeasible", "optimal", "feasible", "unknown"}

TypeOK ==
  /\ varDomains \in Seq(Domains)
  /\ constraints \in Seq([kind : LinearKinds \cup MaxKinds \cup OrKinds \cup GivenKinds,
                          enforcement : Seq(Int)])
  /\ objective \in (ExprType \X BOOLEAN) \cup {None}
  /\ assumptions \in Seq(Int)
  /\ solutionHint \in Seq(Nat \X Int64)
  /\ stated \in Seq(Statements) /\ Len(stated) = Len(constraints)
  /\ hinted \subseteq Lits \X BOOLEAN
  /\ response = None \/ response.status \in Statuses

Init ==
  /\ varDomains = <<>>
  /\ constraints = <<>>
  /\ objective = None
  /\ assumptions = <<>>
  /\ solutionHint = <<>>
  /\ stated = <<>>
  /\ hinted = {}
  /\ response = None

(* An IntVar comes from newIntVar on this model. *)
Known(vs) == vs \subseteq 0..Len(varDomains) - 1

-----------------------------------------------------------------------------
(* Variables and constraints. *)

newIntVar(domain) ==
  /\ Len(varDomains) < MaxVars
  /\ varDomains' = Append(varDomains, domain)
  /\ UNCHANGED <<constraints, objective, assumptions, solutionHint, stated, hinted>>

addConstraint(kind, says, args) ==
  /\ constraints' = Append(constraints, [kind |-> kind, enforcement |-> <<>>])
  /\ stated' = Append(stated, [says |-> says, args |-> args, when |-> {}])
  /\ UNCHANGED <<varDomains, objective, assumptions, solutionHint, hinted>>

addLinearConstraint(expr, domain) ==
  addConstraint(linear(expr, domain), "in", <<expr, domain>>)

addEquality(lhs, rhs) ==
  addConstraint(linear(Minus(lhs, rhs), single(0)), "=", <<lhs, rhs>>)

addLessOrEqual(lhs, rhs) ==
  addConstraint(linear(Minus(lhs, rhs), ofInterval(MinInt, 0)), "<=", <<lhs, rhs>>)

addGreaterOrEqual(lhs, rhs) ==
  addConstraint(linear(Minus(lhs, rhs), ofInterval(0, MaxInt)), ">=", <<lhs, rhs>>)

addNotEqual(lhs, rhs) ==
  addConstraint(linear(Minus(lhs, rhs), excluding(0)), "#", <<lhs, rhs>>)

addMaxEquality(target, exprs) ==
  addConstraint(argument("linMax", target, exprs), "max", <<target, exprs>>)

addMinEquality(target, exprs) ==
  addConstraint(argument("linMax", Negate(target), [i \in DOMAIN exprs |-> Negate(exprs[i])]),
                "min", <<target, exprs>>)

addAbsEquality(target, expr) ==
  addConstraint(argument("linMax", target, <<expr, Negate(expr)>>), "abs", <<target, expr>>)

addImplication(b, c) ==
  addConstraint(bool("boolOr", <<not(b), c>>), "implies", <<b, c>>)

(* allDifferent, element, intDiv, intMod, intProd, inverse and the Boolean kinds. *)
addGiven(kind) == addConstraint(kind, "given", <<kind>>)

(* Mutant: the literals replace those of an earlier call. *)
onlyEnforceIfLast(c, lits) ==
  /\ c \in DOMAIN constraints
  /\ constraints' = [constraints EXCEPT ![c].enforcement = lits]
  /\ stated' = [stated EXCEPT ![c].when = @ \cup Range(lits)]
  /\ UNCHANGED <<varDomains, objective, assumptions, solutionHint, hinted>>

onlyEnforceIf(c, lits) ==
  /\ c \in DOMAIN constraints
  /\ constraints' = [constraints EXCEPT ![c].enforcement = @ \o lits]
  /\ stated' = [stated EXCEPT ![c].when = @ \cup Range(lits)]
  /\ UNCHANGED <<varDomains, objective, assumptions, solutionHint, hinted>>

-----------------------------------------------------------------------------
(* Objective, assumptions and hints. *)

minimize(expr) ==
  /\ objective' = <<expr, FALSE>>
  /\ UNCHANGED <<varDomains, constraints, assumptions, solutionHint, stated, hinted>>

maximize(expr) ==
  /\ objective' = <<expr, TRUE>>
  /\ UNCHANGED <<varDomains, constraints, assumptions, solutionHint, stated, hinted>>

markAssumptions(lits) ==
  /\ assumptions' = assumptions \o lits
  /\ UNCHANGED <<varDomains, constraints, objective, solutionHint, stated, hinted>>

addSolutionHint(hints) ==
  /\ solutionHint' = solutionHint \o hints
  /\ UNCHANGED <<varDomains, constraints, objective, assumptions, stated, hinted>>

addBoolSolutionHint(b, value) ==
  /\ solutionHint' = Append(solutionHint, hint(b, value))
  /\ hinted' = hinted \cup {<<b, value>>}
  /\ UNCHANGED <<varDomains, constraints, objective, assumptions, stated>>

-----------------------------------------------------------------------------
(* modelStateToProto, and CP-SAT's answer to it. *)

protoKind(i) == constraintKindToProto(constraints[i].kind)
enforcement(i) == Range(constraints[i].enforcement)

(* Mutant: a maximised expression is sent as it is. *)
objectiveAsIs(expr, maximizing) ==
  [terms |-> expr.terms, offset |-> Double(expr.constant), scaling_factor |-> 1]

objectiveToProto(expr, maximizing) ==
  IF maximizing
  THEN [terms |-> Negate(expr).terms, offset |-> -Double(expr.constant), scaling_factor |-> -1]
  ELSE [terms |-> expr.terms, offset |-> Double(expr.constant), scaling_factor |-> 1]

protoObjective ==
  IF objective = None THEN [terms |-> <<>>, offset |-> 0, scaling_factor |-> 0]
  ELSE objectiveToProto(objective[1], objective[2])

(* The largest of a domain's bounds and of its width. *)
Extent(domain) ==
  LET lo == domain[1][1]
      hi == domain[Len(domain)][2]
  IN Max({Abs(lo), Abs(hi), hi - lo})

ValidateSolutionHint ==
  /\ \A i, j \in DOMAIN solutionHint : i # j => solutionHint[i][1] # solutionHint[j][1]
  /\ \A h \in Range(solutionHint) : h[1] < Len(varDomains) /\ h[2] \notin {MinInt, MaxInt}

ValidateWithoutHint ==
  /\ \A d \in Range(varDomains) : ValidateIntegerVariable(d)
  /\ SumFunction([i \in DOMAIN varDomains |-> Extent(varDomains[i])]) < MaxInt
  /\ \A i \in DOMAIN constraints : ValidateConstraint(protoKind(i), enforcement(i), varDomains)
  /\ VarsOf(Expr(protoObjective.terms, 0)) \subseteq 0..Len(varDomains) - 1
  /\ FitsInt64(Expr(protoObjective.terms, 0), varDomains)
  /\ \A b \in Range(assumptions) : LiteralReferenceIsValid(b, varDomains)

ValidateCpModel == ValidateWithoutHint /\ ValidateSolutionHint

(* The values that some variable can have. *)
DomainValues ==
  {x \in -Half..Half : \E d \in Range(varDomains) : DomainInProtoContains(d, x)}

Assignments ==
  {a \in [0..Len(varDomains) - 1 -> DomainValues] :
     \A v \in DOMAIN a : DomainInProtoContains(varDomains[v + 1], a[v])}

AllTrue(lits, a) == \A b \in lits : LiteralIsTrue(b, a)

Encoded(i, a) == AllTrue(enforcement(i), a) => ConstraintIsFeasible(protoKind(i), a)

SolutionsWith(lits) ==
  {a \in Assignments : AllTrue(lits, a) /\ \A i \in DOMAIN constraints : Encoded(i, a)}

Response(status, solution, objectiveValue, core) ==
  [status |-> status, solution |-> solution, objectiveValue |-> objectiveValue, core |-> core]

Score(a) == SumOf(protoObjective.terms, a)

(* How large the terms of a sum can get. *)
Spread(terms) ==
  SumFunction([i \in DOMAIN terms |-> LET bounds == TermBounds(terms[i], varDomains)
                                     IN bounds[2] - bounds[1]])

Rounding == (Abs(protoObjective.offset) + Spread(protoObjective.terms)) \div Precision

(* The doubles CP-SAT may compute, by the offset as it came or as the presolve *)
(* rewrote it, each to the nearest integer.                                    *)
ScaleObjectiveValue(a) ==
  LET exact == protoObjective.scaling_factor * (Score(a) + protoObjective.offset)
  IN exact - Rounding .. exact + Rounding

(* A solution whose value is the double that a bound on all of sols has.       *)
GapIsClosed(a, sols) == \A b \in sols : Score(a) <= Score(b) + Rounding

(* What CP-SAT may answer; a time limit can end it with no more than it has. *)
Answers ==
  IF ~ValidateCpModel THEN {Response("modelInvalid", None, 0, {})}
  ELSE LET marked == Range(assumptions)
           sols == SolutionsWith(marked)
           best == {a \in sols : GapIsClosed(a, sols)}
           With(status, as) ==
             UNION {{Response(status, a, v, {}) : v \in ScaleObjectiveValue(a)} : a \in as}
           cores == {c \in SUBSET marked : SolutionsWith(c) = {}}
       IN {Response("infeasible", None, 0, c) : c \in cores}
            \cup With("optimal", best) \cup With("feasible", sols)
            \cup {Response("unknown", None, 0, {})}

Solve ==
  /\ response' \in Answers
  /\ UNCHANGED <<varDomains, constraints, objective, assumptions, solutionHint, stated,
                 hinted>>

-----------------------------------------------------------------------------
(* What minimize and maximize set does not count: it can be set again. *)
Calls ==
  Len(varDomains) + Len(constraints) + Len(assumptions) + Len(solutionHint)
    + SumFunction([i \in DOMAIN constraints |-> Len(constraints[i].enforcement)])

Build ==
  \/ \E d \in Domains : newIntVar(d)
  \/ \E lhs, rhs \in Exprs :
       /\ Known(VarsOf(lhs) \cup VarsOf(rhs))
       /\ \/ addEquality(lhs, rhs)
          \/ addLessOrEqual(lhs, rhs)
          \/ addGreaterOrEqual(lhs, rhs)
          \/ addNotEqual(lhs, rhs)
          \/ addMaxEquality(lhs, <<rhs, const(0)>>)
          \/ addMinEquality(lhs, <<rhs, const(0)>>)
          \/ addAbsEquality(lhs, rhs)
  \/ \E e \in Exprs, d \in Domains : Known(VarsOf(e)) /\ addLinearConstraint(e, d)
  \/ \E b, c \in Lits : Known({VarOf(b), VarOf(c)}) /\ addImplication(b, c)
  \/ \E k \in GivenKinds : Known(VarsIn(k)) /\ addGiven(k)
  \/ \E c \in DOMAIN constraints, b \in Lits : Known({VarOf(b)}) /\ onlyEnforceIf(c, <<b>>)
  \/ \E e \in Goals : Known(VarsOf(e)) /\ (minimize(e) \/ maximize(e))
  \/ \E b \in Lits : Known({VarOf(b)}) /\ markAssumptions(<<b>>)
  \/ \E v \in 0..Len(varDomains) - 1, x \in HintValues : addSolutionHint(<<<<v, x>>>>)
  \/ \E b \in Lits, value \in BOOLEAN : Known({VarOf(b)}) /\ addBoolSolutionHint(b, value)

Next ==
  \/ response = None /\ Calls < MaxCalls /\ Build /\ UNCHANGED response
  \/ response = None /\ Solve
  \/ response # None /\ UNCHANGED vars

Spec == Init /\ [][Next]_vars

-----------------------------------------------------------------------------
(* What the caller means. *)

(* In a domain an end at MinInt or MaxInt means no bound. *)
Within(domain, x) ==
  \E i \in DOMAIN domain :
    /\ domain[i][1] = MinInt \/ domain[i][1] <= x
    /\ domain[i][2] = MaxInt \/ x <= domain[i][2]

Means(says, args, a) ==
  LET Value(e) == ValueOf(e, a)
  IN CASE says = "=" -> Value(args[1]) = Value(args[2])
       [] says = "<=" -> Value(args[1]) <= Value(args[2])
       [] says = ">=" -> Value(args[1]) >= Value(args[2])
       [] says = "#" -> Value(args[1]) # Value(args[2])
       [] says = "in" -> Within(args[2], Value(args[1]))
       [] says = "max" -> Value(args[1]) = Max({Value(e) : e \in Range(args[2])})
       [] says = "min" -> Value(args[1]) = Min({Value(e) : e \in Range(args[2])})
       [] says = "abs" -> Value(args[1]) = Abs(Value(args[2]))
       [] says = "implies" -> LiteralIsTrue(args[1], a) => LiteralIsTrue(args[2], a)
       [] says = "given" -> ConstraintIsFeasible(args[1], a)

Stated(i, a) ==
  AllTrue(stated[i].when, a) => Means(stated[i].says, stated[i].args, a)

(* The constant the two sides of a statement come to, as integers. *)
ConstantOf(st) ==
  CASE st.says \in {"=", "<=", ">=", "#"} -> st.args[1].constant - st.args[2].constant
    [] st.says = "in" -> st.args[1].constant
    [] OTHER -> 0

(* It is one CP-SAT would take as the offset of an expression. *)
ConstantFits(st) == ConstantOf(st) \in -Half..Half

-----------------------------------------------------------------------------
(* Each constraint CP-SAT gets has exactly the solutions of what the caller    *)
(* said, when onlyEnforceIf said so: subtraction, the folding of the constant  *)
(* into the domain (shiftDomain), and the lowering of min, abs and implication *)
(* lose and add none.                                                          *)
StatedIsEncoded ==
  ValidateCpModel =>
    \A i \in DOMAIN constraints : ConstantFits(stated[i]) =>
      \A a \in Assignments : Encoded(i, a) <=> Stated(i, a)

(* The linear part of it, of every sum of terms that stays within half of      *)
(* Int64: the encoded domain holds of the sum exactly when the statement holds *)
(* of the sum and the statement's constant, although the constant was computed *)
(* in Int64 and clamped.                                                       *)
LinearSays == {"in", "=", "<=", ">=", "#"}

Relates(st, v) ==
  CASE st.says = "in" -> Within(st.args[2], v)
    [] st.says = "=" -> v = 0
    [] st.says = "<=" -> v <= 0
    [] st.says = ">=" -> v >= 0
    [] st.says = "#" -> v # 0

LinearIsEncoded ==
  \A i \in DOMAIN constraints :
    stated[i].says \in LinearSays /\ ConstantFits(stated[i]) =>
      \A a \in Assignments :
        LET sum == SumOf(constraints[i].kind.expr.terms, a)
        IN sum \in -Half..Half =>
             (Encoded(i, a) <=>
                (AllTrue(stated[i].when, a) => Relates(stated[i], sum + ConstantOf(stated[i]))))

(* The expressions a statement puts into its constraint, as integers. *)
ExprsStated(st) ==
  CASE st.says \in {"=", "<=", ">=", "#"} ->
         {Expr(st.args[1].terms \o Negate(st.args[2]).terms, ConstantOf(st))}
    [] st.says \in {"max", "min"} -> {st.args[1]} \cup Range(st.args[2])
    [] st.says = "abs" -> {st.args[1], st.args[2]}
    [] st.says = "in" -> {st.args[1]}
    [] OTHER -> {}

(* A valid domain, each end of it unbounded or within half of Int64. *)
ModestDomain(domain) ==
  /\ DomainInProtoIsValid(domain)
  /\ \A i \in DOMAIN domain :
       /\ domain[i][1] \in {MinInt} \cup -Half..Half
       /\ domain[i][2] \in {MaxInt} \cup -Half..Half

Modest(st) ==
  /\ \A e \in ExprsStated(st) : FitsInt64(e, varDomains)
  /\ st.says = "in" => ModestDomain(st.args[2])

(* A statement whose numbers stay within half of Int64 is never the reason for *)
(* MODEL_INVALID: folding its constant into the domain leaves the intervals    *)
(* apart, and negating an expression keeps it acceptable.                      *)
ModestIsAccepted ==
  (\A d \in Range(varDomains) : ValidateIntegerVariable(d)) =>
    \A i \in DOMAIN constraints :
      stated[i].says \notin {"implies", "given"} /\ Modest(stated[i]) =>
        ValidateConstraint(protoKind(i), {}, varDomains)

(* In an accepted model no assignment divides by zero, or takes a remainder by *)
(* less than one ("The model is invalid if `denominator`'s domain can be       *)
(* zero"); a divisor of one variable, as CP-SAT only looks at one.             *)
DivisionIsDefined ==
  ValidateCpModel =>
    \A i \in DOMAIN constraints, a \in Assignments :
      LET k == constraints[i].kind
      IN /\ k.kind = "intDiv" /\ Len(k.exprs[2].terms) <= 1 => ValueOf(k.exprs[2], a) # 0
         /\ k.kind = "intMod" => ValueOf(k.exprs[2], a) > 0

(* The assignments that do all the caller said, and make lits true. *)
Meant(lits) ==
  {a \in Assignments : AllTrue(lits, a) /\ \A i \in DOMAIN constraints : Stated(i, a)}

(* How far doubles lead away from an objective that is one of integers: not at *)
(* all while its constant and its terms together stay below Precision.         *)
Inexactness ==
  LET e == objective[1]
  IN IF Abs(e.constant) + Spread(e.terms) < Precision THEN 0
     ELSE Rounding + Abs(e.constant) \div Precision

(* No assignment of as has a better objective value than a, by more than slack. *)
IsBest(a, as, slack) ==
  LET Value(b) == ValueOf(objective[1], b)
  IN \A b \in as : IF objective[2] THEN Value(b) <= Value(a) + slack
                  ELSE Value(b) >= Value(a) - slack

(* CP-SAT's answer, read back through the encoding, answers the caller: a      *)
(* solution does all that was said, the objective value is the caller's own,   *)
(* of that solution, and an optimal one is the best there is, maximised or     *)
(* minimised, both up to what doubles can tell apart; and the core of an       *)
(* infeasible model is marked literals that cannot all be true.                *)
AnswersTheQuestion ==
  response # None /\ (\A i \in DOMAIN stated : ConstantFits(stated[i])) =>
    /\ response.status \in {"optimal", "feasible"} =>
         /\ response.solution \in Meant(Range(assumptions))
         /\ objective # None =>
              Abs(response.objectiveValue - ValueOf(objective[1], response.solution)) <= Inexactness
    /\ response.status = "optimal" /\ objective # None =>
         IsBest(response.solution, Meant(Range(assumptions)), Inexactness)
    /\ response.status = "infeasible" =>
         response.core \subseteq Range(assumptions) /\ Meant(response.core) = {}

(* Whoever follows the hint gives every hinted literal the hinted value, a     *)
(* negated one included (BoolVar.hint).                                        *)
Follows(a) == \A h \in Range(solutionHint) : a[h[1]] = h[2]

HintSetsLiterals ==
  \A a \in Assignments : Follows(a) =>
    \A p \in hinted : LiteralIsTrue(p[1], a) = p[2]

(* "shifting a domain that touches Int64.minValue/Int64.maxValue (CP-SAT's     *)
(* "unbounded" sentinels) keeps them at the extreme" (clampToInt64): a linear  *)
(* constraint unbounded below admits all that is low enough, one unbounded     *)
(* above all that is high enough.                                              *)
UnboundedStaysUnbounded ==
  ValidateCpModel =>
    \A i \in DOMAIN constraints, a \in Assignments :
      LET k == constraints[i].kind
          first == k.domain[1]
          last == k.domain[Len(k.domain)]
      IN k.kind = "linear" /\ AllTrue(enforcement(i), a) =>
           /\ first[1] = MinInt /\ ValueOf(k.expr, a) <= first[2] => Encoded(i, a)
           /\ last[2] = MaxInt /\ ValueOf(k.expr, a) >= last[1] => Encoded(i, a)

-----------------------------------------------------------------------------
(* What the proofs need besides: how each constraint was built, of variables   *)
(* of this model; that a hinted literal is in the hint; and that an answer     *)
(* stays one of those CP-SAT may give, nothing being added after it.           *)

KindOf(st) ==
  CASE st.says = "in" -> linear(st.args[1], st.args[2])
    [] st.says = "=" -> linear(Minus(st.args[1], st.args[2]), single(0))
    [] st.says = "<=" -> linear(Minus(st.args[1], st.args[2]), ofInterval(MinInt, 0))
    [] st.says = ">=" -> linear(Minus(st.args[1], st.args[2]), ofInterval(0, MaxInt))
    [] st.says = "#" -> linear(Minus(st.args[1], st.args[2]), excluding(0))
    [] st.says = "max" -> argument("linMax", st.args[1], st.args[2])
    [] st.says = "min" ->
         argument("linMax", Negate(st.args[1]),
                  [i \in DOMAIN st.args[2] |-> Negate(st.args[2][i])])
    [] st.says = "abs" -> argument("linMax", st.args[1], <<st.args[2], Negate(st.args[2])>>)
    [] st.says = "implies" -> bool("boolOr", <<not(st.args[1]), st.args[2]>>)
    [] st.says = "given" -> st.args[1]

BuiltAsStated ==
  \A i \in DOMAIN constraints :
    /\ enforcement(i) = stated[i].when
    /\ constraints[i].kind = KindOf(stated[i])
    /\ Known(VarsIn(constraints[i].kind))

HintedIsHint == \A p \in hinted : hint(p[1], p[2]) \in Range(solutionHint)

ResponseAnswers == response # None => response \in Answers

BuiltInv == TypeOK /\ BuiltAsStated /\ HintedIsHint
IInv == BuiltInv /\ ResponseAnswers

=============================================================================
