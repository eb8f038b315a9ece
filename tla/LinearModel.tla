---------------------------- MODULE LinearModel ----------------------------
(***************************************************************************)
(* The values a model is built from (Cpsat/Model.lean), what becomes of    *)
(* them on the wire (Cpsat/Proto.lean), and how CP-SAT reads them there    *)
(* (or-tools/ortools/sat/cp_model_checker.cc).                             *)
(*                                                                         *)
(* Int64 is the interval MinInt..MaxInt.  An IntVar is its index, from 0.  *)
(* A BoolVar is its literal: v for variable v, -v - 1 for its negation.    *)
(* An assignment a gives a[v] for each variable v.                         *)
(***************************************************************************)
EXTENDS Integers, Sequences, SequencesExt, FiniteSetsExt

CONSTANT MaxInt  \* Int64.maxValue

ASSUME MaxIntAssumption == MaxInt \in Nat /\ MaxInt % 2 = 1

MinInt == -MaxInt - 1
Int64 == MinInt .. MaxInt
Half == MaxInt \div 2

Abs(x) == IF x < 0 THEN -x ELSE x

(* Int64 arithmetic wraps around. *)
Wrap(x) == ((x - MinInt) % (2 * (MaxInt + 1))) + MinInt

(* Mutant: what leaves Int64 wraps around. *)
ClampByWrapping(x) == Wrap(x)

clampToInt64(x) == IF x < MinInt THEN MinInt ELSE IF x > MaxInt THEN MaxInt ELSE x

-----------------------------------------------------------------------------
(* Domains: sequences of intervals <<lo, hi>>. *)

DomainType == Seq(Int64 \X Int64)

ofInterval(lo, hi) == <<<<lo, hi>>>>
single(v) == ofInterval(v, v)
excluding(v) == <<<<MinInt, Wrap(v - 1)>>, <<Wrap(v + 1), MaxInt>>>>

DomainInProtoContains(domain, x) == \E i \in DOMAIN domain : domain[i][1] <= x /\ x <= domain[i][2]

(* Mutant: the domain moves the other way. *)
shiftDomainUp(domain, constant) ==
  [i \in DOMAIN domain |-> <<clampToInt64(domain[i][1] + constant),
                             clampToInt64(domain[i][2] + constant)>>]

shiftDomain(domain, constant) ==
  [i \in DOMAIN domain |-> <<clampToInt64(domain[i][1] - constant),
                             clampToInt64(domain[i][2] - constant)>>]

(* Intervals are ordered and leave at least one value between them. *)
DomainInProtoIsValid(domain) ==
  /\ \A i \in DOMAIN domain : domain[i][1] <= domain[i][2]
  /\ \A i \in 2..Len(domain) : domain[i - 1][2] + 1 < domain[i][1]

ValidateIntegerVariable(domain) ==
  /\ domain # <<>>
  /\ DomainInProtoIsValid(domain)
  /\ domain[1][1] >= -Half
  /\ domain[Len(domain)][2] <= Half

-----------------------------------------------------------------------------
(* Linear expressions: terms <<variable, coefficient>> and a constant. *)

ExprType == [terms : Seq(Nat \X Int64), constant : Int64]

Expr(terms, constant) == [terms |-> terms, constant |-> constant]
const(c) == Expr(<<>>, c)
ofIntVar(v) == Expr(<<<<v, 1>>>>, 0)

(* c * e *)
Times(c, e) ==
  Expr([i \in DOMAIN e.terms |-> <<e.terms[i][1], Wrap(c * e.terms[i][2])>>],
       Wrap(c * e.constant))

Negate(e) == Times(-1, e)

(* Mutant: constants add up as integers without a width. *)
PlusUnbounded(d, e) == Expr(d.terms \o e.terms, d.constant + e.constant)

Plus(d, e) == Expr(d.terms \o e.terms, Wrap(d.constant + e.constant))

Minus(d, e) == Plus(d, Negate(e))

VarsOf(e) == {e.terms[i][1] : i \in DOMAIN e.terms}

SumOf(terms, a) == SumFunction([i \in DOMAIN terms |-> terms[i][2] * a[terms[i][1]]])
ValueOf(e, a) == SumOf(e.terms, a) + e.constant

(* The least and the greatest value a term adds, zero included. *)
TermBounds(term, domains) ==
  LET domain == domains[term[1] + 1]
      ends == {0, term[2] * domain[1][1], term[2] * domain[Len(domain)][2]}
  IN <<Min(ends), Max(ends)>>

(* PossibleIntegerOverflow, negated.  It is std::abs(offset) of MinInt that is *)
(* undefined: no expression with that offset is given to it.                   *)
FitsInt64(e, domains) ==
  LET bounds == [i \in DOMAIN e.terms |-> TermBounds(e.terms[i], domains)]
      offset == Abs(e.constant)
  IN /\ offset <= Half
     /\ \A i \in DOMAIN e.terms : e.terms[i][2] # MinInt
     /\ SumFunction([i \in DOMAIN bounds |-> bounds[i][1]]) - offset >= -Half
     /\ SumFunction([i \in DOMAIN bounds |-> bounds[i][2]]) + offset <= Half

-----------------------------------------------------------------------------
(* Literals and hints. *)

not(b) == -b - 1
VarOf(b) == IF b < 0 THEN not(b) ELSE b
LiteralIsTrue(b, a) == IF b < 0 THEN a[VarOf(b)] = 0 ELSE a[b] # 0

(* Mutant: a negated literal keeps the value. *)
HintAsIs(b, value) == <<VarOf(b), IF value THEN 1 ELSE 0>>

hint(b, value) == <<VarOf(b), IF value = (b < 0) THEN 0 ELSE 1>>

LiteralReferenceIsValid(b, domains) ==
  /\ VarOf(b) < Len(domains)
  /\ LET domain == domains[VarOf(b) + 1]
     IN domain[1][1] >= 0 /\ domain[Len(domain)][2] <= 1

-----------------------------------------------------------------------------
(* Constraint kinds.  A linear constraint has an expr and a domain; linMax,     *)
(* intDiv, intMod and intProd have a target and exprs, element an index also;  *)
(* allDifferent has exprs, inverse vars and invVars, the Boolean kinds lits.   *)

linear(expr, domain) == [kind |-> "linear", expr |-> expr, domain |-> domain]
argument(kind, target, exprs) == [kind |-> kind, target |-> target, exprs |-> exprs]
element(index, exprs, target) ==
  [kind |-> "element", index |-> index, exprs |-> exprs, target |-> target]
allDifferent(exprs) == [kind |-> "allDifferent", exprs |-> exprs]
inverse(vars, invVars) == [kind |-> "inverse", vars |-> vars, invVars |-> invVars]
bool(kind, lits) == [kind |-> kind, lits |-> lits]

(* A LinearConstraintProto has no offset; every other kind goes as it is. *)
constraintKindToProto(k) ==
  IF k.kind = "linear"
  THEN linear(Expr(k.expr.terms, 0), shiftDomain(k.domain, k.expr.constant))
  ELSE k

Field(k, name) == IF name \in DOMAIN k THEN {k[name]} ELSE {}

ExprsOf(k) ==
  Field(k, "expr") \cup Field(k, "target") \cup Field(k, "index")
    \cup UNION {Range(es) : es \in Field(k, "exprs")}
LitsOf(k) == UNION {Range(ls) : ls \in Field(k, "lits")}
VarsIn(k) ==
  UNION {VarsOf(e) : e \in ExprsOf(k)}
    \cup UNION {Range(vs) : vs \in Field(k, "vars") \cup Field(k, "invVars")}

(* Division towards zero, and the remainder with the numerator's sign. *)
Quotient(n, d) ==
  LET q == Abs(n) \div Abs(d) IN IF (n < 0) = (d < 0) THEN q ELSE -q
Remainder(n, d) == n - d * Quotient(n, d)

Product(seq) == FoldLeft(LAMBDA x, y : x * y, 1, seq)

(* The least and the greatest value of an expression. *)
EndsOf(e, domains) ==
  LET End(i, upper) ==
        LET domain == domains[e.terms[i][1] + 1]
            coeff == e.terms[i][2]
        IN coeff * IF upper = (coeff >= 0) THEN domain[Len(domain)][2] ELSE domain[1][1]
      Sum(upper) == SumFunction([i \in DOMAIN e.terms |-> End(i, upper)])
  IN <<Sum(FALSE) + e.constant, Sum(TRUE) + e.constant>>

(* Mutant: a divisor's constant says whether it can be zero. *)
ValidateConstantDivisor(d, domains) == d.terms = <<>> => d.constant # 0

(* Only the first term of a divisor that is not fixed is looked at; its        *)
(* coefficient is not zero (CHECK_NE).                                         *)
ValidateDivisor(d, domains) ==
  LET ends == EndsOf(d, domains)
      root == Quotient(-d.constant, d.terms[1][2])
  IN IF ends[1] = ends[2] THEN ends[1] # 0
     ELSE ~(/\ root * d.terms[1][2] + d.constant = 0
            /\ DomainInProtoContains(domains[d.terms[1][1] + 1], root))

(* The interval the products fall in; a factor that is always 0 is skipped. *)
ProductEnds(exprs, domains) ==
  FoldLeft(LAMBDA p, e :
             LET ends == EndsOf(e, domains)
                 ps == {clampToInt64(p[i] * ends[j]) : i, j \in 1..2}
             IN IF ends = <<0, 0>> THEN p ELSE <<Min(ps), Max(ps)>>,
           <<1, 1>>, exprs)

ValidateProduct(exprs, domains) ==
  LET ends == ProductEnds(exprs, domains)
  IN /\ ends[2] > -MaxInt /\ ends[1] < MaxInt
     /\ Len(exprs) > 2 => ends[2] < MaxInt /\ ends[1] > -MaxInt

(* target - expr, with the offset AppendToOverflowValidator gives it. *)
ElementGap(target, expr) ==
  Expr(target.terms \o Negate(expr).terms,
       Abs(target.constant) + Abs(expr.constant) - expr.constant)

ValidateConstraint(k, enforcement, domains) ==
  /\ VarsIn(k) \subseteq 0..Len(domains) - 1
  /\ \A e \in ExprsOf(k) : FitsInt64(e, domains)
  /\ \A b \in LitsOf(k) \cup enforcement : LiteralReferenceIsValid(b, domains)
  /\ CASE k.kind = "linear" -> DomainInProtoIsValid(k.domain)
       [] k.kind = "intDiv" -> ValidateDivisor(k.exprs[2], domains)
       [] k.kind = "intMod" -> EndsOf(k.exprs[2], domains)[1] > 0
       [] k.kind = "intProd" -> ValidateProduct(k.exprs, domains)
       [] k.kind = "element" ->
            /\ k.exprs # <<>>
            /\ \A e \in Range(k.exprs) : FitsInt64(ElementGap(k.target, e), domains)
       [] k.kind = "inverse" -> Len(k.vars) = Len(k.invVars)
       [] OTHER -> TRUE

(* How many of a sequence's literals are true. *)
NumTrue(lits, a) == Cardinality({i \in DOMAIN lits : LiteralIsTrue(lits[i], a)})

(* ConstraintChecker: whether a satisfies a constraint as it came. *)
ConstraintIsFeasible(k, a) ==
  LET Value(e) == ValueOf(e, a)
  IN CASE k.kind = "linear" -> DomainInProtoContains(k.domain, SumOf(k.expr.terms, a))
       [] k.kind = "linMax" -> Value(k.target) = Max({Value(e) : e \in Range(k.exprs)})
       [] k.kind = "intDiv" ->
            Value(k.target) = Quotient(Value(k.exprs[1]), Value(k.exprs[2]))
       [] k.kind = "intMod" ->
            Value(k.target) = Remainder(Value(k.exprs[1]), Value(k.exprs[2]))
       [] k.kind = "intProd" ->
            Value(k.target) =
              clampToInt64(Product([i \in DOMAIN k.exprs |-> Value(k.exprs[i])]))
       [] k.kind = "element" ->
            /\ Value(k.index) \in 0..Len(k.exprs) - 1
            /\ Value(k.exprs[Value(k.index) + 1]) = Value(k.target)
       [] k.kind = "allDifferent" ->
            IsInjective([i \in DOMAIN k.exprs |-> Value(k.exprs[i])])
       [] k.kind = "inverse" ->
            \A i \in DOMAIN k.vars :
              LET fi == a[k.vars[i]]
              IN fi \in 0..Len(k.vars) - 1 /\ a[k.invVars[fi + 1]] = i - 1
       [] k.kind = "boolOr" -> NumTrue(k.lits, a) > 0
       [] k.kind = "boolAnd" -> NumTrue(k.lits, a) = Len(k.lits)
       [] k.kind = "atMostOne" -> NumTrue(k.lits, a) <= 1
       [] k.kind = "exactlyOne" -> NumTrue(k.lits, a) = 1
       [] k.kind = "boolXor" -> NumTrue(k.lits, a) % 2 = 1

=============================================================================
