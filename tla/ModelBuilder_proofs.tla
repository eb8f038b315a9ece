------------------------ MODULE ModelBuilder_proofs ------------------------
(***************************************************************************)
(* Proofs about ModelBuilder for every width of Int64, every set of        *)
(* domains, expressions and literals, and every number of calls.           *)
(***************************************************************************)
EXTENDS ModelBuilder, LinearModel_proofs, TLAPS

(* A gap between two intervals' modest ends stays one. *)
LEMMA ClampKeepsGap ==
  ASSUME NEW hi \in {MaxInt} \cup -Half..Half, NEW lo \in {MinInt} \cup -Half..Half,
         hi + 1 < lo, NEW c \in -Half..Half
  PROVE  clampToInt64(hi - c) + 1 < clampToInt64(lo - c)
<1>1. hi \in -Half..Half /\ lo \in -Half..Half
  BY HalfFacts
<1>2. clampToInt64(hi - c) = hi - c /\ clampToInt64(lo - c) = lo - c
  BY <1>1, ClampWithinHalf
<1>3. (hi - c) + 1 < lo - c
  BY <1>1, HalfFacts
<1> QED BY <1>2, <1>3

-----------------------------------------------------------------------------
(* shiftDomain, for a constant and a sum within half of Int64.                 *)

LEMMA ShiftLow ==
  ASSUME NEW lo \in Int64, NEW c \in -Half..Half, NEW x \in -Half..Half
  PROVE  clampToInt64(lo - c) <= x <=> (lo = MinInt \/ lo <= x + c)
BY HalfFacts DEF clampToInt64, Int64

LEMMA ShiftHigh ==
  ASSUME NEW hi \in Int64, NEW c \in -Half..Half, NEW x \in -Half..Half
  PROVE  x <= clampToInt64(hi - c) <=> (hi = MaxInt \/ x + c <= hi)
BY HalfFacts DEF clampToInt64, Int64

(* The shifted domain holds of the terms' sum exactly when the caller's domain *)
(* holds of the sum and the constant, its ends at MinInt and MaxInt read as    *)
(* unbounded: the equivalence shiftDomain's comment claims, with the range of  *)
(* constants for which it is one.                                              *)
THEOREM ShiftKeepsMeaning ==
  ASSUME NEW domain \in DomainType, NEW c \in -Half..Half, NEW x \in -Half..Half
  PROVE  DomainInProtoContains(shiftDomain(domain, c), x) <=> Within(domain, x + c)
<1>1. DOMAIN shiftDomain(domain, c) = DOMAIN domain
  BY DEF shiftDomain
<1>2. ASSUME NEW i \in DOMAIN domain
      PROVE  /\ shiftDomain(domain, c)[i][1] <= x
                  <=> domain[i][1] = MinInt \/ domain[i][1] <= x + c
             /\ x <= shiftDomain(domain, c)[i][2]
                  <=> domain[i][2] = MaxInt \/ x + c <= domain[i][2]
  <2>1. domain[i][1] \in Int64 /\ domain[i][2] \in Int64
    BY <1>2 DEF DomainType
  <2>2. /\ shiftDomain(domain, c)[i][1] = clampToInt64(domain[i][1] - c)
        /\ shiftDomain(domain, c)[i][2] = clampToInt64(domain[i][2] - c)
    BY <1>2 DEF shiftDomain
  <2> QED BY <2>1, <2>2, ShiftLow, ShiftHigh
<1> QED BY <1>1, <1>2 DEF DomainInProtoContains, Within

(* A modest domain stays a valid one: no interval is inverted, and no two come *)
(* to touch.                                                                   *)
THEOREM ShiftKeepsApart ==
  ASSUME NEW domain \in DomainType, ModestDomain(domain), NEW c \in -Half..Half
  PROVE  DomainInProtoIsValid(shiftDomain(domain, c))
<1> DEFINE Low(i) == domain[i][1]
           High(i) == domain[i][2]
<1>1. ASSUME NEW i \in DOMAIN domain
      PROVE  /\ Low(i) \in {MinInt} \cup -Half..Half
             /\ High(i) \in {MaxInt} \cup -Half..Half
             /\ shiftDomain(domain, c)[i][1] = clampToInt64(Low(i) - c)
             /\ shiftDomain(domain, c)[i][2] = clampToInt64(High(i) - c)
  BY DEF ModestDomain, shiftDomain
<1>2. /\ DOMAIN shiftDomain(domain, c) = DOMAIN domain
      /\ Len(shiftDomain(domain, c)) = Len(domain)
      /\ Len(domain) \in Nat /\ DOMAIN domain = 1..Len(domain)
  BY DEF shiftDomain, DomainType
<1>3. ASSUME NEW i \in DOMAIN domain
      PROVE  clampToInt64(Low(i) - c) <= clampToInt64(High(i) - c)
  <2>1. Low(i) <= High(i)
    BY DEF ModestDomain, DomainInProtoIsValid
  <2> QED BY <1>1, <2>1, HalfFacts DEF clampToInt64
<1>4. ASSUME NEW i \in 2..Len(domain)
      PROVE  clampToInt64(High(i - 1) - c) + 1 < clampToInt64(Low(i) - c)
  <2>1. i \in DOMAIN domain /\ i - 1 \in DOMAIN domain
    BY <1>2
  <2>2. High(i - 1) + 1 < Low(i)
    BY DEF ModestDomain, DomainInProtoIsValid
  <2>3. High(i - 1) \in {MaxInt} \cup -Half..Half /\ Low(i) \in {MinInt} \cup -Half..Half
    BY <1>1, <2>1
  <2> HIDE DEF Low, High
  <2> QED BY <2>2, <2>3, ClampKeepsGap
<1> HIDE DEF Low, High
<1>5. \A i \in DOMAIN domain :
        shiftDomain(domain, c)[i][1] <= shiftDomain(domain, c)[i][2]
  BY <1>1, <1>3
<1>6. \A i \in 2..Len(domain) :
        shiftDomain(domain, c)[i - 1][2] + 1 < shiftDomain(domain, c)[i][1]
  <2> SUFFICES ASSUME NEW i \in 2..Len(domain)
               PROVE  shiftDomain(domain, c)[i - 1][2] + 1 < shiftDomain(domain, c)[i][1]
    OBVIOUS
  <2>1. i \in DOMAIN domain /\ i - 1 \in DOMAIN domain
    BY <1>2
  <2> QED BY <1>1, <1>4, <2>1
<1> QED BY <1>2, <1>5, <1>6 DEF DomainInProtoIsValid

-----------------------------------------------------------------------------
(* Types of what the builder makes. *)

LEMMA HintType ==
  ASSUME NEW b \in Int, NEW value \in BOOLEAN
  PROVE  hint(b, value) \in Nat \X Int64
<1>1. VarOf(b) \in Nat
  BY DEF VarOf, not
<1>2. 0 \in Int64 /\ 1 \in Int64
  BY HalfFacts DEF Int64
<1> QED BY <1>1, <1>2 DEF hint

(* What addEquality, addLessOrEqual, addGreaterOrEqual and addNotEqual use. *)
LEMMA ComparisonDomains ==
  /\ single(0) \in DomainType
  /\ ofInterval(MinInt, 0) \in DomainType
  /\ ofInterval(0, MaxInt) \in DomainType
  /\ excluding(0) \in DomainType
  /\ excluding(0) = <<<<MinInt, -1>>, <<1, MaxInt>>>>
<1>1. MinInt \in Int64 /\ 0 \in Int64 /\ MaxInt \in Int64 /\ -1 \in Int64 /\ 1 \in Int64
  BY HalfFacts DEF Int64
<1>2. Wrap(0 - 1) = -1 /\ Wrap(0 + 1) = 1
  <2>1. (0 - 1 - MinInt) % (2 * (MaxInt + 1)) = 0 - 1 - MinInt
    BY ModWithin, HalfFacts
  <2>2. (0 + 1 - MinInt) % (2 * (MaxInt + 1)) = 0 + 1 - MinInt
    BY ModWithin, HalfFacts
  <2> QED BY <2>1, <2>2, HalfFacts DEF Wrap
<1> QED BY <1>1, <1>2 DEF single, ofInterval, excluding, DomainType

-----------------------------------------------------------------------------
(* What the next-state actions do to the sequences they append to. *)

LEMMA Replaced ==
  ASSUME NEW S, NEW s \in Seq(S), NEW i \in DOMAIN s, NEW e \in S
  PROVE  [s EXCEPT ![i] = e] \in Seq(S) /\ Len([s EXCEPT ![i] = e]) = Len(s)
<1> DEFINE t == [s EXCEPT ![i] = e]
<1>1. Len(s) \in Nat /\ DOMAIN s = 1..Len(s) /\ \A j \in DOMAIN s : s[j] \in S
  OBVIOUS
<1>2. t = [j \in 1..Len(s) |-> t[j]] /\ \A j \in 1..Len(s) : t[j] \in S
  BY <1>1
<1> HIDE DEF t
<1>3. t \in Seq(S) /\ Len(t) = Len(s)
  BY <1>1, <1>2
<1> QED BY <1>3 DEF t

LEMMA RangeOfAppend ==
  ASSUME NEW S, NEW s \in Seq(S), NEW e \in S
  PROVE  Range(Append(s, e)) = Range(s) \cup {e}
<1>1. /\ Len(s) \in Nat /\ DOMAIN s = 1..Len(s)
      /\ DOMAIN Append(s, e) = 1..Len(s) + 1
      /\ \A i \in DOMAIN s : Append(s, e)[i] = s[i]
      /\ Append(s, e)[Len(s) + 1] = e
  OBVIOUS
<1> QED BY <1>1 DEF Range

LEMMA RangeOfConcatenation ==
  ASSUME NEW S, NEW s \in Seq(S), NEW t \in Seq(S)
  PROVE  Range(s \o t) = Range(s) \cup Range(t)
<1>1. /\ Len(s) \in Nat /\ DOMAIN s = 1..Len(s)
      /\ Len(t) \in Nat /\ DOMAIN t = 1..Len(t)
      /\ DOMAIN (s \o t) = 1..Len(s) + Len(t)
      /\ \A i \in DOMAIN s : (s \o t)[i] = s[i]
      /\ \A i \in DOMAIN t : (s \o t)[Len(s) + i] = t[i]
  OBVIOUS
<1>2. Range(s \o t) \subseteq Range(s) \cup Range(t)
  <2> SUFFICES ASSUME NEW i \in DOMAIN (s \o t)
               PROVE  (s \o t)[i] \in Range(s) \cup Range(t)
    BY DEF Range
  <2>1. CASE i <= Len(s)
    <3>1. i \in DOMAIN s
      BY <1>1, <2>1
    <3> QED BY <1>1, <3>1 DEF Range
  <2>2. CASE i > Len(s)
    <3>1. i - Len(s) \in DOMAIN t /\ i = Len(s) + (i - Len(s))
      BY <1>1, <2>2
    <3>2. (s \o t)[i] = t[i - Len(s)]
      BY <1>1, <3>1
    <3> QED BY <3>1, <3>2 DEF Range
  <2> QED BY <1>1, <2>1, <2>2
<1>3. Range(s) \subseteq Range(s \o t)
  <2>1. DOMAIN s \subseteq DOMAIN (s \o t)
    BY <1>1
  <2> QED BY <1>1, <2>1 DEF Range
<1>4. Range(t) \subseteq Range(s \o t)
  <2> SUFFICES ASSUME NEW i \in DOMAIN t
               PROVE  t[i] \in Range(s \o t)
    BY DEF Range
  <2>1. Len(s) + i \in DOMAIN (s \o t)
    BY <1>1
  <2> QED BY <1>1, <2>1 DEF Range
<1> QED BY <1>2, <1>3, <1>4

-----------------------------------------------------------------------------
(* The inductive invariant IInv. *)

Kinds == LinearKinds \cup MaxKinds \cup OrKinds \cup GivenKinds

(* BuiltAsStated in the next state, constraint by constraint. *)
LEMMA BuiltNext ==
  ASSUME \A i \in DOMAIN constraints' :
           /\ Range(constraints'[i].enforcement) = stated'[i].when
           /\ constraints'[i].kind = KindOf(stated'[i])
           /\ VarsIn(constraints'[i].kind) \subseteq 0..Len(varDomains') - 1
  PROVE  BuiltAsStated'
BY DEF BuiltAsStated, enforcement, Known

LEMMA SameBuilt ==
  ASSUME BuiltInv, UNCHANGED <<constraints, stated, varDomains>>
  PROVE  BuiltAsStated'
BY BuiltNext DEF BuiltInv, BuiltAsStated, enforcement, Known

(* addConstraint keeps BuiltInv when it is given a kind and a statement that go    *)
(* together.                                                                   *)
LEMMA AddStep ==
  ASSUME BuiltInv, UNCHANGED response, NEW kind \in Kinds, NEW says, NEW args,
         [says |-> says, args |-> args, when |-> {}] \in Statements,
         kind = KindOf([says |-> says, args |-> args, when |-> {}]), Known(VarsIn(kind)),
         addConstraint(kind, says, args)
  PROVE  BuiltInv'
<1> DEFINE st == [says |-> says, args |-> args, when |-> {}]
           con == [kind |-> kind, enforcement |-> <<>>]
           Constraint == [kind : Kinds, enforcement : Seq(Int)]
<1>1. con \in Constraint
  OBVIOUS
<1>2. /\ constraints \in Seq(Constraint) /\ stated \in Seq(Statements)
      /\ Len(constraints) = Len(stated)
      /\ constraints' = Append(constraints, con) /\ stated' = Append(stated, st)
  BY DEF BuiltInv, TypeOK, Kinds, addConstraint
<1>3. st.says = says /\ st.when = {} /\ con.kind = kind /\ con.enforcement = <<>>
  OBVIOUS
<1>4. st \in Statements /\ con.kind = KindOf(st) /\ Known(VarsIn(con.kind))
  BY <1>3
<1>5. Range(con.enforcement) = st.when
  BY <1>3 DEF Range
<1> HIDE DEF st, con
<1>6. constraints' \in Seq(Constraint) /\ stated' \in Seq(Statements)
  BY <1>1, <1>2, <1>4
<1>7. Len(constraints') = Len(stated')
  BY <1>1, <1>2, <1>4
<1>8. TypeOK'
  <2>1. constraints' \in Seq([kind : LinearKinds \cup MaxKinds \cup OrKinds \cup GivenKinds,
                              enforcement : Seq(Int)])
    BY <1>6 DEF Kinds
  <2> QED BY <1>6, <1>7, <2>1 DEF BuiltInv, TypeOK, addConstraint
<1>11. varDomains' = varDomains
  BY DEF addConstraint
<1>9. BuiltAsStated'
  <2> SUFFICES ASSUME NEW i \in DOMAIN constraints'
               PROVE  /\ Range(constraints'[i].enforcement) = stated'[i].when
                      /\ constraints'[i].kind = KindOf(stated'[i])
                      /\ VarsIn(constraints'[i].kind) \subseteq 0..Len(varDomains') - 1
    BY BuiltNext
  <2>1. CASE i \in DOMAIN constraints
    <3>1. constraints'[i] = constraints[i] /\ stated'[i] = stated[i]
      BY <1>1, <1>2, <1>4, <2>1
    <3> QED BY <1>11, <2>1, <3>1 DEF BuiltInv, BuiltAsStated, enforcement, Known
  <2>2. CASE i = Len(constraints) + 1
    <3>1. constraints'[i] = con /\ stated'[i] = st
      BY <1>1, <1>2, <1>4, <2>2
    <3> QED BY <1>4, <1>5, <1>11, <3>1 DEF Known
  <2>3. i \in DOMAIN constraints \/ i = Len(constraints) + 1
    BY <1>1, <1>2
  <2> QED BY <2>1, <2>2, <2>3
<1>10. HintedIsHint'
  BY DEF BuiltInv, HintedIsHint, addConstraint, Range
<1> QED BY <1>8, <1>9, <1>10 DEF BuiltInv

(* The relations between two expressions. *)
LEMMA CompareStep ==
  ASSUME BuiltInv, UNCHANGED response, NEW lhs \in ExprType, NEW rhs \in ExprType,
         Known(VarsOf(lhs) \cup VarsOf(rhs)),
         \/ addEquality(lhs, rhs)
         \/ addLessOrEqual(lhs, rhs)
         \/ addGreaterOrEqual(lhs, rhs)
         \/ addNotEqual(lhs, rhs)
  PROVE  BuiltInv'
<1> DEFINE st(says) == [says |-> says, args |-> <<lhs, rhs>>, when |-> {}]
<1>1. Minus(lhs, rhs) \in ExprType
  BY MinusType
<1>2. ASSUME NEW domain \in DomainType
      PROVE  /\ linear(Minus(lhs, rhs), domain) \in Kinds
             /\ Known(VarsIn(linear(Minus(lhs, rhs), domain)))
  <2>1. linear(Minus(lhs, rhs), domain) \in Kinds
    BY <1>1 DEF Kinds, LinearKinds, linear
  <2>2. VarsIn(linear(Minus(lhs, rhs), domain)) \subseteq VarsOf(lhs) \cup VarsOf(rhs)
    BY LinearVars, MinusVars
  <2> QED BY <2>1, <2>2 DEF Known
<1>3. \A says \in {"=", "<=", ">=", "#"} : st(says) \in Statements
  BY DEF Statements
<1>4. CASE addEquality(lhs, rhs)
  <2>1. KindOf(st("=")) = linear(Minus(lhs, rhs), single(0))
    BY DEF KindOf
  <2>2. /\ linear(Minus(lhs, rhs), single(0)) \in Kinds
        /\ Known(VarsIn(linear(Minus(lhs, rhs), single(0))))
    BY <1>2, ComparisonDomains
  <2>3. addConstraint(linear(Minus(lhs, rhs), single(0)), "=", <<lhs, rhs>>)
    BY <1>4 DEF addEquality
  <2> QED BY <1>3, <2>1, <2>2, <2>3, AddStep
<1>5. CASE addLessOrEqual(lhs, rhs)
  <2>1. KindOf(st("<=")) = linear(Minus(lhs, rhs), ofInterval(MinInt, 0))
    BY DEF KindOf
  <2>2. /\ linear(Minus(lhs, rhs), ofInterval(MinInt, 0)) \in Kinds
        /\ Known(VarsIn(linear(Minus(lhs, rhs), ofInterval(MinInt, 0))))
    BY <1>2, ComparisonDomains
  <2>3. addConstraint(linear(Minus(lhs, rhs), ofInterval(MinInt, 0)), "<=", <<lhs, rhs>>)
    BY <1>5 DEF addLessOrEqual
  <2> QED BY <1>3, <2>1, <2>2, <2>3, AddStep
<1>6. CASE addGreaterOrEqual(lhs, rhs)
  <2>1. KindOf(st(">=")) = linear(Minus(lhs, rhs), ofInterval(0, MaxInt))
    BY DEF KindOf
  <2>2. /\ linear(Minus(lhs, rhs), ofInterval(0, MaxInt)) \in Kinds
        /\ Known(VarsIn(linear(Minus(lhs, rhs), ofInterval(0, MaxInt))))
    BY <1>2, ComparisonDomains
  <2>3. addConstraint(linear(Minus(lhs, rhs), ofInterval(0, MaxInt)), ">=", <<lhs, rhs>>)
    BY <1>6 DEF addGreaterOrEqual
  <2> QED BY <1>3, <2>1, <2>2, <2>3, AddStep
<1>7. CASE addNotEqual(lhs, rhs)
  <2>1. KindOf(st("#")) = linear(Minus(lhs, rhs), excluding(0))
    BY DEF KindOf
  <2>2. /\ linear(Minus(lhs, rhs), excluding(0)) \in Kinds
        /\ Known(VarsIn(linear(Minus(lhs, rhs), excluding(0))))
    BY <1>2, ComparisonDomains
  <2>3. addConstraint(linear(Minus(lhs, rhs), excluding(0)), "#", <<lhs, rhs>>)
    BY <1>7 DEF addNotEqual
  <2> QED BY <1>3, <2>1, <2>2, <2>3, AddStep
<1> QED BY <1>4, <1>5, <1>6, <1>7

LEMMA LinearStep ==
  ASSUME BuiltInv, UNCHANGED response, NEW e \in ExprType, NEW d \in DomainType,
         Known(VarsOf(e)),
         addLinearConstraint(e, d)
  PROVE  BuiltInv'
<1> DEFINE st == [says |-> "in", args |-> <<e, d>>, when |-> {}]
<1>1. linear(e, d) \in Kinds
  BY DEF Kinds, LinearKinds, linear
<1>2. st \in Statements
  BY DEF Statements
<1>3. KindOf(st) = linear(e, d)
  BY DEF KindOf
<1>4. addConstraint(linear(e, d), "in", <<e, d>>)
  BY DEF addLinearConstraint
<1>5. Known(VarsIn(linear(e, d)))
  BY LinearVars DEF Known
<1> QED BY <1>1, <1>2, <1>3, <1>4, <1>5, AddStep

(* Maximum, minimum and absolute value, all lowered to linMax. *)
LEMMA ExtremeStep ==
  ASSUME BuiltInv, UNCHANGED response, NEW lhs \in ExprType, NEW exprs \in Seq(ExprType),
         exprs # << >>, Known(VarsOf(lhs)), \A i \in DOMAIN exprs : Known(VarsOf(exprs[i])),
         addMaxEquality(lhs, exprs) \/ addMinEquality(lhs, exprs)
  PROVE  BuiltInv'
<1> DEFINE st(says) == [says |-> says, args |-> <<lhs, exprs>>, when |-> {}]
           negated == [i \in DOMAIN exprs |-> Negate(exprs[i])]
<1>1. ASSUME NEW target \in ExprType, NEW es \in Seq(ExprType)
      PROVE  argument("linMax", target, es) \in Kinds
  BY DEF Kinds, MaxKinds, argument
<1>2. \A says \in {"max", "min"} : st(says) \in Statements
  <2>1. <<lhs, exprs>> \in ExprType \X (Seq(ExprType) \ {<< >>})
    OBVIOUS
  <2> QED BY <2>1 DEF Statements
<1>3. CASE addMaxEquality(lhs, exprs)
  <2>1. argument("linMax", lhs, exprs) \in Kinds
    BY <1>1
  <2>2. addConstraint(argument("linMax", lhs, exprs), "max", <<lhs, exprs>>)
    BY <1>3 DEF addMaxEquality
  <2>3. KindOf(st("max")) = argument("linMax", lhs, exprs)
    BY DEF KindOf
  <2>4. Known(VarsIn(argument("linMax", lhs, exprs)))
    BY ArgumentVars DEF Known
  <2> QED BY <1>2, <2>1, <2>2, <2>3, <2>4, AddStep
<1>4. CASE addMinEquality(lhs, exprs)
  <2>1. negated \in Seq(ExprType)
    BY NegateType
  <2>2. argument("linMax", Negate(lhs), negated) \in Kinds
    BY <1>1, <2>1, NegateType
  <2>3. addConstraint(argument("linMax", Negate(lhs), negated), "min", <<lhs, exprs>>)
    BY <1>4 DEF addMinEquality
  <2>4. KindOf(st("min")) = argument("linMax", Negate(lhs), negated)
    BY DEF KindOf
  <2>5. Known(VarsIn(argument("linMax", Negate(lhs), negated)))
    <3>1. \A i \in DOMAIN negated : VarsOf(negated[i]) \subseteq 0..Len(varDomains) - 1
      <4> SUFFICES ASSUME NEW i \in DOMAIN exprs
                   PROVE  VarsOf(Negate(exprs[i])) \subseteq 0..Len(varDomains) - 1
        OBVIOUS
      <4> QED BY NegateVars DEF Known
    <3>2. VarsOf(Negate(lhs)) \subseteq 0..Len(varDomains) - 1
      BY NegateVars DEF Known
    <3> HIDE DEF negated
    <3> QED BY <3>1, <3>2, ArgumentVars DEF Known
  <2> HIDE DEF negated
  <2> QED BY <1>2, <2>2, <2>3, <2>4, <2>5, AddStep
<1> QED BY <1>3, <1>4

LEMMA AbsStep ==
  ASSUME BuiltInv, UNCHANGED response, NEW lhs \in ExprType, NEW rhs \in ExprType,
         Known(VarsOf(lhs) \cup VarsOf(rhs)), addAbsEquality(lhs, rhs)
  PROVE  BuiltInv'
<1> DEFINE kind == argument("linMax", lhs, <<rhs, Negate(rhs)>>)
           st == [says |-> "abs", args |-> <<lhs, rhs>>, when |-> {}]
<1>1. <<rhs, Negate(rhs)>> \in Seq(ExprType)
  BY NegateType
<1>2. kind \in Kinds
  BY <1>1 DEF Kinds, MaxKinds, argument
<1>3. st \in Statements
  BY DEF Statements
<1>4. KindOf(st) = kind
  BY DEF KindOf
<1>5. addConstraint(kind, "abs", <<lhs, rhs>>)
  BY DEF addAbsEquality
<1>6. Known(VarsIn(kind))
  <2>1. \A i \in DOMAIN <<rhs, Negate(rhs)>> :
          VarsOf(<<rhs, Negate(rhs)>>[i]) \subseteq 0..Len(varDomains) - 1
    BY NegateVars DEF Known
  <2> QED BY <2>1, ArgumentVars DEF Known
<1> HIDE DEF kind
<1> QED BY <1>2, <1>3, <1>4, <1>5, <1>6, AddStep

LEMMA ImplicationStep ==
  ASSUME BuiltInv, UNCHANGED response, NEW b \in Int, NEW c \in Int, addImplication(b, c)
  PROVE  BuiltInv'
<1> DEFINE kind == bool("boolOr", <<not(b), c>>)
           st == [says |-> "implies", args |-> <<b, c>>, when |-> {}]
<1>1. kind \in Kinds
  BY DEF Kinds, OrKinds, bool, not
<1>2. st \in Statements
  BY DEF Statements
<1>3. KindOf(st) = kind
  BY DEF KindOf
<1>4. addConstraint(kind, "implies", <<b, c>>)
  BY DEF addImplication
<1>5. Known(VarsIn(kind))
  BY BoolVars DEF Known
<1> HIDE DEF kind
<1> QED BY <1>1, <1>2, <1>3, <1>4, <1>5, AddStep

LEMMA GivenStep ==
  ASSUME BuiltInv, UNCHANGED response, NEW k \in GivenKinds, Known(VarsIn(k)), addGiven(k)
  PROVE  BuiltInv'
<1> DEFINE st == [says |-> "given", args |-> <<k>>, when |-> {}]
<1>1. k \in Kinds
  BY DEF Kinds
<1>2. st \in Statements
  BY DEF Statements
<1>3. KindOf(st) = k
  BY DEF KindOf
<1>4. addConstraint(k, "given", <<k>>)
  BY DEF addGiven
<1> QED BY <1>1, <1>2, <1>3, <1>4, AddStep

LEMMA VariableStep ==
  ASSUME BuiltInv, UNCHANGED response, NEW d \in Domains, newIntVar(d)
  PROVE  BuiltInv'
<1>1. varDomains' \in Seq(Domains)
  BY DEF BuiltInv, TypeOK, newIntVar
<1>2. TypeOK'
  BY <1>1 DEF BuiltInv, TypeOK, newIntVar
<1>3. BuiltAsStated'
  <2>1. 0..Len(varDomains) - 1 \subseteq 0..Len(varDomains') - 1
    BY DEF BuiltInv, TypeOK, newIntVar
  <2>2. constraints' = constraints /\ stated' = stated
    BY DEF newIntVar
  <2> QED BY <2>1, <2>2, BuiltNext DEF BuiltInv, BuiltAsStated, enforcement, Known
<1>4. HintedIsHint'
  BY DEF BuiltInv, HintedIsHint, newIntVar, Range
<1> QED BY <1>2, <1>3, <1>4 DEF BuiltInv

LEMMA Enforced ==
  ASSUME NEW con \in [kind : Kinds, enforcement : Seq(Int)], NEW lits \in Seq(Int)
  PROVE  [con EXCEPT !.enforcement = @ \o lits] \in [kind : Kinds, enforcement : Seq(Int)]
<1>1. con.enforcement \o lits \in Seq(Int)
  OBVIOUS
<1> DEFINE joined == con.enforcement \o lits
<1> HIDE DEF joined
<1>2. joined \in Seq(Int)
  BY <1>1 DEF joined
<1>3. [con EXCEPT !.enforcement = joined] \in [kind : Kinds, enforcement : Seq(Int)]
  BY <1>2
<1> QED BY <1>3 DEF joined

(* The literals add up in the constraint as in what the caller said. *)
LEMMA EnforceStep ==
  ASSUME BuiltInv, UNCHANGED response, NEW c \in DOMAIN constraints, NEW lits \in Seq(Int),
         onlyEnforceIf(c, lits)
  PROVE  BuiltInv'
<1> DEFINE Constraint == [kind : Kinds, enforcement : Seq(Int)]
           con == [constraints[c] EXCEPT !.enforcement = @ \o lits]
           st == [stated[c] EXCEPT !.when = @ \cup Range(lits)]
<1>1. /\ constraints \in Seq(Constraint) /\ stated \in Seq(Statements)
      /\ DOMAIN constraints = DOMAIN stated
      /\ constraints[c] \in Constraint /\ stated[c] \in Statements
  <2>1. constraints \in Seq(Constraint) /\ stated \in Seq(Statements)
    BY DEF BuiltInv, TypeOK, Kinds
  <2>2. Len(constraints) = Len(stated)
    BY DEF BuiltInv, TypeOK
  <2> HIDE DEF Constraint
  <2>3. DOMAIN constraints = DOMAIN stated
    BY <2>1, <2>2
  <2>4. constraints[c] \in Constraint
    BY <2>1
  <2>5. stated[c] \in Statements
    BY <2>1, <2>3
  <2> QED BY <2>1, <2>3, <2>4, <2>5
<1>2. con \in Constraint
  BY <1>1, Enforced
<1>3. Range(lits) \subseteq Int
  BY DEF Range
<1>4. st \in Statements
  <2> USE <1>1, <1>3
  <2>1. stated[c].when \cup Range(lits) \in SUBSET Int
    BY DEF Statements
  <2> QED BY <2>1 DEF Statements
<1>5. /\ con.kind = constraints[c].kind
      /\ con.enforcement = constraints[c].enforcement \o lits
      /\ st.says = stated[c].says
      /\ st.when = stated[c].when \cup Range(lits)
  BY <1>1 DEF Statements
<1>6. KindOf(st) = KindOf(stated[c])
  <2>1. st.says = stated[c].says /\ st.args = stated[c].args
    BY <1>1 DEF Statements
  <2> HIDE DEF st
  <2> QED BY <2>1 DEF KindOf
<1>7. Range(con.enforcement) = st.when
  <2>1. Range(constraints[c].enforcement) = stated[c].when
    BY DEF BuiltInv, BuiltAsStated, enforcement
  <2>2. constraints[c].enforcement \in Seq(Int)
    BY <1>1
  <2> QED BY <1>5, <2>1, <2>2, RangeOfConcatenation
<1>8. /\ constraints' = [constraints EXCEPT ![c] = con]
      /\ stated' = [stated EXCEPT ![c] = st]
  BY DEF onlyEnforceIf
<1> HIDE DEF con, st
<1>9. TypeOK'
  <2>1. constraints' \in Seq(Constraint) /\ Len(constraints') = Len(constraints)
    BY <1>1, <1>2, <1>8, Replaced
  <2>2. stated' \in Seq(Statements) /\ Len(stated') = Len(stated)
    <3>1. c \in DOMAIN stated /\ stated \in Seq(Statements) /\ st \in Statements
      BY <1>1, <1>4, Zenon
    <3>2. /\ [stated EXCEPT ![c] = st] \in Seq(Statements)
          /\ Len([stated EXCEPT ![c] = st]) = Len(stated)
      BY <3>1, Replaced
    <3> QED BY <1>8, <3>2, Zenon
  <2>3. constraints' \in Seq([kind : LinearKinds \cup MaxKinds \cup OrKinds \cup GivenKinds,
                              enforcement : Seq(Int)])
    BY <2>1 DEF Kinds
  <2> QED BY <2>1, <2>2, <2>3 DEF BuiltInv, TypeOK, onlyEnforceIf
<1>12. varDomains' = varDomains
  BY DEF onlyEnforceIf
<1>10. BuiltAsStated'
  <2> SUFFICES ASSUME NEW i \in DOMAIN constraints'
               PROVE  /\ Range(constraints'[i].enforcement) = stated'[i].when
                      /\ constraints'[i].kind = KindOf(stated'[i])
                      /\ VarsIn(constraints'[i].kind) \subseteq 0..Len(varDomains') - 1
    BY BuiltNext
  <2>1. i \in DOMAIN constraints
    BY <1>1, <1>8
  <2>2. CASE i = c
    <3>1. constraints'[i] = con /\ stated'[i] = st
      BY <1>1, <1>8, <2>1, <2>2
    <3>2. constraints[c].kind = KindOf(stated[c]) /\ Known(VarsIn(constraints[c].kind))
      BY DEF BuiltInv, BuiltAsStated
    <3> QED BY <1>5, <1>6, <1>7, <1>12, <3>1, <3>2 DEF Known
  <2>3. CASE i # c
    <3>1. constraints'[i] = constraints[i] /\ stated'[i] = stated[i]
      BY <1>1, <1>8, <2>1, <2>3
    <3> QED BY <1>12, <2>1, <3>1 DEF BuiltInv, BuiltAsStated, enforcement, Known
  <2> QED BY <2>2, <2>3
<1>11. HintedIsHint'
  BY DEF BuiltInv, HintedIsHint, onlyEnforceIf, Range
<1> QED BY <1>9, <1>10, <1>11 DEF BuiltInv

LEMMA ObjectiveStep ==
  ASSUME BuiltInv, UNCHANGED response, NEW e \in ExprType, minimize(e) \/ maximize(e)
  PROVE  BuiltInv'
<1>1. objective' \in ExprType \X BOOLEAN
  <2>1. \A v \in BOOLEAN : <<e, v>> \in ExprType \X BOOLEAN
    OBVIOUS
  <2>2. objective' = <<e, FALSE>> \/ objective' = <<e, TRUE>>
    BY Zenon DEF minimize, maximize
  <2> QED BY <2>1, <2>2, Zenon
<1>2. UNCHANGED <<varDomains, constraints, assumptions, solutionHint, stated, hinted>>
  BY DEF minimize, maximize
<1>3. TypeOK'
  BY <1>1, <1>2 DEF BuiltInv, TypeOK
<1>4. BuiltAsStated' /\ HintedIsHint'
  BY <1>2, SameBuilt DEF BuiltInv, HintedIsHint, Range
<1> QED BY <1>3, <1>4 DEF BuiltInv

LEMMA AssumptionStep ==
  ASSUME BuiltInv, UNCHANGED response, NEW lits \in Seq(Int), markAssumptions(lits)
  PROVE  BuiltInv'
<1>1. assumptions' \in Seq(Int)
  BY DEF BuiltInv, TypeOK, markAssumptions
<1>2. TypeOK'
  BY <1>1 DEF BuiltInv, TypeOK, markAssumptions
<1>3. BuiltAsStated' /\ HintedIsHint'
  BY SameBuilt DEF BuiltInv, HintedIsHint, markAssumptions, Range
<1> QED BY <1>2, <1>3 DEF BuiltInv

(* Hints are only ever added. *)
LEMMA HintStep ==
  ASSUME BuiltInv, UNCHANGED response, NEW hints \in Seq(Nat \X Int64), addSolutionHint(hints)
  PROVE  BuiltInv'
<1>1. solutionHint \in Seq(Nat \X Int64)
  BY DEF BuiltInv, TypeOK
<1>2. solutionHint' = solutionHint \o hints
  BY DEF addSolutionHint
<1>3. solutionHint' \in Seq(Nat \X Int64)
  BY <1>1, <1>2
<1>4. Range(solutionHint) \subseteq Range(solutionHint')
  BY <1>1, <1>2, RangeOfConcatenation
<1>5. TypeOK'
  BY <1>3 DEF BuiltInv, TypeOK, addSolutionHint
<1>6. BuiltAsStated'
  BY SameBuilt DEF addSolutionHint
<1>7. HintedIsHint'
  BY <1>4 DEF BuiltInv, HintedIsHint, addSolutionHint
<1> QED BY <1>5, <1>6, <1>7 DEF BuiltInv

LEMMA BoolHintStep ==
  ASSUME BuiltInv, UNCHANGED response, NEW b \in Lits, NEW value \in BOOLEAN,
         addBoolSolutionHint(b, value)
  PROVE  BuiltInv'
<1>1. hint(b, value) \in Nat \X Int64
  BY HintType, BuilderAssumption
<1>2. solutionHint \in Seq(Nat \X Int64)
  BY DEF BuiltInv, TypeOK
<1>3. solutionHint' = Append(solutionHint, hint(b, value))
  BY DEF addBoolSolutionHint
<1>4. solutionHint' \in Seq(Nat \X Int64)
  BY <1>1, <1>2, <1>3
<1>5. Range(solutionHint') = Range(solutionHint) \cup {hint(b, value)}
  BY <1>1, <1>2, <1>3, RangeOfAppend
<1>6. hinted' = hinted \cup {<<b, value>>}
  BY DEF addBoolSolutionHint
<1>7. TypeOK'
  BY <1>4, <1>6 DEF BuiltInv, TypeOK, addBoolSolutionHint
<1>8. BuiltAsStated'
  BY SameBuilt DEF addBoolSolutionHint
<1>9. HintedIsHint'
  BY <1>5, <1>6 DEF BuiltInv, HintedIsHint
<1> QED BY <1>7, <1>8, <1>9 DEF BuiltInv

LEMMA SolveStep ==
  ASSUME BuiltInv, Solve
  PROVE  BuiltInv'
<1>1. UNCHANGED <<varDomains, constraints, objective, assumptions, solutionHint, stated, hinted>>
  BY DEF Solve
<1>2. response' \in Answers
  BY DEF Solve
<1>3. response'.status \in Statuses
  <2>1. ASSUME NEW status \in Statuses, NEW solution, NEW value, NEW core
        PROVE  Response(status, solution, value, core).status \in Statuses
    BY DEF Response
  <2> DEFINE marked == Range(assumptions)
             sols == SolutionsWith(marked)
             best == {a \in sols : GapIsClosed(a, sols)}
             cores == {c \in SUBSET marked : SolutionsWith(c) = {}}
             Of(status, a) == {Response(status, a, v, {}) : v \in ScaleObjectiveValue(a)}
  <2>2. \/ response' = Response("modelInvalid", None, 0, {})
        \/ \E c \in cores : response' = Response("infeasible", None, 0, c)
        \/ \E a \in best : response' \in Of("optimal", a)
        \/ \E a \in sols : response' \in Of("feasible", a)
        \/ response' = Response("unknown", None, 0, {})
    BY <1>2, Zenon DEF Answers
  <2> HIDE DEF cores, best, sols
  <2>3. {"modelInvalid", "infeasible", "optimal", "feasible", "unknown"} \subseteq Statuses
    BY DEF Statuses
  <2> QED BY <2>1, <2>2, <2>3
<1>4. TypeOK'
  BY <1>1, <1>3 DEF BuiltInv, TypeOK
<1>5. BuiltAsStated' /\ HintedIsHint'
  BY <1>1, SameBuilt DEF BuiltInv, HintedIsHint, Range
<1> QED BY <1>4, <1>5 DEF BuiltInv

(* Every call that adds to the model keeps it. *)
LEMMA BuildStep ==
  ASSUME BuiltInv, Build, UNCHANGED response
  PROVE  BuiltInv'
<1>1. Exprs \subseteq ExprType /\ Goals \subseteq ExprType /\ Domains \subseteq DomainType
      /\ Lits \subseteq Int /\ HintValues \subseteq Int64
  BY BuilderAssumption
<1>2. ASSUME NEW d \in Domains, newIntVar(d)
      PROVE  BuiltInv'
  BY <1>2, VariableStep
<1>3. ASSUME NEW lhs \in Exprs, NEW rhs \in Exprs, Known(VarsOf(lhs) \cup VarsOf(rhs)),
             \/ addEquality(lhs, rhs)
             \/ addLessOrEqual(lhs, rhs)
             \/ addGreaterOrEqual(lhs, rhs)
             \/ addNotEqual(lhs, rhs)
      PROVE  BuiltInv'
  BY <1>1, <1>3, CompareStep
<1>4. ASSUME NEW lhs \in Exprs, NEW rhs \in Exprs, Known(VarsOf(lhs) \cup VarsOf(rhs)),
             \/ addMaxEquality(lhs, <<rhs, const(0)>>)
             \/ addMinEquality(lhs, <<rhs, const(0)>>)
      PROVE  BuiltInv'
  <2>1. const(0) \in ExprType
    <3>1. 0 \in Int64
      BY HalfFacts DEF Int64
    <3>2. << >> \in Seq(Nat \X Int64)
      OBVIOUS
    <3> QED BY <3>1, <3>2, ExprOfType DEF const
  <2> DEFINE exprs == <<rhs, const(0)>>
  <2>2. exprs \in Seq(ExprType) /\ exprs # << >>
    BY <1>1, <2>1
  <2>3. VarsOf(const(0)) = {}
    BY DEF VarsOf, const, Expr
  <2>4. Known(VarsOf(lhs)) /\ \A i \in DOMAIN exprs : Known(VarsOf(exprs[i]))
    BY <1>4, <2>3 DEF Known
  <2> HIDE DEF exprs
  <2>5. addMaxEquality(lhs, exprs) \/ addMinEquality(lhs, exprs)
    BY <1>4 DEF exprs
  <2> QED BY <1>1, <2>2, <2>4, <2>5, ExtremeStep
<1>5. ASSUME NEW lhs \in Exprs, NEW rhs \in Exprs, Known(VarsOf(lhs) \cup VarsOf(rhs)),
             addAbsEquality(lhs, rhs)
      PROVE  BuiltInv'
  BY <1>1, <1>5, AbsStep
<1>6. ASSUME NEW e \in Exprs, NEW d \in Domains, Known(VarsOf(e)),
             addLinearConstraint(e, d)
      PROVE  BuiltInv'
  BY <1>1, <1>6, LinearStep
<1>7. ASSUME NEW b \in Lits, NEW c \in Lits, addImplication(b, c)
      PROVE  BuiltInv'
  BY <1>1, <1>7, ImplicationStep
<1>8. ASSUME NEW k \in GivenKinds, Known(VarsIn(k)), addGiven(k)
      PROVE  BuiltInv'
  BY <1>8, GivenStep
<1>9. ASSUME NEW c \in DOMAIN constraints, NEW b \in Lits, onlyEnforceIf(c, <<b>>)
      PROVE  BuiltInv'
  <2>1. <<b>> \in Seq(Int)
    BY <1>1
  <2> QED BY <1>9, <2>1, EnforceStep
<1>10. ASSUME NEW e \in Goals, minimize(e) \/ maximize(e)
       PROVE  BuiltInv'
  BY <1>1, <1>10, ObjectiveStep
<1>11. ASSUME NEW b \in Lits, markAssumptions(<<b>>)
       PROVE  BuiltInv'
  <2>1. <<b>> \in Seq(Int)
    BY <1>1
  <2> QED BY <1>11, <2>1, AssumptionStep
<1>12. ASSUME NEW v \in 0..Len(varDomains) - 1, NEW x \in HintValues,
              addSolutionHint(<<<<v, x>>>>)
       PROVE  BuiltInv'
  <2>1. v \in Nat /\ x \in Int64
    BY <1>1
  <2>2. <<<<v, x>>>> \in Seq(Nat \X Int64)
    BY <2>1
  <2> QED BY <1>12, <2>2, HintStep
<1>13. ASSUME NEW b \in Lits, NEW value \in BOOLEAN, addBoolSolutionHint(b, value)
       PROVE  BuiltInv'
  BY <1>13, BoolHintStep
<1> QED
  BY <1>2, <1>3, <1>4, <1>5, <1>6, <1>7, <1>8, <1>9, <1>10, <1>11, <1>12, <1>13, Zenon
  DEF Build

LEMMA Initial == Init => IInv
<1> SUFFICES ASSUME Init PROVE IInv
  OBVIOUS
<1>1. TypeOK
  BY DEF Init, TypeOK
<1>2. BuiltAsStated /\ HintedIsHint
  BY DEF Init, BuiltAsStated, HintedIsHint
<1>3. ResponseAnswers
  BY DEF Init, ResponseAnswers
<1> QED BY <1>1, <1>2, <1>3 DEF IInv, BuiltInv

(* Nothing is added after the answer. *)
LEMMA SameAnswers ==
  ASSUME UNCHANGED <<varDomains, constraints, objective, assumptions, solutionHint>>
  PROVE  Answers' = Answers
<1>1. ValidateCpModel' = ValidateCpModel
  BY DEF ValidateCpModel, ValidateWithoutHint, ValidateSolutionHint, protoObjective, protoKind,
         enforcement
<1>2. Assignments' = Assignments
  BY DEF Assignments, DomainValues, Range
<1>3. ASSUME NEW lits PROVE SolutionsWith(lits)' = SolutionsWith(lits)
  BY <1>2 DEF SolutionsWith, Encoded, protoKind, enforcement
<1>4. Rounding' = Rounding /\ protoObjective' = protoObjective
  BY DEF Rounding, Spread, protoObjective
<1>5. ASSUME NEW a PROVE ScaleObjectiveValue(a)' = ScaleObjectiveValue(a)
  BY <1>4 DEF ScaleObjectiveValue, Score
<1>6. ASSUME NEW a, NEW sols PROVE GapIsClosed(a, sols)' = GapIsClosed(a, sols)
  BY <1>4 DEF GapIsClosed, Score
<1>7. Range(assumptions)' = Range(assumptions)
  BY DEF Range
<1> QED BY <1>1, <1>3, <1>5, <1>6, <1>7 DEF Answers

LEMMA Step == IInv /\ [Next]_vars => IInv'
<1> SUFFICES ASSUME IInv, [Next]_vars PROVE IInv'
  OBVIOUS
<1>1. CASE UNCHANGED vars
  <2>1. BuiltAsStated'
    BY <1>1, SameBuilt DEF IInv, vars
  <2>2. TypeOK' /\ HintedIsHint'
    BY <1>1 DEF IInv, BuiltInv, TypeOK, HintedIsHint, Range, vars
  <2>3. ResponseAnswers'
    BY <1>1, SameAnswers DEF IInv, ResponseAnswers, vars
  <2> QED BY <2>1, <2>2, <2>3 DEF IInv, BuiltInv
<1>2. CASE response = None /\ Build /\ UNCHANGED response
  BY <1>2, BuildStep DEF IInv, ResponseAnswers
<1>3. CASE Solve
  <2>1. BuiltInv'
    BY <1>3, SolveStep DEF IInv
  <2>2. response' \in Answers'
    BY <1>3, SameAnswers DEF Solve
  <2> QED BY <2>1, <2>2 DEF IInv, ResponseAnswers
<1> QED BY <1>1, <1>2, <1>3, Zenon DEF Next

LEMMA Invariance == Spec => []IInv
BY Initial, Step, PTL DEF Spec

(* TypeOK, for every set of domains, expressions and literals: what Minus,     *)
(* Negate and hint compute stays within Int64, and every constraint has one    *)
(* statement.                                                                  *)
THEOREM TypeCorrect == Spec => []TypeOK
<1>1. IInv => TypeOK
  BY DEF IInv, BuiltInv
<1> QED BY <1>1, Invariance, PTL

(* BoolVar.hint, with every later call only adding to the hint: an assignment  *)
(* that follows the hint gives every hinted literal the hinted value.          *)
THEOREM HintedLiterals == Spec => []HintSetsLiterals
<1>1. ASSUME IInv
      PROVE  HintSetsLiterals
  <2> SUFFICES ASSUME NEW a \in Assignments, Follows(a), NEW p \in hinted
               PROVE  LiteralIsTrue(p[1], a) = p[2]
    BY DEF HintSetsLiterals
  <2>1. p[1] \in Int /\ p[2] \in BOOLEAN
    BY <1>1, BuilderAssumption DEF IInv, BuiltInv, TypeOK
  <2>2. hint(p[1], p[2]) \in Range(solutionHint)
    BY <1>1 DEF IInv, BuiltInv, HintedIsHint
  <2>3. a[hint(p[1], p[2])[1]] = hint(p[1], p[2])[2]
    BY <2>2 DEF Follows
  <2>4. a[VarOf(p[1])] = IF p[2] = (p[1] < 0) THEN 0 ELSE 1
    BY <2>3 DEF hint
  <2>5. CASE p[1] < 0
    <3>1. CASE p[2]
      BY <2>4, <2>5, <3>1 DEF LiteralIsTrue
    <3>2. CASE ~p[2]
      BY <2>1, <2>4, <2>5, <3>2 DEF LiteralIsTrue
    <3> QED BY <3>1, <3>2
  <2>6. CASE ~(p[1] < 0)
    <3>1. VarOf(p[1]) = p[1]
      BY <2>6 DEF VarOf
    <3>2. (p[1] < 0) = FALSE
      BY <2>1, <2>6
    <3>3. CASE p[2] = TRUE
      <4>1. a[p[1]] = 1
        BY <2>4, <3>1, <3>2, <3>3
      <4>2. LiteralIsTrue(p[1], a) = TRUE
        BY <2>6, <4>1 DEF LiteralIsTrue
      <4> QED BY <3>3, <4>2, Zenon
    <3>4. CASE p[2] = FALSE
      <4>1. a[p[1]] = 0
        BY <2>4, <3>1, <3>2, <3>4
      <4>2. LiteralIsTrue(p[1], a) = FALSE
        BY <2>6, <4>1 DEF LiteralIsTrue
      <4> QED BY <3>4, <4>2, Zenon
    <3> QED BY <2>1, <3>3, <3>4, Zenon
  <2> QED BY <2>5, <2>6
<1> QED BY <1>1, Invariance, PTL

-----------------------------------------------------------------------------
(* The encoding of linear constraints. *)

LEMMA ComparisonsRelate ==
  ASSUME NEW v \in Int
  PROVE  /\ Within(single(0), v) <=> v = 0
         /\ Within(ofInterval(MinInt, 0), v) <=> v <= 0
         /\ Within(ofInterval(0, MaxInt), v) <=> v >= 0
         /\ Within(excluding(0), v) <=> v # 0
<1>1. 0 # MinInt /\ 0 # MaxInt /\ -1 # MaxInt /\ 1 # MinInt
  BY HalfFacts
<1>2. ASSUME NEW lo \in Int, NEW hi \in Int
      PROVE  Within(<<<<lo, hi>>>>, v) <=> (lo = MinInt \/ lo <= v) /\ (hi = MaxInt \/ v <= hi)
  <2>1. DOMAIN <<<<lo, hi>>>> = {1} /\ <<<<lo, hi>>>>[1] = <<lo, hi>>
    OBVIOUS
  <2> QED BY <2>1 DEF Within
<1>3. Within(<<<<MinInt, -1>>, <<1, MaxInt>>>>, v) <=> v <= -1 \/ 1 <= v
  <2> DEFINE d == <<<<MinInt, -1>>, <<1, MaxInt>>>>
  <2>1. DOMAIN d = {1, 2} /\ d[1] = <<MinInt, -1>> /\ d[2] = <<1, MaxInt>>
    OBVIOUS
  <2> HIDE DEF d
  <2>2. Within(d, v) <=> \/ (d[1][1] = MinInt \/ d[1][1] <= v) /\ (d[1][2] = MaxInt \/ v <= d[1][2])
                         \/ (d[2][1] = MinInt \/ d[2][1] <= v) /\ (d[2][2] = MaxInt \/ v <= d[2][2])
    BY <2>1 DEF Within
  <2>3. /\ d[1][1] = MinInt /\ d[1][2] = -1
        /\ d[2][1] = 1 /\ d[2][2] = MaxInt
    BY <2>1
  <2>4. Within(d, v) <=> v <= -1 \/ 1 <= v
    BY <1>1, <2>2, <2>3
  <2> QED BY <2>4 DEF d
<1>4. Within(single(0), v) <=> v = 0
  BY <1>1, <1>2 DEF single, ofInterval
<1>5. Within(ofInterval(MinInt, 0), v) <=> v <= 0
  BY <1>1, <1>2, HalfFacts DEF ofInterval
<1>6. Within(ofInterval(0, MaxInt), v) <=> v >= 0
  BY <1>1, <1>2, HalfFacts DEF ofInterval
<1>7. Within(excluding(0), v) <=> v # 0
  BY <1>3, ComparisonDomains
<1> QED BY <1>4, <1>5, <1>6, <1>7

(* Subtraction, in Int64, of two expressions whose constants' difference fits. *)
LEMMA MinusConstant ==
  ASSUME NEW d \in ExprType, NEW e \in ExprType, d.constant - e.constant \in -Half..Half
  PROVE  Minus(d, e).constant = d.constant - e.constant
<1>1. Negate(e).constant = Wrap((-1) * e.constant)
  BY DEF Negate, Times, Expr
<1>2. Minus(d, e).constant = Wrap(d.constant + Negate(e).constant)
  BY DEF Minus, Plus, Expr
<1>3. d.constant \in Int64 /\ e.constant \in Int64
  BY DEF ExprType
<1> QED BY <1>1, <1>2, <1>3, DifferenceWraps

(* What CP-SAT checks of a linear constraint, sum being what its terms come to. *)
LEMMA LinearFeasible ==
  ASSUME NEW expr \in ExprType, NEW domain \in DomainType, NEW a,
         expr.constant \in -Half..Half, SumOf(expr.terms, a) \in -Half..Half
  PROVE  ConstraintIsFeasible(constraintKindToProto(linear(expr, domain)), a)
           <=> Within(domain, SumOf(expr.terms, a) + expr.constant)
<1> DEFINE k == constraintKindToProto(linear(expr, domain))
<1>1. k = linear(Expr(expr.terms, 0), shiftDomain(domain, expr.constant))
  BY DEF constraintKindToProto, linear
<1>2. /\ k.kind = "linear"
      /\ k.expr.terms = expr.terms
      /\ k.domain = shiftDomain(domain, expr.constant)
  BY <1>1 DEF linear, Expr
<1> HIDE DEF k
<1>3. ConstraintIsFeasible(k, a)
        <=> DomainInProtoContains(shiftDomain(domain, expr.constant), SumOf(expr.terms, a))
  BY <1>2 DEF ConstraintIsFeasible
<1>4. ConstraintIsFeasible(k, a) <=> Within(domain, SumOf(expr.terms, a) + expr.constant)
  BY <1>3, ShiftKeepsMeaning
<1> QED BY <1>4 DEF k

(* A linear constraint built from a statement relates the statement's sum. *)
LEMMA StatementFeasible ==
  ASSUME NEW st \in Statements, st.says \in LinearSays, ConstantFits(st), NEW a,
         SumOf(KindOf(st).expr.terms, a) \in -Half..Half
  PROVE  ConstraintIsFeasible(constraintKindToProto(KindOf(st)), a)
           <=> Relates(st, SumOf(KindOf(st).expr.terms, a) + ConstantOf(st))
<1>1. CASE st.says = "in"
  <2>1. st.args[1] \in ExprType /\ st.args[2] \in DomainType
    BY <1>1 DEF Statements
  <2>2. KindOf(st) = linear(st.args[1], st.args[2]) /\ ConstantOf(st) = st.args[1].constant
    BY <1>1 DEF KindOf, ConstantOf
  <2>3. KindOf(st).expr = st.args[1]
    BY <2>2 DEF linear
  <2>4. st.args[1].constant \in -Half..Half
    BY <2>2 DEF ConstantFits
  <2>5. SumOf(st.args[1].terms, a) \in -Half..Half
    BY <2>3
  <2>6. ConstraintIsFeasible(constraintKindToProto(KindOf(st)), a)
          <=> Within(st.args[2], SumOf(st.args[1].terms, a) + st.args[1].constant)
    BY <2>1, <2>2, <2>4, <2>5, LinearFeasible
  <2> QED BY <1>1, <2>2, <2>3, <2>6 DEF Relates
<1>2. ASSUME st.says \in {"=", "<=", ">=", "#"}
      PROVE  /\ st.args[1] \in ExprType /\ st.args[2] \in ExprType
             /\ Minus(st.args[1], st.args[2]) \in ExprType
             /\ Minus(st.args[1], st.args[2]).constant = ConstantOf(st)
             /\ ConstantOf(st) \in -Half..Half
  <2>1. st.args[1] \in ExprType /\ st.args[2] \in ExprType
    BY <1>2 DEF Statements
  <2>2. ConstantOf(st) = st.args[1].constant - st.args[2].constant
    BY <1>2 DEF ConstantOf
  <2>3. ConstantOf(st) \in -Half..Half
    BY DEF ConstantFits
  <2> QED BY <2>1, <2>2, <2>3, MinusType, MinusConstant
<1>3. ASSUME NEW domain \in DomainType, st.says \in {"=", "<=", ">=", "#"},
             KindOf(st) = linear(Minus(st.args[1], st.args[2]), domain)
      PROVE  /\ ConstraintIsFeasible(constraintKindToProto(KindOf(st)), a)
                  <=> Within(domain, SumOf(KindOf(st).expr.terms, a) + ConstantOf(st))
             /\ SumOf(KindOf(st).expr.terms, a) + ConstantOf(st) \in Int
  <2>1. KindOf(st).expr = Minus(st.args[1], st.args[2])
    BY <1>3 DEF linear
  <2>2. SumOf(Minus(st.args[1], st.args[2]).terms, a) \in -Half..Half
    BY <2>1
  <2> QED BY <1>2, <1>3, <2>1, <2>2, LinearFeasible, HalfFacts
<1>4. CASE st.says = "="
  <2>1. KindOf(st) = linear(Minus(st.args[1], st.args[2]), single(0))
    BY <1>4 DEF KindOf
  <2> QED BY <1>3, <1>4, <2>1, ComparisonDomains, ComparisonsRelate DEF Relates
<1>5. CASE st.says = "<="
  <2>1. KindOf(st) = linear(Minus(st.args[1], st.args[2]), ofInterval(MinInt, 0))
    BY <1>5 DEF KindOf
  <2> QED BY <1>3, <1>5, <2>1, ComparisonDomains, ComparisonsRelate DEF Relates
<1>6. CASE st.says = ">="
  <2>1. KindOf(st) = linear(Minus(st.args[1], st.args[2]), ofInterval(0, MaxInt))
    BY <1>6 DEF KindOf
  <2> QED BY <1>3, <1>6, <2>1, ComparisonDomains, ComparisonsRelate DEF Relates
<1>7. CASE st.says = "#"
  <2>1. KindOf(st) = linear(Minus(st.args[1], st.args[2]), excluding(0))
    BY <1>7 DEF KindOf
  <2> QED BY <1>3, <1>7, <2>1, ComparisonDomains, ComparisonsRelate DEF Relates
<1> QED BY <1>1, <1>4, <1>5, <1>6, <1>7 DEF LinearSays

(* The linear part of the encoding, at every width of Int64: subtracting in    *)
(* Int64, folding the constant into the domain and clamping it change what the *)
(* constraint admits nowhere a sum of terms within half of Int64 can tell.     *)
THEOREM LinearEncoded == Spec => []LinearIsEncoded
<1>1. ASSUME IInv
      PROVE  LinearIsEncoded
  <2> SUFFICES ASSUME NEW i \in DOMAIN constraints,
                      stated[i].says \in LinearSays, ConstantFits(stated[i]),
                      NEW a \in Assignments,
                      SumOf(constraints[i].kind.expr.terms, a) \in -Half..Half
               PROVE  Encoded(i, a) <=>
                        (AllTrue(stated[i].when, a) =>
                           Relates(stated[i], SumOf(constraints[i].kind.expr.terms, a)
                                                + ConstantOf(stated[i])))
    BY Zenon DEF LinearIsEncoded
  <2>1. stated[i] \in Statements
    <3>1. stated \in Seq(Statements) /\ constraints \in Seq([kind : Kinds, enforcement : Seq(Int)])
      BY <1>1 DEF IInv, BuiltInv, TypeOK, Kinds
    <3>2. Len(stated) = Len(constraints)
      BY <1>1 DEF IInv, BuiltInv, TypeOK
    <3> QED BY <3>1, <3>2
  <2>2. constraints[i].kind = KindOf(stated[i]) /\ enforcement(i) = stated[i].when
    BY <1>1 DEF IInv, BuiltInv, BuiltAsStated
  <2>3. SumOf(KindOf(stated[i]).expr.terms, a) \in -Half..Half
    BY <2>2
  <2>4. ConstraintIsFeasible(constraintKindToProto(KindOf(stated[i])), a)
          <=> Relates(stated[i], SumOf(KindOf(stated[i]).expr.terms, a) + ConstantOf(stated[i]))
    BY <2>1, <2>3, StatementFeasible
  <2>5. ConstraintIsFeasible(protoKind(i), a)
          <=> Relates(stated[i], SumOf(constraints[i].kind.expr.terms, a) + ConstantOf(stated[i]))
    BY <2>2, <2>4 DEF protoKind
  <2> QED BY <2>2, <2>5, Zenon DEF Encoded
<1> QED BY <1>1, Invariance, PTL


-----------------------------------------------------------------------------
(* What CP-SAT's validation says of a model. *)

LEMMA AcceptedDomains ==
  ASSUME IInv, \A d \in Range(varDomains) : ValidateIntegerVariable(d)
  PROVE  varDomains \in VariableDomains
<1>1. varDomains \in Seq(DomainType)
  <2>1. varDomains \in Seq(Domains) /\ Domains \subseteq DomainType
    BY BuilderAssumption DEF IInv, BuiltInv, TypeOK
  <2> QED BY <2>1
<1>2. \A i \in DOMAIN varDomains : ValidateIntegerVariable(varDomains[i])
  BY DEF Range
<1> QED BY <1>1, <1>2 DEF VariableDomains

LEMMA AssignmentRespects ==
  ASSUME NEW a \in Assignments
  PROVE  Respects(a, varDomains)
<1>1. ASSUME NEW v \in 0..Len(varDomains) - 1
      PROVE  a[v] \in Int /\ DomainInProtoContains(varDomains[v + 1], a[v])
  BY HalfFacts DEF Assignments, DomainValues
<1> QED BY <1>1 DEF Respects

LEMMA KindOfConstraint ==
  ASSUME IInv, NEW i \in DOMAIN constraints
  PROVE  /\ constraints[i].kind \in Kinds /\ constraints[i].enforcement \in Seq(Int)
         /\ stated[i] \in Statements
         /\ constraints[i].kind.kind = "linear" <=> constraints[i].kind \in LinearKinds
<1>1. /\ constraints \in Seq([kind : Kinds, enforcement : Seq(Int)])
      /\ stated \in Seq(Statements) /\ Len(stated) = Len(constraints)
  BY DEF IInv, BuiltInv, TypeOK, Kinds
<1>2. constraints[i] \in [kind : Kinds, enforcement : Seq(Int)] /\ stated[i] \in Statements
  <2> DEFINE Constraint == [kind : Kinds, enforcement : Seq(Int)]
  <2> HIDE DEF Constraint
  <2>1. constraints \in Seq(Constraint)
    BY <1>1 DEF Constraint
  <2>2. constraints[i] \in Constraint
    BY <2>1
  <2>3. stated[i] \in Statements
    BY <1>1, <2>1
  <2> QED BY <2>2, <2>3 DEF Constraint
<1>3. ASSUME NEW k \in Kinds PROVE k.kind = "linear" <=> k \in LinearKinds
  <2>1. CASE k \in LinearKinds
    BY <2>1 DEF LinearKinds
  <2>2. CASE k \in MaxKinds \cup OrKinds
    BY <2>2 DEF MaxKinds, OrKinds, LinearKinds
  <2>3. CASE k \in GivenKinds
    <3>1. k \in GivenType
      BY <2>3, BuilderAssumption
    <3>2. k.kind # "linear"
      BY <3>1 DEF GivenType
    <3> QED BY <3>2 DEF LinearKinds
  <2> QED BY <2>1, <2>2, <2>3 DEF Kinds
<1> QED BY <1>2, <1>3

(* Divisions, with their numerator and their denominator. *)
LEMMA DivisionType ==
  ASSUME NEW k \in Kinds, k.kind \in {"intDiv", "intMod"}
  PROVE  /\ k.exprs \in ExprType \X ExprType
         /\ k.exprs[1] \in ExprType /\ k.exprs[2] \in ExprType
         /\ k.exprs[2] \in ExprsOf(k)
         /\ constraintKindToProto(k) = k
<1>1. k \in GivenType
  <2>1. k \notin LinearKinds /\ k \notin MaxKinds /\ k \notin OrKinds
    BY DEF LinearKinds, MaxKinds, OrKinds
  <2> QED BY <2>1, BuilderAssumption DEF Kinds
<1>2. k \in [kind : {"intDiv", "intMod"}, target : ExprType, exprs : ExprType \X ExprType]
  BY <1>1 DEF GivenType
<1>3. k.exprs \in ExprType \X ExprType /\ "exprs" \in DOMAIN k
  BY <1>2
<1>4. ASSUME NEW p \in ExprType \X ExprType
      PROVE  p[1] \in ExprType /\ p[2] \in ExprType /\ p[2] \in Range(p)
  BY DEF Range
<1>5. k.exprs \in Field(k, "exprs")
  BY <1>3 DEF Field
<1>6. k.exprs[2] \in ExprsOf(k)
  BY <1>3, <1>4, <1>5 DEF ExprsOf
<1>7. constraintKindToProto(k) = k
  BY DEF constraintKindToProto
<1> QED BY <1>3, <1>4, <1>6, <1>7

(* What ValidateDivisor and the check of a modulus leave out is exactly what   *)
(* an assignment would have to divide by: for every domain and every divisor   *)
(* of one variable, and every modulus of any number of them.                   *)
THEOREM DivisionsAreDefined == Spec => []DivisionIsDefined
<1>1. ASSUME IInv
      PROVE  DivisionIsDefined
  <2> SUFFICES ASSUME ValidateCpModel, NEW i \in DOMAIN constraints, NEW a \in Assignments
               PROVE  LET k == constraints[i].kind
                      IN /\ k.kind = "intDiv" /\ Len(k.exprs[2].terms) <= 1
                              => ValueOf(k.exprs[2], a) # 0
                         /\ k.kind = "intMod" => ValueOf(k.exprs[2], a) > 0
    BY DEF DivisionIsDefined
  <2> DEFINE k == constraints[i].kind
             d == k.exprs[2]
  <2>1. varDomains \in VariableDomains /\ Respects(a, varDomains)
    BY <1>1, AcceptedDomains, AssignmentRespects DEF ValidateCpModel, ValidateWithoutHint
  <2>2. k \in Kinds
    BY <1>1, KindOfConstraint
  <2>3. ASSUME k.kind \in {"intDiv", "intMod"}
        PROVE  /\ d \in ExprType /\ Uses(d.terms, varDomains)
               /\ ValidateConstraint(k, enforcement(i), varDomains)
    <3>1. d \in ExprType /\ d \in ExprsOf(k) /\ protoKind(i) = k
      BY <2>2, <2>3, DivisionType DEF protoKind
    <3>2. ValidateConstraint(k, enforcement(i), varDomains)
      BY <3>1 DEF ValidateCpModel, ValidateWithoutHint
    <3>3. VarsIn(k) \subseteq 0..Len(varDomains) - 1
      BY <3>2 DEF ValidateConstraint
    <3> QED BY <3>1, <3>2, <3>3, KindUses
  <2>4. ASSUME k.kind = "intDiv", Len(d.terms) <= 1
        PROVE  ValueOf(d, a) # 0
    <3>1. ValidateDivisor(d, varDomains)
      BY <2>3, <2>4 DEF ValidateConstraint
    <3> HIDE DEF d
    <3> QED BY <2>1, <2>3, <2>4, <3>1, DivisorIsNotZero
  <2>5. ASSUME k.kind = "intMod"
        PROVE  ValueOf(d, a) > 0
    <3>1. EndsOf(d, varDomains)[1] > 0
      BY <2>3, <2>5 DEF ValidateConstraint
    <3> HIDE DEF d
    <3>2. /\ EndsOf(d, varDomains)[1] \in Int /\ ValueOf(d, a) \in Int
          /\ EndsOf(d, varDomains)[1] <= ValueOf(d, a)
      BY <2>1, <2>3, <2>5, EndsBoundValue
    <3> QED BY <3>1, <3>2
  <2> QED BY <2>4, <2>5, Zenon
<1> QED BY <1>1, Invariance, PTL


-----------------------------------------------------------------------------
(* What a constraint admits, and what the caller said with it.                 *)

(* CP-SAT knows the variables of a constraint, and takes its expressions. *)
Taken(k, domains) ==
  /\ VarsIn(k) \subseteq 0..Len(domains) - 1
  /\ \A e \in ExprsOf(constraintKindToProto(k)) : FitsInt64(e, domains)

(* The sum of a linear constraint that is taken stays within half of Int64. *)
LEMMA LinearTaken ==
  ASSUME NEW domains \in VariableDomains, NEW e \in ExprType, NEW domain,
         Taken(linear(e, domain), domains), NEW a, Respects(a, domains)
  PROVE  /\ Uses(e.terms, domains) /\ Negatable(e.terms)
         /\ SumOf(e.terms, a) \in -Half..Half
<1> DEFINE k == linear(e, domain)
           d == Expr(e.terms, 0)
<1>1. k.kind = "linear" /\ k.expr = e
  BY DEF linear
<1>2. constraintKindToProto(k) = linear(d, shiftDomain(k.domain, e.constant))
  BY <1>1 DEF constraintKindToProto
<1>3. FitsInt64(d, domains)
  <2>1. d \in ExprsOf(constraintKindToProto(k))
    BY <1>2, LinearVars
  <2> QED BY <2>1 DEF Taken
<1>4. VarsOf(e) \subseteq 0..Len(domains) - 1
  BY LinearVars DEF Taken
<1>5. d \in ExprType /\ d.terms = e.terms
  <2>1. 0 \in Int64 /\ e.terms \in Seq(Nat \X Int64)
    BY HalfFacts DEF Int64, ExprType
  <2> QED BY <2>1, ExprOfType DEF Expr
<1>6. Uses(e.terms, domains)
  BY <1>4, UsesVars
<1> HIDE DEF d
<1>7. Negatable(d.terms) /\ SumOf(d.terms, a) \in -Half..Half
  <2>1. Uses(d.terms, domains)
    BY <1>5, <1>6
  <2> QED BY <1>3, <1>5, <2>1, FitsBoundsSum
<1> QED BY <1>5, <1>6, <1>7

LEMMA LinearMeans ==
  ASSUME NEW domains \in VariableDomains, NEW a, Respects(a, domains),
         NEW st \in Statements, st.says \in LinearSays, ConstantFits(st),
         Taken(KindOf(st), domains)
  PROVE  ConstraintIsFeasible(constraintKindToProto(KindOf(st)), a)
           <=> Means(st.says, st.args, a)
<1> DEFINE x == st.args[1]
           y == st.args[2]
<1>1. CASE st.says = "in"
  <2>1. x \in ExprType /\ y \in DomainType
    BY <1>1 DEF Statements
  <2>2. KindOf(st) = linear(x, y) /\ ConstantOf(st) = x.constant
    BY <1>1 DEF KindOf, ConstantOf
  <2>3. KindOf(st).expr = x
    BY <2>2 DEF linear
  <2>4. SumOf(x.terms, a) \in -Half..Half
    <3> HIDE DEF x, y
    <3> QED BY <2>1, <2>2, LinearTaken
  <2>5. ConstraintIsFeasible(constraintKindToProto(KindOf(st)), a)
          <=> Relates(st, SumOf(x.terms, a) + x.constant)
    BY <2>2, <2>3, <2>4, StatementFeasible
  <2>6. Relates(st, SumOf(x.terms, a) + x.constant)
          <=> Within(y, SumOf(x.terms, a) + x.constant)
    BY <1>1 DEF Relates
  <2>7. Means(st.says, st.args, a) <=> Within(y, SumOf(x.terms, a) + x.constant)
    BY <1>1 DEF Means, ValueOf
  <2> QED BY <2>5, <2>6, <2>7
<1>2. CASE st.says \in {"=", "<=", ">=", "#"}
  <2>1. x \in ExprType /\ y \in ExprType
    BY <1>2 DEF Statements
  <2>2. PICK domain : KindOf(st) = linear(Minus(x, y), domain)
    <3>1. \/ KindOf(st) = linear(Minus(x, y), single(0))
          \/ KindOf(st) = linear(Minus(x, y), ofInterval(MinInt, 0))
          \/ KindOf(st) = linear(Minus(x, y), ofInterval(0, MaxInt))
          \/ KindOf(st) = linear(Minus(x, y), excluding(0))
      BY <1>2 DEF KindOf
    <3> QED BY <3>1
  <2>3. KindOf(st).expr = Minus(x, y) /\ ConstantOf(st) = x.constant - y.constant
    BY <1>2, <2>2 DEF linear, ConstantOf
  <2> HIDE DEF x, y
  <2>4. /\ Negatable(Minus(x, y).terms)
        /\ SumOf(Minus(x, y).terms, a) \in -Half..Half
    BY <2>1, <2>2, MinusType, LinearTaken
  <2>5. Uses(x.terms, domains) /\ Uses(y.terms, domains)
    <3>1. VarsOf(Minus(x, y)) \subseteq 0..Len(domains) - 1
      BY <2>2, LinearVars DEF Taken
    <3> QED BY <2>1, <3>1, MinusVars, UsesVars
  <2>6. Minus(x, y).terms = x.terms \o Negate(y).terms
    BY <2>1, MinusTerms
  <2>7. /\ SumOf(Minus(x, y).terms, a) = SumOf(x.terms, a) - SumOf(y.terms, a)
        /\ SumOf(x.terms, a) \in Int /\ SumOf(y.terms, a) \in Int
    <3>1. Negatable(y.terms)
      BY <2>1, <2>4, <2>6, MinusNegatable
    <3>2. Assigns(a, x.terms) /\ Assigns(a, y.terms)
      BY <2>5, RespectsAssigns
    <3>3. x.terms \in TermsType /\ y.terms \in TermsType
      BY <2>1, ExprFacts
    <3>4. SumOf(x.terms, a) \in Int /\ SumOf(y.terms, a) \in Int
      BY <3>2, <3>3, SumOfTerms
    <3> QED BY <2>1, <2>6, <3>1, <3>2, <3>4, DifferenceOfSums
  <2> DEFINE p == ValueOf(x, a)
             q == ValueOf(y, a)
  <2>8. p \in Int /\ q \in Int /\ SumOf(Minus(x, y).terms, a) + ConstantOf(st) = p - q
    <3>1. x.constant \in Int /\ y.constant \in Int
      BY <2>1, ExprFacts
    <3>2. p = SumOf(x.terms, a) + x.constant /\ q = SumOf(y.terms, a) + y.constant
      BY DEF ValueOf
    <3> HIDE DEF p, q
    <3> QED BY <2>3, <2>7, <3>1, <3>2
  <2>9. ConstraintIsFeasible(constraintKindToProto(KindOf(st)), a) <=> Relates(st, p - q)
    <3>1. ConstraintIsFeasible(constraintKindToProto(KindOf(st)), a)
            <=> Relates(st, SumOf(Minus(x, y).terms, a) + ConstantOf(st))
      BY <2>3, <2>4, StatementFeasible
    <3> QED BY <2>8, <3>1, Zenon
  <2>10. Means(st.says, st.args, a)
           <=> \/ st.says = "=" /\ p = q
               \/ st.says = "<=" /\ p <= q
               \/ st.says = ">=" /\ p >= q
               \/ st.says = "#" /\ p # q
    BY <1>2 DEF Means, x, y
  <2>11. Relates(st, p - q)
           <=> \/ st.says = "=" /\ p - q = 0
               \/ st.says = "<=" /\ p - q <= 0
               \/ st.says = ">=" /\ p - q >= 0
               \/ st.says = "#" /\ p - q # 0
    BY <1>2 DEF Relates
  <2> HIDE DEF p, q
  <2>12. /\ p - q = 0 <=> p = q
         /\ p - q <= 0 <=> p <= q
         /\ p - q >= 0 <=> p >= q
    BY <2>8
  <2> QED BY <2>9, <2>10, <2>11, <2>12
<1> QED BY <1>1, <1>2 DEF LinearSays

LargestOf(exprs, a) == Max({ValueOf(e, a) : e \in Range(exprs)})

(* linMax, whatever its expressions. *)
LEMMA MaxFeasible ==
  ASSUME NEW target, NEW exprs, NEW a
  PROVE  LET k == argument("linMax", target, exprs)
         IN /\ constraintKindToProto(k) = k
            /\ ConstraintIsFeasible(k, a)
                 <=> ValueOf(target, a) = LargestOf(exprs, a)
<1> DEFINE k == argument("linMax", target, exprs)
<1>1. k.kind = "linMax" /\ k.target = target /\ k.exprs = exprs
  BY DEF argument
<1> HIDE DEF k
<1>2. constraintKindToProto(k) = k
  BY <1>1 DEF constraintKindToProto
<1>3. ConstraintIsFeasible(k, a)
        <=> ValueOf(target, a) = Max({ValueOf(e, a) : e \in Range(exprs)})
  BY <1>1 DEF ConstraintIsFeasible
<1>4. ConstraintIsFeasible(k, a) <=> ValueOf(target, a) = LargestOf(exprs, a)
  BY <1>3, Zenon DEF LargestOf
<1> QED BY <1>2, <1>4 DEF k

LEMMA MaxTaken ==
  ASSUME NEW domains, NEW target, NEW exprs, Taken(argument("linMax", target, exprs), domains),
         NEW e \in {target} \cup Range(exprs)
  PROVE  FitsInt64(e, domains) /\ VarsOf(e) \subseteq 0..Len(domains) - 1
<1> DEFINE k == argument("linMax", target, exprs)
<1>1. /\ constraintKindToProto(k) = k
      /\ ExprsOf(k) = {target} \cup Range(exprs)
      /\ VarsIn(k) = UNION {VarsOf(d) : d \in {target} \cup Range(exprs)}
  BY MaxFeasible, ArgumentExprs
<1>2. Taken(k, domains)
  OBVIOUS
<1> HIDE DEF k
<1>3. FitsInt64(e, domains)
  BY <1>1, <1>2 DEF Taken
<1>4. VarsIn(k) \subseteq 0..Len(domains) - 1
  BY <1>2 DEF Taken
<1>5. VarsOf(e) \subseteq VarsIn(k)
  BY <1>1
<1> QED BY <1>3, <1>4, <1>5

LEMMA MinMeans ==
  ASSUME NEW domains \in VariableDomains, NEW a, Respects(a, domains),
         NEW target \in ExprType, NEW exprs \in Seq(ExprType), exprs # << >>,
         NEW negated, negated = [i \in DOMAIN exprs |-> Negate(exprs[i])],
         Taken(argument("linMax", Negate(target), negated), domains)
  PROVE  ValueOf(Negate(target), a) = LargestOf(negated, a)
           <=> ValueOf(target, a) = Min({ValueOf(e, a) : e \in Range(exprs)})
<1> DEFINE n == Len(exprs)
           f == [i \in 1..n |-> ValueOf(exprs[i], a)]
           g == [i \in 1..n |-> ValueOf(negated[i], a)]
           k == argument("linMax", Negate(target), negated)
<1>1. /\ n \in Nat /\ n > 0 /\ DOMAIN exprs = 1..n /\ DOMAIN negated = 1..n
      /\ \A i \in 1..n : exprs[i] \in ExprType /\ negated[i] = Negate(exprs[i])
  OBVIOUS
<1>2. \A e \in {Negate(target)} \cup Range(negated) :
        FitsInt64(e, domains) /\ VarsOf(e) \subseteq 0..Len(domains) - 1
  BY MaxTaken
<1>3. ASSUME NEW e \in ExprType, Negate(e) \in {Negate(target)} \cup Range(negated)
      PROVE  ValueOf(e, a) \in Int /\ ValueOf(Negate(e), a) = -ValueOf(e, a)
  <2>1. FitsInt64(Negate(e), domains) /\ Uses(e.terms, domains)
    BY <1>2, <1>3, NegateVars, UsesVars
  <2> QED BY <2>1, OppositeValue
<1>4. ValueOf(target, a) \in Int /\ ValueOf(Negate(target), a) = -ValueOf(target, a)
  BY <1>3
<1>5. ASSUME NEW i \in 1..n PROVE f[i] \in Int /\ g[i] = -f[i]
  <2>1. exprs[i] \in ExprType /\ negated[i] = Negate(exprs[i]) /\ negated[i] \in Range(negated)
    BY <1>1 DEF Range
  <2>2. ValueOf(exprs[i], a) \in Int /\ ValueOf(negated[i], a) = -ValueOf(exprs[i], a)
    BY <1>3, <2>1
  <2>3. f[i] = ValueOf(exprs[i], a) /\ g[i] = ValueOf(negated[i], a)
    OBVIOUS
  <2> HIDE DEF f, g
  <2> QED BY <2>2, <2>3
<1>6. /\ {ValueOf(e, a) : e \in Range(exprs)} = {f[i] : i \in 1..n}
      /\ {ValueOf(e, a) : e \in Range(negated)} = {g[i] : i \in 1..n}
  <2>1. Range(exprs) = {exprs[i] : i \in 1..n} /\ Range(negated) = {negated[i] : i \in 1..n}
    BY <1>1 DEF Range
  <2> QED BY <2>1
<1> HIDE DEF f, g, n
<1>7. /\ Max({g[i] : i \in 1..n}) = -Min({f[i] : i \in 1..n})
      /\ Min({f[i] : i \in 1..n}) \in Int
  BY <1>1, <1>5, MinByMax
<1> DEFINE p == ValueOf(target, a)
           q == ValueOf(Negate(target), a)
           least == Min({f[i] : i \in 1..n})
           greatest == Max({g[i] : i \in 1..n})
<1>8. q = greatest <=> p = least
  <2>1. p \in Int /\ q = -p /\ greatest = -least /\ least \in Int
    BY <1>4, <1>7
  <2> HIDE DEF p, q, least, greatest
  <2> QED BY <2>1
<1> QED BY <1>6, <1>8, Zenon DEF LargestOf

LEMMA AbsMeans ==
  ASSUME NEW domains \in VariableDomains, NEW a, Respects(a, domains),
         NEW target \in ExprType, NEW e \in ExprType,
         Taken(argument("linMax", target, <<e, Negate(e)>>), domains)
  PROVE  LargestOf(<<e, Negate(e)>>, a) = Abs(ValueOf(e, a))
<1> DEFINE exprs == <<e, Negate(e)>>
<1>1. Range(exprs) = {e, Negate(e)}
  <2>1. DOMAIN exprs = {1, 2} /\ exprs[1] = e /\ exprs[2] = Negate(e)
    OBVIOUS
  <2> HIDE DEF exprs
  <2> QED BY <2>1 DEF Range
<1> HIDE DEF exprs
<1>2. \A d \in {e, Negate(e)} : FitsInt64(d, domains) /\ VarsOf(d) \subseteq 0..Len(domains) - 1
  <2>1. Taken(argument("linMax", target, exprs), domains)
    BY DEF exprs
  <2> QED BY <1>1, <2>1, MaxTaken
<1>3. ValueOf(e, a) \in Int /\ ValueOf(Negate(e), a) = -ValueOf(e, a)
  BY <1>2, UsesVars, OppositeValue
<1>4. {ValueOf(d, a) : d \in {e, Negate(e)}} = {ValueOf(e, a), -ValueOf(e, a)}
  BY <1>3
<1>5. LargestOf(exprs, a) = Abs(ValueOf(e, a))
  BY <1>1, <1>3, <1>4, AbsByMax DEF LargestOf
<1> QED BY <1>5 DEF exprs


LEMMA ImplicationMeans ==
  ASSUME NEW b \in Int, NEW c, NEW a
  PROVE  ConstraintIsFeasible(constraintKindToProto(bool("boolOr", <<not(b), c>>)), a)
           <=> (LiteralIsTrue(b, a) => LiteralIsTrue(c, a))
<1> DEFINE k == bool("boolOr", <<not(b), c>>)
<1>1. k.kind = "boolOr" /\ k.lits = <<not(b), c>>
  BY DEF bool
<1> HIDE DEF k
<1>2. constraintKindToProto(k) = k
  BY <1>1 DEF constraintKindToProto
<1>3. ConstraintIsFeasible(k, a) <=> NumTrue(<<not(b), c>>, a) > 0
  BY <1>1 DEF ConstraintIsFeasible
<1>4. ConstraintIsFeasible(k, a) <=> (LiteralIsTrue(b, a) => LiteralIsTrue(c, a))
  BY <1>3, EitherIsTrue, NotIsOpposite
<1> QED BY <1>2, <1>4 DEF k

(* Every statement, with the constraint it becomes. *)
LEMMA StatementMeans ==
  ASSUME NEW domains \in VariableDomains, NEW a, Respects(a, domains),
         NEW st \in Statements, ConstantFits(st), Taken(KindOf(st), domains)
  PROVE  ConstraintIsFeasible(constraintKindToProto(KindOf(st)), a)
           <=> Means(st.says, st.args, a)
<1> DEFINE x == st.args[1]
           y == st.args[2]
           feasible == ConstraintIsFeasible(constraintKindToProto(KindOf(st)), a)
<1>1. CASE st.says \in LinearSays
  BY <1>1, LinearMeans
<1>2. CASE st.says = "max"
  <2>1. KindOf(st) = argument("linMax", x, y)
    BY <1>2 DEF KindOf
  <2>2. feasible <=> ValueOf(x, a) = LargestOf(y, a)
    BY <2>1, MaxFeasible
  <2>3. Means(st.says, st.args, a)
          <=> ValueOf(x, a) = LargestOf(y, a)
    BY <1>2 DEF Means, LargestOf
  <2> QED BY <2>2, <2>3
<1>3. CASE st.says = "min"
  <2> DEFINE negated == [i \in DOMAIN y |-> Negate(y[i])]
  <2>1. x \in ExprType /\ y \in Seq(ExprType) /\ y # << >>
    BY <1>3 DEF Statements
  <2>2. KindOf(st) = argument("linMax", Negate(x), negated)
    BY <1>3 DEF KindOf
  <2>3. Means(st.says, st.args, a)
          <=> ValueOf(x, a) = Min({ValueOf(e, a) : e \in Range(y)})
    BY <1>3 DEF Means
  <2> HIDE DEF x, y
  <2>4. negated = [i \in DOMAIN y |-> Negate(y[i])]
    OBVIOUS
  <2> HIDE DEF negated
  <2>5. feasible <=> ValueOf(Negate(x), a) = LargestOf(negated, a)
    BY <2>2, MaxFeasible
  <2>6. Taken(argument("linMax", Negate(x), negated), domains)
    BY <2>2
  <2>7. ValueOf(Negate(x), a) = LargestOf(negated, a)
          <=> ValueOf(x, a) = Min({ValueOf(e, a) : e \in Range(y)})
    BY <2>1, <2>4, <2>6, MinMeans
  <2> QED BY <2>3, <2>5, <2>7
<1>4. CASE st.says = "abs"
  <2>1. x \in ExprType /\ y \in ExprType
    BY <1>4 DEF Statements
  <2>2. KindOf(st) = argument("linMax", x, <<y, Negate(y)>>)
    BY <1>4 DEF KindOf
  <2>3. Means(st.says, st.args, a) <=> ValueOf(x, a) = Abs(ValueOf(y, a))
    BY <1>4 DEF Means
  <2> HIDE DEF x, y
  <2>4. feasible <=> ValueOf(x, a) = LargestOf(<<y, Negate(y)>>, a)
    BY <2>2, MaxFeasible
  <2>5. LargestOf(<<y, Negate(y)>>, a) = Abs(ValueOf(y, a))
    BY <2>1, <2>2, AbsMeans
  <2> QED BY <2>3, <2>4, <2>5
<1>5. CASE st.says = "implies"
  <2>1. x \in Int
    BY <1>5 DEF Statements
  <2>2. KindOf(st) = bool("boolOr", <<not(x), y>>)
    BY <1>5 DEF KindOf
  <2>3. Means(st.says, st.args, a) <=> (LiteralIsTrue(x, a) => LiteralIsTrue(y, a))
    BY <1>5 DEF Means
  <2> HIDE DEF x, y
  <2> QED BY <2>1, <2>2, <2>3, ImplicationMeans
<1>6. CASE st.says = "given"
  <2>1. x \in GivenKinds
    BY <1>6 DEF Statements
  <2>2. KindOf(st) = x
    BY <1>6 DEF KindOf
  <2>3. constraintKindToProto(x) = x
    <3>1. x \in GivenType
      BY <2>1, BuilderAssumption
    <3>2. x.kind # "linear"
      BY <3>1 DEF GivenType
    <3> QED BY <3>2 DEF constraintKindToProto
  <2>4. Means(st.says, st.args, a) <=> ConstraintIsFeasible(x, a)
    BY <1>6 DEF Means
  <2> HIDE DEF x
  <2> QED BY <2>2, <2>3, <2>4
<1>7. st.says \in LinearSays \cup {"max", "min", "abs", "implies", "given"}
  BY DEF Statements, LinearSays
<1> QED BY <1>1, <1>2, <1>3, <1>4, <1>5, <1>6, <1>7

(* An accepted model takes the expressions of its constraints. *)
LEMMA AcceptedTaken ==
  ASSUME IInv, ValidateCpModel, NEW i \in DOMAIN constraints
  PROVE  Taken(KindOf(stated[i]), varDomains)
<1>1. ValidateConstraint(protoKind(i), enforcement(i), varDomains)
  BY DEF ValidateCpModel, ValidateWithoutHint
<1>2. constraints[i].kind = KindOf(stated[i]) /\ Known(VarsIn(constraints[i].kind))
  BY DEF IInv, BuiltInv, BuiltAsStated
<1>3. \A e \in ExprsOf(protoKind(i)) : FitsInt64(e, varDomains)
  BY <1>1 DEF ValidateConstraint
<1> QED BY <1>2, <1>3 DEF Taken, Known, protoKind

(* The constraint and the statement, each under its literals. *)
LEMMA EncodedIsStated ==
  ASSUME IInv, ValidateCpModel, NEW i \in DOMAIN constraints, ConstantFits(stated[i]),
         NEW a \in Assignments
  PROVE  Encoded(i, a) <=> Stated(i, a)
<1>1. varDomains \in VariableDomains /\ Respects(a, varDomains)
  BY AcceptedDomains, AssignmentRespects DEF ValidateCpModel, ValidateWithoutHint
<1>2. stated[i] \in Statements /\ Taken(KindOf(stated[i]), varDomains)
  BY KindOfConstraint, AcceptedTaken
<1>3. constraints[i].kind = KindOf(stated[i]) /\ enforcement(i) = stated[i].when
  BY DEF IInv, BuiltInv, BuiltAsStated
<1>4. ConstraintIsFeasible(constraintKindToProto(KindOf(stated[i])), a)
        <=> Means(stated[i].says, stated[i].args, a)
  BY <1>1, <1>2, StatementMeans
<1>5. ConstraintIsFeasible(protoKind(i), a) <=> Means(stated[i].says, stated[i].args, a)
  BY <1>3, <1>4 DEF protoKind
<1> QED BY <1>3, <1>5, Zenon DEF Encoded, Stated

(* The whole of modelStateToProto's constraints, at every width of Int64 and   *)
(* for every number of terms: what an accepted model admits is exactly what    *)
(* the caller said.                                                            *)
THEOREM StatementsAreEncoded == Spec => []StatedIsEncoded
<1>1. IInv => StatedIsEncoded
  BY EncodedIsStated DEF StatedIsEncoded
<1> QED BY <1>1, Invariance, PTL


-----------------------------------------------------------------------------
(* CP-SAT's answer, read back. *)

(* Whatever literals have to hold, CP-SAT searches what the caller meant. *)
LEMMA SolutionsMeant ==
  ASSUME IInv, ValidateCpModel, \A i \in DOMAIN stated : ConstantFits(stated[i]), NEW lits
  PROVE  SolutionsWith(lits) = Meant(lits)
<1>1. DOMAIN stated = DOMAIN constraints
  <2>1. stated \in Seq(Statements) /\ Len(stated) = Len(constraints)
        /\ constraints \in Seq([kind : Kinds, enforcement : Seq(Int)])
    BY DEF IInv, BuiltInv, TypeOK, Kinds
  <2> DEFINE Constraint == [kind : Kinds, enforcement : Seq(Int)]
  <2> HIDE DEF Constraint
  <2>2. constraints \in Seq(Constraint)
    BY <2>1 DEF Constraint
  <2> QED BY <2>1, <2>2
<1>2. ASSUME NEW a \in Assignments
      PROVE  (\A i \in DOMAIN constraints : Encoded(i, a))
               <=> (\A i \in DOMAIN constraints : Stated(i, a))
  BY <1>1, EncodedIsStated
<1> QED BY <1>2 DEF SolutionsWith, Meant

(* The value of a solution, before doubles round it. *)
ObjectiveValue(a) == protoObjective.scaling_factor * (Score(a) + protoObjective.offset)

(* What is sent of the caller's objective: terms CP-SAT can negate, and the    *)
(* double nearest to the constant.                                             *)
LEMMA ObjectiveTerms ==
  ASSUME IInv, ValidateCpModel, objective # None
  PROVE  LET e == objective[1]
         IN /\ e \in ExprType /\ objective[2] \in BOOLEAN
            /\ Uses(e.terms, varDomains) /\ Negatable(e.terms)
            /\ Double(e.constant) \in Int
            /\ Abs(Double(e.constant) - e.constant) <= Abs(e.constant) \div Precision
            /\ objective[2] =>
                 /\ protoObjective.terms = Negate(e).terms
                 /\ protoObjective.offset = -Double(e.constant)
                 /\ protoObjective.scaling_factor = -1
            /\ ~objective[2] =>
                 /\ protoObjective.terms = e.terms
                 /\ protoObjective.offset = Double(e.constant)
                 /\ protoObjective.scaling_factor = 1
<1> DEFINE e == objective[1]
           d == Negate(e)
           terms == protoObjective.terms
<1>1. e \in ExprType /\ objective[2] \in BOOLEAN
  <2>1. objective \in ExprType \X BOOLEAN
    BY DEF IInv, BuiltInv, TypeOK
  <2> QED BY <2>1
<1>2. varDomains \in VariableDomains
  BY AcceptedDomains DEF ValidateCpModel, ValidateWithoutHint
<1>3. /\ VarsOf(Expr(terms, 0)) \subseteq 0..Len(varDomains) - 1
      /\ FitsInt64(Expr(terms, 0), varDomains)
  BY DEF ValidateCpModel, ValidateWithoutHint
<1>4. protoObjective = objectiveToProto(e, objective[2])
  BY Zenon DEF protoObjective
<1>5. e.terms \in TermsType /\ e.constant \in Int64 /\ d \in ExprType /\ d.terms \in TermsType
  BY <1>1, ExprFacts, NegateType
<1>6. /\ Double(e.constant) \in Int
      /\ Abs(Double(e.constant) - e.constant) <= Abs(e.constant) \div Precision
  BY <1>5, BuilderAssumption, Zenon
<1>7. ASSUME NEW t \in TermsType
      PROVE  Expr(t, 0).terms = t /\ Expr(t, 0) \in ExprType
  <2>1. 0 \in Int64 /\ t \in Seq(Nat \X Int64)
    BY HalfFacts DEF Int64, TermsType
  <2> QED BY <2>1, ExprOfType DEF Expr
<1>8. CASE objective[2] = TRUE
  <2>1. /\ terms = d.terms
        /\ protoObjective.offset = -Double(e.constant) /\ protoObjective.scaling_factor = -1
    BY <1>4, <1>8 DEF objectiveToProto
  <2>2. Uses(e.terms, varDomains) /\ Uses(d.terms, varDomains)
    <3>1. VarsOf(d) \subseteq 0..Len(varDomains) - 1
      BY <1>3, <2>1 DEF VarsOf, Expr
    <3> HIDE DEF e
    <3> QED BY <1>1, <3>1, NegateVars, UsesVars
  <2> HIDE DEF e
  <2>3. Negatable(e.terms)
    <3>1. Uses(Expr(d.terms, 0).terms, varDomains) /\ FitsInt64(Expr(d.terms, 0), varDomains)
      BY <1>3, <1>5, <1>7, <2>1, <2>2
    <3>2. Negatable(Expr(d.terms, 0).terms)
      BY <1>2, <1>5, <1>7, <3>1, FitsSums
    <3>3. Negatable(d.terms)
      BY <1>5, <1>7, <3>2
    <3> QED BY <1>1, <3>3, OppositeNegatable
  <2> QED BY <1>1, <1>6, <1>8, <2>1, <2>2, <2>3, Zenon DEF e
<1>9. CASE objective[2] = FALSE
  <2>1. /\ terms = e.terms
        /\ protoObjective.offset = Double(e.constant) /\ protoObjective.scaling_factor = 1
    BY <1>4, <1>9 DEF objectiveToProto
  <2>2. Uses(e.terms, varDomains)
    <3>1. VarsOf(e) \subseteq 0..Len(varDomains) - 1
      BY <1>3, <2>1 DEF VarsOf, Expr
    <3> HIDE DEF e
    <3> QED BY <3>1, UsesVars
  <2> HIDE DEF e
  <2>3. Negatable(e.terms)
    <3>1. Uses(Expr(e.terms, 0).terms, varDomains) /\ FitsInt64(Expr(e.terms, 0), varDomains)
      BY <1>3, <1>5, <1>7, <2>1, <2>2
    <3>2. Negatable(Expr(e.terms, 0).terms)
      BY <1>2, <1>5, <1>7, <3>1, FitsSums
    <3> QED BY <1>5, <1>7, <3>2
  <2> QED BY <1>1, <1>6, <1>9, <2>1, <2>2, <2>3, Zenon DEF e
<1> QED BY <1>1, <1>8, <1>9, Zenon

(* The score is the caller's sum, negated when it is maximised, and its        *)
(* constant and sign are put back into the objective value.                    *)
LEMMA ObjectiveScore ==
  ASSUME IInv, ValidateCpModel, objective # None, NEW a \in Assignments
  PROVE  LET e == objective[1]
         IN /\ SumOf(e.terms, a) \in Int
            /\ objective[2] => Score(a) = -SumOf(e.terms, a)
            /\ ~objective[2] => Score(a) = SumOf(e.terms, a)
            /\ ObjectiveValue(a) = SumOf(e.terms, a) + Double(e.constant)
<1> DEFINE e == objective[1]
           s == SumOf(e.terms, a)
           c == Double(e.constant)
<1>1. /\ e \in ExprType /\ e.terms \in TermsType /\ c \in Int /\ objective[2] \in BOOLEAN
      /\ Uses(e.terms, varDomains) /\ Negatable(e.terms)
  BY ObjectiveTerms, ExprFacts
<1>2. varDomains \in VariableDomains /\ Respects(a, varDomains)
  BY AcceptedDomains, AssignmentRespects DEF ValidateCpModel, ValidateWithoutHint
<1>3. Assigns(a, e.terms) /\ s \in Int
  BY <1>1, <1>2, RespectsAssigns, SumOfTerms
<1>4. SumOf(Negate(e).terms, a) = -s
  BY <1>1, <1>3, NegatedSum
<1>5. CASE objective[2]
  <2>1. Score(a) = -s
    BY <1>4, <1>5, ObjectiveTerms DEF Score
  <2>2. ObjectiveValue(a) = (-1) * (-s + -c)
    BY <1>5, <2>1, ObjectiveTerms DEF ObjectiveValue
  <2> HIDE DEF s, c
  <2>3. ObjectiveValue(a) = s + c
    BY <1>1, <1>3, <2>2
  <2> QED BY <1>3, <1>5, <2>1, <2>3 DEF s, c
<1>6. CASE ~objective[2]
  <2>1. Score(a) = s
    BY <1>6, ObjectiveTerms DEF Score
  <2>2. ObjectiveValue(a) = 1 * (s + c)
    BY <1>6, <2>1, ObjectiveTerms DEF ObjectiveValue
  <2> HIDE DEF s, c
  <2>3. ObjectiveValue(a) = s + c
    BY <1>1, <1>3, <2>2
  <2> QED BY <1>3, <1>6, <2>1, <2>3 DEF s, c
<1> QED BY <1>5, <1>6

-----------------------------------------------------------------------------
(* Where doubles are exact. *)

LEMMA QuotientFacts ==
  ASSUME NEW x \in Nat, NEW n \in Nat \ {0}
  PROVE  x \div n \in Nat /\ (x < n => x \div n = 0)
<1>1. n \in Int /\ n > 0 /\ x \in Int
  OBVIOUS
<1>2. PICK q \in Int : q = x \div n
  BY <1>1
<1>3. x = n * q + (x % n) /\ x % n \in Int /\ 0 <= x % n /\ x % n < n
  BY <1>1, <1>2, Division, Zenon
<1> DEFINE r == x % n
<1>4. x = n * q + r /\ r \in Int /\ 0 <= r /\ r < n
  BY <1>3
<1> HIDE DEF r
<1>5. q >= 0
  <2>1. SUFFICES ASSUME q <= -1 PROVE FALSE
    BY <1>2
  <2>2. n * (q + 1) <= 0
    BY <1>1, <2>1
  <2>3. n * (q + 1) = n * q + n
    BY <1>1
  <2> QED BY <1>1, <1>4, <2>2, <2>3
<1>6. ASSUME x < n PROVE q = 0
  <2>1. SUFFICES ASSUME q >= 1 PROVE FALSE
    BY <1>2, <1>5
  <2>2. n * (q - 1) >= 0
    BY <1>1, <2>1
  <2>3. n * (q - 1) = n * q - n
    BY <1>1
  <2> QED BY <1>1, <1>4, <1>6, <2>2, <2>3
<1> QED BY <1>2, <1>5, <1>6

Widths(terms) ==
  [i \in DOMAIN terms |-> LET bounds == TermBounds(terms[i], varDomains)
                          IN bounds[2] - bounds[1]]

(* The width of a term, by its bounds, is not negative. *)
LEMMA WidthFacts ==
  ASSUME varDomains \in VariableDomains, NEW terms \in TermsType, Uses(terms, varDomains)
  PROVE  /\ Spread(terms) = SumFunctionOnSet(Widths(terms), 1..Len(terms))
         /\ \A i \in 1..Len(terms) :
              /\ Widths(terms)[i] = TermBounds(<<terms[i][1], terms[i][2]>>, varDomains)[2]
                                      - TermBounds(<<terms[i][1], terms[i][2]>>, varDomains)[1]
              /\ Widths(terms)[i] \in Int /\ Widths(terms)[i] >= 0
<1>1. DOMAIN Widths(terms) = 1..Len(terms) /\ DOMAIN terms = 1..Len(terms)
  BY TermFacts DEF Widths
<1>2. Spread(terms) = SumFunctionOnSet(Widths(terms), 1..Len(terms))
  <2>1. Spread(terms) = SumFunction(Widths(terms))
    BY DEF Spread, Widths
  <2> QED BY <1>1, <2>1 DEF SumFunction
<1>3. ASSUME NEW i \in 1..Len(terms)
      PROVE  /\ Widths(terms)[i] = TermBounds(<<terms[i][1], terms[i][2]>>, varDomains)[2]
                                     - TermBounds(<<terms[i][1], terms[i][2]>>, varDomains)[1]
             /\ Widths(terms)[i] \in Int /\ Widths(terms)[i] >= 0
  <2> DEFINE low == TermBounds(<<terms[i][1], terms[i][2]>>, varDomains)[1]
             high == TermBounds(<<terms[i][1], terms[i][2]>>, varDomains)[2]
  <2>1. terms[i] = <<terms[i][1], terms[i][2]>>
    BY <1>1, TermFacts
  <2>2. Widths(terms)[i] = TermBounds(terms[i], varDomains)[2] - TermBounds(terms[i], varDomains)[1]
    BY <1>1 DEF Widths
  <2>3. Widths(terms)[i] = high - low
    BY <2>1, <2>2, Zenon
  <2>4. low \in Int /\ high \in Int /\ low <= 0 /\ high >= 0
    BY BelowAbove
  <2> HIDE DEF low, high
  <2>5. Widths(terms)[i] \in Int /\ Widths(terms)[i] >= 0
    BY <2>3, <2>4
  <2> QED BY <2>3, <2>5 DEF low, high
<1> QED BY <1>2, <1>3

LEMMA SpreadInNat ==
  ASSUME varDomains \in VariableDomains, NEW terms \in TermsType, Uses(terms, varDomains)
  PROVE  Spread(terms) \in Nat
<1> DEFINE n == Len(terms)
           w == Widths(terms)
           z == [i \in 1..n |-> 0]
<1>1. n \in Nat /\ \A i \in 1..n : w[i] \in Int /\ w[i] >= 0
  BY TermFacts, WidthFacts
<1>2. \A i \in 1..n : z[i] = 0
  OBVIOUS
<1>3. Spread(terms) = SumFunctionOnSet(w, 1..n)
  BY WidthFacts
<1> HIDE DEF n, w, z
<1>4. SumFunctionOnSet(z, 1..n) \in Int /\ SumFunctionOnSet(z, 1..n) = -SumFunctionOnSet(z, 1..n)
  BY <1>1, <1>2, SumToInt, SumOpposite
<1>5. SumFunctionOnSet(z, 1..n) <= SumFunctionOnSet(w, 1..n) /\ SumFunctionOnSet(w, 1..n) \in Int
  BY <1>1, <1>2, SumToInt, SumMonotone
<1> QED BY <1>3, <1>4, <1>5

LEMMA SpreadOpposite ==
  ASSUME varDomains \in VariableDomains, NEW e \in ExprType,
         Uses(e.terms, varDomains), Negatable(e.terms)
  PROVE  Spread(Negate(e).terms) = Spread(e.terms)
<1> DEFINE t == Negate(e).terms
           n == Len(e.terms)
           f == Widths(e.terms)
           g == Widths(t)
<1>1. /\ t \in TermsType /\ DOMAIN t = 1..n /\ Len(t) = n
      /\ n \in Nat /\ DOMAIN e.terms = 1..n /\ e.terms \in TermsType
  BY NegateTerms, TermFacts, ExprFacts
<1>2. ASSUME NEW i \in 1..n
      PROVE  /\ t[i][1] = e.terms[i][1] /\ t[i][2] = -e.terms[i][2] /\ e.terms[i][2] \in Int
             /\ e.terms[i][1] \in 0..Len(varDomains) - 1
  <2>1. e.terms[i][2] \in Int64 /\ e.terms[i][2] # MinInt /\ e.terms[i][2] \in Int
    BY <1>1, TermFacts DEF Negatable
  <2>2. e.terms[i][1] \in 0..Len(varDomains) - 1
    BY <1>1 DEF Uses
  <2> QED BY <1>1, <2>1, <2>2, NegateTerms, WrapOpposite
<1>3. Uses(t, varDomains)
  BY <1>1, <1>2 DEF Uses
<1>4. ASSUME NEW i \in 1..n PROVE f[i] \in Int /\ g[i] = f[i]
  <2> DEFINE low == TermBounds(<<e.terms[i][1], e.terms[i][2]>>, varDomains)[1]
             high == TermBounds(<<e.terms[i][1], e.terms[i][2]>>, varDomains)[2]
             lowN == TermBounds(<<e.terms[i][1], -e.terms[i][2]>>, varDomains)[1]
             highN == TermBounds(<<e.terms[i][1], -e.terms[i][2]>>, varDomains)[2]
  <2>1. lowN = -high /\ highN = -low
    BY <1>2, OppositeTerm
  <2>2. low \in Int /\ high \in Int
    BY <1>1, BelowAbove
  <2>3. f[i] = high - low
    BY <1>1, WidthFacts
  <2>4. g[i] = highN - lowN
    <3>1. g[i] = TermBounds(<<t[i][1], t[i][2]>>, varDomains)[2]
                   - TermBounds(<<t[i][1], t[i][2]>>, varDomains)[1]
      BY <1>1, <1>3, WidthFacts
    <3> HIDE DEF t, g
    <3> QED BY <1>2, <3>1, Zenon
  <2> HIDE DEF low, high, lowN, highN, f, g
  <2> QED BY <2>1, <2>2, <2>3, <2>4
<1>5. Spread(e.terms) = SumFunctionOnSet(f, 1..n) /\ Spread(t) = SumFunctionOnSet(g, 1..n)
  BY <1>1, <1>3, WidthFacts
<1> HIDE DEF f, g, t
<1>6. SumFunctionOnSet(f, 1..n) = SumFunctionOnSet(g, 1..n)
  BY <1>1, <1>4, SumSame
<1> QED BY <1>5, <1>6 DEF t

(* How far from the caller's objective doubles lead: by the rounding of what   *)
(* is sent and by that of the constant; nowhere when both are small.           *)
LEMMA RoundingFacts ==
  ASSUME IInv, ValidateCpModel, objective # None
  PROVE  LET c == objective[1].constant
         IN /\ Rounding \in Nat /\ Inexactness \in Nat
            /\ Rounding + Abs(Double(c) - c) <= Inexactness
<1> DEFINE e == objective[1]
           c == e.constant
           d == Double(c)
           offset == protoObjective.offset
           spread == Spread(protoObjective.terms)
<1>1. /\ e \in ExprType /\ Uses(e.terms, varDomains) /\ Negatable(e.terms)
      /\ d \in Int /\ Abs(d - c) <= Abs(c) \div Precision
  BY ObjectiveTerms
<1>2. varDomains \in VariableDomains /\ e.terms \in TermsType /\ c \in Int
  BY <1>1, AcceptedDomains, ExprFacts DEF ValidateCpModel, ValidateWithoutHint
<1>3. Precision \in Nat \ {0}
  BY BuilderAssumption
<1>4. (offset = -d \/ offset = d) /\ spread = Spread(e.terms)
  <2>1. objective[2] \in BOOLEAN
    BY ObjectiveTerms
  <2>2. CASE objective[2] = TRUE
    <3>1. offset = -d /\ protoObjective.terms = Negate(e).terms
      BY <2>2, ObjectiveTerms
    <3> QED BY <1>1, <1>2, <3>1, SpreadOpposite
  <2>3. CASE objective[2] = FALSE
    BY <2>3, ObjectiveTerms
  <2> QED BY <2>1, <2>2, <2>3
<1>5. spread \in Nat
  BY <1>1, <1>2, <1>4, SpreadInNat
<1>6. Rounding = (Abs(offset) + spread) \div Precision
  BY DEF Rounding
<1>7. Inexactness = IF Abs(c) + Spread(e.terms) < Precision THEN 0
                    ELSE Rounding + Abs(c) \div Precision
  BY Zenon DEF Inexactness
<1> HIDE DEF c, d, offset, spread
<1>8. /\ Abs(c) \in Nat /\ Abs(offset) = Abs(d) /\ Abs(d) \in Nat /\ Abs(d - c) \in Nat
      /\ (Abs(d - c) = 0 => Abs(d) = Abs(c))
  BY <1>1, <1>2, <1>4 DEF Abs
<1> DEFINE m == Abs(offset) + spread
           p == Abs(c) \div Precision
           q == m \div Precision
<1>9. m \in Nat /\ p \in Nat /\ q \in Nat
  <2>1. m \in Nat
    BY <1>5, <1>8
  <2> HIDE DEF m
  <2> QED BY <1>3, <1>8, <2>1, QuotientFacts
<1>10. CASE Abs(c) + spread < Precision
  <2>1. Abs(c) < Precision
    BY <1>3, <1>5, <1>8, <1>10
  <2>2. p = 0
    BY <1>3, <1>8, <2>1, QuotientFacts
  <2>3. Abs(d - c) = 0 /\ m = Abs(c) + spread
    <3> HIDE DEF p
    <3> QED BY <1>1, <1>8, <2>2 DEF p
  <2>4. q = 0
    <3>1. m < Precision
      BY <1>10, <2>3
    <3> HIDE DEF m
    <3> QED BY <1>3, <1>9, <3>1, QuotientFacts
  <2>5. Rounding = 0 /\ Inexactness = 0
    BY <1>4, <1>6, <1>7, <1>10, <2>4
  <2> QED BY <2>3, <2>5 DEF c, d
<1>11. CASE ~(Abs(c) + spread < Precision)
  <2>1. Rounding = q /\ Inexactness = Rounding + p /\ Abs(d - c) <= p
    BY <1>1, <1>4, <1>6, <1>7, <1>11
  <2> HIDE DEF m, p, q
  <2>2. Rounding \in Nat /\ Inexactness \in Nat /\ Rounding + Abs(d - c) <= Inexactness
    BY <1>8, <1>9, <2>1
  <2> QED BY <2>2 DEF c, d
<1> QED BY <1>10, <1>11

(* What an answer of each status says. *)
LEMMA AnswerCases ==
  ASSUME IInv, response # None
  PROVE  /\ response.status \in {"optimal", "feasible", "infeasible"} => ValidateCpModel
         /\ response.status \in {"optimal", "feasible"} =>
              /\ response.solution \in SolutionsWith(Range(assumptions))
              /\ response.objectiveValue \in ScaleObjectiveValue(response.solution)
         /\ response.status = "optimal" =>
              GapIsClosed(response.solution, SolutionsWith(Range(assumptions)))
         /\ response.status = "infeasible" =>
              response.core \subseteq Range(assumptions) /\ SolutionsWith(response.core) = {}
<1> DEFINE marked == Range(assumptions)
           sols == SolutionsWith(marked)
           best == {a \in sols : GapIsClosed(a, sols)}
           cores == {c \in SUBSET marked : SolutionsWith(c) = {}}
           With(status, as) ==
             UNION {{Response(status, a, v, {}) : v \in ScaleObjectiveValue(a)} : a \in as}
<1>1. response \in Answers
  BY DEF IInv, ResponseAnswers
<1>2. ASSUME NEW status, NEW solution, NEW value, NEW core
      PROVE  LET r == Response(status, solution, value, core)
             IN r.status = status /\ r.solution = solution /\ r.objectiveValue = value
                  /\ r.core = core
  BY DEF Response
<1>3. CASE ~ValidateCpModel
  <2>1. response = Response("modelInvalid", None, 0, {})
    BY <1>1, <1>3, Zenon DEF Answers
  <2>2. response.status = "modelInvalid"
    BY <1>2, <2>1
  <2> QED BY <2>2
<1>4. CASE ValidateCpModel
  <2>1. \/ \E c \in cores : response = Response("infeasible", None, 0, c)
        \/ response \in With("optimal", best)
        \/ response \in With("feasible", sols)
        \/ response = Response("unknown", None, 0, {})
    BY <1>1, <1>4, Zenon DEF Answers
  <2>2. CASE \E c \in cores : response = Response("infeasible", None, 0, c)
    <3>1. PICK c \in cores : response = Response("infeasible", None, 0, c)
      BY <2>2
    <3>2. response.status = "infeasible" /\ response.core = c
      BY <1>2, <3>1
    <3>3. c \in SUBSET marked /\ SolutionsWith(c) = {}
      OBVIOUS
    <3> QED BY <1>4, <3>2, <3>3
  <2>3. CASE response \in With("optimal", best)
    <3>1. PICK a \in best : \E v \in ScaleObjectiveValue(a) : response = Response("optimal", a, v, {})
      BY <2>3, Zenon
    <3>2. PICK v \in ScaleObjectiveValue(a) : response = Response("optimal", a, v, {})
      BY <3>1
    <3>3. response.status = "optimal" /\ response.solution = a /\ response.objectiveValue = v
      BY <1>2, <3>2
    <3>4. a \in sols /\ GapIsClosed(a, sols)
      OBVIOUS
    <3> QED BY <1>4, <3>3, <3>4
  <2>4. CASE response \in With("feasible", sols)
    <3>1. PICK a \in sols : \E v \in ScaleObjectiveValue(a) : response = Response("feasible", a, v, {})
      BY <2>4, Zenon
    <3>2. PICK v \in ScaleObjectiveValue(a) : response = Response("feasible", a, v, {})
      BY <3>1
    <3>3. response.status = "feasible" /\ response.solution = a /\ response.objectiveValue = v
      BY <1>2, <3>2
    <3> QED BY <1>4, <3>3
  <2>5. CASE response = Response("unknown", None, 0, {})
    <3>1. response.status = "unknown"
      BY <1>2, <2>5
    <3> QED BY <3>1
  <2> QED BY <2>1, <2>2, <2>3, <2>4, <2>5
<1> QED BY <1>3, <1>4

(* The answer CP-SAT gives to the encoded model is one to the caller's         *)
(* question, solutions, objective value, optimality and cores alike: exactly   *)
(* while the objective's constant and terms stay below Precision, and else up  *)
(* to what the doubles the value is sent, computed and reported in can tell    *)
(* apart.                                                                      *)
THEOREM AnswersAreTheCallers == Spec => []AnswersTheQuestion
<1>1. ASSUME IInv
      PROVE  AnswersTheQuestion
  <2> SUFFICES ASSUME response # None, \A i \in DOMAIN stated : ConstantFits(stated[i])
               PROVE  /\ response.status \in {"optimal", "feasible"} =>
                           /\ response.solution \in Meant(Range(assumptions))
                           /\ objective # None =>
                                Abs(response.objectiveValue
                                      - ValueOf(objective[1], response.solution)) <= Inexactness
                      /\ response.status = "optimal" /\ objective # None =>
                           IsBest(response.solution, Meant(Range(assumptions)), Inexactness)
                      /\ response.status = "infeasible" =>
                           response.core \subseteq Range(assumptions) /\ Meant(response.core) = {}
    BY Zenon DEF AnswersTheQuestion
  <2>1. ASSUME NEW lits, response.status \in {"optimal", "feasible", "infeasible"}
        PROVE  SolutionsWith(lits) = Meant(lits)
    BY <1>1, <2>1, AnswerCases, SolutionsMeant
  <2>2. ASSUME response.status \in {"optimal", "feasible"}
        PROVE  /\ response.solution \in Meant(Range(assumptions))
               /\ response.solution \in Assignments
               /\ ValidateCpModel
               /\ response.objectiveValue \in ScaleObjectiveValue(response.solution)
    <3>1. /\ ValidateCpModel
          /\ response.solution \in SolutionsWith(Range(assumptions))
          /\ response.objectiveValue \in ScaleObjectiveValue(response.solution)
      BY <1>1, <2>2, AnswerCases
    <3>2. response.solution \in Assignments
      BY <3>1 DEF SolutionsWith
    <3> QED BY <2>1, <2>2, <3>1, <3>2
  <2>3. ASSUME response.status \in {"optimal", "feasible"}, objective # None
        PROVE  Abs(response.objectiveValue - ValueOf(objective[1], response.solution)) <= Inexactness
    <3> DEFINE s == response.solution
               v == response.objectiveValue
               e == objective[1]
               q == SumOf(e.terms, s)
               c == e.constant
               d == Double(c)
    <3>1. s \in Assignments /\ ValidateCpModel /\ v \in ScaleObjectiveValue(s)
      BY <2>2, <2>3
    <3>2. q \in Int /\ ObjectiveValue(s) = q + d
      BY <1>1, <2>3, <3>1, ObjectiveScore
    <3>3. c \in Int /\ d \in Int
      BY <1>1, <2>3, <3>1, ObjectiveTerms, ExprFacts
    <3>4. Rounding \in Nat /\ Inexactness \in Nat /\ Rounding + Abs(d - c) <= Inexactness
      BY <1>1, <2>3, <3>1, RoundingFacts
    <3>5. v \in ObjectiveValue(s) - Rounding .. ObjectiveValue(s) + Rounding
      BY <3>1, Zenon DEF ScaleObjectiveValue, ObjectiveValue
    <3>6. ValueOf(e, s) = q + c
      BY DEF ValueOf
    <3> HIDE DEF s, v, e, q, c, d
    <3>7. v \in Int /\ q + d - Rounding <= v /\ v <= q + d + Rounding
      BY <3>2, <3>3, <3>4, <3>5
    <3>8. Abs(v - (q + c)) <= Rounding + Abs(d - c)
      BY <3>2, <3>3, <3>4, <3>7 DEF Abs
    <3>9. Abs(v - (q + c)) \in Int /\ Abs(d - c) \in Int
      BY <3>2, <3>3, <3>7 DEF Abs
    <3>10. Abs(v - (q + c)) <= Inexactness
      BY <3>4, <3>8, <3>9
    <3>11. Abs(v - ValueOf(e, s)) <= Inexactness
      BY <3>6, <3>10
    <3> QED BY <3>11 DEF v, s, e
  <2>4. ASSUME response.status = "optimal", objective # None
        PROVE  IsBest(response.solution, Meant(Range(assumptions)), Inexactness)
    <3> DEFINE s == response.solution
               e == objective[1]
               c == e.constant
    <3>1. SUFFICES ASSUME NEW a \in Meant(Range(assumptions))
                   PROVE  IF objective[2] THEN ValueOf(e, a) <= ValueOf(e, s) + Inexactness
                          ELSE ValueOf(e, a) >= ValueOf(e, s) - Inexactness
      BY Zenon DEF IsBest
    <3>2. ValidateCpModel /\ s \in Assignments /\ a \in Assignments
      BY <2>2, <2>4, <3>1 DEF Meant
    <3>3. Score(s) <= Score(a) + Rounding
      <4>1. a \in SolutionsWith(Range(assumptions))
        BY <2>1, <2>4, <3>1
      <4> QED BY <1>1, <2>4, <4>1, AnswerCases DEF GapIsClosed
    <3> DEFINE p == SumOf(e.terms, a)
               q == SumOf(e.terms, s)
    <3>4. p \in Int /\ (objective[2] => Score(a) = -p) /\ (~objective[2] => Score(a) = p)
      BY <1>1, <2>4, <3>2, ObjectiveScore
    <3>5. q \in Int /\ (objective[2] => Score(s) = -q) /\ (~objective[2] => Score(s) = q)
      BY <1>1, <2>4, <3>2, ObjectiveScore
    <3>6. Rounding \in Nat /\ Inexactness \in Nat /\ Rounding <= Inexactness /\ c \in Int
      <4>1. c \in Int /\ Double(c) \in Int
        BY <1>1, <2>4, <3>2, ObjectiveTerms, ExprFacts
      <4>2. Rounding \in Nat /\ Inexactness \in Nat /\ Rounding + Abs(Double(c) - c) <= Inexactness
        BY <1>1, <2>4, <3>2, RoundingFacts
      <4> DEFINE r == Double(c) - c
      <4>3. r \in Int
        BY <4>1
      <4> HIDE DEF r
      <4>4. Abs(r) \in Nat
        BY <4>3 DEF Abs
      <4>5. Rounding + Abs(r) <= Inexactness
        BY <4>2 DEF r
      <4> QED BY <4>1, <4>2, <4>4, <4>5
    <3>7. ValueOf(e, a) = p + c /\ ValueOf(e, s) = q + c
      BY DEF ValueOf
    <3> HIDE DEF s, e, p, q, c
    <3>8. CASE objective[2]
      <4>1. -q <= -p + Rounding
        BY <3>3, <3>4, <3>5, <3>8
      <4>2. p + c <= q + c + Inexactness
        BY <3>4, <3>5, <3>6, <4>1
      <4>3. ValueOf(e, a) <= ValueOf(e, s) + Inexactness
        BY <3>7, <4>2
      <4> QED BY <3>8, <4>3, Zenon
    <3>9. CASE ~objective[2]
      <4>1. q <= p + Rounding
        BY <3>3, <3>4, <3>5, <3>9
      <4>2. p + c >= q + c - Inexactness
        BY <3>4, <3>5, <3>6, <4>1
      <4>3. ValueOf(e, a) >= ValueOf(e, s) - Inexactness
        BY <3>4, <3>5, <3>6, <3>7, <4>2
      <4> QED BY <3>9, <4>3, Zenon
    <3> QED BY <3>8, <3>9
  <2>5. ASSUME response.status = "infeasible"
        PROVE  response.core \subseteq Range(assumptions) /\ Meant(response.core) = {}
    BY <1>1, <2>1, <2>5, AnswerCases
  <2> QED BY <2>2, <2>3, <2>4, <2>5, Zenon
<1> QED BY <1>1, Invariance, PTL


-----------------------------------------------------------------------------
(* Statements CP-SAT never refuses. *)

(* The domains the comparisons use, folded, stay valid ones. *)
LEMMA ShiftInterval ==
  ASSUME NEW lo \in Int64, NEW hi \in Int64, lo <= hi, NEW c \in -Half..Half
  PROVE  DomainInProtoIsValid(shiftDomain(ofInterval(lo, hi), c))
<1> DEFINE d == shiftDomain(ofInterval(lo, hi), c)
<1>1. d = <<<<clampToInt64(lo - c), clampToInt64(hi - c)>>>>
  BY DEF shiftDomain, ofInterval
<1>2. /\ DOMAIN d = {1} /\ Len(d) = 1
      /\ d[1][1] = clampToInt64(lo - c) /\ d[1][2] = clampToInt64(hi - c)
  BY <1>1
<1>3. clampToInt64(lo - c) <= clampToInt64(hi - c)
  BY HalfFacts DEF clampToInt64, Int64
<1> HIDE DEF d
<1>4. DomainInProtoIsValid(d)
  BY <1>2, <1>3 DEF DomainInProtoIsValid
<1> QED BY <1>4 DEF d

LEMMA ShiftComparison ==
  ASSUME NEW c \in -Half..Half
  PROVE  \A domain \in {single(0), ofInterval(MinInt, 0), ofInterval(0, MaxInt), excluding(0)} :
           DomainInProtoIsValid(shiftDomain(domain, c))
<1>1. 0 \in Int64 /\ MinInt \in Int64 /\ MaxInt \in Int64 /\ MinInt <= 0 /\ 0 <= MaxInt
  BY HalfFacts DEF Int64
<1>2. DomainInProtoIsValid(shiftDomain(single(0), c))
  BY <1>1, ShiftInterval DEF single
<1>3. /\ DomainInProtoIsValid(shiftDomain(ofInterval(MinInt, 0), c))
      /\ DomainInProtoIsValid(shiftDomain(ofInterval(0, MaxInt), c))
  BY <1>1, ShiftInterval
<1>4. DomainInProtoIsValid(shiftDomain(excluding(0), c))
  <2> DEFINE d == shiftDomain(excluding(0), c)
  <2>1. d = <<<<clampToInt64(MinInt - c), clampToInt64(-1 - c)>>,
              <<clampToInt64(1 - c), clampToInt64(MaxInt - c)>>>>
    BY ComparisonDomains DEF shiftDomain
  <2>2. /\ DOMAIN d = {1, 2} /\ Len(d) = 2
        /\ d[1][1] = clampToInt64(MinInt - c) /\ d[1][2] = clampToInt64(-1 - c)
        /\ d[2][1] = clampToInt64(1 - c) /\ d[2][2] = clampToInt64(MaxInt - c)
    BY <2>1
  <2>3. /\ clampToInt64(MinInt - c) <= clampToInt64(-1 - c)
        /\ clampToInt64(-1 - c) + 1 < clampToInt64(1 - c)
        /\ clampToInt64(1 - c) <= clampToInt64(MaxInt - c)
    BY HalfFacts DEF clampToInt64
  <2> HIDE DEF d
  <2>4. DomainInProtoIsValid(d)
    BY <2>2, <2>3 DEF DomainInProtoIsValid
  <2> QED BY <2>4 DEF d
<1> QED BY <1>2, <1>3, <1>4

LEMMA LinearAccepted ==
  ASSUME NEW domains \in VariableDomains, NEW e \in ExprType, NEW domain,
         VarsOf(e) \subseteq 0..Len(domains) - 1, FitsInt64(Expr(e.terms, 0), domains),
         DomainInProtoIsValid(shiftDomain(domain, e.constant))
  PROVE  ValidateConstraint(constraintKindToProto(linear(e, domain)), {}, domains)
<1> DEFINE d == Expr(e.terms, 0)
           k == linear(d, shiftDomain(domain, e.constant))
<1>1. constraintKindToProto(linear(e, domain)) = k
  BY DEF constraintKindToProto, linear
<1>2. ExprsOf(k) = {d} /\ LitsOf(k) = {} /\ VarsIn(k) = VarsOf(e)
  <2>1. VarsOf(d) = VarsOf(e)
    BY DEF VarsOf, Expr
  <2> QED BY <2>1, LinearVars
<1>3. k.kind = "linear" /\ k.domain = shiftDomain(domain, e.constant)
  BY DEF linear
<1> HIDE DEF k
<1>4. ValidateConstraint(k, {}, domains)
  BY <1>2, <1>3 DEF ValidateConstraint
<1> QED BY <1>1, <1>4

LEMMA MaxAccepted ==
  ASSUME NEW domains, NEW target, NEW exprs,
         VarsIn(argument("linMax", target, exprs)) \subseteq 0..Len(domains) - 1,
         \A e \in {target} \cup Range(exprs) : FitsInt64(e, domains)
  PROVE  ValidateConstraint(constraintKindToProto(argument("linMax", target, exprs)),
                            {}, domains)
<1> DEFINE k == argument("linMax", target, exprs)
<1>1. constraintKindToProto(k) = k
  BY MaxFeasible
<1>2. ExprsOf(k) = {target} \cup Range(exprs) /\ LitsOf(k) = {} /\ k.kind = "linMax"
  BY ArgumentExprs DEF argument
<1>3. VarsIn(k) \subseteq 0..Len(domains) - 1
  OBVIOUS
<1> HIDE DEF k
<1>4. ValidateConstraint(k, {}, domains)
  BY <1>2, <1>3 DEF ValidateConstraint
<1> QED BY <1>1, <1>4 DEF k

(* The difference a comparison makes, its constant having no width yet. *)
LEMMA DifferenceFits ==
  ASSUME NEW domains \in VariableDomains, NEW x \in ExprType, NEW y \in ExprType,
         VarsOf(Minus(x, y)) \subseteq 0..Len(domains) - 1,
         FitsInt64(Expr(x.terms \o Negate(y).terms, x.constant - y.constant), domains)
  PROVE  /\ Minus(x, y).constant \in -Half..Half
         /\ FitsInt64(Expr(Minus(x, y).terms, 0), domains)
<1> DEFINE e == Minus(x, y)
           c == x.constant - y.constant
<1>1. e \in ExprType /\ e.terms = x.terms \o Negate(y).terms
  BY MinusType, MinusTerms
<1>2. c \in Int /\ c \in -Half..Half
  <2>1. x.constant \in Int /\ y.constant \in Int
    BY ExprFacts
  <2>2. Abs(c) <= Half
    BY DEF FitsInt64, Expr
  <2>3. c \in Int
    BY <2>1
  <2> HIDE DEF c
  <2> QED BY <2>2, <2>3, HalfFacts DEF Abs
<1>3. e.constant = c
  BY <1>2, MinusConstant
<1>4. e = Expr(e.terms, c)
  BY <1>1, <1>3 DEF Expr, ExprType
<1>5. FitsInt64(e, domains) /\ Uses(e.terms, domains)
  BY <1>1, <1>4, UsesVars
<1> HIDE DEF e, c
<1>6. FitsInt64(Expr(e.terms, 0), domains)
  BY <1>1, <1>5, FitsWithoutConstant
<1> QED BY <1>2, <1>3, <1>6 DEF e


(* A statement that is modest, with the constraint it becomes. *)
LEMMA StatementAccepted ==
  ASSUME NEW st \in Statements, varDomains \in VariableDomains,
         VarsIn(KindOf(st)) \subseteq 0..Len(varDomains) - 1,
         st.says \notin {"implies", "given"}, Modest(st)
  PROVE  ValidateConstraint(constraintKindToProto(KindOf(st)), {}, varDomains)
<1> DEFINE x == st.args[1]
           y == st.args[2]
           accepted == ValidateConstraint(constraintKindToProto(KindOf(st)), {}, varDomains)
<1>1. \A e \in ExprsStated(st) : FitsInt64(e, varDomains)
  BY DEF Modest
<1>2. CASE st.says = "in"
  <2>1. x \in ExprType /\ y \in DomainType
    BY <1>2 DEF Statements
  <2>2. KindOf(st) = linear(x, y) /\ ExprsStated(st) = {x} /\ ModestDomain(y)
    BY <1>2 DEF KindOf, ExprsStated, Modest
  <2> HIDE DEF x, y
  <2>3. FitsInt64(x, varDomains) /\ VarsOf(x) \subseteq 0..Len(varDomains) - 1
    BY <1>1, <2>2, LinearVars
  <2>4. x.constant \in -Half..Half
    <3>1. x.constant \in Int /\ Abs(x.constant) <= Half
      BY <2>1, <2>3, ExprFacts DEF FitsInt64
    <3> QED BY <3>1, HalfFacts DEF Abs
  <2>5. DomainInProtoIsValid(shiftDomain(y, x.constant))
    BY <2>1, <2>2, <2>4, ShiftKeepsApart
  <2>6. FitsInt64(Expr(x.terms, 0), varDomains)
    BY <2>1, <2>3, UsesVars, FitsWithoutConstant
  <2> QED BY <2>1, <2>2, <2>3, <2>5, <2>6, LinearAccepted
<1>3. CASE st.says \in {"=", "<=", ">=", "#"}
  <2>1. x \in ExprType /\ y \in ExprType
    BY <1>3 DEF Statements
  <2>2. PICK domain \in {single(0), ofInterval(MinInt, 0), ofInterval(0, MaxInt), excluding(0)} :
          KindOf(st) = linear(Minus(x, y), domain)
    <3>1. \/ KindOf(st) = linear(Minus(x, y), single(0))
          \/ KindOf(st) = linear(Minus(x, y), ofInterval(MinInt, 0))
          \/ KindOf(st) = linear(Minus(x, y), ofInterval(0, MaxInt))
          \/ KindOf(st) = linear(Minus(x, y), excluding(0))
      BY <1>3 DEF KindOf
    <3> QED BY <3>1
  <2>3. FitsInt64(Expr(x.terms \o Negate(y).terms, x.constant - y.constant), varDomains)
    BY <1>1, <1>3 DEF ExprsStated, ConstantOf
  <2> HIDE DEF x, y
  <2>4. VarsOf(Minus(x, y)) \subseteq 0..Len(varDomains) - 1
    BY <2>2, LinearVars
  <2>5. /\ Minus(x, y).constant \in -Half..Half
        /\ FitsInt64(Expr(Minus(x, y).terms, 0), varDomains)
    BY <2>1, <2>3, <2>4, DifferenceFits
  <2>6. DomainInProtoIsValid(shiftDomain(domain, Minus(x, y).constant))
    BY <2>2, <2>5, ShiftComparison
  <2> QED BY <2>1, <2>2, <2>4, <2>5, <2>6, MinusType, LinearAccepted
<1>4. CASE st.says = "max"
  <2>1. KindOf(st) = argument("linMax", x, y) /\ ExprsStated(st) = {x} \cup Range(y)
    BY <1>4 DEF KindOf, ExprsStated
  <2> HIDE DEF x, y
  <2> QED BY <1>1, <2>1, MaxAccepted
<1>5. ASSUME NEW e \in ExprType, FitsInt64(e, varDomains),
             VarsOf(Negate(e)) \subseteq 0..Len(varDomains) - 1
      PROVE  FitsInt64(Negate(e), varDomains)
  <2>1. Uses(e.terms, varDomains)
    BY <1>5, NegateVars, UsesVars
  <2> QED BY <1>5, <2>1, FitsNegated
<1>6. CASE st.says = "min"
  <2> DEFINE negated == [i \in DOMAIN y |-> Negate(y[i])]
             fit == {Negate(x)} \cup Range(negated)
  <2>1. x \in ExprType /\ y \in Seq(ExprType)
    BY <1>6 DEF Statements
  <2>2. KindOf(st) = argument("linMax", Negate(x), negated)
        /\ ExprsStated(st) = {x} \cup Range(y)
    BY <1>6 DEF KindOf, ExprsStated
  <2> HIDE DEF x, y
  <2>3. VarsIn(KindOf(st)) = UNION {VarsOf(e) : e \in fit}
    BY <2>2, ArgumentExprs
  <2>4. FitsInt64(Negate(x), varDomains)
    <3>1. VarsOf(Negate(x)) \subseteq 0..Len(varDomains) - 1
      BY <2>3
    <3> QED BY <1>1, <1>5, <2>1, <2>2, <3>1
  <2>5. ASSUME NEW i \in DOMAIN y
        PROVE  FitsInt64(Negate(y[i]), varDomains)
    <3>1. y[i] \in Range(y) /\ y[i] \in ExprType
      BY <2>1 DEF Range
    <3>2. Negate(y[i]) \in fit
      BY DEF Range
    <3>3. VarsOf(Negate(y[i])) \subseteq 0..Len(varDomains) - 1
      BY <2>3, <3>2
    <3> QED BY <1>1, <1>5, <2>2, <3>1, <3>3
  <2>6. \A e \in fit : FitsInt64(e, varDomains)
    BY <2>4, <2>5 DEF Range
  <2> HIDE DEF negated
  <2> QED BY <2>2, <2>6, MaxAccepted
<1>7. CASE st.says = "abs"
  <2> DEFINE both == <<y, Negate(y)>>
  <2>1. x \in ExprType /\ y \in ExprType
    BY <1>7 DEF Statements
  <2>2. KindOf(st) = argument("linMax", x, both) /\ ExprsStated(st) = {x, y}
    BY <1>7 DEF KindOf, ExprsStated
  <2> HIDE DEF x, y
  <2>3. Range(both) = {y, Negate(y)}
    <3>1. DOMAIN both = {1, 2} /\ both[1] = y /\ both[2] = Negate(y)
      OBVIOUS
    <3> HIDE DEF both
    <3> QED BY <3>1 DEF Range
  <2> HIDE DEF both
  <2>4. VarsOf(Negate(y)) \subseteq 0..Len(varDomains) - 1
    <3>1. VarsIn(KindOf(st)) = UNION {VarsOf(e) : e \in {x} \cup Range(both)}
      BY <2>2, ArgumentExprs
    <3> QED BY <2>3, <3>1
  <2>5. \A e \in {x} \cup Range(both) : FitsInt64(e, varDomains)
    BY <1>1, <1>5, <2>1, <2>2, <2>3, <2>4
  <2> QED BY <2>2, <2>5, MaxAccepted
<1>8. st.says \in {"in", "=", "<=", ">=", "#", "max", "min", "abs"}
  BY DEF Statements
<1> QED BY <1>2, <1>3, <1>4, <1>6, <1>7, <1>8

(* The builder itself never makes a model invalid: the constant of a linear    *)
(* constraint folded into its domain, and the opposites min and abs send, are  *)
(* within what CP-SAT takes, at every width of Int64, whenever what the caller *)
(* wrote is.                                                                   *)
THEOREM ModestStatementsAreAccepted == Spec => []ModestIsAccepted
<1>1. ASSUME IInv
      PROVE  ModestIsAccepted
  <2> SUFFICES ASSUME \A d \in Range(varDomains) : ValidateIntegerVariable(d),
                      NEW i \in DOMAIN constraints,
                      stated[i].says \notin {"implies", "given"}, Modest(stated[i])
               PROVE  ValidateConstraint(protoKind(i), {}, varDomains)
    BY DEF ModestIsAccepted
  <2>1. varDomains \in VariableDomains /\ stated[i] \in Statements
    BY <1>1, AcceptedDomains, KindOfConstraint
  <2>2. constraints[i].kind = KindOf(stated[i]) /\ Known(VarsIn(constraints[i].kind))
    BY <1>1 DEF IInv, BuiltInv, BuiltAsStated
  <2>3. VarsIn(KindOf(stated[i])) \subseteq 0..Len(varDomains) - 1
    BY <2>2 DEF Known
  <2>4. ValidateConstraint(constraintKindToProto(KindOf(stated[i])), {}, varDomains)
    BY <2>1, <2>3, StatementAccepted
  <2> QED BY <2>2, <2>4 DEF protoKind
<1> QED BY <1>1, Invariance, PTL

=============================================================================
