-------------------------- MODULE LinearModel_proofs --------------------------
(***************************************************************************)
(* Facts about the operators of LinearModel: Int64 arithmetic, sums over   *)
(* the terms of an expression, and the bounds CP-SAT computes for them.    *)
(*                                                                         *)
(* A sum is SumFunctionOnSet of the community module Functions, a fold     *)
(* over a set by a recursive function that takes the elements in the order *)
(* of a CHOOSE.  Induction over it is by a least counterexample: WFMin for *)
(* the numbers, and for the subsets of a finite set.                       *)
(***************************************************************************)
EXTENDS LinearModel, FiniteSetTheorems, WellFoundedInduction, TLAPS

-----------------------------------------------------------------------------
(* Arithmetic. *)

LEMMA HalfFacts ==
  /\ MaxInt \in Nat /\ MaxInt > 0
  /\ Half \in Nat /\ 2 * Half <= MaxInt /\ Half < MaxInt
  /\ MinInt \in Int /\ MinInt = -MaxInt - 1
BY MaxIntAssumption DEF Half, MinInt

LEMMA Division ==
  ASSUME NEW x \in Int, NEW n \in Int, n > 0, NEW q \in Int, q = x \div n
  PROVE  x = n * q + (x % n) /\ x % n \in Int /\ 0 <= x % n /\ x % n < n
<1>1. x = n * q + (x % n)
  BY Z3
<1>2. x % n \in Int /\ 0 <= x % n /\ x % n < n
  OBVIOUS
<1> QED BY <1>1, <1>2

LEMMA ModBelow ==
  ASSUME NEW y \in Int, NEW n \in Nat, -n <= y, y < 0
  PROVE  y % n = y + n
<1>0. n > 0
  OBVIOUS
<1>pick. PICK q \in Int : q = y \div n
  BY <1>0
<1>1. y = n * q + (y % n) /\ y % n \in Int /\ 0 <= y % n /\ y % n < n
  <2>1. n \in Int
    OBVIOUS
  <2> QED BY <1>0, <1>pick, <2>1, Division, Zenon
<1>2. CASE q >= 0
  <2>1. n * q >= 0
    BY <1>2, <1>1
  <2> QED BY <1>1, <2>1
<1>3. CASE q <= -2
  <2>1. n * (q + 2) <= 0
    BY <1>3, <1>1
  <2>2. n * (q + 2) = n * q + 2 * n
    BY <1>1
  <2> QED BY <1>1, <2>1, <2>2
<1>4. CASE q = -1
  BY <1>1, <1>4
<1> QED BY <1>1, <1>2, <1>3, <1>4

LEMMA ModWithin ==
  ASSUME NEW y \in Int, 0 <= y, NEW n \in Nat, y < n
  PROVE  y % n = y
<1>0. n > 0
  OBVIOUS
<1>pick. PICK q \in Int : q = y \div n
  BY <1>0
<1>1. y = n * q + (y % n) /\ y % n \in Int /\ 0 <= y % n /\ y % n < n
  <2>1. n \in Int
    OBVIOUS
  <2> QED BY <1>0, <1>pick, <2>1, Division, Zenon
<1>2. CASE q > 0
  <2>1. n * (q - 1) >= 0
    BY <1>2, <1>1
  <2>2. n * (q - 1) = n * q - n
    BY <1>1
  <2> QED BY <1>1, <2>1, <2>2
<1>3. CASE q < 0
  <2>1. n * (q + 1) <= 0
    BY <1>3, <1>1
  <2>2. n * (q + 1) = n * q + n
    BY <1>1
  <2> QED BY <1>1, <2>1, <2>2
<1>4. CASE q = 0
  BY <1>1, <1>4
<1> QED BY <1>1, <1>2, <1>3, <1>4

LEMMA WrapType ==
  ASSUME NEW x \in Int
  PROVE  Wrap(x) \in Int64
<1> DEFINE n == 2 * (MaxInt + 1)
<1>1. n \in Nat /\ n > 0 /\ x - MinInt \in Int
  BY HalfFacts
<1>2. (x - MinInt) % n \in Int /\ 0 <= (x - MinInt) % n /\ (x - MinInt) % n < n
  BY <1>1, Division
<1> QED BY <1>2, HalfFacts DEF Wrap, Int64

LEMMA ClampType ==
  ASSUME NEW x \in Int
  PROVE  clampToInt64(x) \in Int64
BY HalfFacts DEF clampToInt64, Int64

(* What is within half of Int64 stays in it when another such constant is      *)
(* taken from it.                                                              *)
LEMMA ClampWithinHalf ==
  ASSUME NEW x \in -Half..Half, NEW c \in -Half..Half
  PROVE  clampToInt64(x - c) = x - c
BY HalfFacts DEF clampToInt64

-----------------------------------------------------------------------------
(* Wrapping leaves the difference of two constants alone when it fits. *)

LEMMA WrapWithin ==
  ASSUME NEW x \in Int64
  PROVE  Wrap(x) = x
<1>1. /\ x - MinInt \in Int /\ 0 <= x - MinInt
      /\ 2 * (MaxInt + 1) \in Nat /\ x - MinInt < 2 * (MaxInt + 1)
  BY HalfFacts DEF Int64
<1>2. (x - MinInt) % (2 * (MaxInt + 1)) = x - MinInt
  BY <1>1, ModWithin
<1> QED BY <1>2, HalfFacts DEF Wrap, Int64

LEMMA WrapBelow ==
  ASSUME NEW x \in Int, x + 2 * (MaxInt + 1) \in Int64, x < MinInt
  PROVE  Wrap(x) = x + 2 * (MaxInt + 1)
<1> DEFINE n == 2 * (MaxInt + 1)
<1>1. x - MinInt \in Int /\ n \in Nat /\ -n <= x - MinInt /\ x - MinInt < 0
  BY HalfFacts DEF Int64
<1>2. (x - MinInt) % n = x - MinInt + n
  BY <1>1, ModBelow
<1> QED BY <1>2, HalfFacts DEF Wrap

LEMMA DifferenceWraps ==
  ASSUME NEW c \in Int64, NEW d \in Int64, c - d \in -Half..Half
  PROVE  Wrap(c + Wrap((-1) * d)) = c - d
<1>1. CASE d = MinInt
  <2>1. Wrap((-1) * d) = MinInt
    <3>1. (-1) * d = MaxInt + 1
      BY <1>1, HalfFacts
    <3>2. (MaxInt + 1) - MinInt = 2 * (MaxInt + 1)
      BY HalfFacts
    <3>3. (2 * (MaxInt + 1)) % (2 * (MaxInt + 1)) = 0
      BY HalfFacts
    <3>4. Wrap(MaxInt + 1) = (((MaxInt + 1) - MinInt) % (2 * (MaxInt + 1))) + MinInt
      BY DEF Wrap
    <3>5. Wrap(MaxInt + 1) = 0 + MinInt
      BY <3>2, <3>3, <3>4
    <3> QED BY <3>1, <3>5, HalfFacts
  <2>2. c + MinInt \in Int /\ c + MinInt + 2 * (MaxInt + 1) = c - d
    BY <1>1, HalfFacts DEF Int64
  <2>3. c - d \in Int64
    BY HalfFacts DEF Int64
  <2>4. CASE c + MinInt < MinInt
    BY <2>1, <2>2, <2>3, <2>4, WrapBelow
  <2>5. CASE c >= 0
    BY <1>1, <2>5, HalfFacts DEF Int64
  <2> QED BY <2>4, <2>5, HalfFacts DEF Int64
<1>2. CASE d # MinInt
  <2>1. (-1) * d \in Int64 /\ c + (-1) * d = c - d
    BY <1>2, HalfFacts DEF Int64
  <2>2. c - d \in Int64
    BY HalfFacts DEF Int64
  <2> QED BY <2>1, <2>2, WrapWithin
<1> QED BY <1>1, <1>2

-----------------------------------------------------------------------------
(* Expressions stay expressions. *)

LEMMA ExprOfType ==
  ASSUME NEW terms \in Seq(Nat \X Int64), NEW c \in Int64
  PROVE  Expr(terms, c) \in ExprType
BY DEF Expr, ExprType

LEMMA NegateType ==
  ASSUME NEW e \in ExprType
  PROVE  Negate(e) \in ExprType
<1>1. \A x \in Int64 : Wrap((-1) * x) \in Int64
  BY WrapType, HalfFacts DEF Int64
<1>2. e.terms \in Seq(Nat \X Int64) /\ e.constant \in Int64
  BY DEF ExprType
<1> DEFINE terms == [i \in DOMAIN e.terms |-> <<e.terms[i][1], Wrap((-1) * e.terms[i][2])>>]
<1>3. terms \in Seq(Nat \X Int64)
  BY <1>1, <1>2
<1>4. Wrap((-1) * e.constant) \in Int64
  BY <1>1, <1>2
<1>5. Negate(e) = Expr(terms, Wrap((-1) * e.constant))
  BY DEF Negate, Times
<1> HIDE DEF terms
<1> QED BY <1>3, <1>4, <1>5, ExprOfType

LEMMA PlusType ==
  ASSUME NEW d \in ExprType, NEW e \in ExprType
  PROVE  Plus(d, e) \in ExprType
<1>1. d.terms \o e.terms \in Seq(Nat \X Int64)
  BY DEF ExprType
<1>2. d.constant + e.constant \in Int
  BY HalfFacts DEF ExprType, Int64
<1>3. Wrap(d.constant + e.constant) \in Int64
  BY <1>2, WrapType
<1> QED BY <1>1, <1>3, ExprOfType DEF Plus

LEMMA MinusType ==
  ASSUME NEW d \in ExprType, NEW e \in ExprType
  PROVE  Minus(d, e) \in ExprType
BY NegateType, PlusType DEF Minus

-----------------------------------------------------------------------------
(* Least counterexamples. *)

LEMMA LessRelation == OpToRel(<, Nat) = {ss \in Nat \X Nat : ss[1] < ss[2]}
BY Zenon DEF OpToRel

(* A set of numbers that is not empty has a least element. *)
LEMMA LeastNumber ==
  ASSUME NEW T, T \subseteq Nat, T # {}
  PROVE  \E n \in T : \A m \in T : n <= m
<1> DEFINE R == {ss \in Nat \X Nat : ss[1] < ss[2]}
<1>1. \E n \in T : \A m \in T : ~(<<m, n>> \in R)
  BY NatLessThanWellFounded, WFMin, LessRelation
<1>2. PICK n \in T : \A m \in T : ~(<<m, n>> \in R)
  BY <1>1
<1>3. ASSUME NEW m \in T PROVE n <= m
  <2>1. n \in Nat /\ m \in Nat /\ <<m, n>> \in Nat \X Nat
    OBVIOUS
  <2>2. ~(m < n)
    BY <1>2, <2>1
  <2> QED BY <2>1, <2>2
<1> QED BY <1>3

(* A set of subsets of a finite set has a minimal element. *)
LEMMA MinimalSubset ==
  ASSUME NEW S, IsFiniteSet(S), NEW T, T \subseteq SUBSET S, T # {}
  PROVE  \E s \in T : \A t \in T : t \subseteq s => t = s
<1>1. IsWellFoundedOn(StrictSubsetOrdering(S), SUBSET S)
  BY FS_StrictSubsetOrderingWellFounded, FS_FiniteSubsetsOfFinite
<1>2. \E s \in T : \A t \in T : ~(<<t, s>> \in StrictSubsetOrdering(S))
  BY <1>1, WFMin
<1> QED BY <1>2 DEF StrictSubsetOrdering

-----------------------------------------------------------------------------
(* The recursive function of the fold. *)

Chosen(s) == CHOOSE x \in s : TRUE
Unrolled(f, g, s) == IF s = {} THEN 0 ELSE f[Chosen(s)] + g[s \ {Chosen(s)}]
IsSumOf(f, S, g) == g = [s \in SUBSET S |-> Unrolled(f, g, s)]

LEMMA SumIsFold ==
  ASSUME NEW f, NEW S
  PROVE  SumFunctionOnSet(f, S) = (CHOOSE g : IsSumOf(f, S, g))[S]
BY DEF SumFunctionOnSet, FoldFunctionOnSet, MapThenFoldSet, IsSumOf, Unrolled, Chosen

LEMMA PickIn ==
  ASSUME NEW s, s # {}
  PROVE  Chosen(s) \in s
BY DEF Chosen

(* Two functions that satisfy the recursion agree where both are defined. *)
LEMMA SumUnique ==
  ASSUME NEW f, NEW S, NEW T \in SUBSET S, IsFiniteSet(T), NEW g, NEW h,
         IsSumOf(f, S, g), IsSumOf(f, T, h), NEW u \in SUBSET T
  PROVE  g[u] = h[u]
<1> DEFINE Bad == {s \in SUBSET T : g[s] # h[s]}
<1>1. SUFFICES ASSUME Bad # {} PROVE FALSE
  OBVIOUS
<1>2. PICK s \in Bad : \A t \in Bad : t \subseteq s => t = s
  <2>1. Bad \subseteq SUBSET T
    OBVIOUS
  <2> HIDE DEF Bad
  <2> QED BY <1>1, <2>1, MinimalSubset
<1>3. g[s] = Unrolled(f, g, s) /\ h[s] = Unrolled(f, h, s)
  BY DEF IsSumOf
<1>4. CASE s = {}
  BY <1>2, <1>3, <1>4 DEF Unrolled
<1>5. CASE s # {}
  <2>1. s \ {Chosen(s)} \notin Bad
    BY <1>2, <1>5, PickIn
  <2>2. s \ {Chosen(s)} \in SUBSET T
    BY <1>2
  <2>3. g[s \ {Chosen(s)}] = h[s \ {Chosen(s)}]
    BY <2>1, <2>2
  <2> QED BY <1>2, <1>3, <1>5, <2>3 DEF Unrolled
<1> QED BY <1>4, <1>5

(* The part of it below a subset satisfies the recursion there. *)
LEMMA SumRestrict ==
  ASSUME NEW f, NEW S, NEW T \in SUBSET S, NEW g, IsSumOf(f, S, g)
  PROVE  IsSumOf(f, T, [s \in SUBSET T |-> g[s]])
<1> DEFINE h == [s \in SUBSET T |-> g[s]]
<1>1. ASSUME NEW s \in SUBSET T PROVE h[s] = Unrolled(f, h, s)
  <2>1. g[s] = Unrolled(f, g, s)
    BY DEF IsSumOf
  <2>2. h[s] = g[s] /\ h[s \ {Chosen(s)}] = g[s \ {Chosen(s)}]
    OBVIOUS
  <2> QED BY <2>1, <2>2 DEF Unrolled
<1>2. h = [s \in SUBSET T |-> Unrolled(f, h, s)]
  BY <1>1
<1> QED BY <1>2 DEF IsSumOf

LEMMA SumIsValue ==
  ASSUME NEW f, NEW S, NEW T \in SUBSET S, IsFiniteSet(T), NEW g, IsSumOf(f, S, g)
  PROVE  SumFunctionOnSet(f, T) = g[T]
<1> DEFINE h == CHOOSE k : IsSumOf(f, T, k)
<1>1. IsSumOf(f, T, h)
  BY SumRestrict, Zenon
<1>2. h[T] = g[T]
  <2>1. T \in SUBSET T
    OBVIOUS
  <2> HIDE DEF h
  <2> QED BY <1>1, <2>1, SumUnique
<1> QED BY <1>2, SumIsFold

(* There is such a function over every finite set. *)
LEMMA SumExists ==
  ASSUME NEW f, NEW S, IsFiniteSet(S)
  PROVE  \E g : IsSumOf(f, S, g)
<1> DEFINE Bad == {T \in SUBSET S : ~\E g : IsSumOf(f, T, g)}
<1>1. SUFFICES ASSUME Bad # {} PROVE FALSE
  OBVIOUS
<1>2. PICK T \in Bad : \A t \in Bad : t \subseteq T => t = T
  <2>1. Bad \subseteq SUBSET S
    OBVIOUS
  <2> HIDE DEF Bad
  <2> QED BY <1>1, <2>1, MinimalSubset
<1> DEFINE V(s) == SumFunctionOnSet(f, s)
           top == IF T = {} THEN 0 ELSE f[Chosen(T)] + V(T \ {Chosen(T)})
           G == [s \in SUBSET T |-> IF s = T THEN top ELSE V(s)]
<1>3. ASSUME NEW s \in SUBSET T, s # T PROVE V(s) = Unrolled(f, [t \in SUBSET s |-> V(t)], s)
  <2>1. PICK g : IsSumOf(f, s, g)
    BY <1>2, <1>3
  <2>2. ASSUME NEW t \in SUBSET s PROVE V(t) = g[t]
    <3>1. IsFiniteSet(t)
      BY FS_Subset
    <3> QED BY <2>1, <3>1, SumIsValue
  <2>3. g[s] = Unrolled(f, g, s)
    BY <2>1 DEF IsSumOf
  <2>4. s # {} => V(s \ {Chosen(s)}) = g[s \ {Chosen(s)}]
    BY <2>2
  <2> QED BY <2>2, <2>3, <2>4 DEF Unrolled
<1>4. ASSUME NEW s \in SUBSET T PROVE G[s] = Unrolled(f, G, s)
  <2>1. s # {} => s \ {Chosen(s)} # T /\ s \ {Chosen(s)} \in SUBSET T
    BY PickIn
  <2>2. s # {} => G[s \ {Chosen(s)}] = V(s \ {Chosen(s)})
    BY <2>1
  <2>3. CASE s = T
    BY <2>2, <2>3 DEF Unrolled
  <2>4. CASE s # T
    BY <1>3, <2>2, <2>4 DEF Unrolled
  <2> QED BY <2>3, <2>4
<1>5. IsSumOf(f, T, G)
  <2> HIDE DEF top
  <2> QED BY <1>4 DEF IsSumOf
<1> QED BY <1>2, <1>5

(* The recursion itself. *)
LEMMA SumStep ==
  ASSUME NEW f, NEW S, IsFiniteSet(S)
  PROVE  SumFunctionOnSet(f, S) =
           IF S = {} THEN 0 ELSE f[Chosen(S)] + SumFunctionOnSet(f, S \ {Chosen(S)})
<1>1. PICK g : IsSumOf(f, S, g)
  BY SumExists
<1>2. g[S] = Unrolled(f, g, S)
  BY <1>1 DEF IsSumOf
<1>3. SumFunctionOnSet(f, S) = g[S]
  BY <1>1, SumIsValue
<1>4. SumFunctionOnSet(f, S \ {Chosen(S)}) = g[S \ {Chosen(S)}]
  BY <1>1, SumIsValue, FS_Subset
<1> QED BY <1>2, <1>3, <1>4 DEF Unrolled

LEMMA SumEmpty ==
  ASSUME NEW f
  PROVE  SumFunctionOnSet(f, {}) = 0
BY SumStep, FS_EmptySet

-----------------------------------------------------------------------------
(* Sums of integers do not depend on the order. *)

LEMMA SumInt ==
  ASSUME NEW f, NEW S, IsFiniteSet(S), \A x \in S : f[x] \in Int
  PROVE  SumFunctionOnSet(f, S) \in Int
<1> DEFINE Bad == {T \in SUBSET S : SumFunctionOnSet(f, T) \notin Int}
<1>1. SUFFICES ASSUME Bad # {} PROVE FALSE
  OBVIOUS
<1>2. PICK T \in Bad : \A t \in Bad : t \subseteq T => t = T
  <2>1. Bad \subseteq SUBSET S
    OBVIOUS
  <2> HIDE DEF Bad
  <2> QED BY <1>1, <2>1, MinimalSubset
<1>3. IsFiniteSet(T) /\ SumFunctionOnSet(f, T) \notin Int
  BY FS_Subset
<1>4. T # {}
  BY <1>3, SumEmpty
<1>5. Chosen(T) \in T
  BY <1>4, PickIn
<1>6. SumFunctionOnSet(f, T \ {Chosen(T)}) \in Int
  BY <1>2, <1>5
<1> QED BY <1>3, <1>4, <1>5, <1>6, SumStep

(* Any element may be the first one. *)
LEMMA SumElement ==
  ASSUME NEW f, NEW S, IsFiniteSet(S), \A x \in S : f[x] \in Int, NEW y \in S
  PROVE  SumFunctionOnSet(f, S) = f[y] + SumFunctionOnSet(f, S \ {y})
<1> DEFINE V(T) == SumFunctionOnSet(f, T)
           Bad == {T \in SUBSET S : \E z \in T : V(T) # f[z] + V(T \ {z})}
<1>1. SUFFICES ASSUME Bad # {} PROVE FALSE
  OBVIOUS
<1>2. PICK T \in Bad : \A t \in Bad : t \subseteq T => t = T
  <2>1. Bad \subseteq SUBSET S
    OBVIOUS
  <2> HIDE DEF Bad
  <2> QED BY <1>1, <2>1, MinimalSubset
<1>3. PICK z \in T : V(T) # f[z] + V(T \ {z})
  OBVIOUS
<1> DEFINE x == Chosen(T)
           U == T \ {x, z}
<1>4. x \in T
  BY <1>3, PickIn
<1>5. IsFiniteSet(T) /\ V(T) = f[x] + V(T \ {x})
  <2>1. IsFiniteSet(T)
    BY FS_Subset
  <2> QED BY <1>3, <2>1, SumStep
<1>6. x # z
  BY <1>3, <1>5
<1>7. V(T \ {x}) = f[z] + V(U)
  <2>1. T \ {x} \notin Bad /\ T \ {x} \in SUBSET S
    BY <1>2, <1>4
  <2>2. z \in T \ {x} /\ U = (T \ {x}) \ {z}
    BY <1>6
  <2> HIDE DEF x, U
  <2> QED BY <2>1, <2>2
<1>8. V(T \ {z}) = f[x] + V(U)
  <2>1. T \ {z} \notin Bad /\ T \ {z} \in SUBSET S
    BY <1>2, <1>3
  <2>2. x \in T \ {z} /\ U = (T \ {z}) \ {x}
    BY <1>4, <1>6
  <2> HIDE DEF x, U
  <2> QED BY <2>1, <2>2
<1>9. f[x] \in Int /\ f[z] \in Int /\ V(U) \in Int
  <2>1. IsFiniteSet(U) /\ U \subseteq S
    BY <1>5, FS_Subset
  <2> QED BY <1>3, <1>4, <2>1, SumInt
<1> HIDE DEF V, x, U, Bad
<1> QED BY <1>3, <1>5, <1>7, <1>8, <1>9

(* The sum of some elements lies within bounds that take in zero, added up     *)
(* over them all.                                                              *)
LEMMA SumOfSome ==
  ASSUME NEW f, NEW low, NEW high, NEW S, IsFiniteSet(S),
         \A x \in S : /\ f[x] \in Int /\ low[x] \in Int /\ high[x] \in Int
                      /\ low[x] <= 0 /\ 0 <= high[x]
                      /\ low[x] <= f[x] /\ f[x] <= high[x],
         NEW T \in SUBSET S
  PROVE  /\ SumFunctionOnSet(low, S) <= SumFunctionOnSet(f, T)
         /\ SumFunctionOnSet(f, T) <= SumFunctionOnSet(high, S)
         /\ SumFunctionOnSet(f, T) \in Int
<1> DEFINE L(U) == SumFunctionOnSet(low, U)
           F(U) == SumFunctionOnSet(f, U \cap T)
           H(U) == SumFunctionOnSet(high, U)
           Bad == {U \in SUBSET S : ~(L(U) <= F(U) /\ F(U) <= H(U))}
<1>1. ASSUME Bad # {} PROVE FALSE
  <2>1. PICK U \in Bad : \A u \in Bad : u \subseteq U => u = U
    <3>1. Bad \subseteq SUBSET S
      OBVIOUS
    <3> HIDE DEF Bad
    <3> QED BY <1>1, <3>1, MinimalSubset
  <2>2. U \in SUBSET S /\ IsFiniteSet(U) /\ IsFiniteSet(U \cap T)
        /\ ~(L(U) <= F(U) /\ F(U) <= H(U))
    BY FS_Subset
  <2>3. U # {}
    <3>1. {} \cap T = {}
      OBVIOUS
    <3>2. L({}) = 0 /\ F({}) = 0 /\ H({}) = 0
      BY <3>1, SumEmpty
    <3> HIDE DEF L, F, H
    <3> QED BY <2>2, <3>2
  <2>4. PICK x \in U : TRUE
    BY <2>3
  <2> DEFINE R == U \ {x}
  <2>5. /\ R \in SUBSET S /\ R \notin Bad /\ IsFiniteSet(R) /\ IsFiniteSet(R \cap T)
    BY <2>1, <2>2, FS_Subset
  <2>6. L(R) \in Int /\ F(R) \in Int /\ H(R) \in Int /\ L(R) <= F(R) /\ F(R) <= H(R)
    BY <2>5, SumInt
  <2>7. L(U) = low[x] + L(R) /\ H(U) = high[x] + H(R)
    BY <2>2, <2>4, SumElement
  <2>8. F(U) = F(R) \/ F(U) = f[x] + F(R)
    <3>1. CASE x \in T
      <4>1. (U \cap T) \ {x} = R \cap T /\ x \in U \cap T
        BY <2>4, <3>1
      <4>2. SumFunctionOnSet(f, U \cap T) = f[x] + SumFunctionOnSet(f, (U \cap T) \ {x})
        BY <2>2, <4>1, SumElement
      <4> QED BY <4>1, <4>2
    <3>2. CASE x \notin T
      <4>1. U \cap T = R \cap T
        BY <3>2
      <4> QED BY <4>1
    <3> QED BY <3>1, <3>2
  <2>9. /\ f[x] \in Int /\ low[x] \in Int /\ high[x] \in Int
        /\ low[x] <= 0 /\ 0 <= high[x] /\ low[x] <= f[x] /\ f[x] <= high[x]
    BY <2>2, <2>4
  <2> HIDE DEF L, F, H, R, Bad
  <2>10. L(U) <= F(U) /\ F(U) <= H(U)
    BY <2>6, <2>7, <2>8, <2>9
  <2> QED BY <2>2, <2>10
<1>2. S \cap T = T /\ S \in SUBSET S /\ IsFiniteSet(T)
  BY FS_Subset
<1>3. L(S) <= F(S) /\ F(S) <= H(S)
  BY <1>1, <1>2
<1>4. SumFunctionOnSet(f, T) \in Int
  BY <1>2, SumInt
<1> QED BY <1>2, <1>3, <1>4

-----------------------------------------------------------------------------
(* Sums over 1..n, the indices of a sequence. *)

LEMMA SumToInt ==
  ASSUME NEW n \in Nat, NEW f, \A i \in 1..n : f[i] \in Int
  PROVE  SumFunctionOnSet(f, 1..n) \in Int
<1>1. IsFiniteSet(1..n)
  BY FS_Interval
<1> QED BY <1>1, SumInt

LEMMA SumToNext ==
  ASSUME NEW n \in Nat, NEW f, \A i \in 1..(n + 1) : f[i] \in Int
  PROVE  SumFunctionOnSet(f, 1..(n + 1)) = SumFunctionOnSet(f, 1..n) + f[n + 1]
<1>1. n + 1 \in 1..(n + 1) /\ (1..(n + 1)) \ {n + 1} = 1..n
  OBVIOUS
<1>2. IsFiniteSet(1..(n + 1))
  BY FS_Interval
<1>3. SumFunctionOnSet(f, 1..(n + 1)) = f[n + 1] + SumFunctionOnSet(f, (1..(n + 1)) \ {n + 1})
  BY <1>1, <1>2, SumElement
<1>4. SumFunctionOnSet(f, 1..n) \in Int /\ f[n + 1] \in Int
  BY <1>1, SumToInt
<1>5. SumFunctionOnSet(f, 1..(n + 1)) = f[n + 1] + SumFunctionOnSet(f, 1..n)
  BY <1>1, <1>3, Zenon
<1> QED BY <1>4, <1>5

(* What is greater term by term is greater. *)
LEMMA SumMonotone ==
  ASSUME NEW n \in Nat, NEW f, NEW g,
         \A i \in 1..n : f[i] \in Int /\ g[i] \in Int /\ f[i] <= g[i]
  PROVE  SumFunctionOnSet(f, 1..n) <= SumFunctionOnSet(g, 1..n)
<1> DEFINE F(k) == SumFunctionOnSet(f, 1..k)
           G(k) == SumFunctionOnSet(g, 1..k)
           Bad == {k \in 0..n : ~(F(k) <= G(k))}
<1>1. SUFFICES ASSUME Bad # {} PROVE FALSE
  OBVIOUS
<1>2. PICK k \in Bad : \A m \in Bad : k <= m
  <2>1. Bad \subseteq Nat
    OBVIOUS
  <2> HIDE DEF Bad
  <2> QED BY <1>1, <2>1, LeastNumber
<1>3. k # 0
  BY SumEmpty
<1>4. /\ k - 1 \in Nat /\ k - 1 \in 0..n /\ k = (k - 1) + 1 /\ k - 1 \notin Bad
      /\ k \in 1..n /\ \A i \in 1..k : i \in 1..n
  BY <1>2, <1>3
<1>5. F(k - 1) <= G(k - 1)
  BY <1>4
<1>6. F(k) = F(k - 1) + f[k] /\ G(k) = G(k - 1) + g[k]
  BY <1>4, SumToNext
<1>7. F(k - 1) \in Int /\ G(k - 1) \in Int
  BY <1>4, SumToInt
<1>8. ~(F(k) <= G(k))
  OBVIOUS
<1> HIDE DEF F, G, Bad
<1> QED BY <1>4, <1>5, <1>6, <1>7, <1>8

LEMMA SumSame ==
  ASSUME NEW n \in Nat, NEW f, NEW g, \A i \in 1..n : f[i] \in Int /\ g[i] = f[i]
  PROVE  SumFunctionOnSet(f, 1..n) = SumFunctionOnSet(g, 1..n)
<1>1. /\ SumFunctionOnSet(f, 1..n) <= SumFunctionOnSet(g, 1..n)
      /\ SumFunctionOnSet(g, 1..n) <= SumFunctionOnSet(f, 1..n)
  BY SumMonotone
<1> QED BY <1>1, SumToInt

LEMMA SumOpposite ==
  ASSUME NEW n \in Nat, NEW f, NEW g, \A i \in 1..n : f[i] \in Int /\ g[i] = -f[i]
  PROVE  SumFunctionOnSet(g, 1..n) = -SumFunctionOnSet(f, 1..n)
<1> DEFINE F(k) == SumFunctionOnSet(f, 1..k)
           G(k) == SumFunctionOnSet(g, 1..k)
           Bad == {k \in 0..n : G(k) # -F(k)}
<1>1. SUFFICES ASSUME Bad # {} PROVE FALSE
  OBVIOUS
<1>2. PICK k \in Bad : \A m \in Bad : k <= m
  <2>1. Bad \subseteq Nat
    OBVIOUS
  <2> HIDE DEF Bad
  <2> QED BY <1>1, <2>1, LeastNumber
<1>3. k # 0
  BY SumEmpty
<1>4. /\ k - 1 \in Nat /\ k - 1 \in 0..n /\ k = (k - 1) + 1 /\ k - 1 \notin Bad
      /\ k \in 1..n /\ \A i \in 1..k : i \in 1..n
  BY <1>2, <1>3
<1>5. G(k - 1) = -F(k - 1)
  BY <1>4
<1>6. F(k) = F(k - 1) + f[k] /\ G(k) = G(k - 1) + g[k]
  BY <1>4, SumToNext
<1>7. F(k - 1) \in Int /\ f[k] \in Int /\ g[k] = -f[k]
  BY <1>4, SumToInt
<1>8. G(k) # -F(k)
  OBVIOUS
<1> HIDE DEF F, G, Bad
<1> QED BY <1>5, <1>6, <1>7, <1>8

(* A sum over two sequences, one after the other. *)
LEMMA SumConcat ==
  ASSUME NEW m \in Nat, NEW n \in Nat, NEW f, NEW g, NEW h,
         \A i \in 1..m : f[i] \in Int /\ h[i] = f[i],
         \A i \in 1..n : g[i] \in Int /\ h[m + i] = g[i]
  PROVE  SumFunctionOnSet(h, 1..(m + n))
           = SumFunctionOnSet(f, 1..m) + SumFunctionOnSet(g, 1..n)
<1> DEFINE F == SumFunctionOnSet(f, 1..m)
           G(k) == SumFunctionOnSet(g, 1..k)
           H(k) == SumFunctionOnSet(h, 1..(m + k))
           Bad == {k \in 0..n : H(k) # F + G(k)}
<1>1. SUFFICES ASSUME Bad # {} PROVE FALSE
  OBVIOUS
<1>2. PICK k \in Bad : \A j \in Bad : k <= j
  <2>1. Bad \subseteq Nat
    OBVIOUS
  <2> HIDE DEF Bad
  <2> QED BY <1>1, <2>1, LeastNumber
<1>3. F \in Int /\ H(0) = F /\ G(0) = 0
  <2>1. F \in Int /\ F = SumFunctionOnSet(h, 1..m)
    BY SumToInt, SumSame
  <2>2. m + 0 = m /\ 1..0 = {}
    OBVIOUS
  <2> QED BY <2>1, <2>2, SumEmpty
<1>4. k # 0
  <2> HIDE DEF F, G, H
  <2> QED BY <1>3
<1>5. /\ k - 1 \in Nat /\ k - 1 \in 0..n /\ k = (k - 1) + 1 /\ k - 1 \notin Bad
      /\ k \in 1..n /\ \A i \in 1..k : i \in 1..n
  BY <1>2, <1>4
<1>6. H(k - 1) = F + G(k - 1)
  BY <1>5
<1>7. G(k) = G(k - 1) + g[k] /\ G(k - 1) \in Int
  BY <1>5, SumToNext, SumToInt
<1>8. H(k) = H(k - 1) + h[m + k]
  <2>1. ASSUME NEW i \in 1..(m + k) PROVE h[i] \in Int
    <3>1. CASE i \in 1..m
      BY <3>1
    <3>2. CASE i \notin 1..m
      <4>1. i - m \in 1..n /\ i = m + (i - m)
        BY <1>5, <3>2
      <4> QED BY <4>1
    <3> QED BY <3>1, <3>2
  <2>2. m + k = (m + (k - 1)) + 1 /\ m + (k - 1) \in Nat
    BY <1>5
  <2> QED BY <2>1, <2>2, SumToNext
<1>9. H(k) # F + G(k) /\ g[k] \in Int /\ h[m + k] = g[k]
  BY <1>5
<1> HIDE DEF F, G, H, Bad
<1> QED BY <1>3, <1>6, <1>7, <1>8, <1>9

-----------------------------------------------------------------------------
(* The value of an expression under an assignment. *)

(* The assignment gives every variable of the terms an integer. *)
Assigns(a, terms) == \A i \in DOMAIN terms : a[terms[i][1]] \in Int

TermsType == Seq(Nat \X Int64)
Products(terms, a) == [i \in DOMAIN terms |-> terms[i][2] * a[terms[i][1]]]

LEMMA TermFacts ==
  ASSUME NEW terms \in TermsType
  PROVE  /\ Len(terms) \in Nat /\ DOMAIN terms = 1..Len(terms)
         /\ \A i \in DOMAIN terms :
              /\ terms[i] \in Nat \X Int64
              /\ terms[i][1] \in Nat /\ terms[i][2] \in Int64 /\ terms[i][2] \in Int
              /\ terms[i] = <<terms[i][1], terms[i][2]>>
<1>1. Len(terms) \in Nat /\ DOMAIN terms = 1..Len(terms)
  BY DEF TermsType
<1>2. \A i \in DOMAIN terms : terms[i] \in Nat \X Int64
  BY DEF TermsType
<1>3. Int64 \subseteq Int
  BY HalfFacts DEF Int64
<1>4. ASSUME NEW p \in Nat \X Int64
      PROVE  p[1] \in Nat /\ p[2] \in Int64 /\ p = <<p[1], p[2]>>
  OBVIOUS
<1> QED BY <1>1, <1>2, <1>3, <1>4, Zenon

LEMMA ProductInt ==
  ASSUME NEW x \in Int, NEW y \in Int
  PROVE  x * y \in Int
OBVIOUS

LEMMA SumOfTerms ==
  ASSUME NEW terms \in TermsType, NEW a, Assigns(a, terms)
  PROVE  /\ SumOf(terms, a) = SumFunctionOnSet(Products(terms, a), 1..Len(terms))
         /\ \A i \in 1..Len(terms) :
              /\ Products(terms, a)[i] = terms[i][2] * a[terms[i][1]]
              /\ Products(terms, a)[i] \in Int
         /\ SumOf(terms, a) \in Int
<1>1. DOMAIN Products(terms, a) = 1..Len(terms)
  BY TermFacts DEF Products
<1>2. SumOf(terms, a) = SumFunctionOnSet(Products(terms, a), 1..Len(terms))
  <2>1. SumOf(terms, a) = SumFunction(Products(terms, a))
    BY DEF SumOf, Products
  <2> QED BY <1>1, <2>1 DEF SumFunction
<1>3. ASSUME NEW i \in 1..Len(terms)
      PROVE  /\ Products(terms, a)[i] = terms[i][2] * a[terms[i][1]]
             /\ Products(terms, a)[i] \in Int
  <2>1. i \in DOMAIN terms /\ terms[i][2] \in Int /\ a[terms[i][1]] \in Int
    BY TermFacts DEF Assigns
  <2>2. terms[i][2] * a[terms[i][1]] \in Int
    BY <2>1, ProductInt
  <2> QED BY <2>1, <2>2 DEF Products
<1>4. SumOf(terms, a) \in Int
  BY <1>2, <1>3, TermFacts, SumToInt
<1> QED BY <1>2, <1>3, <1>4

LEMMA SumOfNone ==
  ASSUME NEW a
  PROVE  SumOf(<< >>, a) = 0
<1>1. << >> \in TermsType /\ Assigns(a, << >>) /\ 1..Len(<< >>) = {}
  BY DEF TermsType, Assigns
<1> QED BY <1>1, SumOfTerms, SumEmpty

(* The sum of two expressions' terms. *)
LEMMA SumOfBoth ==
  ASSUME NEW s \in TermsType, NEW t \in TermsType, NEW a, Assigns(a, s), Assigns(a, t)
  PROVE  SumOf(s \o t, a) = SumOf(s, a) + SumOf(t, a) /\ Assigns(a, s \o t)
<1>1. /\ s \o t \in TermsType /\ Len(s \o t) = Len(s) + Len(t)
      /\ \A i \in 1..Len(s) : (s \o t)[i] = s[i]
      /\ \A i \in 1..Len(t) : (s \o t)[Len(s) + i] = t[i]
  BY DEF TermsType
<1>2. Assigns(a, s \o t)
  <2> SUFFICES ASSUME NEW i \in DOMAIN (s \o t)
               PROVE  a[(s \o t)[i][1]] \in Int
    BY DEF Assigns
  <2>1. CASE i \in 1..Len(s)
    BY <1>1, <2>1, TermFacts DEF Assigns
  <2>2. CASE i \notin 1..Len(s)
    <3>1. i - Len(s) \in 1..Len(t) /\ i = Len(s) + (i - Len(s))
      BY <1>1, <2>2, TermFacts
    <3>2. (s \o t)[i] = t[i - Len(s)]
      BY <1>1, <3>1
    <3> QED BY <3>1, <3>2, TermFacts DEF Assigns
  <2> QED BY <2>1, <2>2
<1> DEFINE f == Products(s, a)
           g == Products(t, a)
           h == Products(s \o t, a)
<1>3. ASSUME NEW i \in 1..Len(s) PROVE f[i] \in Int /\ h[i] = f[i]
  <2>1. i \in 1..Len(s \o t)
    BY <1>1, TermFacts
  <2>2. h[i] = (s \o t)[i][2] * a[(s \o t)[i][1]]
    BY <1>1, <1>2, <2>1, SumOfTerms
  <2>3. f[i] = s[i][2] * a[s[i][1]] /\ f[i] \in Int
    BY SumOfTerms
  <2> HIDE DEF f, h
  <2> QED BY <1>1, <2>2, <2>3
<1>4. ASSUME NEW i \in 1..Len(t) PROVE g[i] \in Int /\ h[Len(s) + i] = g[i]
  <2>1. Len(s) + i \in 1..Len(s \o t)
    BY <1>1, TermFacts
  <2>2. h[Len(s) + i] = (s \o t)[Len(s) + i][2] * a[(s \o t)[Len(s) + i][1]]
    BY <1>1, <1>2, <2>1, SumOfTerms
  <2>3. g[i] = t[i][2] * a[t[i][1]] /\ g[i] \in Int
    BY SumOfTerms
  <2> HIDE DEF g, h
  <2> QED BY <1>1, <2>2, <2>3
<1>5. /\ SumOf(s, a) = SumFunctionOnSet(f, 1..Len(s))
      /\ SumOf(t, a) = SumFunctionOnSet(g, 1..Len(t))
      /\ SumOf(s \o t, a) = SumFunctionOnSet(h, 1..(Len(s) + Len(t)))
  BY <1>1, <1>2, SumOfTerms
<1>6. Len(s) \in Nat /\ Len(t) \in Nat
  BY TermFacts
<1> HIDE DEF f, g, h
<1>7. SumFunctionOnSet(h, 1..(Len(s) + Len(t)))
        = SumFunctionOnSet(f, 1..Len(s)) + SumFunctionOnSet(g, 1..Len(t))
  BY <1>3, <1>4, <1>6, SumConcat
<1> QED BY <1>2, <1>5, <1>7


-----------------------------------------------------------------------------
(* Negation and subtraction, in Int64. *)

LEMMA WrapOpposite ==
  ASSUME NEW c \in Int64
  PROVE  /\ c # MinInt => Wrap((-1) * c) = -c
         /\ c = MinInt => Wrap((-1) * c) = MinInt
<1>1. CASE c # MinInt
  <2>1. (-1) * c = -c /\ -c \in Int64
    BY <1>1, HalfFacts DEF Int64
  <2> QED BY <1>1, <2>1, WrapWithin
<1>2. CASE c = MinInt
  <2>1. (-1) * c = MaxInt + 1 /\ (MaxInt + 1) - MinInt = 2 * (MaxInt + 1)
    BY <1>2, HalfFacts
  <2>2. (2 * (MaxInt + 1)) % (2 * (MaxInt + 1)) = 0
    BY HalfFacts
  <2>3. Wrap(MaxInt + 1) = (((MaxInt + 1) - MinInt) % (2 * (MaxInt + 1))) + MinInt
    BY DEF Wrap
  <2>4. Wrap(MaxInt + 1) = 0 + MinInt
    BY <2>1, <2>2, <2>3
  <2> QED BY <1>2, <2>1, <2>4, HalfFacts
<1> QED BY <1>1, <1>2

LEMMA ExprFacts ==
  ASSUME NEW e \in ExprType
  PROVE  e.terms \in TermsType /\ e.constant \in Int64 /\ e.constant \in Int
BY HalfFacts DEF ExprType, TermsType, Int64

(* No coefficient is the one number of Int64 without an opposite. *)
Negatable(terms) == \A i \in DOMAIN terms : terms[i][2] # MinInt

LEMMA NegateTerms ==
  ASSUME NEW e \in ExprType
  PROVE  /\ Negate(e).terms \in TermsType /\ DOMAIN Negate(e).terms = DOMAIN e.terms
         /\ Len(Negate(e).terms) = Len(e.terms)
         /\ \A i \in DOMAIN e.terms :
              /\ Negate(e).terms[i][1] = e.terms[i][1]
              /\ Negate(e).terms[i][2] = Wrap((-1) * e.terms[i][2])
         /\ Negate(e).constant = Wrap((-1) * e.constant)
<1> DEFINE t == [i \in DOMAIN e.terms |-> <<e.terms[i][1], Wrap((-1) * e.terms[i][2])>>]
<1>1. Negate(e).terms = t /\ Negate(e).constant = Wrap((-1) * e.constant)
  BY DEF Negate, Times, Expr
<1>2. Negate(e).terms \in TermsType
  BY NegateType, ExprFacts
<1>3. DOMAIN t = DOMAIN e.terms
  OBVIOUS
<1>4. \A i \in DOMAIN e.terms : t[i][1] = e.terms[i][1] /\ t[i][2] = Wrap((-1) * e.terms[i][2])
  OBVIOUS
<1>5. Len(t) = Len(e.terms)
  <2>1. 1..Len(t) = 1..Len(e.terms) /\ Len(t) \in Nat /\ Len(e.terms) \in Nat
    BY <1>1, <1>2, <1>3, TermFacts, ExprFacts
  <2> HIDE DEF t
  <2> QED BY <2>1
<1> HIDE DEF t
<1> QED BY <1>1, <1>2, <1>3, <1>4, <1>5

LEMMA NegatedSum ==
  ASSUME NEW e \in ExprType, Negatable(e.terms), NEW a, Assigns(a, e.terms)
  PROVE  /\ SumOf(Negate(e).terms, a) = -SumOf(e.terms, a)
         /\ Assigns(a, Negate(e).terms)
<1> DEFINE t == Negate(e).terms
           n == Len(e.terms)
           f == Products(e.terms, a)
           g == Products(t, a)
<1>1. /\ t \in TermsType /\ DOMAIN t = DOMAIN e.terms /\ Len(t) = n
      /\ n \in Nat /\ DOMAIN e.terms = 1..n /\ e.terms \in TermsType
  BY NegateTerms, TermFacts, ExprFacts
<1>2. ASSUME NEW i \in 1..n
      PROVE  t[i][1] = e.terms[i][1] /\ t[i][2] = -e.terms[i][2] /\ e.terms[i][2] \in Int
  <2>1. e.terms[i][2] \in Int64 /\ e.terms[i][2] # MinInt /\ e.terms[i][2] \in Int
    BY <1>1, TermFacts DEF Negatable
  <2> QED BY <1>1, <2>1, NegateTerms, WrapOpposite
<1>3. Assigns(a, t)
  BY <1>1, <1>2 DEF Assigns
<1>4. ASSUME NEW i \in 1..n PROVE f[i] \in Int /\ g[i] = -f[i]
  <2>1. f[i] = e.terms[i][2] * a[e.terms[i][1]] /\ f[i] \in Int
    BY <1>1, SumOfTerms
  <2>2. g[i] = t[i][2] * a[t[i][1]]
    BY <1>1, <1>3, SumOfTerms
  <2>3. a[e.terms[i][1]] \in Int
    BY <1>1 DEF Assigns
  <2>4. ASSUME NEW c \in Int, NEW x \in Int PROVE (-c) * x = -(c * x)
    OBVIOUS
  <2> HIDE DEF f, g, t
  <2> QED BY <1>2, <2>1, <2>2, <2>3, <2>4
<1>5. /\ SumOf(e.terms, a) = SumFunctionOnSet(f, 1..n)
      /\ SumOf(t, a) = SumFunctionOnSet(g, 1..n)
  BY <1>1, <1>3, SumOfTerms
<1> HIDE DEF f, g, t
<1>6. SumFunctionOnSet(g, 1..n) = -SumFunctionOnSet(f, 1..n)
  BY <1>1, <1>4, SumOpposite
<1>7. SumOf(t, a) = -SumOf(e.terms, a) /\ Assigns(a, t)
  BY <1>3, <1>5, <1>6
<1> QED BY <1>7 DEF t

LEMMA MinusTerms ==
  ASSUME NEW d \in ExprType, NEW e \in ExprType
  PROVE  Minus(d, e).terms = d.terms \o Negate(e).terms
BY DEF Minus, Plus, Expr

(* A difference whose coefficients all have an opposite was of one like it. *)
LEMMA MinusNegatable ==
  ASSUME NEW d \in ExprType, NEW e \in ExprType, Negatable(d.terms \o Negate(e).terms)
  PROVE  Negatable(e.terms)
<1> DEFINE s == d.terms
           t == Negate(e).terms
<1>1. s \in TermsType /\ t \in TermsType /\ DOMAIN t = DOMAIN e.terms /\ e.terms \in TermsType
  BY NegateTerms, ExprFacts
<1> SUFFICES ASSUME NEW i \in DOMAIN e.terms, e.terms[i][2] = MinInt
             PROVE  FALSE
  BY DEF Negatable
<1>2. t[i][2] = MinInt
  BY <1>1, NegateTerms, TermFacts, WrapOpposite
<1>3. (s \o t)[Len(s) + i] = t[i] /\ Len(s) + i \in DOMAIN (s \o t)
  <2> HIDE DEF s, t
  <2>1. i \in 1..Len(t) /\ Len(s) \in Nat /\ Len(t) \in Nat
    BY <1>1, TermFacts
  <2> QED BY <1>1, <2>1 DEF TermsType
<1> QED BY <1>2, <1>3 DEF Negatable

LEMMA DifferenceOfSums ==
  ASSUME NEW d \in ExprType, NEW e \in ExprType, Negatable(e.terms),
         NEW a, Assigns(a, d.terms), Assigns(a, e.terms)
  PROVE  SumOf(d.terms \o Negate(e).terms, a) = SumOf(d.terms, a) - SumOf(e.terms, a)
<1>1. /\ d.terms \in TermsType /\ e.terms \in TermsType /\ Negate(e).terms \in TermsType
      /\ SumOf(d.terms, a) \in Int /\ SumOf(e.terms, a) \in Int
  BY ExprFacts, NegateTerms, SumOfTerms
<1>2. /\ SumOf(Negate(e).terms, a) = -SumOf(e.terms, a)
      /\ Assigns(a, Negate(e).terms)
  BY NegatedSum
<1>3. SumOf(d.terms \o Negate(e).terms, a) = SumOf(d.terms, a) + SumOf(Negate(e).terms, a)
  BY <1>1, <1>2, SumOfBoth
<1> QED BY <1>1, <1>2, <1>3

-----------------------------------------------------------------------------
(* The ends of a domain, and what a term adds. *)

Lo(domain) == domain[1][1]
Hi(domain) == domain[Len(domain)][2]

LEMMA DomainFacts ==
  ASSUME NEW domain \in DomainType
  PROVE  /\ Len(domain) \in Nat /\ DOMAIN domain = 1..Len(domain)
         /\ \A i \in DOMAIN domain : /\ domain[i][1] \in Int64 /\ domain[i][1] \in Int
                                     /\ domain[i][2] \in Int64 /\ domain[i][2] \in Int
<1>1. Int64 \subseteq Int
  BY HalfFacts DEF Int64
<1>2. \A i \in DOMAIN domain : domain[i] \in Int64 \X Int64
  BY DEF DomainType
<1>3. Len(domain) \in Nat /\ DOMAIN domain = 1..Len(domain)
  BY DEF DomainType
<1>4. ASSUME NEW p \in Int64 \X Int64 PROVE p[1] \in Int64 /\ p[2] \in Int64
  OBVIOUS
<1> QED BY <1>1, <1>2, <1>3, <1>4, Zenon

(* The intervals of a valid domain lie between its ends, in their order. *)
LEMMA FirstIsLeast ==
  ASSUME NEW domain \in DomainType, DomainInProtoIsValid(domain), NEW i \in DOMAIN domain
  PROVE  Lo(domain) <= domain[i][1]
<1> DEFINE Bad == {k \in DOMAIN domain : ~(Lo(domain) <= domain[k][1])}
<1>1. SUFFICES ASSUME Bad # {} PROVE FALSE
  OBVIOUS
<1>2. PICK k \in Bad : \A m \in Bad : k <= m
  <2>1. Bad \subseteq Nat
    BY DomainFacts
  <2> HIDE DEF Bad
  <2> QED BY <1>1, <2>1, LeastNumber
<1>3. k # 1
  BY DomainFacts DEF Lo
<1>4. k \in 2..Len(domain) /\ k - 1 \in DOMAIN domain /\ k - 1 \notin Bad /\ 1 \in DOMAIN domain
  BY <1>2, <1>3, DomainFacts
<1>5. domain[k - 1][2] + 1 < domain[k][1] /\ domain[k - 1][1] <= domain[k - 1][2]
  BY <1>4 DEF DomainInProtoIsValid
<1>6. Lo(domain) <= domain[k - 1][1] /\ Lo(domain) \in Int
  BY <1>4, DomainFacts DEF Lo
<1>7. /\ domain[k - 1][1] \in Int /\ domain[k - 1][2] \in Int
      /\ domain[k][1] \in Int
  BY <1>4, DomainFacts
<1> QED BY <1>5, <1>6, <1>7

LEMMA LastIsGreatest ==
  ASSUME NEW domain \in DomainType, DomainInProtoIsValid(domain), NEW i \in DOMAIN domain
  PROVE  domain[i][2] <= Hi(domain)
<1> DEFINE n == Len(domain)
           Bad == {k \in 0..(n - 1) : ~(domain[n - k][2] <= Hi(domain))}
<1>0. n \in Nat /\ i \in 1..n
  BY DomainFacts
<1>1. SUFFICES ASSUME Bad # {} PROVE FALSE
  <2>1. n - i \in 0..(n - 1) /\ n - (n - i) = i
    BY <1>0
  <2> QED BY <2>1
<1>2. PICK k \in Bad : \A m \in Bad : k <= m
  <2>1. Bad \subseteq Nat
    OBVIOUS
  <2> HIDE DEF Bad
  <2> QED BY <1>1, <2>1, LeastNumber
<1>3. k # 0
  <2>1. domain[n][2] \in Int /\ n - 0 = n
    BY <1>0, DomainFacts
  <2> QED BY <2>1 DEF Hi
<1> DEFINE j == n - k
<1>4. j \in 1..(n - 1) /\ j + 1 \in 2..n /\ k - 1 \in 0..(n - 1) /\ n - (k - 1) = j + 1
      /\ k - 1 \notin Bad
  <2>1. k \in 0..(n - 1) /\ k \in Nat /\ k - 1 \in Int
    OBVIOUS
  <2>2. k - 1 \notin Bad
    <3>1. ~(k <= k - 1)
      BY <2>1
    <3> HIDE DEF Bad
    <3> QED BY <1>2, <3>1
  <2>3. /\ n - k \in 1..(n - 1) /\ (n - k) + 1 \in 2..n /\ k - 1 \in 0..(n - 1)
        /\ n - (k - 1) = (n - k) + 1
    <3> HIDE DEF n, Bad
    <3> QED BY <1>0, <1>3, <2>1
  <2> QED BY <2>2, <2>3
<1>5. ~(domain[j][2] <= Hi(domain)) /\ domain[j + 1][2] <= Hi(domain)
  BY <1>4
<1>6. j \in DOMAIN domain /\ j + 1 \in DOMAIN domain /\ n \in DOMAIN domain /\ (j + 1) - 1 = j
  BY <1>0, <1>4, DomainFacts
<1> HIDE DEF j
<1>7. domain[j][2] + 1 < domain[j + 1][1] /\ domain[j + 1][1] <= domain[j + 1][2]
  BY <1>4, <1>6 DEF DomainInProtoIsValid
<1>8. /\ domain[j][2] \in Int /\ domain[j + 1][1] \in Int /\ domain[j + 1][2] \in Int
      /\ Hi(domain) \in Int
  BY <1>6, DomainFacts DEF Hi
<1> QED BY <1>5, <1>7, <1>8

LEMMA DomainEnds ==
  ASSUME NEW domain \in DomainType, ValidateIntegerVariable(domain)
  PROVE  /\ Lo(domain) \in -Half..Half /\ Hi(domain) \in -Half..Half
         /\ Lo(domain) \in Int /\ Hi(domain) \in Int /\ Lo(domain) <= Hi(domain)
         /\ \A x \in Int : DomainInProtoContains(domain, x) => Lo(domain) <= x /\ x <= Hi(domain)
<1>1. 1 \in DOMAIN domain /\ Len(domain) \in DOMAIN domain
  <2>1. domain # << >> => Len(domain) # 0
    BY DEF DomainType
  <2> QED BY <2>1, DomainFacts DEF ValidateIntegerVariable
<1>2. Lo(domain) \in Int /\ Hi(domain) \in Int
  BY <1>1, DomainFacts DEF Lo, Hi
<1>3. DomainInProtoIsValid(domain) /\ Lo(domain) >= -Half /\ Hi(domain) <= Half
  BY DEF ValidateIntegerVariable, Lo, Hi
<1>4. \A i \in DOMAIN domain : Lo(domain) <= domain[i][1] /\ domain[i][2] <= Hi(domain)
                               /\ domain[i][1] <= domain[i][2]
  BY <1>3, FirstIsLeast, LastIsGreatest DEF DomainInProtoIsValid
<1>5. Lo(domain) <= Hi(domain)
  BY <1>1, <1>2, <1>4, DomainFacts
<1>6. ASSUME NEW x \in Int, DomainInProtoContains(domain, x)
      PROVE  Lo(domain) <= x /\ x <= Hi(domain)
  <2>1. PICK i \in DOMAIN domain : domain[i][1] <= x /\ x <= domain[i][2]
    BY <1>6 DEF DomainInProtoContains
  <2>2. Lo(domain) <= domain[i][1] /\ domain[i][2] <= Hi(domain)
    BY <1>4
  <2>3. domain[i][1] \in Int /\ domain[i][2] \in Int
    BY DomainFacts
  <2> QED BY <1>2, <2>1, <2>2, <2>3
<1> QED BY <1>2, <1>3, <1>5, <1>6, HalfFacts

LEMMA ProductBetween ==
  ASSUME NEW c \in Int, NEW lo \in Int, NEW x \in Int, NEW hi \in Int, lo <= x, x <= hi
  PROVE  /\ c >= 0 => c * lo <= c * x /\ c * x <= c * hi
         /\ c <= 0 => c * hi <= c * x /\ c * x <= c * lo
<1>1. /\ c * (x - lo) = c * x - c * lo
      /\ c * (hi - x) = c * hi - c * x
  OBVIOUS
<1>2. c >= 0 => c * (x - lo) >= 0 /\ c * (hi - x) >= 0
  OBVIOUS
<1>3. c <= 0 => c * (x - lo) <= 0 /\ c * (hi - x) <= 0
  OBVIOUS
<1>4. c * x \in Int /\ c * lo \in Int /\ c * hi \in Int
  BY ProductInt
<1> QED BY <1>1, <1>2, <1>3, <1>4

(* The least and the greatest of 0, x and y. *)
Least(x, y) == Min({0, x, y})
Greatest(x, y) == Max({0, x, y})

LEMMA LeastFacts ==
  ASSUME NEW x \in Int, NEW y \in Int
  PROVE  /\ Least(x, y) \in {0, x, y} /\ Least(x, y) \in Int
         /\ Least(x, y) <= 0 /\ Least(x, y) <= x /\ Least(x, y) <= y
<1> DEFINE S == {0, x, y}
<1>1. \E m \in S : \A k \in S : m <= k
  <2>1. CASE 0 <= x /\ 0 <= y
    BY <2>1
  <2>2. CASE x <= 0 /\ x <= y
    BY <2>2
  <2>3. CASE y <= 0 /\ y <= x
    BY <2>3
  <2> QED BY <2>1, <2>2, <2>3
<1>2. Min(S) \in S /\ \A k \in S : Min(S) <= k
  <2> HIDE DEF S
  <2> QED BY <1>1, Zenon DEF Min
<1> QED BY <1>2 DEF Least

LEMMA GreatestFacts ==
  ASSUME NEW x \in Int, NEW y \in Int
  PROVE  /\ Greatest(x, y) \in {0, x, y} /\ Greatest(x, y) \in Int
         /\ Greatest(x, y) >= 0 /\ Greatest(x, y) >= x /\ Greatest(x, y) >= y
<1> DEFINE S == {0, x, y}
<1>1. \E m \in S : \A k \in S : m >= k
  <2>1. CASE 0 >= x /\ 0 >= y
    BY <2>1
  <2>2. CASE x >= 0 /\ x >= y
    BY <2>2
  <2>3. CASE y >= 0 /\ y >= x
    BY <2>3
  <2> QED BY <2>1, <2>2, <2>3
<1>2. Max(S) \in S /\ \A k \in S : Max(S) >= k
  <2> HIDE DEF S
  <2> QED BY <1>1, Zenon DEF Max
<1> QED BY <1>2 DEF Greatest

-----------------------------------------------------------------------------
(* The bounds FitsInt64 adds up. *)

(* The domains of variables, each one CP-SAT takes. *)
VariableDomains ==
  {domains \in Seq(DomainType) : \A i \in DOMAIN domains : ValidateIntegerVariable(domains[i])}

(* The terms are of variables that have a domain. *)
Uses(terms, domains) == \A i \in DOMAIN terms : terms[i][1] \in 0..Len(domains) - 1

(* The assignment gives each variable a value of its domain. *)
Respects(a, domains) ==
  \A v \in 0..Len(domains) - 1 :
    a[v] \in Int /\ DomainInProtoContains(domains[v + 1], a[v])

Below(terms, domains) == [i \in DOMAIN terms |-> TermBounds(terms[i], domains)[1]]
Above(terms, domains) == [i \in DOMAIN terms |-> TermBounds(terms[i], domains)[2]]

LEMMA VariableFacts ==
  ASSUME NEW domains \in VariableDomains, NEW v \in 0..Len(domains) - 1
  PROVE  /\ domains[v + 1] \in DomainType /\ ValidateIntegerVariable(domains[v + 1])
         /\ Lo(domains[v + 1]) \in Int /\ Hi(domains[v + 1]) \in Int
         /\ Lo(domains[v + 1]) <= Hi(domains[v + 1])
<1>1. domains[v + 1] \in DomainType /\ ValidateIntegerVariable(domains[v + 1])
  <2>1. v + 1 \in DOMAIN domains /\ domains \in Seq(DomainType)
    BY DEF VariableDomains
  <2> QED BY <2>1 DEF VariableDomains
<1> QED BY <1>1, DomainEnds

LEMMA ValueWithin ==
  ASSUME NEW domains \in VariableDomains, NEW v \in 0..Len(domains) - 1,
         NEW a, Respects(a, domains)
  PROVE  a[v] \in Int /\ Lo(domains[v + 1]) <= a[v] /\ a[v] <= Hi(domains[v + 1])
<1>1. a[v] \in Int /\ DomainInProtoContains(domains[v + 1], a[v])
  BY DEF Respects
<1> QED BY <1>1, VariableFacts, DomainEnds

(* A bound of a term with coefficient c on a variable between lo and hi. *)
LEMMA BoundsOfTerm ==
  ASSUME NEW domains \in VariableDomains, NEW v \in 0..Len(domains) - 1, NEW c \in Int
  PROVE  LET lo == Lo(domains[v + 1])
             hi == Hi(domains[v + 1])
             bounds == TermBounds(<<v, c>>, domains)
         IN /\ bounds[1] = Least(c * lo, c * hi)
            /\ bounds[2] = Greatest(c * lo, c * hi)
            /\ c * lo \in Int /\ c * hi \in Int
            /\ bounds[1] \in Int /\ bounds[2] \in Int
            /\ bounds[1] <= 0 /\ bounds[2] >= 0
<1> DEFINE lo == Lo(domains[v + 1])
           hi == Hi(domains[v + 1])
           bounds == TermBounds(<<v, c>>, domains)
<1>1. bounds = <<Least(c * lo, c * hi), Greatest(c * lo, c * hi)>>
  BY Zenon DEF TermBounds, Lo, Hi, Least, Greatest
<1>2. c * lo \in Int /\ c * hi \in Int
  <2>1. lo \in Int /\ hi \in Int
    BY VariableFacts
  <2> QED BY <2>1, ProductInt
<1>3. bounds[1] = Least(c * lo, c * hi) /\ bounds[2] = Greatest(c * lo, c * hi)
  BY <1>1
<1> DEFINE p == c * lo
           q == c * hi
<1> HIDE DEF lo, hi, bounds, p, q
<1>4. p \in Int /\ q \in Int /\ bounds[1] = Least(p, q) /\ bounds[2] = Greatest(p, q)
  BY <1>2, <1>3 DEF p, q
<1>5. Least(p, q) \in {0, p, q} /\ Least(p, q) <= 0
  BY <1>4, LeastFacts
<1>6. Greatest(p, q) \in {0, p, q} /\ Greatest(p, q) >= 0
  BY <1>4, GreatestFacts
<1>7. bounds[1] \in Int /\ bounds[2] \in Int /\ bounds[1] <= 0 /\ bounds[2] >= 0
  BY <1>4, <1>5, <1>6
<1> QED BY <1>2, <1>3, <1>7 DEF lo, hi, bounds

LEMMA TermWithin ==
  ASSUME NEW domains \in VariableDomains, NEW v \in 0..Len(domains) - 1, NEW c \in Int,
         NEW a, Respects(a, domains)
  PROVE  /\ TermBounds(<<v, c>>, domains)[1] <= c * a[v]
         /\ c * a[v] <= TermBounds(<<v, c>>, domains)[2]
<1> DEFINE lo == Lo(domains[v + 1])
           hi == Hi(domains[v + 1])
           low == TermBounds(<<v, c>>, domains)[1]
           high == TermBounds(<<v, c>>, domains)[2]
           p == c * lo
           q == c * hi
           r == c * a[v]
<1>1. low = Least(p, q) /\ high = Greatest(p, q) /\ p \in Int /\ q \in Int
      /\ low \in Int /\ high \in Int
  BY BoundsOfTerm
<1>2. lo \in Int /\ hi \in Int /\ a[v] \in Int /\ lo <= a[v] /\ a[v] <= hi
  BY VariableFacts, ValueWithin
<1>3. (c >= 0 => p <= r /\ r <= q) /\ (c <= 0 => q <= r /\ r <= p) /\ r \in Int
  <2> HIDE DEF lo, hi
  <2> QED BY <1>2, ProductBetween, ProductInt
<1> HIDE DEF p, q, r, low, high
<1>4. low <= p /\ low <= q /\ high >= p /\ high >= q
  BY <1>1, LeastFacts, GreatestFacts
<1>5. low <= r /\ r <= high
  BY <1>1, <1>3, <1>4
<1> QED BY <1>5 DEF low, high, r

(* The opposite coefficient has the opposite bounds. *)
LEMMA OppositeTerm ==
  ASSUME NEW domains \in VariableDomains, NEW v \in 0..Len(domains) - 1, NEW c \in Int
  PROVE  /\ TermBounds(<<v, -c>>, domains)[1] = -TermBounds(<<v, c>>, domains)[2]
         /\ TermBounds(<<v, -c>>, domains)[2] = -TermBounds(<<v, c>>, domains)[1]
<1> DEFINE lo == Lo(domains[v + 1])
           hi == Hi(domains[v + 1])
           p == c * lo
           q == c * hi
           low == TermBounds(<<v, c>>, domains)[1]
           high == TermBounds(<<v, c>>, domains)[2]
           lowN == TermBounds(<<v, -c>>, domains)[1]
           highN == TermBounds(<<v, -c>>, domains)[2]
<1>1. low = Least(p, q) /\ high = Greatest(p, q) /\ p \in Int /\ q \in Int
  BY BoundsOfTerm
<1>2. lowN = Least((-c) * lo, (-c) * hi) /\ highN = Greatest((-c) * lo, (-c) * hi)
  <2>1. -c \in Int
    OBVIOUS
  <2> QED BY <2>1, BoundsOfTerm
<1>3. (-c) * lo = -p /\ (-c) * hi = -q
  <2>1. lo \in Int /\ hi \in Int
    BY VariableFacts
  <2> HIDE DEF lo, hi
  <2> QED BY <2>1
<1>4. lowN = Least(-p, -q) /\ highN = Greatest(-p, -q)
  BY <1>2, <1>3
<1> HIDE DEF p, q, low, high, lowN, highN
<1>5. low \in {0, p, q} /\ low <= 0 /\ low <= p /\ low <= q
  BY <1>1, LeastFacts
<1>6. high \in {0, p, q} /\ high >= 0 /\ high >= p /\ high >= q
  BY <1>1, GreatestFacts
<1>7. -p \in Int /\ -q \in Int
  BY <1>1
<1>8. lowN \in {0, -p, -q} /\ lowN <= 0 /\ lowN <= -p /\ lowN <= -q
  BY <1>4, <1>7, LeastFacts
<1>9. highN \in {0, -p, -q} /\ highN >= 0 /\ highN >= -p /\ highN >= -q
  BY <1>4, <1>7, GreatestFacts
<1>10. lowN = -high /\ highN = -low
  BY <1>1, <1>5, <1>6, <1>8, <1>9
<1> QED BY <1>10 DEF low, high, lowN, highN

LEMMA BelowAbove ==
  ASSUME NEW domains \in VariableDomains, NEW terms \in TermsType, Uses(terms, domains),
         NEW i \in 1..Len(terms)
  PROVE  /\ Below(terms, domains)[i] = TermBounds(<<terms[i][1], terms[i][2]>>, domains)[1]
         /\ Above(terms, domains)[i] = TermBounds(<<terms[i][1], terms[i][2]>>, domains)[2]
         /\ Below(terms, domains)[i] \in Int /\ Above(terms, domains)[i] \in Int
         /\ Below(terms, domains)[i] <= 0 /\ Above(terms, domains)[i] >= 0
         /\ terms[i][1] \in 0..Len(domains) - 1 /\ terms[i][2] \in Int
<1>1. i \in DOMAIN terms /\ terms[i] = <<terms[i][1], terms[i][2]>> /\ terms[i][2] \in Int
  BY TermFacts
<1>2. terms[i][1] \in 0..Len(domains) - 1
  BY <1>1 DEF Uses
<1>3. /\ Below(terms, domains)[i] = TermBounds(<<terms[i][1], terms[i][2]>>, domains)[1]
      /\ Above(terms, domains)[i] = TermBounds(<<terms[i][1], terms[i][2]>>, domains)[2]
  <2>1. /\ Below(terms, domains)[i] = TermBounds(terms[i], domains)[1]
        /\ Above(terms, domains)[i] = TermBounds(terms[i], domains)[2]
    BY <1>1 DEF Below, Above
  <2> QED BY <1>1, <2>1, Zenon
<1> QED BY <1>1, <1>2, <1>3, BoundsOfTerm

(* Whoever respects the domains assigns the variables. *)
LEMMA RespectsAssigns ==
  ASSUME NEW domains, NEW terms, Uses(terms, domains), NEW a, Respects(a, domains)
  PROVE  Assigns(a, terms)
BY DEF Uses, Respects, Assigns

(* FitsInt64, by the sums. *)
LEMMA FitsSums ==
  ASSUME NEW domains \in VariableDomains, NEW e \in ExprType, Uses(e.terms, domains)
  PROVE  LET n == Len(e.terms)
             low == SumFunctionOnSet(Below(e.terms, domains), 1..n)
             high == SumFunctionOnSet(Above(e.terms, domains), 1..n)
         IN /\ low \in Int /\ high \in Int /\ low <= high
            /\ FitsInt64(e, domains)
                 <=> /\ Abs(e.constant) <= Half
                     /\ Negatable(e.terms)
                     /\ low - Abs(e.constant) >= -Half
                     /\ high + Abs(e.constant) <= Half
<1> DEFINE n == Len(e.terms)
           below == Below(e.terms, domains)
           above == Above(e.terms, domains)
           bounds == [i \in DOMAIN e.terms |-> TermBounds(e.terms[i], domains)]
<1>1. n \in Nat /\ DOMAIN e.terms = 1..n /\ e.terms \in TermsType
  BY ExprFacts, TermFacts
<1>2. [i \in DOMAIN bounds |-> bounds[i][1]] = below /\ [i \in DOMAIN bounds |-> bounds[i][2]] = above
  BY DEF Below, Above
<1>3. DOMAIN below = 1..n /\ DOMAIN above = 1..n
  BY <1>1 DEF Below, Above
<1>4. FitsInt64(e, domains)
        <=> /\ Abs(e.constant) <= Half
            /\ Negatable(e.terms)
            /\ SumFunction(below) - Abs(e.constant) >= -Half
            /\ SumFunction(above) + Abs(e.constant) <= Half
  BY <1>2, Zenon DEF FitsInt64, Negatable
<1>5. /\ SumFunction(below) = SumFunctionOnSet(below, 1..n)
      /\ SumFunction(above) = SumFunctionOnSet(above, 1..n)
  BY <1>3 DEF SumFunction
<1>6. ASSUME NEW i \in 1..n
      PROVE  below[i] \in Int /\ above[i] \in Int /\ below[i] <= above[i]
  <2>1. /\ below[i] \in Int /\ above[i] \in Int /\ below[i] <= 0 /\ above[i] >= 0
    BY <1>1, BelowAbove
  <2> HIDE DEF below, above
  <2> QED BY <2>1
<1> HIDE DEF below, above, n
<1>7. /\ SumFunctionOnSet(below, 1..n) \in Int /\ SumFunctionOnSet(above, 1..n) \in Int
      /\ SumFunctionOnSet(below, 1..n) <= SumFunctionOnSet(above, 1..n)
  BY <1>1, <1>6, SumToInt, SumMonotone
<1>8. FitsInt64(e, domains)
        <=> /\ Abs(e.constant) <= Half
            /\ Negatable(e.terms)
            /\ SumFunctionOnSet(below, 1..n) - Abs(e.constant) >= -Half
            /\ SumFunctionOnSet(above, 1..n) + Abs(e.constant) <= Half
  BY <1>4, <1>5
<1> QED BY <1>7, <1>8 DEF below, above, n

(* PossibleIntegerOverflow: what it lets through has its sum, without and with *)
(* the constant, within half of Int64 under every assignment of the domains.   *)
THEOREM FitsBoundsSum ==
  ASSUME NEW domains \in VariableDomains, NEW e \in ExprType, Uses(e.terms, domains),
         FitsInt64(e, domains), NEW a, Respects(a, domains)
  PROVE  /\ SumOf(e.terms, a) \in -Half..Half
         /\ ValueOf(e, a) \in -Half..Half
         /\ ValueOf(e, a) = SumOf(e.terms, a) + e.constant
         /\ e.constant \in -Half..Half /\ Negatable(e.terms)
<1> DEFINE n == Len(e.terms)
           below == Below(e.terms, domains)
           above == Above(e.terms, domains)
           f == Products(e.terms, a)
           low == SumFunctionOnSet(below, 1..n)
           high == SumFunctionOnSet(above, 1..n)
<1>1. n \in Nat /\ e.terms \in TermsType /\ e.constant \in Int
  BY ExprFacts, TermFacts
<1>2. /\ low \in Int /\ high \in Int
      /\ Abs(e.constant) <= Half
      /\ Negatable(e.terms)
      /\ low - Abs(e.constant) >= -Half
      /\ high + Abs(e.constant) <= Half
  BY FitsSums
<1>3. ASSUME NEW i \in 1..n
      PROVE  f[i] \in Int /\ below[i] \in Int /\ above[i] \in Int
             /\ below[i] <= f[i] /\ f[i] <= above[i]
  <2>1. f[i] = e.terms[i][2] * a[e.terms[i][1]] /\ f[i] \in Int
    BY <1>1, RespectsAssigns, SumOfTerms
  <2>2. /\ below[i] = TermBounds(<<e.terms[i][1], e.terms[i][2]>>, domains)[1]
        /\ above[i] = TermBounds(<<e.terms[i][1], e.terms[i][2]>>, domains)[2]
        /\ below[i] \in Int /\ above[i] \in Int
        /\ e.terms[i][1] \in 0..Len(domains) - 1 /\ e.terms[i][2] \in Int
    BY <1>1, BelowAbove
  <2> HIDE DEF f, below, above
  <2> QED BY <2>1, <2>2, TermWithin
<1>4. SumOf(e.terms, a) = SumFunctionOnSet(f, 1..n) /\ SumOf(e.terms, a) \in Int
  BY <1>1, RespectsAssigns, SumOfTerms
<1> HIDE DEF f, below, above, n
<1>5. low <= SumFunctionOnSet(f, 1..n) /\ SumFunctionOnSet(f, 1..n) <= high
  BY <1>1, <1>3, SumMonotone
<1>6. ValueOf(e, a) = SumOf(e.terms, a) + e.constant
  BY DEF ValueOf
<1> HIDE DEF low, high
<1> QED BY <1>1, <1>2, <1>4, <1>5, <1>6, HalfFacts DEF Abs

(* "We cannot have an overflow if we do the computation in a different order"  *)
(* (LinearOverflowChecker::AddTerm): whichever terms have been added so far,   *)
(* to zero or to the constant, the sum is within half of Int64.                *)
THEOREM FitsInAnyOrder ==
  ASSUME NEW domains \in VariableDomains, NEW e \in ExprType, Uses(e.terms, domains),
         FitsInt64(e, domains), NEW a, Respects(a, domains),
         NEW added \in SUBSET (1..Len(e.terms))
  PROVE  LET sum == SumFunctionOnSet(Products(e.terms, a), added)
         IN sum \in -Half..Half /\ sum + e.constant \in -Half..Half
<1> DEFINE n == Len(e.terms)
           below == Below(e.terms, domains)
           above == Above(e.terms, domains)
           f == Products(e.terms, a)
           low == SumFunctionOnSet(below, 1..n)
           high == SumFunctionOnSet(above, 1..n)
           sum == SumFunctionOnSet(f, added)
<1>1. n \in Nat /\ e.terms \in TermsType /\ e.constant \in Int /\ IsFiniteSet(1..n)
  BY ExprFacts, TermFacts, FS_Interval
<1>2. /\ low \in Int /\ high \in Int
      /\ Abs(e.constant) <= Half
      /\ low - Abs(e.constant) >= -Half
      /\ high + Abs(e.constant) <= Half
  BY FitsSums
<1>3. ASSUME NEW i \in 1..n
      PROVE  /\ f[i] \in Int /\ below[i] \in Int /\ above[i] \in Int
             /\ below[i] <= 0 /\ 0 <= above[i]
             /\ below[i] <= f[i] /\ f[i] <= above[i]
  <2>1. f[i] = e.terms[i][2] * a[e.terms[i][1]] /\ f[i] \in Int
    BY <1>1, RespectsAssigns, SumOfTerms
  <2>2. /\ below[i] = TermBounds(<<e.terms[i][1], e.terms[i][2]>>, domains)[1]
        /\ above[i] = TermBounds(<<e.terms[i][1], e.terms[i][2]>>, domains)[2]
        /\ below[i] \in Int /\ above[i] \in Int /\ below[i] <= 0 /\ above[i] >= 0
        /\ e.terms[i][1] \in 0..Len(domains) - 1 /\ e.terms[i][2] \in Int
    BY <1>1, BelowAbove
  <2> HIDE DEF f, below, above
  <2> QED BY <2>1, <2>2, TermWithin
<1> HIDE DEF f, below, above
<1>4. low <= sum /\ sum <= high /\ sum \in Int
  BY <1>1, <1>3, SumOfSome
<1> HIDE DEF low, high, sum
<1>5. sum \in -Half..Half /\ sum + e.constant \in -Half..Half
  BY <1>1, <1>2, <1>4, HalfFacts DEF Abs
<1> QED BY <1>5 DEF sum, f

LEMMA FitsWithoutConstant ==
  ASSUME NEW domains \in VariableDomains, NEW e \in ExprType, Uses(e.terms, domains),
         FitsInt64(e, domains)
  PROVE  FitsInt64(Expr(e.terms, 0), domains)
<1> DEFINE d == Expr(e.terms, 0)
<1>1. d \in ExprType /\ d.terms = e.terms /\ d.constant = 0
  <2>1. 0 \in Int64 /\ e.terms \in Seq(Nat \X Int64)
    BY HalfFacts DEF Int64, ExprType
  <2> QED BY <2>1, ExprOfType DEF Expr
<1> HIDE DEF d
<1>2. Abs(e.constant) \in Int /\ Abs(e.constant) >= 0 /\ Abs(0) = 0
  BY ExprFacts DEF Abs
<1> DEFINE low == SumFunctionOnSet(Below(e.terms, domains), 1..Len(e.terms))
           high == SumFunctionOnSet(Above(e.terms, domains), 1..Len(e.terms))
<1>3. /\ low \in Int /\ high \in Int
      /\ Negatable(e.terms)
      /\ low - Abs(e.constant) >= -Half
      /\ high + Abs(e.constant) <= Half
  BY FitsSums
<1>4. FitsInt64(d, domains)
        <=> /\ Abs(0) <= Half /\ Negatable(e.terms)
            /\ low - Abs(0) >= -Half /\ high + Abs(0) <= Half
  <2>1. Uses(d.terms, domains)
    BY <1>1
  <2> QED BY <1>1, <2>1, FitsSums
<1> HIDE DEF low, high
<1>5. FitsInt64(d, domains)
  BY <1>2, <1>3, <1>4, HalfFacts
<1> QED BY <1>5 DEF d

(* "We do not want expr to pass but not -expr" (AddTerm): an expression CP-SAT *)
(* takes has an opposite that it takes, the Int64 negation of each coefficient *)
(* and of the constant included.                                               *)
THEOREM FitsNegated ==
  ASSUME NEW domains \in VariableDomains, NEW e \in ExprType, Uses(e.terms, domains),
         FitsInt64(e, domains)
  PROVE  /\ FitsInt64(Negate(e), domains)
         /\ Uses(Negate(e).terms, domains)
         /\ Negate(e).constant = -e.constant
<1> DEFINE d == Negate(e)
           n == Len(e.terms)
           below == Below(e.terms, domains)
           above == Above(e.terms, domains)
           belowN == Below(d.terms, domains)
           aboveN == Above(d.terms, domains)
<1>1. /\ d \in ExprType /\ d.terms \in TermsType /\ Len(d.terms) = n
      /\ DOMAIN d.terms = 1..n /\ n \in Nat
      /\ e.terms \in TermsType /\ DOMAIN e.terms = 1..n
  BY NegateType, NegateTerms, ExprFacts, TermFacts
<1>2. Abs(e.constant) <= Half /\ Negatable(e.terms)
  BY FitsSums
<1>3. ASSUME NEW i \in 1..n
      PROVE  /\ d.terms[i][1] = e.terms[i][1] /\ d.terms[i][2] = -e.terms[i][2]
             /\ e.terms[i][2] \in Int64 /\ e.terms[i][2] \in Int /\ e.terms[i][2] # MinInt
  <2>1. e.terms[i][2] \in Int64 /\ e.terms[i][2] # MinInt /\ e.terms[i][2] \in Int
    BY <1>1, <1>2, TermFacts DEF Negatable
  <2> QED BY <1>1, <2>1, NegateTerms, WrapOpposite
<1>4. Uses(d.terms, domains)
  BY <1>1, <1>3 DEF Uses
<1>5. ASSUME NEW i \in 1..n
      PROVE  /\ below[i] \in Int /\ above[i] \in Int
             /\ belowN[i] = -above[i] /\ aboveN[i] = -below[i]
  <2>1. /\ below[i] = TermBounds(<<e.terms[i][1], e.terms[i][2]>>, domains)[1]
        /\ above[i] = TermBounds(<<e.terms[i][1], e.terms[i][2]>>, domains)[2]
        /\ below[i] \in Int /\ above[i] \in Int
        /\ e.terms[i][1] \in 0..Len(domains) - 1 /\ e.terms[i][2] \in Int
    BY <1>1, BelowAbove
  <2>2. /\ belowN[i] = TermBounds(<<d.terms[i][1], d.terms[i][2]>>, domains)[1]
        /\ aboveN[i] = TermBounds(<<d.terms[i][1], d.terms[i][2]>>, domains)[2]
    BY <1>1, <1>4, BelowAbove
  <2>3. <<d.terms[i][1], d.terms[i][2]>> = <<e.terms[i][1], -e.terms[i][2]>>
    BY <1>3
  <2> HIDE DEF d, below, above, belowN, aboveN
  <2> QED BY <2>1, <2>2, <2>3, OppositeTerm
<1>6. /\ d.constant = -e.constant /\ Abs(d.constant) = Abs(e.constant)
  <2>1. e.constant \in Int64 /\ e.constant \in Int /\ e.constant # MinInt
    <3>1. e.constant \in Int64 /\ e.constant \in Int
      BY ExprFacts
    <3> QED BY <1>2, <3>1, HalfFacts DEF Abs
  <2>2. d.constant = Wrap((-1) * e.constant)
    BY NegateTerms
  <2>3. d.constant = -e.constant
    BY <2>1, <2>2, WrapOpposite
  <2> QED BY <2>1, <2>3 DEF Abs
<1>7. Negatable(d.terms)
  <2> SUFFICES ASSUME NEW i \in 1..n PROVE d.terms[i][2] # MinInt
    BY <1>1 DEF Negatable
  <2> HIDE DEF d
  <2> QED BY <1>3, HalfFacts DEF Int64
<1> DEFINE low == SumFunctionOnSet(below, 1..n)
           high == SumFunctionOnSet(above, 1..n)
           lowN == SumFunctionOnSet(belowN, 1..n)
           highN == SumFunctionOnSet(aboveN, 1..n)
<1>8. lowN = -high /\ highN = -low
  <2> HIDE DEF below, above, belowN, aboveN, n
  <2> QED BY <1>1, <1>5, SumOpposite
<1>9. /\ low \in Int /\ high \in Int
      /\ low - Abs(e.constant) >= -Half
      /\ high + Abs(e.constant) <= Half
  BY FitsSums
<1>10. FitsInt64(d, domains)
         <=> /\ Abs(d.constant) <= Half /\ Negatable(d.terms)
             /\ lowN - Abs(d.constant) >= -Half /\ highN + Abs(d.constant) <= Half
  BY <1>1, <1>4, FitsSums
<1>11. Abs(e.constant) \in Int
  BY ExprFacts DEF Abs
<1> HIDE DEF low, high, lowN, highN, d
<1>12. lowN - Abs(d.constant) >= -Half /\ highN + Abs(d.constant) <= Half
  BY <1>6, <1>8, <1>9, <1>11, HalfFacts
<1>13. FitsInt64(d, domains)
  BY <1>2, <1>6, <1>7, <1>10, <1>12
<1> QED BY <1>4, <1>6, <1>13 DEF d

-----------------------------------------------------------------------------
(* EndsOf, the interval of a divisor's values. *)

LowEnds(terms, domains) ==
  [i \in DOMAIN terms |->
     IF terms[i][2] >= 0 THEN terms[i][2] * Lo(domains[terms[i][1] + 1])
     ELSE terms[i][2] * Hi(domains[terms[i][1] + 1])]
HighEnds(terms, domains) ==
  [i \in DOMAIN terms |->
     IF terms[i][2] >= 0 THEN terms[i][2] * Hi(domains[terms[i][1] + 1])
     ELSE terms[i][2] * Lo(domains[terms[i][1] + 1])]

LEMMA EndsAreSums ==
  ASSUME NEW domains, NEW e \in ExprType
  PROVE  LET n == Len(e.terms)
         IN /\ EndsOf(e, domains)[1]
                 = SumFunctionOnSet(LowEnds(e.terms, domains), 1..n) + e.constant
            /\ EndsOf(e, domains)[2]
                 = SumFunctionOnSet(HighEnds(e.terms, domains), 1..n) + e.constant
<1> DEFINE End(i, upper) ==
             LET domain == domains[e.terms[i][1] + 1]
                 coeff == e.terms[i][2]
             IN coeff * IF upper = (coeff >= 0) THEN domain[Len(domain)][2] ELSE domain[1][1]
           Sum(upper) == SumFunction([i \in DOMAIN e.terms |-> End(i, upper)])
<1>1. EndsOf(e, domains) = <<Sum(FALSE) + e.constant, Sum(TRUE) + e.constant>>
  BY DEF EndsOf
<1>2. DOMAIN e.terms = 1..Len(e.terms) /\ \A i \in DOMAIN e.terms : e.terms[i][2] \in Int
  BY ExprFacts, TermFacts
<1>3. ASSUME NEW i \in DOMAIN e.terms
      PROVE  /\ End(i, FALSE) = LowEnds(e.terms, domains)[i]
             /\ End(i, TRUE) = HighEnds(e.terms, domains)[i]
  <2>1. CASE e.terms[i][2] >= 0
    <3>1. (e.terms[i][2] >= 0) = TRUE
      BY <1>2, <2>1
    <3>2. /\ End(i, FALSE) = e.terms[i][2] * Lo(domains[e.terms[i][1] + 1])
          /\ End(i, TRUE) = e.terms[i][2] * Hi(domains[e.terms[i][1] + 1])
      BY <3>1, Zenon DEF Lo, Hi
    <3> HIDE DEF End
    <3> QED BY <2>1, <3>2, Zenon DEF LowEnds, HighEnds
  <2>2. CASE ~(e.terms[i][2] >= 0)
    <3>1. (e.terms[i][2] >= 0) = FALSE
      BY <1>2, <2>2
    <3>2. /\ End(i, FALSE) = e.terms[i][2] * Hi(domains[e.terms[i][1] + 1])
          /\ End(i, TRUE) = e.terms[i][2] * Lo(domains[e.terms[i][1] + 1])
      BY <3>1, Zenon DEF Lo, Hi
    <3> HIDE DEF End
    <3> QED BY <2>2, <3>2, Zenon DEF LowEnds, HighEnds
  <2> QED BY <2>1, <2>2
<1>4. /\ [i \in DOMAIN e.terms |-> End(i, FALSE)] = LowEnds(e.terms, domains)
      /\ [i \in DOMAIN e.terms |-> End(i, TRUE)] = HighEnds(e.terms, domains)
  <2> HIDE DEF End
  <2> QED BY <1>3 DEF LowEnds, HighEnds
<1>5. DOMAIN LowEnds(e.terms, domains) = 1..Len(e.terms)
      /\ DOMAIN HighEnds(e.terms, domains) = 1..Len(e.terms)
  BY <1>2 DEF LowEnds, HighEnds
<1>6. /\ Sum(FALSE) = SumFunctionOnSet(LowEnds(e.terms, domains), 1..Len(e.terms))
      /\ Sum(TRUE) = SumFunctionOnSet(HighEnds(e.terms, domains), 1..Len(e.terms))
  <2> HIDE DEF End
  <2> QED BY <1>4, <1>5, Zenon DEF SumFunction
<1> HIDE DEF Sum
<1>7. /\ EndsOf(e, domains)[1] = Sum(FALSE) + e.constant
      /\ EndsOf(e, domains)[2] = Sum(TRUE) + e.constant
  BY <1>1
<1> QED BY <1>6, <1>7, Zenon

(* An expression's value lies between its ends. *)
THEOREM EndsBoundValue ==
  ASSUME NEW domains \in VariableDomains, NEW e \in ExprType, Uses(e.terms, domains),
         NEW a, Respects(a, domains)
  PROVE  /\ EndsOf(e, domains)[1] \in Int /\ EndsOf(e, domains)[2] \in Int
         /\ ValueOf(e, a) \in Int
         /\ EndsOf(e, domains)[1] <= ValueOf(e, a)
         /\ ValueOf(e, a) <= EndsOf(e, domains)[2]
<1> DEFINE n == Len(e.terms)
           f == Products(e.terms, a)
           low == LowEnds(e.terms, domains)
           high == HighEnds(e.terms, domains)
<1>1. n \in Nat /\ e.terms \in TermsType /\ DOMAIN e.terms = 1..n /\ e.constant \in Int
  BY ExprFacts, TermFacts
<1>2. ASSUME NEW i \in 1..n
      PROVE  f[i] \in Int /\ low[i] \in Int /\ high[i] \in Int /\ low[i] <= f[i] /\ f[i] <= high[i]
  <2> DEFINE v == e.terms[i][1]
             c == e.terms[i][2]
             lo == Lo(domains[v + 1])
             hi == Hi(domains[v + 1])
  <2>1. f[i] = c * a[v] /\ f[i] \in Int
    BY <1>1, RespectsAssigns, SumOfTerms
  <2>2. c \in Int /\ v \in 0..Len(domains) - 1
    BY <1>1, TermFacts DEF Uses
  <2>3. /\ low[i] = IF c >= 0 THEN c * lo ELSE c * hi
        /\ high[i] = IF c >= 0 THEN c * hi ELSE c * lo
    BY <1>1 DEF LowEnds, HighEnds
  <2>4. lo \in Int /\ hi \in Int /\ a[v] \in Int /\ lo <= a[v] /\ a[v] <= hi
    <3> HIDE DEF v
    <3> QED BY <2>2, VariableFacts, ValueWithin
  <2> HIDE DEF f, low, high, v, c, lo, hi
  <2>5. /\ c >= 0 => c * lo <= c * a[v] /\ c * a[v] <= c * hi
        /\ c <= 0 => c * hi <= c * a[v] /\ c * a[v] <= c * lo
    BY <2>2, <2>4, ProductBetween
  <2>6. c * lo \in Int /\ c * hi \in Int
    BY <2>2, <2>4, ProductInt
  <2> QED BY <2>1, <2>2, <2>3, <2>5, <2>6
<1>3. SumOf(e.terms, a) = SumFunctionOnSet(f, 1..n) /\ SumOf(e.terms, a) \in Int
  BY <1>1, RespectsAssigns, SumOfTerms
<1>4. /\ EndsOf(e, domains)[1] = SumFunctionOnSet(low, 1..n) + e.constant
      /\ EndsOf(e, domains)[2] = SumFunctionOnSet(high, 1..n) + e.constant
  BY EndsAreSums
<1>5. ValueOf(e, a) = SumOf(e.terms, a) + e.constant
  BY DEF ValueOf
<1> HIDE DEF f, low, high, n
<1>6. /\ SumFunctionOnSet(low, 1..n) \in Int /\ SumFunctionOnSet(high, 1..n) \in Int
      /\ SumFunctionOnSet(low, 1..n) <= SumFunctionOnSet(f, 1..n)
      /\ SumFunctionOnSet(f, 1..n) <= SumFunctionOnSet(high, 1..n)
  BY <1>1, <1>2, SumToInt, SumMonotone
<1> QED BY <1>1, <1>3, <1>4, <1>5, <1>6

-----------------------------------------------------------------------------
(* A divisor of one variable. *)

LEMMA MultipleDivides ==
  ASSUME NEW x \in Nat, NEW c \in Nat, c > 0, NEW n \in Nat, n = c * x
  PROVE  n \div c = x
<1>1. PICK q \in Int : q = n \div c
  OBVIOUS
<1>2. n = c * q + (n % c) /\ n % c \in Int /\ 0 <= n % c /\ n % c < c
  BY <1>1, Division
<1>3. CASE q > x
  <2>1. c * (q - (x + 1)) >= 0
    BY <1>3
  <2>2. c * (q - (x + 1)) = c * q - c * x - c
    OBVIOUS
  <2> QED BY <1>2, <2>1, <2>2, ProductInt
<1>4. CASE q < x
  <2>1. c * (x - (q + 1)) >= 0
    BY <1>4
  <2>2. c * (x - (q + 1)) = c * x - c * q - c
    OBVIOUS
  <2> QED BY <1>2, <2>1, <2>2, ProductInt
<1>5. CASE q = x
  BY <1>1, <1>5
<1> QED BY <1>1, <1>3, <1>4, <1>5

(* A root of c * x + d that is an integer is the one Quotient finds. *)
LEMMA QuotientFindsRoot ==
  ASSUME NEW c \in Int, c # 0, NEW x \in Int, NEW d \in Int, c * x + d = 0
  PROVE  Quotient(-d, c) = x /\ x * c + d = 0
<1>1. -d = c * x /\ x * c = c * x /\ c * x \in Int
  OBVIOUS
<1>2. Abs(x) \in Nat /\ Abs(c) \in Nat /\ Abs(c) > 0 /\ Abs(-d) \in Nat
  BY DEF Abs
<1>3. ASSUME NEW y \in Int PROVE /\ c * (-y) = -(c * y) /\ (-c) * y = -(c * y) /\ (-c) * (-y) = c * y
  OBVIOUS
<1>4. /\ x > 0 /\ c > 0 => c * x > 0
      /\ x < 0 /\ c > 0 => c * x < 0
      /\ x > 0 /\ c < 0 => c * x < 0
      /\ x < 0 /\ c < 0 => c * x > 0
      /\ x = 0 => c * x = 0
  OBVIOUS
<1>5. Abs(-d) = Abs(c) * Abs(x)
  BY <1>1, <1>3, <1>4 DEF Abs
<1>6. Abs(-d) \div Abs(c) = Abs(x)
  BY <1>2, <1>5, MultipleDivides
<1>7. Quotient(-d, c) = IF (-d < 0) = (c < 0) THEN Abs(x) ELSE -Abs(x)
  BY <1>6 DEF Quotient
<1>8. CASE x = 0
  <2>1. x <= 0 /\ 0 <= x
    BY <1>8
  <2>2. Abs(x) = x /\ -Abs(x) = x
    BY <2>1 DEF Abs
  <2> QED BY <1>1, <1>7, <1>8, <2>2
<1>9. CASE x > 0
  <2>1. (-d < 0) = (c < 0)
    BY <1>1, <1>4, <1>9
  <2> QED BY <1>1, <1>7, <1>9, <2>1 DEF Abs
<1>10. CASE x < 0
  <2>1. ~((-d < 0) = (c < 0))
    BY <1>1, <1>4, <1>10
  <2> QED BY <1>1, <1>7, <1>10, <2>1 DEF Abs
<1> QED BY <1>8, <1>9, <1>10


LEMMA UsesVars ==
  ASSUME NEW e, NEW domains
  PROVE  Uses(e.terms, domains) <=> VarsOf(e) \subseteq 0..Len(domains) - 1
BY DEF Uses, VarsOf

LEMMA KindUses ==
  ASSUME NEW k, NEW domains, VarsIn(k) \subseteq 0..Len(domains) - 1, NEW e \in ExprsOf(k)
  PROVE  Uses(e.terms, domains)
<1>1. VarsOf(e) \subseteq VarsIn(k)
  BY DEF VarsIn
<1> QED BY <1>1, UsesVars

(* The value of an expression of one term. *)
LEMMA SumOfOne ==
  ASSUME NEW terms \in TermsType, Len(terms) = 1, NEW a, Assigns(a, terms)
  PROVE  SumOf(terms, a) = terms[1][2] * a[terms[1][1]]
<1> DEFINE f == Products(terms, a)
<1>1. SumOf(terms, a) = SumFunctionOnSet(f, 1..1)
      /\ f[1] = terms[1][2] * a[terms[1][1]] /\ f[1] \in Int
  BY SumOfTerms
<1> HIDE DEF f
<1>2. SumFunctionOnSet(f, 1..(0 + 1)) = SumFunctionOnSet(f, 1..0) + f[0 + 1]
  <2>1. 0 \in Nat /\ \A i \in 1..(0 + 1) : f[i] \in Int
    BY <1>1
  <2> QED BY <2>1, SumToNext
<1>3. SumFunctionOnSet(f, 1..0) = 0 /\ 0 + 1 = 1
  <2>1. 1..0 = {}
    OBVIOUS
  <2> QED BY <2>1, SumEmpty
<1>4. SumFunctionOnSet(f, 1..1) = 0 + f[1]
  BY <1>2, <1>3, Zenon
<1> QED BY <1>1, <1>4

(* ValidateDivisor: a divisor of at most one variable that passes is not zero  *)
(* under any assignment of the domains.                                        *)
THEOREM DivisorIsNotZero ==
  ASSUME NEW domains \in VariableDomains, NEW e \in ExprType, Uses(e.terms, domains),
         Len(e.terms) <= 1, ValidateDivisor(e, domains), NEW a, Respects(a, domains)
  PROVE  ValueOf(e, a) # 0
<1> DEFINE low == LowEnds(e.terms, domains)
           high == HighEnds(e.terms, domains)
           v == e.terms[1][1]
           c == e.terms[1][2]
           n == Len(e.terms)
<1>1. /\ EndsOf(e, domains)[1] \in Int /\ EndsOf(e, domains)[2] \in Int
      /\ ValueOf(e, a) \in Int
      /\ EndsOf(e, domains)[1] <= ValueOf(e, a)
      /\ ValueOf(e, a) <= EndsOf(e, domains)[2]
  BY EndsBoundValue
<1>2. CASE EndsOf(e, domains)[1] = EndsOf(e, domains)[2]
  <2>1. EndsOf(e, domains)[1] # 0
    BY <1>2, Zenon DEF ValidateDivisor
  <2> QED BY <1>1, <1>2, <2>1
<1>3. CASE EndsOf(e, domains)[1] # EndsOf(e, domains)[2]
  <2> SUFFICES ASSUME ValueOf(e, a) = 0 PROVE FALSE
    OBVIOUS
  <2>1. n \in Nat /\ e.terms \in TermsType /\ DOMAIN e.terms = 1..n /\ e.constant \in Int
    BY ExprFacts, TermFacts
  <2>2. /\ EndsOf(e, domains)[1] = SumFunctionOnSet(low, 1..n) + e.constant
        /\ EndsOf(e, domains)[2] = SumFunctionOnSet(high, 1..n) + e.constant
    BY EndsAreSums
  <2>3. n = 1
    <3>0. n <= 1 /\ n \in Int /\ n >= 0
      BY <2>1
    <3>1. CASE n = 0
      <4>1. 1..n = {}
        BY <3>1
      <4>2. /\ SumFunctionOnSet(low, 1..n) = 0
            /\ SumFunctionOnSet(high, 1..n) = 0
        BY <4>1, SumEmpty
      <4> QED BY <1>3, <2>2, <4>2
    <3> HIDE DEF n
    <3> QED BY <3>0, <3>1
  <2>4. c \in Int /\ v \in 0..Len(domains) - 1 /\ a[v] \in Int
    <3>1. c \in Int /\ v \in 0..Len(domains) - 1
      BY <2>1, <2>3, TermFacts DEF Uses
    <3> QED BY <3>1 DEF Respects
  <2>5. c * a[v] + e.constant = 0
    <3>1. SumOf(e.terms, a) = c * a[v]
      BY <2>1, <2>3, RespectsAssigns, SumOfOne
    <3> QED BY <3>1 DEF ValueOf
  <2>6. c # 0
    <3> SUFFICES ASSUME c = 0 PROVE FALSE
      OBVIOUS
    <3>1. low[1] = c * Lo(domains[v + 1]) /\ high[1] = c * Hi(domains[v + 1])
      BY <2>1, <2>3 DEF LowEnds, HighEnds
    <3>2. low[1] = 0 /\ high[1] = 0
      <4>1. Lo(domains[v + 1]) \in Int /\ Hi(domains[v + 1]) \in Int
        <5> HIDE DEF v
        <5> QED BY <2>4, VariableFacts
      <4> QED BY <3>1, <4>1
    <3>3. SumFunctionOnSet(low, 1..n) = SumFunctionOnSet(high, 1..n)
      <4>1. \A i \in 1..n : low[i] \in Int /\ high[i] = low[i]
        <5> HIDE DEF low, high
        <5> QED BY <2>3, <3>2
      <4> HIDE DEF low, high, n
      <4> QED BY <2>1, <4>1, SumSame
    <3> QED BY <1>3, <2>2, <3>3, Zenon
  <2>7. /\ Quotient(-e.constant, c) = a[v]
        /\ a[v] * c + e.constant = 0
    <3> HIDE DEF c, v
    <3> QED BY <2>1, <2>4, <2>5, <2>6, QuotientFindsRoot
  <2>8. ~(/\ Quotient(-e.constant, c) * c + e.constant = 0
          /\ DomainInProtoContains(domains[v + 1], Quotient(-e.constant, c)))
    BY <1>3, Zenon DEF ValidateDivisor
  <2>9. DomainInProtoContains(domains[v + 1], a[v])
    BY <2>4 DEF Respects
  <2> QED BY <2>7, <2>8, <2>9, Zenon
<1> QED BY <1>2, <1>3


-----------------------------------------------------------------------------
(* The variables of what the builder makes. *)

LEMMA NegateVars ==
  ASSUME NEW e
  PROVE  VarsOf(Negate(e)) = VarsOf(e)
<1> DEFINE t == [i \in DOMAIN e.terms |-> <<e.terms[i][1], Wrap((-1) * e.terms[i][2])>>]
<1>1. Negate(e).terms = t
  BY DEF Negate, Times, Expr
<1>2. DOMAIN t = DOMAIN e.terms /\ \A i \in DOMAIN e.terms : t[i][1] = e.terms[i][1]
  OBVIOUS
<1> HIDE DEF t
<1> QED BY <1>1, <1>2 DEF VarsOf

LEMMA MinusVars ==
  ASSUME NEW d \in ExprType, NEW e \in ExprType
  PROVE  VarsOf(Minus(d, e)) = VarsOf(d) \cup VarsOf(e)
<1> DEFINE s == d.terms
           t == Negate(e).terms
<1>1. Minus(d, e).terms = s \o t /\ s \in TermsType /\ t \in TermsType
  BY MinusTerms, NegateTerms, ExprFacts
<1>2. VarsOf(Negate(e)) = VarsOf(e)
  BY NegateVars
<1>3. /\ DOMAIN s = 1..Len(s) /\ DOMAIN t = 1..Len(t) /\ Len(s) \in Nat /\ Len(t) \in Nat
  BY <1>1, TermFacts
<1>4. VarsOf(Minus(d, e)) = {(s \o t)[i][1] : i \in DOMAIN (s \o t)}
  BY <1>1 DEF VarsOf
<1>5. VarsOf(d) = {s[i][1] : i \in DOMAIN s} /\ VarsOf(e) = {t[i][1] : i \in DOMAIN t}
  BY <1>2 DEF VarsOf
<1> HIDE DEF s, t
<1>6. /\ DOMAIN (s \o t) = 1..Len(s) + Len(t)
      /\ \A i \in DOMAIN s : (s \o t)[i] = s[i]
      /\ \A i \in DOMAIN t : (s \o t)[Len(s) + i] = t[i]
  BY <1>1, <1>3 DEF TermsType
<1>7. ASSUME NEW i \in DOMAIN (s \o t)
      PROVE  (s \o t)[i][1] \in VarsOf(d) \cup VarsOf(e)
  <2>1. CASE i \in DOMAIN s
    BY <1>5, <1>6, <2>1
  <2>2. CASE i \notin DOMAIN s
    <3>1. i - Len(s) \in DOMAIN t /\ i = Len(s) + (i - Len(s))
      BY <1>3, <1>6, <2>2
    <3>2. (s \o t)[i] = t[i - Len(s)]
      BY <1>6, <3>1
    <3> QED BY <1>5, <3>1, <3>2
  <2> QED BY <2>1, <2>2
<1>8. ASSUME NEW i \in DOMAIN s PROVE s[i][1] \in VarsOf(Minus(d, e))
  <2>1. i \in DOMAIN (s \o t)
    BY <1>3, <1>6
  <2> QED BY <1>4, <1>6, <2>1
<1>9. ASSUME NEW i \in DOMAIN t PROVE t[i][1] \in VarsOf(Minus(d, e))
  <2>1. Len(s) + i \in DOMAIN (s \o t)
    BY <1>3, <1>6
  <2> QED BY <1>4, <1>6, <2>1
<1>10. VarsOf(Minus(d, e)) \subseteq VarsOf(d) \cup VarsOf(e)
  BY <1>4, <1>7
<1>11. VarsOf(d) \cup VarsOf(e) \subseteq VarsOf(Minus(d, e))
  BY <1>5, <1>8, <1>9
<1> QED BY <1>10, <1>11

LEMMA LinearVars ==
  ASSUME NEW e, NEW domain
  PROVE  /\ ExprsOf(linear(e, domain)) = {e} /\ LitsOf(linear(e, domain)) = {}
         /\ VarsIn(linear(e, domain)) = VarsOf(e)
<1> DEFINE k == linear(e, domain)
<1>1. DOMAIN k = {"kind", "expr", "domain"} /\ k.expr = e
  BY DEF linear
<1> HIDE DEF k
<1>2. /\ Field(k, "expr") = {e} /\ Field(k, "target") = {} /\ Field(k, "index") = {}
      /\ Field(k, "exprs") = {} /\ Field(k, "vars") = {} /\ Field(k, "invVars") = {}
      /\ Field(k, "lits") = {}
  BY <1>1 DEF Field
<1>3. ExprsOf(k) = {e} /\ LitsOf(k) = {}
  BY <1>2 DEF ExprsOf, LitsOf
<1>4. VarsIn(k) = VarsOf(e)
  BY <1>2, <1>3 DEF VarsIn
<1> QED BY <1>3, <1>4 DEF k

LEMMA ArgumentExprs ==
  ASSUME NEW kind, NEW target, NEW exprs
  PROVE  /\ ExprsOf(argument(kind, target, exprs)) = {target} \cup Range(exprs)
         /\ LitsOf(argument(kind, target, exprs)) = {}
         /\ VarsIn(argument(kind, target, exprs))
              = UNION {VarsOf(e) : e \in {target} \cup Range(exprs)}
<1> DEFINE k == argument(kind, target, exprs)
<1>1. DOMAIN k = {"kind", "target", "exprs"} /\ k.target = target /\ k.exprs = exprs
  BY DEF argument
<1> HIDE DEF k
<1>2. /\ Field(k, "expr") = {} /\ Field(k, "target") = {target} /\ Field(k, "index") = {}
      /\ Field(k, "exprs") = {exprs} /\ Field(k, "vars") = {} /\ Field(k, "invVars") = {}
      /\ Field(k, "lits") = {}
  BY <1>1 DEF Field
<1>3. ExprsOf(k) = {target} \cup Range(exprs) /\ LitsOf(k) = {}
  BY <1>2 DEF ExprsOf, LitsOf
<1>4. VarsIn(k) = UNION {VarsOf(e) : e \in {target} \cup Range(exprs)}
  BY <1>2, <1>3 DEF VarsIn
<1> QED BY <1>3, <1>4 DEF k

LEMMA ArgumentVars ==
  ASSUME NEW kind, NEW target, NEW exprs, NEW S,
         VarsOf(target) \subseteq S, \A i \in DOMAIN exprs : VarsOf(exprs[i]) \subseteq S
  PROVE  VarsIn(argument(kind, target, exprs)) \subseteq S
<1>1. \A e \in {target} \cup Range(exprs) : VarsOf(e) \subseteq S
  BY DEF Range
<1> QED BY <1>1, ArgumentExprs

LEMMA BoolVars ==
  ASSUME NEW kind, NEW lits
  PROVE  VarsIn(bool(kind, lits)) = {}
<1> DEFINE k == bool(kind, lits)
<1>1. DOMAIN k = {"kind", "lits"}
  BY DEF bool
<1> HIDE DEF k
<1>2. /\ Field(k, "expr") = {} /\ Field(k, "target") = {} /\ Field(k, "index") = {}
      /\ Field(k, "exprs") = {} /\ Field(k, "vars") = {} /\ Field(k, "invVars") = {}
  BY <1>1 DEF Field
<1>3. ExprsOf(k) = {}
  BY <1>2 DEF ExprsOf
<1>4. VarsIn(k) = {}
  BY <1>2, <1>3 DEF VarsIn
<1> QED BY <1>4 DEF k


-----------------------------------------------------------------------------
(* Minimum and absolute value, by way of a maximum. *)

(* MinInt is its own opposite. *)
LEMMA OppositeNegatable ==
  ASSUME NEW e \in ExprType, Negatable(Negate(e).terms)
  PROVE  Negatable(e.terms)
<1> DEFINE d == Negate(e)
<1> SUFFICES ASSUME NEW i \in DOMAIN e.terms, e.terms[i][2] = MinInt
             PROVE  FALSE
  BY DEF Negatable
<1>1. i \in DOMAIN d.terms /\ d.terms[i][2] = Wrap((-1) * e.terms[i][2])
  BY NegateTerms
<1>2. d.terms[i][2] = MinInt
  BY <1>1, ExprFacts, TermFacts, WrapOpposite
<1> QED BY <1>1, <1>2 DEF Negatable

(* CP-SAT taking the opposite of an expression, the expression's value is the  *)
(* opposite of the opposite's.                                                 *)
LEMMA OppositeValue ==
  ASSUME NEW domains \in VariableDomains, NEW e \in ExprType,
         Uses(e.terms, domains), FitsInt64(Negate(e), domains),
         NEW a, Respects(a, domains)
  PROVE  /\ ValueOf(e, a) \in Int
         /\ ValueOf(Negate(e), a) = -ValueOf(e, a)
<1> DEFINE d == Negate(e)
<1>1. d \in ExprType /\ e.terms \in TermsType /\ e.constant \in Int64 /\ e.constant \in Int
  BY NegateType, ExprFacts
<1>2. Uses(d.terms, domains)
  BY NegateTerms DEF Uses
<1>3. Abs(d.constant) <= Half /\ Negatable(d.terms)
  BY <1>1, <1>2, FitsSums
<1>4. Negatable(e.terms)
  BY <1>3, OppositeNegatable
<1>5. d.constant = -e.constant
  <2>1. d.constant = Wrap((-1) * e.constant)
    BY NegateTerms
  <2>2. e.constant # MinInt
    <3> SUFFICES ASSUME e.constant = MinInt PROVE FALSE
      OBVIOUS
    <3>1. d.constant = MinInt
      BY <1>1, <2>1, WrapOpposite
    <3> HIDE DEF d
    <3> QED BY <1>3, <3>1, HalfFacts DEF Abs
  <2> QED BY <1>1, <2>1, <2>2, WrapOpposite
<1>6. SumOf(d.terms, a) = -SumOf(e.terms, a) /\ SumOf(e.terms, a) \in Int
  BY <1>1, <1>4, RespectsAssigns, NegatedSum, SumOfTerms
<1>7. ValueOf(e, a) = SumOf(e.terms, a) + e.constant
      /\ ValueOf(d, a) = SumOf(d.terms, a) + d.constant
  BY DEF ValueOf
<1> HIDE DEF d
<1>8. ValueOf(e, a) \in Int /\ ValueOf(d, a) = -ValueOf(e, a)
  BY <1>1, <1>5, <1>6, <1>7
<1> QED BY <1>8 DEF d

LEMMA LeastOfSequence ==
  ASSUME NEW n \in Nat, n > 0, NEW f, \A i \in 1..n : f[i] \in Int
  PROVE  \E m \in 1..n : \A i \in 1..n : f[m] <= f[i]
<1> DEFINE Bad == {k \in 1..n : ~\E m \in 1..k : \A i \in 1..k : f[m] <= f[i]}
<1>1. SUFFICES ASSUME Bad # {} PROVE FALSE
  <2>1. n \in 1..n
    OBVIOUS
  <2> QED BY <2>1
<1>2. PICK k \in Bad : \A j \in Bad : k <= j
  <2>1. Bad \subseteq Nat
    OBVIOUS
  <2> HIDE DEF Bad
  <2> QED BY <1>1, <2>1, LeastNumber
<1>3. k \in 1..n /\ ~\E m \in 1..k : \A i \in 1..k : f[m] <= f[i]
  OBVIOUS
<1>4. k # 1
  <2> SUFFICES ASSUME k = 1 PROVE FALSE
    OBVIOUS
  <2>1. 1..1 = {1} /\ f[1] <= f[1]
    BY <1>3
  <2> QED BY <1>3, <2>1
<1>5. k - 1 \in 1..n /\ k - 1 \notin Bad
  <2>1. k - 1 \in 1..n /\ ~(k <= k - 1)
    BY <1>3, <1>4
  <2> HIDE DEF Bad
  <2> QED BY <1>2, <2>1
<1>6. PICK m \in 1..(k - 1) : \A i \in 1..(k - 1) : f[m] <= f[i]
  BY <1>5
<1> HIDE DEF Bad
<1>7. \A i \in 1..k : i \in 1..(k - 1) \/ i = k
  BY <1>3
<1>8. m \in 1..k /\ k \in 1..k /\ f[m] \in Int /\ f[k] \in Int /\ \A i \in 1..k : f[i] \in Int
  BY <1>3, <1>6
<1>9. CASE f[m] <= f[k]
  BY <1>3, <1>6, <1>7, <1>8, <1>9
<1>10. CASE f[k] <= f[m]
  <2>1. ASSUME NEW i \in 1..k PROVE f[k] <= f[i]
    <3>1. CASE i \in 1..(k - 1)
      <4>1. f[m] <= f[i]
        BY <1>6, <3>1
      <4> QED BY <1>8, <1>10, <4>1
    <3>2. CASE i = k
      BY <1>8, <3>2
    <3> QED BY <1>7, <3>1, <3>2
  <2> QED BY <1>3, <1>8, <2>1
<1> QED BY <1>8, <1>9, <1>10

LEMMA MaxIs ==
  ASSUME NEW S, S \subseteq Int, NEW m \in S, \A x \in S : m >= x
  PROVE  Max(S) = m
<1>1. Max(S) \in S /\ \A x \in S : Max(S) >= x
  BY Zenon DEF Max
<1>2. Max(S) \in Int /\ m \in Int
  BY <1>1
<1>3. Max(S) >= m /\ m >= Max(S)
  BY <1>1
<1> QED BY <1>2, <1>3

LEMMA MinIs ==
  ASSUME NEW S, S \subseteq Int, NEW m \in S, \A x \in S : m <= x
  PROVE  Min(S) = m
<1>1. Min(S) \in S /\ \A x \in S : Min(S) <= x
  BY Zenon DEF Min
<1>2. Min(S) \in Int /\ m \in Int
  BY <1>1
<1>3. Min(S) <= m /\ m <= Min(S)
  BY <1>1
<1> QED BY <1>2, <1>3

(* The greatest of the opposites is the opposite of the least. *)
LEMMA MinByMax ==
  ASSUME NEW n \in Nat, n > 0, NEW f, NEW g,
         \A i \in 1..n : f[i] \in Int /\ g[i] = -f[i]
  PROVE  /\ Max({g[i] : i \in 1..n}) = -Min({f[i] : i \in 1..n})
         /\ Min({f[i] : i \in 1..n}) \in Int
<1> DEFINE F == {f[i] : i \in 1..n}
           G == {g[i] : i \in 1..n}
<1>1. PICK m \in 1..n : \A i \in 1..n : f[m] <= f[i]
  BY LeastOfSequence
<1>2. F \subseteq Int /\ f[m] \in F /\ \A x \in F : f[m] <= x
  BY <1>1
<1>3. G \subseteq Int /\ g[m] \in G
  OBVIOUS
<1>4. \A x \in G : g[m] >= x
  <2> SUFFICES ASSUME NEW i \in 1..n PROVE g[m] >= g[i]
    OBVIOUS
  <2>1. f[m] \in Int /\ f[i] \in Int /\ g[m] = -f[m] /\ g[i] = -f[i] /\ f[m] <= f[i]
    BY <1>1
  <2> QED BY <2>1
<1> HIDE DEF F, G
<1>5. Min(F) = f[m] /\ Max(G) = g[m]
  BY <1>2, <1>3, <1>4, MinIs, MaxIs
<1>6. f[m] \in Int /\ g[m] = -f[m]
  OBVIOUS
<1> QED BY <1>5, <1>6 DEF F, G

LEMMA AbsByMax ==
  ASSUME NEW x \in Int
  PROVE  Max({x, -x}) = Abs(x)
<1> DEFINE S == {x, -x}
<1>1. S \subseteq Int /\ Abs(x) \in S /\ \A y \in S : Abs(x) >= y
  BY DEF Abs
<1> HIDE DEF S
<1>2. Max(S) = Abs(x)
  BY <1>1, MaxIs
<1> QED BY <1>2 DEF S

-----------------------------------------------------------------------------
(* Literals. *)

LEMMA NotIsOpposite ==
  ASSUME NEW b \in Int, NEW a
  PROVE  LiteralIsTrue(not(b), a) <=> ~LiteralIsTrue(b, a)
<1>1. CASE b < 0
  <2>1. ~(not(b) < 0) /\ VarOf(b) = not(b)
    BY <1>1 DEF not, VarOf
  <2> QED BY <1>1, <2>1, Zenon DEF LiteralIsTrue
<1>2. CASE ~(b < 0)
  <2>1. not(b) < 0 /\ not(not(b)) = b
    BY <1>2 DEF not
  <2>2. VarOf(not(b)) = b
    BY <2>1, Zenon DEF VarOf
  <2> QED BY <1>2, <2>1, <2>2, Zenon DEF LiteralIsTrue
<1> QED BY <1>1, <1>2

(* A clause of two literals. *)
LEMMA EitherIsTrue ==
  ASSUME NEW b, NEW c, NEW a
  PROVE  NumTrue(<<b, c>>, a) > 0 <=> LiteralIsTrue(b, a) \/ LiteralIsTrue(c, a)
<1> DEFINE S == {i \in DOMAIN <<b, c>> : LiteralIsTrue(<<b, c>>[i], a)}
<1>1. S \subseteq 1..2
  OBVIOUS
<1>2. S # {} <=> LiteralIsTrue(b, a) \/ LiteralIsTrue(c, a)
  <2>1. DOMAIN <<b, c>> = {1, 2} /\ <<b, c>>[1] = b /\ <<b, c>>[2] = c
    OBVIOUS
  <2> QED BY <2>1
<1>3. NumTrue(<<b, c>>, a) = Cardinality(S)
  BY DEF NumTrue
<1> HIDE DEF S
<1>4. IsFiniteSet(1..2)
  <2>1. 1 \in Int /\ 2 \in Int
    OBVIOUS
  <2> QED BY <2>1, FS_Interval, Zenon
<1>5. IsFiniteSet(S)
  BY <1>1, <1>4, FS_Subset
<1>6. Cardinality(S) \in Nat /\ (Cardinality(S) = 0 <=> S = {})
  BY <1>5, FS_CardinalityType, FS_EmptySet
<1> QED BY <1>2, <1>3, <1>6

=============================================================================
