--------------------------- MODULE MCModelBuilder ---------------------------
(* ModelBuilder on five-bit integers: Int64 is -16..15, and Half is 7.         *)
EXTENDS ModelBuilder

x == ofIntVar(0)
y == ofIntVar(1)

(* Domains with a gap, with one value, and too wide to be a variable's. *)
NumberDomains ==
  {ofInterval(-3, 3), <<<<-2, -2>>, <<0, 1>>>>, ofInterval(MinInt, 2), excluding(1)}

(* Constants up to the ends of Int64, beside a variable and alone. *)
NumberExprs ==
  {Plus(e, const(c)) : e \in {x, Times(-2, x)},
                       c \in {-16, -15, -8, -7, -1, 0, 2, 7, 8, 15}}
    \cup {const(c) : c \in {-16, 0, 15}}

(* Divisors and moduli that are fixed, can be zero, or have no integer root. *)
NumberKinds ==
  {argument(kind, x, <<x, Plus(Times(c, x), const(d))>>) :
     kind \in {"intDiv", "intMod"}, c \in {0, 1, -2}, d \in {-5, -1, 0, 2, 5}}

(* A Boolean variable and an integer one, in either order. *)
CallDomains == {ofInterval(0, 1), ofInterval(-1, 1)}
CallGoals == {Plus(Plus(x, Times(-2, y)), const(c)) : c \in {3, -15}}
CallLits == {0, -2}
CallKinds ==
  {bool("exactlyOne", <<-1, 1>>), bool("boolXor", <<0, 1>>), allDifferent(<<x, y>>),
   element(x, <<y, const(1)>>, y), argument("intProd", x, <<y, y>>)}
CallHints == {1}

(* Doubles of three bits: up to 8 every integer is one, up to 16 every other.  *)
(* A tie goes to the even multiple.                                            *)
RoundToEven(i) ==
  LET u == IF Abs(i) <= 8 THEN 1 ELSE 2
      q == i \div u
      r == i % u
  IN u * IF 2 * r > u \/ (2 * r = u /\ q % 2 = 1) THEN q + 1 ELSE q

NoExprs == {}
NoLits == {}
NoValues == {}
NoKinds == {}

=============================================================================
