------------------------------ MODULE Fractions ------------------------------
(* Exact fractions in lowest terms, for the arithmetic that the engine does   *)
(* in binary64.                                                              *)
EXTENDS Integers, FiniteSets, Functions

gcd[p \in Nat \X Nat] == IF p[2] = 0 THEN p[1] ELSE gcd[<<p[2], p[1] % p[2]>>]

Size(n) == IF n < 0 THEN -n ELSE n

\* n / d for d > 0.
Frac(n, d) == LET g == gcd[<<Size(n), d>>] IN [num |-> n \div g, den |-> d \div g]

Positive == Nat \ {0}
Fraction == {q \in [num : Int, den : Positive] : q = Frac(q.num, q.den)}

Int0 == Frac(0, 1)
Int1 == Frac(1, 1)
Whole(n) == Frac(n, 1)

Add(p, q) == Frac(p.num * q.den + q.num * p.den, p.den * q.den)
Sub(p, q) == Frac(p.num * q.den - q.num * p.den, p.den * q.den)
Mul(p, q) == Frac(p.num * q.num, p.den * q.den)
Div(p, q) == IF q.num > 0 THEN Frac(p.num * q.den, p.den * q.num)
                          ELSE Frac((-p.num) * q.den, p.den * (-q.num))
Less(p, q) == p.num * q.den < q.num * p.den
Leq(p, q) == p.num * q.den <= q.num * p.den
Magnitude(p) == Frac(Size(p.num), p.den)
Least(p, q) == IF Leq(p, q) THEN p ELSE q

\* Sums and products of a function over its domain.
SumOf(w) == FoldFunction(Add, Int0, w)
ProductOf(w) == FoldFunction(Mul, Int1, w)
SumOver(S, f(_)) == SumOf([x \in S |-> f(x)])
ProductOver(S, f(_)) == ProductOf([x \in S |-> f(x)])
=============================================================================
