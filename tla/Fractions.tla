----------------------------- MODULE Fractions -----------------------------
(***************************************************************************)
(* Exact fractions for the amounts and prices the calculators keep in      *)
(* float64; what rounding of the last bits does is left out.               *)
(***************************************************************************)
EXTENDS Integers, Functions

Gcd[p \in Nat \X Nat] ==
  IF p[2] = 0 THEN p[1] ELSE Gcd[<<p[2], p[1] % p[2]>>]

Magnitude(n) == IF n < 0 THEN -n ELSE n

(* In lowest terms, so that equal fractions are equal values; d # 0.       *)
Fraction(n, d) ==
  LET g == Gcd[<<Magnitude(n), Magnitude(d)>>]
      s == IF d < 0 THEN -1 ELSE 1 IN
  [n |-> s * (n \div g), d |-> s * (d \div g)]

(* In lowest terms.                                                        *)
Rational(q) ==
  q \in [n : Int, d : Nat \ {0}] /\ Gcd[<<Magnitude(q.n), q.d>>] = 1

Whole(n) == [n |-> n, d |-> 1]
Zero == Whole(0)

Plus(a, b) == Fraction(a.n * b.d + b.n * a.d, a.d * b.d)
Minus(a, b) == Fraction(a.n * b.d - b.n * a.d, a.d * b.d)
Times(a, b) == Fraction(a.n * b.n, a.d * b.d)
Leq(a, b) == a.n * b.d <= b.n * a.d
Less(a, b) == a.n * b.d < b.n * a.d
Positive(a) == a.n > 0
Floor(a) == a.n \div a.d

(* safeDivide: nothing divided by nothing is nothing.                      *)
Over(a, b) == IF b.n = 0 THEN Zero ELSE Fraction(a.n * b.d, a.d * b.n)

Lesser(a, b) == IF Leq(a, b) THEN a ELSE b
Greater(a, b) == IF Leq(a, b) THEN b ELSE a

Total(f, S) == FoldFunctionOnSet(Plus, Zero, f, S)
=============================================================================
