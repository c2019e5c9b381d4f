-------------------------- MODULE CalculatorsProofs --------------------------
(***************************************************************************)
(* What the calculators work out is right for every question: first what   *)
(* holds of fractions in lowest terms and of their totals, then splits,    *)
(* conversions, rounds and the waterfall of an exit.                       *)
(***************************************************************************)
EXTENDS Calculators, SumTheorems

(* Euclid's recursion is defined: it is made from the smaller second       *)
(* arguments to the larger ones.                                           *)
LEMMA GcdUnfolds ==
  \A a, b \in Nat : Gcd[<<a, b>>] = IF b = 0 THEN a ELSE Gcd[<<b, a % b>>]
<1> DEFINE Below(n) == {p \in Nat \X Nat : p[2] < n}
           Step(g, D) == g = [p \in D |-> IF p[2] = 0 THEN p[1]
                                          ELSE g[<<p[2], p[1] % p[2]>>]]
           N == {n \in Nat : \E g : Step(g, Below(n))}
<1>1. \A a, b \in Nat : b # 0 => a % b \in Nat /\ a % b < b
  OBVIOUS
<1>2. 0 \in N
  <2>1. Below(0) = {}
    OBVIOUS
  <2>2. Step([p \in {} |-> 0], Below(0))
    BY <2>1
  <2> HIDE DEF Step
  <2>3. QED
    BY <2>2
<1>3. ASSUME NEW n \in Nat, n \in N PROVE n + 1 \in N
  <2>1. PICK g : Step(g, Below(n))
    BY <1>3
  <2> DEFINE h == [p \in Below(n + 1) |->
                     IF p[2] = 0 THEN p[1] ELSE g[<<p[2], p[1] % p[2]>>]]
  <2>2. Below(n) \subseteq Below(n + 1)
    OBVIOUS
  <2>3. \A p \in Below(n + 1) :
          p[2] # 0 => <<p[2], p[1] % p[2]>> \in Below(n)
    <3>1. ASSUME NEW p \in Below(n + 1), p[2] # 0
          PROVE  <<p[2], p[1] % p[2]>> \in Below(n)
      <4>1. p[1] \in Nat /\ p[2] \in Nat /\ p[2] < n + 1
        OBVIOUS
      <4>2. p[1] % p[2] \in Nat /\ p[1] % p[2] < p[2]
        BY <1>1, <3>1, <4>1
      <4>3. p[1] % p[2] < n
        BY <4>1, <4>2
      <4>4. QED
        BY <4>1, <4>2, <4>3
    <3>2. QED
      BY <3>1
  <2> HIDE DEF Below
  <2>4. \A p \in Below(n) : h[p] = g[p]
    BY <2>1, <2>2
  <2>5. Step(h, Below(n + 1))
    BY <2>3, <2>4
  <2> HIDE DEF Step, h
  <2>6. QED
    BY <2>5
<1>4. \A n \in Nat : \E g : Step(g, Below(n))
  <2>1. Nat \subseteq N
    <3> HIDE DEF N
    <3>1. QED
      BY <1>2, <1>3, NatSetInduction
  <2>2. QED
    BY <2>1
<1>5. \A n, m, k \in Nat : n <= m /\ n <= k =>
        \A g, h : Step(g, Below(m)) /\ Step(h, Below(k)) =>
          \A p \in Below(n) : g[p] = h[p]
  <2> DEFINE A == {n \in Nat : \A m, k \in Nat : n <= m /\ n <= k =>
                     \A g, h : Step(g, Below(m)) /\ Step(h, Below(k)) =>
                       \A p \in Below(n) : g[p] = h[p]}
  <2>1. 0 \in A
    <3>1. Below(0) = {}
      OBVIOUS
    <3> HIDE DEF Step, Below
    <3>2. QED
      BY <3>1
  <2>2. ASSUME NEW n \in Nat, n \in A PROVE n + 1 \in A
    <3>1. ASSUME NEW m \in Nat, NEW k \in Nat, n + 1 <= m, n + 1 <= k,
                 NEW g, NEW h, Step(g, Below(m)), Step(h, Below(k)),
                 NEW p \in Below(n + 1)
          PROVE  g[p] = h[p]
      <4>1. p \in Below(m) /\ p \in Below(k)
        BY <3>1
      <4>2. /\ g[p] = IF p[2] = 0 THEN p[1] ELSE g[<<p[2], p[1] % p[2]>>]
            /\ h[p] = IF p[2] = 0 THEN p[1] ELSE h[<<p[2], p[1] % p[2]>>]
        <5> HIDE DEF Below
        <5>1. QED
          BY <3>1, <4>1
      <4>3. ASSUME p[2] # 0 PROVE <<p[2], p[1] % p[2]>> \in Below(n)
        <5>1. p[1] \in Nat /\ p[2] \in Nat /\ p[2] < n + 1
          OBVIOUS
        <5>2. p[1] % p[2] \in Nat /\ p[1] % p[2] < p[2]
          BY <1>1, <4>3, <5>1
        <5>3. p[1] % p[2] < n
          BY <5>1, <5>2
        <5>4. QED
          BY <5>1, <5>2, <5>3
      <4>4. n <= m /\ n <= k
        BY <3>1
      <4> HIDE DEF Below, Step
      <4>5. \A q \in Below(n) : g[q] = h[q]
        BY <2>2, <3>1, <4>4
      <4>6. QED
        BY <4>2, <4>3, <4>5
    <3> HIDE DEF Below, Step
    <3>2. QED
      BY <3>1
  <2>3. Nat \subseteq A
    <3> HIDE DEF A
    <3>1. QED
      BY <2>1, <2>2, NatSetInduction
  <2> HIDE DEF Below, Step
  <2>4. QED
    BY <2>3
<1> DEFINE Upto(n) == CHOOSE g : Step(g, Below(n))
           whole == [p \in Nat \X Nat |-> Upto(p[2] + 1)[p]]
<1>6. \A n \in Nat : Step(Upto(n), Below(n))
  <2> HIDE DEF Step, Below
  <2>1. QED
    BY <1>4
<1>7. ASSUME NEW p \in Nat \X Nat
      PROVE  whole[p] = IF p[2] = 0 THEN p[1]
                        ELSE whole[<<p[2], p[1] % p[2]>>]
  <2> DEFINE q == <<p[2], p[1] % p[2]>>
             n == p[2] + 1
  <2>1. n \in Nat /\ p \in Below(n)
    OBVIOUS
  <2>2. Upto(n)[p] = IF p[2] = 0 THEN p[1] ELSE Upto(n)[q]
    <3> HIDE DEF Below, Upto, n
    <3>1. QED
      BY <1>6, <2>1
  <2>3. ASSUME p[2] # 0 PROVE Upto(n)[q] = whole[q]
    <3>1. q \in Nat \X Nat /\ q[2] + 1 \in Nat /\ q[2] + 1 <= n
          /\ q \in Below(q[2] + 1)
      <4>1. p[1] \in Nat /\ p[2] \in Nat
        OBVIOUS
      <4>2. p[1] % p[2] \in Nat /\ p[1] % p[2] < p[2]
        BY <1>1, <2>3, <4>1
      <4>3. QED
        BY <4>1, <4>2
    <3> HIDE DEF Below, Step, Upto, n, q
    <3>2. Step(Upto(n), Below(n)) /\ Step(Upto(q[2] + 1), Below(q[2] + 1))
      BY <1>6, <2>1, <3>1
    <3>3. Upto(n)[q] = Upto(q[2] + 1)[q]
      <4>1. q[2] + 1 <= q[2] + 1
        BY <3>1
      <4>2. QED
        BY <1>5, <2>1, <3>1, <3>2, <4>1
    <3>4. QED
      BY <3>1, <3>3
  <2> HIDE DEF Upto
  <2>4. whole[p] = Upto(n)[p]
    OBVIOUS
  <2> HIDE DEF whole, q, n
  <2>5. QED
    BY <2>2, <2>3, <2>4 DEF q
<1>8. Step(whole, Nat \X Nat)
  <2> DEFINE again == [p \in Nat \X Nat |->
                         IF p[2] = 0 THEN p[1]
                         ELSE whole[<<p[2], p[1] % p[2]>>]]
  <2> HIDE DEF Upto
  <2>1. DOMAIN whole = Nat \X Nat /\ whole = [p \in Nat \X Nat |-> whole[p]]
    OBVIOUS
  <2> HIDE DEF whole
  <2>2. \A p \in Nat \X Nat : whole[p] = again[p]
    BY <1>7
  <2>3. whole = again
    BY <2>1, <2>2
  <2>4. QED
    BY <2>3
<1>9. Step(Gcd, Nat \X Nat)
  <2> HIDE DEF whole
  <2>1. \E g : Step(g, Nat \X Nat)
    BY <1>8
  <2>2. QED
    BY <2>1 DEF Gcd
<1>10. ASSUME NEW a \in Nat, NEW b \in Nat
       PROVE  Gcd[<<a, b>>] = IF b = 0 THEN a ELSE Gcd[<<b, a % b>>]
  <2>1. <<a, b>> \in Nat \X Nat
    OBVIOUS
  <2>2. QED
    BY <1>9, <2>1
<1>11. QED
  BY <1>10

(* What Euclid's algorithm returns divides both and is a sum of multiples  *)
(* of both.                                                                *)
Divides(g, a) == \E x \in Int : a = g * x
Combines(g, a, b) == \E u, v \in Int : g = u * a + v * b

LEMMA GcdDivides ==
  \A a, b \in Nat :
    /\ Gcd[<<a, b>>] \in Nat
    /\ b # 0 => Gcd[<<a, b>>] # 0
    /\ Divides(Gcd[<<a, b>>], a) /\ Divides(Gcd[<<a, b>>], b)
    /\ Combines(Gcd[<<a, b>>], a, b)
<1> DEFINE Right(a, b) == /\ Gcd[<<a, b>>] \in Nat
                          /\ (a # 0 \/ b # 0) => Gcd[<<a, b>>] # 0
                          /\ Divides(Gcd[<<a, b>>], a)
                          /\ Divides(Gcd[<<a, b>>], b)
                          /\ Combines(Gcd[<<a, b>>], a, b)
           N == {n \in Nat : \A a, b \in Nat : b < n => Right(a, b)}
<1>1. 0 \in N
  <2> HIDE DEF Right
  <2>1. QED
    OBVIOUS
<1>2. ASSUME NEW n \in Nat, n \in N PROVE n + 1 \in N
  <2>1. ASSUME NEW a \in Nat, NEW b \in Nat, b < n + 1 PROVE Right(a, b)
    <3>1. CASE b = 0
      <4>1. Gcd[<<a, b>>] = a
        BY <3>1, GcdUnfolds
      <4>2. a = a * 1 /\ b = a * 0 /\ a = 1 * a + 0 * b
        BY <3>1
      <4>3. Divides(a, a) /\ Divides(a, b) /\ Combines(a, a, b)
        BY <4>2 DEF Divides, Combines
      <4>4. QED
        BY <3>1, <4>1, <4>3
    <3>2. CASE b # 0
      <4> DEFINE r == a % b
                 q == a \div b
                 g == Gcd[<<b, r>>]
      <4>1. r \in Nat /\ r < b /\ q \in Nat /\ a = q * b + r
        BY <3>2
      <4>2. Gcd[<<a, b>>] = g
        BY <3>2, GcdUnfolds
      <4> HIDE DEF r, q, g
      <4>3. Right(b, r)
        <5>1. r < n
          BY <2>1, <4>1
        <5> HIDE DEF Right
        <5>2. QED
          BY <1>2, <4>1, <5>1
      <4>4. g \in Nat /\ g # 0
        BY <3>2, <4>3 DEF g
      <4>5. PICK x \in Int, y \in Int : b = g * x /\ r = g * y
        BY <4>3 DEF g, Divides
      <4>6. PICK u \in Int, v \in Int : g = u * b + v * r
        BY <4>3 DEF g, Combines
      <4>7. a = g * (q * x + y) /\ q * x + y \in Int
        BY <4>1, <4>4, <4>5
      <4>8. g = v * a + (u - v * q) * b /\ u - v * q \in Int
        BY <4>1, <4>4, <4>6
      <4>9. Divides(g, a) /\ Divides(g, b) /\ Combines(g, a, b)
        BY <4>5, <4>7, <4>8 DEF Divides, Combines
      <4>10. QED
        BY <4>2, <4>4, <4>9
    <3>3. QED
      BY <3>1, <3>2
  <2> HIDE DEF Right
  <2>2. QED
    BY <2>1
<1>3. Nat \subseteq N
  <2> HIDE DEF N
  <2>1. QED
    BY <1>1, <1>2, NatSetInduction
<1>4. ASSUME NEW a \in Nat, NEW b \in Nat PROVE Right(a, b)
  <2>1. b + 1 \in N
    BY <1>3
  <2> HIDE DEF Right
  <2>2. QED
    BY <2>1
<1>5. QED
  BY <1>4

-----------------------------------------------------------------------------

(* Fractions in lowest terms, and the number n / d one stands for.         *)
Lowest ==
  {q \in [n : Int, d : Nat \ {0}] : Combines(1, q.n, q.d)}

StandsFor(q, n, d) ==
  /\ q \in Lowest /\ n \in Int /\ d \in Int \ {0}
  /\ q.n * d = n * q.d

LEMMA LowestFields ==
  \A q \in Lowest : q.n \in Int /\ q.d \in Int /\ q.d > 0
BY DEF Lowest

LEMMA FractionStandsFor ==
  \A n \in Int : \A d \in Int \ {0} : StandsFor(Fraction(n, d), n, d)
<1> SUFFICES ASSUME NEW n \in Int, NEW d \in Int \ {0}
             PROVE  StandsFor(Fraction(n, d), n, d)
  OBVIOUS
<1> DEFINE m == Magnitude(n)
           e == Magnitude(d)
           g == Gcd[<<m, e>>]
           s == IF d < 0 THEN -1 ELSE 1
           t == IF n < 0 THEN -1 ELSE 1
           q == Fraction(n, d)
<1>1. m \in Nat /\ e \in Nat \ {0} /\ n = t * m /\ d = s * e
  BY DEF Magnitude
<1>2. /\ g \in Nat \ {0} /\ Divides(g, m) /\ Divides(g, e)
      /\ Combines(g, m, e)
  <2> HIDE DEF m, e
  <2>1. QED
    BY <1>1, GcdDivides
<1>3. q = [n |-> s * (n \div g), d |-> s * (d \div g)]
  BY DEF Fraction
<1>4. s \in {-1, 1} /\ t \in {-1, 1}
  OBVIOUS
<1> HIDE DEF m, e, g, s, t, q
<1>5. PICK x \in Int, y \in Int : m = g * x /\ e = g * y
  BY <1>2 DEF Divides
<1>6. PICK u \in Int, v \in Int : g = u * m + v * e
  BY <1>2 DEF Combines
<1>7. \A z \in Int : (g * z) \div g = z
  BY <1>2
<1>8. n = g * (t * x) /\ d = g * (s * y)
  BY <1>1, <1>2, <1>4, <1>5
<1>9. n \div g = t * x /\ d \div g = s * y
  BY <1>4, <1>7, <1>8
<1>10. q.n = s * (t * x) /\ q.d = y
  BY <1>3, <1>4, <1>9
<1>11. y > 0
  BY <1>1, <1>2, <1>5
<1>12. 1 = u * x + v * y
  <2>1. g * 1 = g * (u * x + v * y)
    BY <1>2, <1>5, <1>6
  <2>2. \A a, b \in Int : g * a = g * b => a = b
    BY <1>2
  <2>3. QED
    BY <2>1, <2>2
<1>13. Combines(1, q.n, q.d)
  <2>1. 1 = (u * (s * t)) * (s * (t * x)) + v * y
    BY <1>4, <1>12
  <2>2. u * (s * t) \in Int
    BY <1>4
  <2>3. QED
    BY <1>10, <2>1, <2>2 DEF Combines
<1>14. q \in [n : Int, d : Nat \ {0}]
  BY <1>3, <1>4, <1>10, <1>11
<1>15. q.n * d = n * q.d
  BY <1>2, <1>4, <1>8, <1>10
<1>16. QED
  BY <1>13, <1>14, <1>15 DEF StandsFor, Lowest, q

(* A number has one fraction in lowest terms.                              *)
LEMMA LowestUnique ==
  ASSUME NEW q \in Lowest, NEW r \in Lowest, q.n * r.d = r.n * q.d
  PROVE  q = r
<1>1. /\ q.n \in Int /\ q.d \in Int /\ q.d > 0
      /\ r.n \in Int /\ r.d \in Int /\ r.d > 0
  BY LowestFields
<1>2. PICK u \in Int, v \in Int : 1 = u * q.n + v * q.d
  BY DEF Lowest, Combines
<1>3. PICK x \in Int, y \in Int : 1 = x * r.n + y * r.d
  BY DEF Lowest, Combines
<1>4. PICK a \in Int, b \in Int, c \in Int, e \in Int :
        a = q.n /\ b = q.d /\ c = r.n /\ e = r.d
  BY <1>1
<1>5. e = b * (u * c + v * e) /\ b = e * (x * a + y * b)
  <2>1. a * e = c * b /\ 1 = u * a + v * b /\ 1 = x * c + y * e
    BY <1>2, <1>3, <1>4
  <2>2. e = (u * a + v * b) * e /\ b = (x * c + y * e) * b
    BY <2>1
  <2>3. (u * a + v * b) * e = u * (a * e) + v * b * e
    OBVIOUS
  <2>4. (x * c + y * e) * b = x * (c * b) + y * e * b
    OBVIOUS
  <2>5. b * (u * c + v * e) = u * (c * b) + v * b * e
    OBVIOUS
  <2>6. e * (x * a + y * b) = x * (a * e) + y * e * b
    OBVIOUS
  <2>7. QED
    BY <2>1, <2>2, <2>3, <2>4, <2>5, <2>6
<1>6. q.d = r.d
  <2> DEFINE k == u * c + v * e
             j == x * a + y * b
  <2>1. k \in Int /\ j \in Int /\ e = b * k /\ b = e * j /\ b > 0 /\ e > 0
    <3>1. b > 0 /\ e > 0
      BY <1>1, <1>4
    <3>2. QED
      BY <1>5, <3>1
  <2> HIDE DEF k, j
  <2>2. k > 0 /\ j > 0
    BY <2>1
  <2>3. e >= b /\ b >= e
    BY <2>1, <2>2
  <2>4. QED
    BY <1>4, <2>3
<1>7. q.n = r.n
  BY <1>1, <1>6
<1>8. QED
  BY <1>6, <1>7 DEF Lowest

LEMMA LowestStandsFor == \A q \in Lowest : StandsFor(q, q.n, q.d)
BY LowestFields DEF StandsFor

(* Two fractions are the same when they stand for the same number.         *)
LEMMA SameNumber ==
  ASSUME NEW q, NEW r, NEW n, NEW d, NEW m, NEW e,
         StandsFor(q, n, d), StandsFor(r, m, e), n * e = m * d
  PROVE  q = r
<1>1. /\ q \in Lowest /\ r \in Lowest
      /\ n \in Int /\ m \in Int /\ d \in Int \ {0} /\ e \in Int \ {0}
      /\ q.n * d = n * q.d /\ r.n * e = m * r.d
  BY DEF StandsFor
<1>2. q.n \in Int /\ q.d \in Int /\ r.n \in Int /\ r.d \in Int
  BY <1>1, LowestFields
<1>3. \A a, b, x, y \in Int :
        a * d = n * b /\ x * e = m * y => (a * y) * (d * e) = (x * b) * (d * e)
  <2>1. ASSUME NEW a \in Int, NEW b \in Int, NEW x \in Int, NEW y \in Int,
               a * d = n * b, x * e = m * y
        PROVE  (a * y) * (d * e) = (x * b) * (d * e)
    <3>1. (a * y) * (d * e) = (a * d) * (y * e)
      BY <1>1
    <3>2. (n * b) * (y * e) = (n * e) * (b * y)
      BY <1>1
    <3>3. (x * b) * (d * e) = (x * e) * (b * d)
      BY <1>1
    <3>4. (m * y) * (b * d) = (m * d) * (b * y)
      BY <1>1
    <3>5. QED
      BY <2>1, <3>1, <3>2, <3>3, <3>4
  <2>2. QED
    BY <2>1
<1>4. \A x, y \in Int : x * (d * e) = y * (d * e) => x = y
  BY <1>1
<1>5. q.n * r.d = r.n * q.d
  BY <1>1, <1>2, <1>3, <1>4
<1>6. QED
  BY <1>1, <1>5, LowestUnique

(* What the operations make of numbers.                                    *)
LEMMA OperationsStandFor ==
  ASSUME NEW q, NEW r, NEW n, NEW d, NEW m, NEW e,
         StandsFor(q, n, d), StandsFor(r, m, e)
  PROVE  /\ StandsFor(Plus(q, r), n * e + m * d, d * e)
         /\ StandsFor(Minus(q, r), n * e - m * d, d * e)
         /\ StandsFor(Times(q, r), n * m, d * e)
         /\ m # 0 => StandsFor(Over(q, r), n * e, d * m)
<1>1. /\ q \in Lowest /\ r \in Lowest
      /\ n \in Int /\ m \in Int /\ d \in Int \ {0} /\ e \in Int \ {0}
      /\ q.n * d = n * q.d /\ r.n * e = m * r.d
  BY DEF StandsFor
<1>2. PICK qn \in Int, qd \in Int, rn \in Int, rd \in Int :
         qn = q.n /\ qd = q.d /\ rn = r.n /\ rd = r.d
  BY <1>1, LowestFields
<1>2a. /\ qn \in Int /\ qd \in Int \ {0} /\ rn \in Int /\ rd \in Int \ {0}
      /\ qn * d = n * qd /\ rn * e = m * rd
  BY <1>1, <1>2, LowestFields
<1>3. qd * rd \in Int \ {0} /\ d * e \in Int \ {0}
  BY <1>1, <1>2a
<1>4. ASSUME NEW p \in Int, NEW b \in Int \ {0}, NEW c \in Int,
             NEW f \in Int \ {0}, p * f = c * b
      PROVE  StandsFor(Fraction(p, b), c, f)
  <2> DEFINE z == Fraction(p, b)
  <2>1. z \in Lowest /\ z.n * b = p * z.d /\ z.n \in Int /\ z.d \in Int
    BY FractionStandsFor, LowestFields DEF StandsFor
  <2> HIDE DEF z
  <2>2. PICK x \in Int, y \in Int : x = z.n /\ y = z.d
    BY <2>1
  <2>3. (x * f) * b = (c * y) * b
    <3>1. (x * f) * b = (x * b) * f
      OBVIOUS
    <3>2. (p * y) * f = (p * f) * y
      OBVIOUS
    <3>3. (c * b) * y = (c * y) * b
      OBVIOUS
    <3>4. QED
      BY <1>4, <2>1, <2>2, <3>1, <3>2, <3>3
  <2>4. z.n * f = c * z.d
    <3>1. x * f = c * y
      BY <2>3
    <3>2. QED
      BY <2>2, <3>1
  <2>5. QED
    BY <2>1, <2>4 DEF StandsFor, z
<1>5. (qn * rd) * (d * e) = (n * e) * (qd * rd)
  <2>1. (qn * rd) * (d * e) = (qn * d) * (rd * e)
    BY <1>1, <1>2a
  <2>2. (n * e) * (qd * rd) = (n * qd) * (rd * e)
    BY <1>1, <1>2a
  <2>3. QED
    BY <1>2a, <2>1, <2>2
<1>6. (rn * qd) * (d * e) = (m * d) * (qd * rd)
  <2>1. (rn * qd) * (d * e) = (rn * e) * (qd * d)
    BY <1>1, <1>2a
  <2>2. (m * d) * (qd * rd) = (m * rd) * (qd * d)
    BY <1>1, <1>2a
  <2>3. QED
    BY <1>2a, <2>1, <2>2
<1>7. /\ (qn * rd + rn * qd) * (d * e) = (n * e + m * d) * (qd * rd)
      /\ (qn * rd - rn * qd) * (d * e) = (n * e - m * d) * (qd * rd)
  <2>1. PICK a \in Int, b \in Int, c \in Int, f \in Int, x \in Int, y \in Int :
          /\ a = qn * rd /\ b = rn * qd /\ c = n * e /\ f = m * d
          /\ x = d * e /\ y = qd * rd
    BY <1>1, <1>2a
  <2>2. a * x = c * y /\ b * x = f * y
    BY <1>5, <1>6, <2>1
  <2>3. (a + b) * x = (c + f) * y /\ (a - b) * x = (c - f) * y
    BY <2>2
  <2>4. QED
    BY <2>1, <2>3
<1>8. (qn * rn) * (d * e) = (n * m) * (qd * rd)
  <2>1. (qn * rn) * (d * e) = (qn * d) * (rn * e)
    BY <1>1, <1>2a
  <2>2. (n * m) * (qd * rd) = (n * qd) * (m * rd)
    BY <1>1, <1>2a
  <2>3. QED
    BY <1>2a, <2>1, <2>2
<1>9. StandsFor(Plus(q, r), n * e + m * d, d * e)
  <2>1. PICK p \in Int, b \in Int, c \in Int, f \in Int :
          p = qn * rd + rn * qd /\ b = qd * rd /\ c = n * e + m * d /\ f = d * e
    BY <1>1, <1>2
  <2>2. b # 0 /\ f # 0 /\ p * f = c * b
    BY <1>3, <1>7, <2>1
  <2>3. StandsFor(Fraction(p, b), c, f)
    BY <1>4, <2>2
  <2>4. Plus(q, r) = Fraction(p, b)
    BY <1>2, <2>1 DEF Plus
  <2>5. QED
    BY <2>1, <2>3, <2>4
<1>10. StandsFor(Minus(q, r), n * e - m * d, d * e)
  <2>1. PICK p \in Int, b \in Int, c \in Int, f \in Int :
          p = qn * rd - rn * qd /\ b = qd * rd /\ c = n * e - m * d /\ f = d * e
    BY <1>1, <1>2
  <2>2. b # 0 /\ f # 0 /\ p * f = c * b
    BY <1>3, <1>7, <2>1
  <2>3. StandsFor(Fraction(p, b), c, f)
    BY <1>4, <2>2
  <2>4. Minus(q, r) = Fraction(p, b)
    BY <1>2, <2>1 DEF Minus
  <2>5. QED
    BY <2>1, <2>3, <2>4
<1>11. StandsFor(Times(q, r), n * m, d * e)
  <2>1. PICK p \in Int, b \in Int, c \in Int, f \in Int :
          p = qn * rn /\ b = qd * rd /\ c = n * m /\ f = d * e
    BY <1>1, <1>2
  <2>2. b # 0 /\ f # 0 /\ p * f = c * b
    BY <1>3, <1>8, <2>1
  <2>3. StandsFor(Fraction(p, b), c, f)
    BY <1>4, <2>2
  <2>4. Times(q, r) = Fraction(p, b)
    BY <1>2, <2>1 DEF Times
  <2>5. QED
    BY <2>1, <2>3, <2>4
<1>12. ASSUME m # 0 PROVE StandsFor(Over(q, r), n * e, d * m)
  <2>1. rn # 0
    BY <1>1, <1>2a, <1>12
  <2>2. (qn * rd) * (d * m) = (n * e) * (qd * rn)
    <3>1. (qn * rd) * (d * m) = (qn * d) * (m * rd)
      BY <1>1, <1>2a
    <3>2. (n * e) * (qd * rn) = (n * qd) * (rn * e)
      BY <1>1, <1>2a
    <3>3. QED
      BY <1>2a, <3>1, <3>2
  <2>3. qd * rn \in Int \ {0} /\ d * m \in Int \ {0}
    BY <1>1, <1>2a, <1>12, <2>1
  <2>4. StandsFor(Fraction(qn * rd, qd * rn), n * e, d * m)
    BY <1>1, <1>2a, <1>4, <2>2, <2>3
  <2>5. QED
    BY <1>2, <2>1, <2>4 DEF Over
<1>13. QED
  BY <1>9, <1>10, <1>11, <1>12

LEMMA Numbers ==
  \A q \in Lowest : \E n \in Int : \E d \in Nat \ {0} : StandsFor(q, n, d)
BY LowestStandsFor, LowestFields

LEMMA ComparedByNumbers ==
  ASSUME NEW q, NEW r, NEW n, NEW d \in Nat \ {0}, NEW m, NEW e \in Nat \ {0},
         StandsFor(q, n, d), StandsFor(r, m, e)
  PROVE  /\ Leq(q, r) <=> n * e <= m * d
         /\ Less(q, r) <=> n * e < m * d
         /\ Positive(q) <=> n > 0
         /\ q.n = 0 <=> n = 0
<1>1. /\ q \in Lowest /\ r \in Lowest /\ n \in Int /\ m \in Int
      /\ q.n * d = n * q.d /\ r.n * e = m * r.d
  BY DEF StandsFor
<1>2. PICK a \in Int, b \in Int, x \in Int, y \in Int :
         a = q.n /\ b = q.d /\ x = r.n /\ y = r.d /\ b > 0 /\ y > 0
  BY <1>1, LowestFields
<1>3. a * d = n * b /\ x * e = m * y
  BY <1>1, <1>2
<1>4. /\ (a * y) * (d * e) = (n * e) * (b * y)
      /\ (x * b) * (d * e) = (m * d) * (b * y)
  <2>1. (a * y) * (d * e) = (a * d) * (y * e)
    OBVIOUS
  <2>2. (n * b) * (y * e) = (n * e) * (b * y)
    BY <1>1
  <2>3. (x * b) * (d * e) = (x * e) * (b * d)
    OBVIOUS
  <2>4. (m * y) * (b * d) = (m * d) * (b * y)
    BY <1>1
  <2>5. QED
    BY <1>3, <2>1, <2>2, <2>3, <2>4
<1>5. (a * y <= x * b <=> n * e <= m * d) /\ (a * y < x * b <=> n * e < m * d)
  <2>1. PICK s \in Int, t \in Int, u \in Int, v \in Int, k \in Int, l \in Int :
          /\ s = a * y /\ t = x * b /\ u = n * e /\ v = m * d
          /\ k = d * e /\ l = b * y
    BY <1>1
  <2>2. k > 0 /\ l > 0
    BY <1>2, <2>1
  <2>3. s * k = u * l /\ t * k = v * l
    BY <1>4, <2>1
  <2>4. (s - t) * k = (u - v) * l
    BY <2>3
  <2>5. (s - t > 0 <=> u - v > 0) /\ (s - t < 0 <=> u - v < 0)
    BY <2>2, <2>4
  <2>6. QED
    BY <2>1, <2>5
<1>6. (a > 0 <=> n > 0) /\ (a = 0 <=> n = 0)
  BY <1>1, <1>2, <1>3
<1>7. QED
  BY <1>2, <1>5, <1>6 DEF Leq, Less, Positive

LEMMA WholeNumbers ==
  \A n \in Int : StandsFor(Whole(n), n, 1) /\ Whole(n) \in Lowest
<1>1. ASSUME NEW n \in Int PROVE StandsFor(Whole(n), n, 1)
  <2>1. 1 = 0 * n + 1 * 1
    OBVIOUS
  <2>2. Combines(1, n, 1)
    BY <2>1 DEF Combines
  <2>3. QED
    BY <2>2 DEF StandsFor, Lowest, Whole
<1>2. QED
  BY <1>1 DEF StandsFor

LEMMA ZeroStandsFor == StandsFor(Zero, 0, 1) /\ Zero \in Lowest
BY WholeNumbers DEF Zero

LEMMA FractionsClosed ==
  \A a, b \in Lowest : /\ Plus(a, b) \in Lowest /\ Minus(a, b) \in Lowest
                       /\ Times(a, b) \in Lowest /\ Over(a, b) \in Lowest
<1> SUFFICES ASSUME NEW a \in Lowest, NEW b \in Lowest
             PROVE  /\ Plus(a, b) \in Lowest /\ Minus(a, b) \in Lowest
                    /\ Times(a, b) \in Lowest /\ Over(a, b) \in Lowest
  OBVIOUS
<1>1. PICK n \in Int, d \in Nat \ {0}, m \in Int, e \in Nat \ {0} :
        StandsFor(a, n, d) /\ StandsFor(b, m, e)
  BY Numbers
<1>2. /\ StandsFor(Plus(a, b), n * e + m * d, d * e)
      /\ StandsFor(Minus(a, b), n * e - m * d, d * e)
      /\ StandsFor(Times(a, b), n * m, d * e)
      /\ m # 0 => StandsFor(Over(a, b), n * e, d * m)
  BY <1>1, OperationsStandFor
<1>3. m = 0 => Over(a, b) \in Lowest
  BY <1>1, ComparedByNumbers, ZeroStandsFor DEF Over
<1>4. QED
  BY <1>2, <1>3 DEF StandsFor

(* The laws of addition.                                                   *)
LEMMA PlusLaws ==
  /\ \A a \in Lowest : Plus(a, Zero) = a /\ Plus(Zero, a) = a
  /\ \A a, b \in Lowest : Plus(a, b) = Plus(b, a)
  /\ \A a, b, c \in Lowest : Plus(Plus(a, b), c) = Plus(a, Plus(b, c))
<1>1. ASSUME NEW a \in Lowest PROVE Plus(a, Zero) = a /\ Plus(Zero, a) = a
  <2>1. PICK n \in Int, d \in Nat \ {0} : StandsFor(a, n, d)
    BY Numbers
  <2>2. StandsFor(Plus(a, Zero), n * 1 + 0 * d, d * 1)
    BY <2>1, ZeroStandsFor, OperationsStandFor
  <2>3. StandsFor(Plus(Zero, a), 0 * d + n * 1, 1 * d)
    BY <2>1, ZeroStandsFor, OperationsStandFor
  <2>4. /\ (n * 1 + 0 * d) * d = n * (d * 1)
        /\ (0 * d + n * 1) * d = n * (1 * d)
    OBVIOUS
  <2>5. QED
    BY <2>1, <2>2, <2>3, <2>4, SameNumber
<1>2. ASSUME NEW a \in Lowest, NEW b \in Lowest PROVE Plus(a, b) = Plus(b, a)
  <2>1. PICK n \in Int, d \in Nat \ {0}, m \in Int, e \in Nat \ {0} :
          StandsFor(a, n, d) /\ StandsFor(b, m, e)
    BY Numbers
  <2>2. StandsFor(Plus(a, b), n * e + m * d, d * e)
    BY <2>1, OperationsStandFor
  <2>3. StandsFor(Plus(b, a), m * d + n * e, e * d)
    BY <2>1, OperationsStandFor
  <2>4. (n * e + m * d) * (e * d) = (m * d + n * e) * (d * e)
    OBVIOUS
  <2>5. QED
    BY <2>2, <2>3, <2>4, SameNumber
<1>3. ASSUME NEW a \in Lowest, NEW b \in Lowest, NEW c \in Lowest
      PROVE  Plus(Plus(a, b), c) = Plus(a, Plus(b, c))
  <2>1. PICK n \in Int, d \in Nat \ {0}, m \in Int, e \in Nat \ {0},
             l \in Int, f \in Nat \ {0} :
          StandsFor(a, n, d) /\ StandsFor(b, m, e) /\ StandsFor(c, l, f)
    BY Numbers
  <2>2. StandsFor(Plus(a, b), n * e + m * d, d * e)
    BY <2>1, OperationsStandFor
  <2>3. StandsFor(Plus(b, c), m * f + l * e, e * f)
    BY <2>1, OperationsStandFor
  <2>4. StandsFor(Plus(Plus(a, b), c), (n * e + m * d) * f + l * (d * e),
                  (d * e) * f)
    BY <2>1, <2>2, OperationsStandFor
  <2>5. StandsFor(Plus(a, Plus(b, c)), n * (e * f) + (m * f + l * e) * d,
                  d * (e * f))
    BY <2>1, <2>3, OperationsStandFor
  <2>6. ((n * e + m * d) * f + l * (d * e)) * (d * (e * f))
          = (n * (e * f) + (m * f + l * e) * d) * ((d * e) * f)
    OBVIOUS
  <2>7. QED
    BY <2>4, <2>5, <2>6, SameNumber
<1>4. QED
  BY <1>1, <1>2, <1>3

LEMMA MinusLaws ==
  /\ \A a, b \in Lowest : Plus(Minus(a, b), b) = a
  /\ \A a, b \in Lowest : Minus(Plus(a, b), b) = a
<1>1. ASSUME NEW a \in Lowest, NEW b \in Lowest
      PROVE  Plus(Minus(a, b), b) = a /\ Minus(Plus(a, b), b) = a
  <2>1. PICK n \in Int, d \in Nat \ {0}, m \in Int, e \in Nat \ {0} :
          StandsFor(a, n, d) /\ StandsFor(b, m, e)
    BY Numbers
  <2>2. StandsFor(Plus(a, b), n * e + m * d, d * e)
    BY <2>1, OperationsStandFor
  <2>3. StandsFor(Minus(a, b), n * e - m * d, d * e)
    BY <2>1, OperationsStandFor
  <2>4. StandsFor(Plus(Minus(a, b), b), (n * e - m * d) * e + m * (d * e),
                  (d * e) * e)
    BY <2>1, <2>3, OperationsStandFor
  <2>5. StandsFor(Minus(Plus(a, b), b), (n * e + m * d) * e - m * (d * e),
                  (d * e) * e)
    BY <2>1, <2>2, OperationsStandFor
  <2>6. /\ ((n * e - m * d) * e + m * (d * e)) * d = n * ((d * e) * e)
        /\ ((n * e + m * d) * e - m * (d * e)) * d = n * ((d * e) * e)
    OBVIOUS
  <2>7. QED
    BY <2>1, <2>4, <2>5, <2>6, SameNumber
<1>2. QED
  BY <1>1

(* The laws of multiplication and division.                                *)
LEMMA TimesLaws ==
  /\ \A a \in Lowest : /\ Times(a, Zero) = Zero /\ Times(Zero, a) = Zero
                       /\ Times(a, Whole(1)) = a
  /\ \A a, b \in Lowest : Times(a, b) = Times(b, a)
  /\ \A a, b, c \in Lowest :
       /\ Times(Times(a, b), c) = Times(a, Times(b, c))
       /\ Times(c, Plus(a, b)) = Plus(Times(c, a), Times(c, b))
<1>1. ASSUME NEW a \in Lowest
      PROVE  /\ Times(a, Zero) = Zero /\ Times(Zero, a) = Zero
             /\ Times(a, Whole(1)) = a
  <2>1. PICK n \in Int, d \in Nat \ {0} : StandsFor(a, n, d)
    BY Numbers
  <2>2. /\ StandsFor(Times(a, Zero), n * 0, d * 1)
        /\ StandsFor(Times(Zero, a), 0 * n, 1 * d)
    BY <2>1, ZeroStandsFor, OperationsStandFor
  <2>3. StandsFor(Times(a, Whole(1)), n * 1, d * 1)
    BY <2>1, WholeNumbers, OperationsStandFor
  <2>4. /\ (n * 0) * 1 = 0 * (d * 1) /\ (0 * n) * 1 = 0 * (1 * d)
        /\ (n * 1) * d = n * (d * 1)
    OBVIOUS
  <2>5. QED
    BY <2>1, <2>2, <2>3, <2>4, ZeroStandsFor, SameNumber
<1>2. ASSUME NEW a \in Lowest, NEW b \in Lowest PROVE Times(a, b) = Times(b, a)
  <2>1. PICK n \in Int, d \in Nat \ {0}, m \in Int, e \in Nat \ {0} :
          StandsFor(a, n, d) /\ StandsFor(b, m, e)
    BY Numbers
  <2>2. StandsFor(Times(a, b), n * m, d * e)
    BY <2>1, OperationsStandFor
  <2>3. StandsFor(Times(b, a), m * n, e * d)
    BY <2>1, OperationsStandFor
  <2>4. (n * m) * (e * d) = (m * n) * (d * e)
    OBVIOUS
  <2>5. QED
    BY <2>2, <2>3, <2>4, SameNumber
<1>3. ASSUME NEW a \in Lowest, NEW b \in Lowest, NEW c \in Lowest
      PROVE  /\ Times(Times(a, b), c) = Times(a, Times(b, c))
             /\ Times(c, Plus(a, b)) = Plus(Times(c, a), Times(c, b))
  <2>1. PICK n \in Int, d \in Nat \ {0}, m \in Int, e \in Nat \ {0},
             l \in Int, f \in Nat \ {0} :
          StandsFor(a, n, d) /\ StandsFor(b, m, e) /\ StandsFor(c, l, f)
    BY Numbers
  <2>2. /\ StandsFor(Times(a, b), n * m, d * e)
        /\ StandsFor(Times(b, c), m * l, e * f)
        /\ StandsFor(Times(c, a), l * n, f * d)
        /\ StandsFor(Times(c, b), l * m, f * e)
        /\ StandsFor(Plus(a, b), n * e + m * d, d * e)
    BY <2>1, OperationsStandFor
  <2>3. /\ StandsFor(Times(Times(a, b), c), (n * m) * l, (d * e) * f)
        /\ StandsFor(Times(a, Times(b, c)), n * (m * l), d * (e * f))
    BY <2>1, <2>2, OperationsStandFor
  <2>4. StandsFor(Times(c, Plus(a, b)), l * (n * e + m * d), f * (d * e))
    BY <2>1, <2>2, OperationsStandFor
  <2>5. StandsFor(Plus(Times(c, a), Times(c, b)),
                  (l * n) * (f * e) + (l * m) * (f * d), (f * d) * (f * e))
    BY <2>2, OperationsStandFor
  <2>6. /\ ((n * m) * l) * (d * (e * f)) = (n * (m * l)) * ((d * e) * f)
        /\ (l * (n * e + m * d)) * ((f * d) * (f * e))
             = ((l * n) * (f * e) + (l * m) * (f * d)) * (f * (d * e))
    OBVIOUS
  <2>7. QED
    BY <2>3, <2>4, <2>5, <2>6, SameNumber
<1>4. QED
  BY <1>1, <1>2, <1>3

LEMMA OverLaws ==
  /\ \A a, b \in Lowest : b.n # 0 => Times(Over(a, b), b) = a
  /\ \A a, b \in Lowest : b.n = 0 => Over(a, b) = Zero
  /\ \A a, b, c \in Lowest : Times(c, Over(a, b)) = Times(Over(c, b), a)
<1>1. ASSUME NEW a \in Lowest, NEW b \in Lowest, NEW c \in Lowest, b.n # 0
      PROVE  /\ Times(Over(a, b), b) = a
             /\ Times(c, Over(a, b)) = Times(Over(c, b), a)
  <2>1. PICK n \in Int, d \in Nat \ {0}, m \in Int, e \in Nat \ {0},
             l \in Int, f \in Nat \ {0} :
          StandsFor(a, n, d) /\ StandsFor(b, m, e) /\ StandsFor(c, l, f)
    BY Numbers
  <2>2. m # 0
    BY <1>1, <2>1, ComparedByNumbers
  <2>3. /\ StandsFor(Over(a, b), n * e, d * m)
        /\ StandsFor(Over(c, b), l * e, f * m)
    BY <2>1, <2>2, OperationsStandFor
  <2>4. /\ StandsFor(Times(Over(a, b), b), (n * e) * m, (d * m) * e)
        /\ StandsFor(Times(c, Over(a, b)), l * (n * e), f * (d * m))
        /\ StandsFor(Times(Over(c, b), a), (l * e) * n, (f * m) * d)
    BY <2>1, <2>3, OperationsStandFor
  <2>5. /\ ((n * e) * m) * d = n * ((d * m) * e)
        /\ (l * (n * e)) * ((f * m) * d) = ((l * e) * n) * (f * (d * m))
    OBVIOUS
  <2>6. QED
    BY <2>1, <2>4, <2>5, SameNumber
<1>2. ASSUME NEW a \in Lowest, NEW b \in Lowest, NEW c \in Lowest, b.n = 0
      PROVE  Over(a, b) = Zero /\ Times(c, Over(a, b)) = Times(Over(c, b), a)
  BY <1>2, TimesLaws DEF Over
<1>3. QED
  BY <1>1, <1>2

(* The order, and how the operations keep it.                              *)
LEMMA OrderLaws ==
  /\ \A a, b \in Lowest : /\ Leq(a, b) \/ Leq(b, a)
                          /\ Leq(a, b) /\ Leq(b, a) => a = b
                          /\ Less(a, b) <=> ~Leq(b, a)
  /\ \A a, b, c \in Lowest : Leq(a, b) /\ Leq(b, c) => Leq(a, c)
  /\ \A a \in Lowest : /\ Positive(a) <=> ~Leq(a, Zero)
                       /\ a.n = 0 <=> a = Zero
<1>1. ASSUME NEW a \in Lowest, NEW b \in Lowest, NEW c \in Lowest
      PROVE  /\ Leq(a, b) \/ Leq(b, a)
             /\ Leq(a, b) /\ Leq(b, a) => a = b
             /\ Less(a, b) <=> ~Leq(b, a)
             /\ Leq(a, b) /\ Leq(b, c) => Leq(a, c)
             /\ Positive(a) <=> ~Leq(a, Zero)
             /\ a.n = 0 <=> a = Zero
  <2>1. PICK n \in Int, d \in Nat \ {0}, m \in Int, e \in Nat \ {0},
             l \in Int, f \in Nat \ {0} :
          StandsFor(a, n, d) /\ StandsFor(b, m, e) /\ StandsFor(c, l, f)
    BY Numbers
  <2>2. /\ Leq(a, b) <=> n * e <= m * d
        /\ Leq(b, a) <=> m * d <= n * e
        /\ Less(a, b) <=> n * e < m * d
    BY <2>1, ComparedByNumbers
  <2>3. /\ Leq(b, c) <=> m * f <= l * e
        /\ Leq(a, c) <=> n * f <= l * d
    BY <2>1, ComparedByNumbers
  <2>4. /\ Leq(a, Zero) <=> n * 1 <= 0 * d
        /\ Positive(a) <=> n > 0
        /\ a.n = 0 <=> n = 0
    BY <2>1, ZeroStandsFor, ComparedByNumbers
  <2>5. n * e = m * d => a = b
    BY <2>1, SameNumber
  <2>6. n * e <= m * d /\ m * f <= l * e => n * f <= l * d
    <3>1. SUFFICES ASSUME n * e <= m * d, m * f <= l * e
                   PROVE  n * f <= l * d
      OBVIOUS
    <3>2. (n * e) * f <= (m * d) * f /\ (m * f) * d <= (l * e) * d
      BY <3>1
    <3>3. (n * f) * e <= (l * d) * e
      BY <3>2
    <3>4. QED
      BY <3>3
  <2>7. n * 1 = 0 * d => a = Zero
    BY <2>1, ZeroStandsFor, SameNumber
  <2>8. a = Zero => a.n = 0
    BY DEF Zero, Whole
  <2>9. /\ n * e <= m * d \/ m * d <= n * e
        /\ n * e <= m * d /\ m * d <= n * e => n * e = m * d
        /\ n * e < m * d <=> ~(m * d <= n * e)
        /\ n > 0 <=> ~(n * 1 <= 0 * d)
        /\ n = 0 => n * 1 = 0 * d
    OBVIOUS
  <2>10. QED
    BY <2>2, <2>3, <2>4, <2>5, <2>6, <2>7, <2>8, <2>9
<1>2. QED
  BY <1>1, ZeroStandsFor

LEMMA OrderKept ==
  /\ \A a, b, c \in Lowest : Leq(a, b) <=> Leq(Plus(a, c), Plus(b, c))
  /\ \A a, b, c \in Lowest : Leq(a, b) <=> Leq(Minus(a, c), Minus(b, c))
  /\ \A a, b, c \in Lowest :
       Leq(Zero, c) /\ Leq(a, b) => Leq(Times(a, c), Times(b, c))
  /\ \A a, b \in Lowest :
       Leq(Zero, a) /\ Leq(Zero, b) => Leq(Zero, Over(a, b))
<1>1. ASSUME NEW a \in Lowest, NEW b \in Lowest, NEW c \in Lowest
      PROVE  /\ Leq(a, b) <=> Leq(Plus(a, c), Plus(b, c))
             /\ Leq(a, b) <=> Leq(Minus(a, c), Minus(b, c))
             /\ Leq(Zero, c) /\ Leq(a, b) => Leq(Times(a, c), Times(b, c))
             /\ Leq(Zero, a) /\ Leq(Zero, b) => Leq(Zero, Over(a, b))
  <2>1. PICK n \in Int, d \in Nat \ {0}, m \in Int, e \in Nat \ {0},
             l \in Int, f \in Nat \ {0} :
          StandsFor(a, n, d) /\ StandsFor(b, m, e) /\ StandsFor(c, l, f)
    BY Numbers
  <2>2. /\ d * f \in Nat \ {0} /\ e * f \in Nat \ {0}
    BY <2>1
  <2>3. /\ StandsFor(Plus(a, c), n * f + l * d, d * f)
        /\ StandsFor(Plus(b, c), m * f + l * e, e * f)
        /\ StandsFor(Minus(a, c), n * f - l * d, d * f)
        /\ StandsFor(Minus(b, c), m * f - l * e, e * f)
        /\ StandsFor(Times(a, c), n * l, d * f)
        /\ StandsFor(Times(b, c), m * l, e * f)
    BY <2>1, OperationsStandFor
  <2>4. /\ Leq(a, b) <=> n * e <= m * d
        /\ Leq(Zero, c) <=> 0 * f <= l * 1
        /\ Leq(Zero, a) <=> 0 * d <= n * 1
        /\ Leq(Zero, b) <=> 0 * e <= m * 1
    BY <2>1, ZeroStandsFor, ComparedByNumbers
  <2>5. /\ Leq(Plus(a, c), Plus(b, c)) <=>
             (n * f + l * d) * (e * f) <= (m * f + l * e) * (d * f)
        /\ Leq(Minus(a, c), Minus(b, c)) <=>
             (n * f - l * d) * (e * f) <= (m * f - l * e) * (d * f)
        /\ Leq(Times(a, c), Times(b, c)) <=>
             (n * l) * (e * f) <= (m * l) * (d * f)
    BY <2>2, <2>3, ComparedByNumbers
  <2>6. /\ (m * f + l * e) * (d * f) - (n * f + l * d) * (e * f)
             = (m * d - n * e) * (f * f)
        /\ (m * f - l * e) * (d * f) - (n * f - l * d) * (e * f)
             = (m * d - n * e) * (f * f)
        /\ (m * l) * (d * f) - (n * l) * (e * f) = (m * d - n * e) * (l * f)
    OBVIOUS
  <2>7. f * f > 0 /\ (l >= 0 => l * f >= 0)
    BY <2>1
  <2>8. \A x, y \in Int : /\ y > 0 => (x >= 0 <=> x * y >= 0)
                          /\ x >= 0 /\ y >= 0 => x * y >= 0
    OBVIOUS
  <2>9. PICK x \in Int, y \in Int, z \in Int :
          x = m * d - n * e /\ y = f * f /\ z = l * f
    BY <2>1
  <2>10. /\ m * d - n * e >= 0 <=> (m * d - n * e) * (f * f) >= 0
         /\ l >= 0 /\ m * d - n * e >= 0 => (m * d - n * e) * (l * f) >= 0
    BY <2>7, <2>8, <2>9
  <2>11. /\ Leq(a, b) <=> Leq(Plus(a, c), Plus(b, c))
         /\ Leq(a, b) <=> Leq(Minus(a, c), Minus(b, c))
         /\ Leq(Zero, c) /\ Leq(a, b) => Leq(Times(a, c), Times(b, c))
    BY <2>4, <2>5, <2>6, <2>10
  <2>12. ASSUME Leq(Zero, a), Leq(Zero, b) PROVE Leq(Zero, Over(a, b))
    <3>1. CASE m = 0
      BY <2>1, <3>1, ComparedByNumbers, OrderLaws, ZeroStandsFor DEF Over
    <3>2. CASE m # 0
      <4>1. m > 0 /\ n >= 0
        BY <2>4, <2>12, <3>2
      <4>2. n * e >= 0 /\ d * m \in Nat \ {0}
        BY <4>1
      <4>3. StandsFor(Over(a, b), n * e, d * m)
        BY <2>1, <3>2, OperationsStandFor
      <4>4. PICK k \in Int, j \in Nat \ {0} : k = n * e /\ j = d * m
        BY <4>2
      <4>5. StandsFor(Over(a, b), k, j)
        BY <4>3, <4>4
      <4>6. Leq(Zero, Over(a, b)) <=> 0 * j <= k * 1
        <5>1. 1 \in Nat \ {0}
          OBVIOUS
        <5>2. QED
          BY <4>5, <5>1, ZeroStandsFor, ComparedByNumbers
      <4>7. QED
        BY <4>2, <4>4, <4>6
    <3>3. QED
      BY <3>1, <3>2
  <2>13. QED
    BY <2>11, <2>12
<1>2. QED
  BY <1>1

LEMMA PlusRegroup ==
  /\ \A a, b, c \in Lowest : Plus(a, Plus(b, c)) = Plus(b, Plus(a, c))
  /\ \A a, b, c, d \in Lowest :
       Plus(Plus(a, b), Plus(c, d)) = Plus(Plus(a, c), Plus(b, d))
<1>1. ASSUME NEW a \in Lowest, NEW b \in Lowest, NEW c \in Lowest
      PROVE  Plus(a, Plus(b, c)) = Plus(b, Plus(a, c))
  <2>1. /\ Plus(a, Plus(b, c)) = Plus(Plus(a, b), c)
        /\ Plus(b, Plus(a, c)) = Plus(Plus(b, a), c)
        /\ Plus(a, b) = Plus(b, a)
    BY PlusLaws
  <2>2. QED
    BY <2>1
<1>2. ASSUME NEW a \in Lowest, NEW b \in Lowest, NEW c \in Lowest,
             NEW d \in Lowest
      PROVE  Plus(Plus(a, b), Plus(c, d)) = Plus(Plus(a, c), Plus(b, d))
  <2>1. Plus(c, d) \in Lowest /\ Plus(b, d) \in Lowest
    BY FractionsClosed
  <2>2. /\ Plus(Plus(a, b), Plus(c, d)) = Plus(a, Plus(b, Plus(c, d)))
        /\ Plus(Plus(a, c), Plus(b, d)) = Plus(a, Plus(c, Plus(b, d)))
    BY <2>1, PlusLaws
  <2>3. Plus(b, Plus(c, d)) = Plus(c, Plus(b, d))
    BY <1>1
  <2>4. QED
    BY <2>2, <2>3
<1>3. QED
  BY <1>1, <1>2

-----------------------------------------------------------------------------

(* Totals of fractions, as sums of integers: the recursive function behind *)
(* Total(f, S).                                                            *)
RunningTotal(f, D) ==
  CHOOSE p : p = [s \in D |-> IF s = {} THEN Zero
                              ELSE Plus(f[Some(s)], p[s \ {Some(s)}])]

LEMMA TotalIsRunning ==
  ASSUME NEW f, NEW S
  PROVE  Total(f, S) = RunningTotal(f, SUBSET S)[S]
BY Zenon DEF Total, FoldFunctionOnSet, MapThenFoldSet, RunningTotal, Some

RunsUp(p, f, D) ==
  \A s \in D : p[s] = IF s = {} THEN Zero
                      ELSE Plus(f[Some(s)], p[s \ {Some(s)}])

LEMMA RunningIsDefined ==
  ASSUME NEW f, NEW S, IsFiniteSet(S)
  PROVE  RunsUp(RunningTotal(f, SUBSET S), f, SUBSET S)
<1> DEFINE Small(n) == {s \in SUBSET S : Cardinality(s) < n}
           Runs(p, D) == p = [s \in D |-> IF s = {} THEN Zero
                                          ELSE Plus(f[Some(s)], p[s \ {Some(s)}])]
           N == {n \in Nat : \E p : Runs(p, Small(n))}
<1>1. \A s \in SUBSET S : IsFiniteSet(s) /\ Cardinality(s) \in Nat
  BY FS_Subset, FS_CardinalityType
<1>2. \A s \in SUBSET S : s # {} =>
        /\ Some(s) \in s /\ s \ {Some(s)} \in SUBSET S
        /\ Cardinality(s \ {Some(s)}) = Cardinality(s) - 1
  <2>1. ASSUME NEW s \in SUBSET S, s # {}
        PROVE  /\ Some(s) \in s /\ s \ {Some(s)} \in SUBSET S
               /\ Cardinality(s \ {Some(s)}) = Cardinality(s) - 1
    <3>1. Some(s) \in s
      BY <2>1 DEF Some
    <3>2. QED
      BY <1>1, <3>1, FS_RemoveElement
  <2>2. QED
    BY <2>1
<1>3. 0 \in N
  <2>1. Small(0) = {}
    BY <1>1
  <2>2. Runs([s \in {} |-> Zero], Small(0))
    BY <2>1
  <2> HIDE DEF Runs, Small
  <2>3. QED
    BY <2>2
<1>4. ASSUME NEW n \in Nat, n \in N PROVE n + 1 \in N
  <2>1. PICK p : Runs(p, Small(n))
    BY <1>4
  <2> DEFINE q == [s \in Small(n + 1) |->
                     IF s = {} THEN Zero ELSE Plus(f[Some(s)], p[s \ {Some(s)}])]
  <2>2. Small(n) \subseteq Small(n + 1)
    BY <1>1
  <2>3. \A s \in Small(n + 1) : s # {} => s \ {Some(s)} \in Small(n)
    BY <1>1, <1>2
  <2> HIDE DEF Small
  <2>4. \A s \in Small(n) : q[s] = p[s]
    BY <2>1, <2>2
  <2>5. Runs(q, Small(n + 1))
    BY <2>3, <2>4
  <2> HIDE DEF Runs, q
  <2>6. QED
    BY <2>5
<1>5. \E p : Runs(p, SUBSET S)
  <2>1. Nat \subseteq N
    <3> HIDE DEF N
    <3>1. QED
      BY <1>3, <1>4, NatSetInduction
  <2>2. Cardinality(S) + 1 \in N
    <3>1. S \in SUBSET S
      OBVIOUS
    <3>2. Cardinality(S) + 1 \in Nat
      BY <1>1, <3>1
    <3> HIDE DEF N
    <3>3. QED
      BY <2>1, <3>2
  <2>3. Small(Cardinality(S) + 1) = SUBSET S
    <3>1. \A s \in SUBSET S : Cardinality(s) <= Cardinality(S)
      BY FS_Subset
    <3>2. QED
      BY <1>1, <3>1
  <2> HIDE DEF Small, Runs
  <2>4. QED
    BY <2>2, <2>3
<1>6. Runs(RunningTotal(f, SUBSET S), SUBSET S)
  BY <1>5 DEF RunningTotal
<1>7. QED
  BY <1>6 DEF RunsUp

LEMMA RunningsAgree ==
  ASSUME NEW f, NEW S, IsFiniteSet(S)
  PROVE  \A T \in SUBSET S :
           RunningTotal(f, SUBSET S)[T] = RunningTotal(f, SUBSET T)[T]
<1> DEFINE C == {T \in SUBSET S : \A U \in SUBSET S : T \subseteq U =>
                   RunningTotal(f, SUBSET U)[T] = RunningTotal(f, SUBSET S)[T]}
<1>1. ASSUME NEW T \in SUBSET S, \A U \in (SUBSET T) \ {T} : U \in C
      PROVE  T \in C
  <2>1. ASSUME NEW U \in SUBSET S, T \subseteq U
        PROVE  RunningTotal(f, SUBSET U)[T] = RunningTotal(f, SUBSET S)[T]
    <3>1. IsFiniteSet(U)
      BY FS_Subset
    <3>2. CASE T = {}
      BY <2>1, <3>1, <3>2, RunningIsDefined DEF RunsUp
    <3>3. CASE T # {}
      <4> DEFINE V == T \ {Some(T)}
      <4>1. Some(T) \in T
        BY <3>3 DEF Some
      <4>2. V \in (SUBSET T) \ {T} /\ V \subseteq U
        BY <2>1, <4>1
      <4>3. RunningTotal(f, SUBSET U)[V] = RunningTotal(f, SUBSET S)[V]
        BY <1>1, <4>2
      <4> HIDE DEF C
      <4>4. \A W \in {U, S} : RunningTotal(f, SUBSET W)[T]
                              = Plus(f[Some(T)], RunningTotal(f, SUBSET W)[V])
        <5> SUFFICES ASSUME NEW W \in {U, S}
                     PROVE  RunningTotal(f, SUBSET W)[T]
                            = Plus(f[Some(T)], RunningTotal(f, SUBSET W)[V])
          OBVIOUS
        <5> DEFINE p == RunningTotal(f, SUBSET W)
        <5>1. T \in SUBSET W /\ IsFiniteSet(W)
          BY <2>1, <3>1
        <5>2. RunsUp(p, f, SUBSET W)
          BY <5>1, RunningIsDefined
        <5> HIDE DEF p
        <5>3. p[T] = Plus(f[Some(T)], p[T \ {Some(T)}])
          BY <3>3, <5>1, <5>2 DEF RunsUp
        <5>4. QED
          BY <5>3 DEF p
      <4>5. QED
        BY <4>3, <4>4
    <3>4. QED
      BY <3>2, <3>3
  <2>2. QED
    BY <2>1
<1>2. \A T \in SUBSET S : T \in C
  <2> HIDE DEF C
  <2>1. QED
    BY <1>1, SubsetInduction
<1>3. QED
  BY <1>2

LEMMA TotalEmpty == ASSUME NEW f PROVE Total(f, {}) = Zero
BY FS_EmptySet, TotalIsRunning, RunningIsDefined DEF RunsUp

LEMMA TotalSome ==
  ASSUME NEW f, NEW S, IsFiniteSet(S), S # {}
  PROVE  /\ Some(S) \in S
         /\ Total(f, S) = Plus(f[Some(S)], Total(f, S \ {Some(S)}))
<1>1. Some(S) \in S
  BY DEF Some
<1>2. RunsUp(RunningTotal(f, SUBSET S), f, SUBSET S)
  BY RunningIsDefined
<1>3. RunningTotal(f, SUBSET S)[S] =
        Plus(f[Some(S)], RunningTotal(f, SUBSET S)[S \ {Some(S)}])
  BY <1>2 DEF RunsUp
<1>4. QED
  BY <1>1, <1>3, TotalIsRunning, RunningsAgree

LEMMA TotalType ==
  ASSUME NEW S, IsFiniteSet(S), NEW f, \A x \in S : f[x] \in Lowest
  PROVE  Total(f, S) \in Lowest
<1> DEFINE C == {T \in SUBSET S : Total(f, T) \in Lowest}
<1>1. ASSUME NEW T \in SUBSET S, \A U \in (SUBSET T) \ {T} : U \in C
      PROVE  T \in C
  <2>1. CASE T = {}
    BY <2>1, TotalEmpty, ZeroStandsFor
  <2>2. CASE T # {}
    <3>1. IsFiniteSet(T)
      BY FS_Subset
    <3>2. Some(T) \in T /\ T \ {Some(T)} \in (SUBSET T) \ {T}
      BY <2>2 DEF Some
    <3>3. Total(f, T \ {Some(T)}) \in Lowest /\ f[Some(T)] \in Lowest
      BY <1>1, <3>2
    <3>4. Total(f, T) = Plus(f[Some(T)], Total(f, T \ {Some(T)}))
      BY <2>2, <3>1, TotalSome
    <3>5. QED
      BY <3>3, <3>4, FractionsClosed
  <2>3. QED
    BY <2>1, <2>2
<1>2. \A T \in SUBSET S : T \in C
  <2> HIDE DEF C
  <2>1. QED
    BY <1>1, SubsetInduction
<1>3. QED
  BY <1>2

LEMMA TotalTakeOut ==
  ASSUME NEW S, IsFiniteSet(S), NEW f, \A x \in S : f[x] \in Lowest,
         NEW x \in S
  PROVE  Total(f, S) = Plus(f[x], Total(f, S \ {x}))
<1> DEFINE All(T) == Total(f, T)
           C == {T \in SUBSET S : \A y \in T : All(T) = Plus(f[y], All(T \ {y}))}
<1> HIDE DEF All
<1>1. \A T \in SUBSET S : IsFiniteSet(T) /\ All(T) \in Lowest
  BY FS_Subset, TotalType DEF All
<1>2. ASSUME NEW T \in SUBSET S, \A U \in (SUBSET T) \ {T} : U \in C
      PROVE  T \in C
  <2>1. ASSUME NEW y \in T PROVE All(T) = Plus(f[y], All(T \ {y}))
    <3> DEFINE z == Some(T)
    <3>1. z \in T /\ All(T) = Plus(f[z], All(T \ {z}))
      BY <1>1, TotalSome DEF All
    <3> HIDE DEF z
    <3>2. CASE y = z
      BY <3>1, <3>2
    <3>3. CASE y # z
      <4>1. All(T \ {z}) = Plus(f[y], All((T \ {z}) \ {y}))
        BY <1>2, <3>1, <3>3
      <4>2. All(T \ {y}) = Plus(f[z], All((T \ {y}) \ {z}))
        BY <1>2, <2>1, <3>1, <3>3
      <4>3. (T \ {z}) \ {y} = (T \ {y}) \ {z}
        OBVIOUS
      <4>4. f[y] \in Lowest /\ f[z] \in Lowest /\ All((T \ {y}) \ {z}) \in Lowest
        BY <1>1, <2>1, <3>1
      <4>5. Plus(f[z], Plus(f[y], All((T \ {y}) \ {z})))
              = Plus(f[y], Plus(f[z], All((T \ {y}) \ {z})))
        BY <4>4, PlusRegroup
      <4>6. QED
        BY <3>1, <4>1, <4>2, <4>3, <4>5
    <3>4. QED
      BY <3>2, <3>3
  <2>2. QED
    BY <2>1
<1>3. \A T \in SUBSET S : T \in C
  <2> HIDE DEF C
  <2>1. QED
    BY <1>2, SubsetInduction
<1>4. QED
  BY <1>3 DEF All

LEMMA TotalAdd ==
  ASSUME NEW S, IsFiniteSet(S), NEW f, NEW x, x \notin S,
         \A y \in S \cup {x} : f[y] \in Lowest
  PROVE  Total(f, S \cup {x}) = Plus(f[x], Total(f, S))
<1>1. IsFiniteSet(S \cup {x}) /\ (S \cup {x}) \ {x} = S
  BY FS_AddElement
<1>2. Total(f, S \cup {x}) = Plus(f[x], Total(f, (S \cup {x}) \ {x}))
  BY <1>1, TotalTakeOut
<1>3. QED
  BY <1>1, <1>2

LEMMA TotalAgree ==
  ASSUME NEW S, IsFiniteSet(S), NEW f, NEW g, \A x \in S : f[x] = g[x]
  PROVE  Total(f, S) = Total(g, S)
<1> DEFINE C == {T \in SUBSET S :
                   Total(f, T) = Total(g, T)}
<1>1. ASSUME NEW T \in SUBSET S, \A U \in (SUBSET T) \ {T} : U \in C
      PROVE  T \in C
  <2>1. CASE T = {}
    BY <2>1, TotalEmpty
  <2>2. CASE T # {}
    <3>1. IsFiniteSet(T)
      BY FS_Subset
    <3>2. Some(T) \in T /\ T \ {Some(T)} \in (SUBSET T) \ {T}
      BY <2>2 DEF Some
    <3>3. Total(f, T \ {Some(T)})
            = Total(g, T \ {Some(T)})
      BY <1>1, <3>2
    <3>4. /\ Total(f, T) = Plus(f[Some(T)], Total(f, T \ {Some(T)}))
          /\ Total(g, T) = Plus(g[Some(T)], Total(g, T \ {Some(T)}))
      BY <2>2, <3>1, TotalSome
    <3>5. QED
      BY <3>2, <3>3, <3>4
  <2>3. QED
    BY <2>1, <2>2
<1>2. \A T \in SUBSET S : T \in C
  <2> HIDE DEF C
  <2>1. QED
    BY <1>1, SubsetInduction
<1>3. QED
  BY <1>2

(* Totals are linear.                                                      *)
LEMMA TotalPlus ==
  ASSUME NEW S, IsFiniteSet(S), NEW f, NEW g, NEW h,
         \A x \in S : /\ f[x] \in Lowest /\ g[x] \in Lowest
                      /\ h[x] = Plus(f[x], g[x])
  PROVE  Total(h, S) = Plus(Total(f, S), Total(g, S))
<1> DEFINE C == {T \in SUBSET S : Total(h, T) = Plus(Total(f, T), Total(g, T))}
<1>1. \A T \in SUBSET S : /\ IsFiniteSet(T)
                          /\ Total(f, T) \in Lowest /\ Total(g, T) \in Lowest
  BY FS_Subset, TotalType
<1>2. \A x \in S : h[x] \in Lowest
  BY FractionsClosed
<1>3. {} \in C
  BY TotalEmpty, ZeroStandsFor, PlusLaws
<1>4. ASSUME NEW T \in SUBSET S, NEW x \in S \ T, T \in C
      PROVE  T \cup {x} \in C
  <2>1. /\ Total(f, T \cup {x}) = Plus(f[x], Total(f, T))
        /\ Total(g, T \cup {x}) = Plus(g[x], Total(g, T))
        /\ Total(h, T \cup {x}) = Plus(h[x], Total(h, T))
    BY <1>1, <1>2, TotalAdd
  <2>2. Plus(Plus(f[x], g[x]), Plus(Total(f, T), Total(g, T)))
          = Plus(Plus(f[x], Total(f, T)), Plus(g[x], Total(g, T)))
    BY <1>1, PlusRegroup
  <2>3. QED
    BY <1>4, <2>1, <2>2
<1>5. S \in C
  <2> HIDE DEF C
  <2>1. QED
    BY <1>3, <1>4, AddInduction
<1>6. QED
  BY <1>5

LEMMA TotalTimes ==
  ASSUME NEW S, IsFiniteSet(S), NEW c \in Lowest, NEW f, NEW h,
         \A x \in S : f[x] \in Lowest /\ h[x] = Times(c, f[x])
  PROVE  Total(h, S) = Times(c, Total(f, S))
<1> DEFINE C == {T \in SUBSET S : Total(h, T) = Times(c, Total(f, T))}
<1>1. \A T \in SUBSET S : IsFiniteSet(T) /\ Total(f, T) \in Lowest
  BY FS_Subset, TotalType
<1>2. \A x \in S : h[x] \in Lowest
  BY FractionsClosed
<1>3. {} \in C
  BY TotalEmpty, TimesLaws
<1>4. ASSUME NEW T \in SUBSET S, NEW x \in S \ T, T \in C
      PROVE  T \cup {x} \in C
  <2>1. /\ Total(f, T \cup {x}) = Plus(f[x], Total(f, T))
        /\ Total(h, T \cup {x}) = Plus(h[x], Total(h, T))
    BY <1>1, <1>2, TotalAdd
  <2>2. Times(c, Plus(f[x], Total(f, T)))
          = Plus(Times(c, f[x]), Times(c, Total(f, T)))
    BY <1>1, TimesLaws
  <2>3. QED
    BY <1>4, <2>1, <2>2
<1>5. S \in C
  <2> HIDE DEF C
  <2>1. QED
    BY <1>3, <1>4, AddInduction
<1>6. QED
  BY <1>5

(* The larger the parts the larger the total.                              *)
LEMMA TotalLeq ==
  ASSUME NEW S, IsFiniteSet(S), NEW f, NEW g,
         \A x \in S : f[x] \in Lowest /\ g[x] \in Lowest /\ Leq(f[x], g[x])
  PROVE  Leq(Total(f, S), Total(g, S))
<1> DEFINE C == {T \in SUBSET S : Leq(Total(f, T), Total(g, T))}
<1>1. \A T \in SUBSET S : /\ IsFiniteSet(T)
                          /\ Total(f, T) \in Lowest /\ Total(g, T) \in Lowest
  BY FS_Subset, TotalType
<1>2. {} \in C
  BY TotalEmpty, ZeroStandsFor, OrderLaws
<1>3. ASSUME NEW T \in SUBSET S, NEW x \in S \ T, T \in C
      PROVE  T \cup {x} \in C
  <2>1. /\ Total(f, T \cup {x}) = Plus(f[x], Total(f, T))
        /\ Total(g, T \cup {x}) = Plus(g[x], Total(g, T))
    BY <1>1, TotalAdd
  <2>2. Leq(Plus(f[x], Total(f, T)), Plus(g[x], Total(f, T)))
    BY <1>1, OrderKept
  <2>3. Leq(Plus(g[x], Total(f, T)), Plus(g[x], Total(g, T)))
    <3>1. Leq(Plus(Total(f, T), g[x]), Plus(Total(g, T), g[x]))
      BY <1>1, <1>3, OrderKept
    <3>2. QED
      BY <1>1, <3>1, PlusLaws
  <2>4. /\ Plus(f[x], Total(f, T)) \in Lowest
        /\ Plus(g[x], Total(f, T)) \in Lowest
        /\ Plus(g[x], Total(g, T)) \in Lowest
    BY <1>1, FractionsClosed
  <2>5. Leq(Total(f, T \cup {x}), Total(g, T \cup {x}))
    BY <2>1, <2>2, <2>3, <2>4, OrderLaws
  <2>6. QED
    BY <2>5
<1>4. S \in C
  <2> HIDE DEF C
  <2>1. QED
    BY <1>2, <1>3, AddInduction
<1>5. QED
  BY <1>4

LEMMA TotalZero ==
  ASSUME NEW S, IsFiniteSet(S), NEW f, \A x \in S : f[x] = Zero
  PROVE  Total(f, S) = Zero
<1>1. \A x \in S : f[x] \in Lowest /\ f[x] = Times(Zero, f[x])
  BY ZeroStandsFor, TimesLaws
<1>2. Total(f, S) = Times(Zero, Total(f, S)) /\ Total(f, S) \in Lowest
  BY <1>1, ZeroStandsFor, TotalTimes, TotalType
<1>3. QED
  BY <1>2, TimesLaws

LEMMA TotalPositive ==
  ASSUME NEW S, IsFiniteSet(S), NEW f,
         \A x \in S : f[x] \in Lowest /\ Leq(Zero, f[x])
  PROVE  Leq(Zero, Total(f, S))
<1> DEFINE z == [x \in S |-> Zero]
<1>1. \A x \in S : z[x] \in Lowest /\ z[x] = Zero /\ Leq(z[x], f[x])
  BY ZeroStandsFor
<1> HIDE DEF z
<1>2. Leq(Total(z, S), Total(f, S)) /\ Total(z, S) = Zero
  BY <1>1, TotalLeq, TotalZero
<1>3. QED
  BY <1>2

(* What is nothing outside a part totals to what the part does.            *)
LEMMA TotalPart ==
  ASSUME NEW S, IsFiniteSet(S), NEW R \in SUBSET S, NEW f,
         \A x \in R : f[x] \in Lowest, \A x \in S \ R : f[x] = Zero
  PROVE  Total(f, S) = Total(f, R)
<1> DEFINE C == {T \in SUBSET S : Total(f, T) = Total(f, T \cap R)}
<1>1. \A x \in S : f[x] \in Lowest
  BY ZeroStandsFor
<1>2. \A T \in SUBSET S : IsFiniteSet(T) /\ Total(f, T) \in Lowest
  BY <1>1, FS_Subset, TotalType
<1>3. {} \in C
  OBVIOUS
<1>4. ASSUME NEW T \in SUBSET S, NEW x \in S \ T, T \in C
      PROVE  T \cup {x} \in C
  <2>1. Total(f, T \cup {x}) = Plus(f[x], Total(f, T))
    BY <1>1, <1>2, TotalAdd
  <2>2. CASE x \in R
    <3>1. (T \cup {x}) \cap R = (T \cap R) \cup {x} /\ x \notin T \cap R
      BY <2>2
    <3>2. T \cap R \in SUBSET S
      OBVIOUS
    <3>3. Total(f, (T \cap R) \cup {x}) = Plus(f[x], Total(f, T \cap R))
      BY <1>1, <1>2, <3>1, <3>2, TotalAdd
    <3>4. QED
      BY <1>4, <2>1, <3>1, <3>3
  <2>3. CASE x \notin R
    <3>1. (T \cup {x}) \cap R = T \cap R /\ f[x] = Zero
      BY <2>3
    <3>2. Plus(Zero, Total(f, T)) = Total(f, T)
      BY <1>2, PlusLaws
    <3>3. QED
      BY <1>4, <2>1, <3>1, <3>2
  <2>4. QED
    BY <2>2, <2>3
<1>5. S \in C
  <2> HIDE DEF C
  <2>1. QED
    BY <1>3, <1>4, AddInduction
<1>6. S \cap R = R
  OBVIOUS
<1>7. QED
  BY <1>5, <1>6

LEMMA WholePlus == \A a, b \in Int : Plus(Whole(a), Whole(b)) = Whole(a + b)
<1>1. ASSUME NEW a \in Int, NEW b \in Int
      PROVE  Plus(Whole(a), Whole(b)) = Whole(a + b)
  <2>1. StandsFor(Plus(Whole(a), Whole(b)), a * 1 + b * 1, 1 * 1)
    BY WholeNumbers, OperationsStandFor
  <2>2. StandsFor(Whole(a + b), a + b, 1)
    BY WholeNumbers
  <2>3. (a * 1 + b * 1) * 1 = (a + b) * (1 * 1)
    OBVIOUS
  <2>4. QED
    BY <2>1, <2>2, <2>3, SameNumber
<1>2. QED
  BY <1>1

(* Whole numbers total to the whole number they sum to.                    *)
LEMMA TotalWhole ==
  ASSUME NEW S, IsFiniteSet(S), NEW k, NEW f,
         \A x \in S : k[x] \in Int /\ f[x] = Whole(k[x])
  PROVE  Total(f, S) = Whole(SumFunctionOnSet(k, S))
<1> DEFINE C == {T \in SUBSET S : Total(f, T) = Whole(SumFunctionOnSet(k, T))}
<1>1. \A T \in SUBSET S : IsFiniteSet(T) /\ SumFunctionOnSet(k, T) \in Int
  BY FS_Subset, SumType
<1>2. \A x \in S : f[x] \in Lowest
  BY WholeNumbers
<1>3. {} \in C
  BY TotalEmpty, SumEmpty DEF Zero
<1>4. ASSUME NEW T \in SUBSET S, NEW x \in S \ T, T \in C
      PROVE  T \cup {x} \in C
  <2>1. /\ Total(f, T \cup {x}) = Plus(f[x], Total(f, T))
        /\ SumFunctionOnSet(k, T \cup {x}) = k[x] + SumFunctionOnSet(k, T)
    BY <1>1, <1>2, TotalAdd, SumAdd
  <2>2. Plus(Whole(k[x]), Whole(SumFunctionOnSet(k, T)))
          = Whole(k[x] + SumFunctionOnSet(k, T))
    BY <1>1, WholePlus
  <2>3. QED
    BY <1>4, <2>1, <2>2
<1>5. S \in C
  <2> HIDE DEF C
  <2>1. QED
    BY <1>3, <1>4, AddInduction
<1>6. QED
  BY <1>5

-----------------------------------------------------------------------------

(* What is in lowest terms by Euclid's algorithm is.                       *)
LEMMA RationalLowest == ASSUME NEW q, Rational(q) PROVE q \in Lowest
<1>1. q \in [n : Int, d : Nat \ {0}] /\ Gcd[<<Magnitude(q.n), q.d>>] = 1
  BY DEF Rational
<1> DEFINE m == Magnitude(q.n)
           t == IF q.n < 0 THEN -1 ELSE 1
<1>2. m \in Nat /\ t \in {-1, 1} /\ m = t * q.n
  BY <1>1 DEF Magnitude
<1> HIDE DEF m, t
<1>3. Combines(1, m, q.d)
  <2>1. q.d \in Nat /\ Gcd[<<m, q.d>>] = 1
    BY <1>1 DEF m
  <2>2. QED
    BY <1>2, <2>1, GcdDivides
<1>4. PICK u \in Int, v \in Int : 1 = u * m + v * q.d
  BY <1>3 DEF Combines
<1>5. PICK n \in Int, d \in Int : n = q.n /\ d = q.d
  BY <1>1
<1>6. 1 = (u * t) * n + v * d
  BY <1>2, <1>4, <1>5
<1>7. u * t \in Int
  BY <1>2
<1>8. Combines(1, q.n, q.d)
  BY <1>5, <1>6, <1>7 DEF Combines
<1>9. QED
  BY <1>1, <1>8 DEF Lowest

LEMMA PercentStandsFor ==
  \A n \in Int : StandsFor(Percent(n), n, 100) /\ Percent(n) \in Lowest
BY FractionStandsFor DEF Percent, StandsFor

(* A fraction lies between its whole part and the next whole number.       *)
LEMMA FloorBounds ==
  \A q \in Lowest : /\ Floor(q) \in Int
                    /\ Leq(Whole(Floor(q)), q)
                    /\ Less(q, Whole(Floor(q) + 1))
<1> SUFFICES ASSUME NEW q \in Lowest
             PROVE  /\ Floor(q) \in Int
                    /\ Leq(Whole(Floor(q)), q)
                    /\ Less(q, Whole(Floor(q) + 1))
  OBVIOUS
<1>1. PICK n \in Int, d \in Nat \ {0} : n = q.n /\ d = q.d
  BY DEF Lowest
<1>2. Floor(q) = n \div d /\ n \div d \in Int
  BY <1>1 DEF Floor
<1>3. (n \div d) * d <= n /\ n < (n \div d + 1) * d
  <2>1. PICK k \in Int, r \in Int : k = n \div d /\ r = n % d
    BY <1>1
  <2>2. n = d * k + r /\ 0 <= r /\ r < d
    BY <2>1
  <2>3. k * d <= n /\ n < (k + 1) * d
    BY <2>2
  <2>4. QED
    BY <2>1, <2>3
<1>4. QED
  BY <1>1, <1>2, <1>3 DEF Leq, Less, Whole

LEMMA FloorNatural == \A q \in Lowest : Leq(Zero, q) => Floor(q) \in Nat
<1> SUFFICES ASSUME NEW q \in Lowest, Leq(Zero, q) PROVE Floor(q) \in Nat
  OBVIOUS
<1>1. PICK n \in Int, d \in Nat \ {0} : n = q.n /\ d = q.d
  BY DEF Lowest
<1>2. 0 * d <= n * 1
  BY <1>1 DEF Leq, Zero, Whole
<1>3. n >= 0
  BY <1>2
<1>4. QED
  BY <1>1, <1>3 DEF Floor

(* A split keeps every share or a fraction of one.                         *)
LEMMA SplitIsSound ==
  ASSUME NEW shares \in Nat, NEW ratio \in Lowest
  PROVE  SplitSound(shares, ratio)
<1> DEFINE exact == Times(Whole(shares), ratio)
           after == Floor(exact)
           left == Minus(exact, Whole(after))
<1>1. exact \in Lowest
  BY WholeNumbers, FractionsClosed
<1>2. Split(shares, ratio) = [after |-> after, fractional |-> left]
  BY DEF Split
<1> HIDE DEF exact
<1>3. /\ after \in Int /\ Whole(after) \in Lowest /\ left \in Lowest
      /\ Leq(Whole(after), exact) /\ Less(exact, Whole(after + 1))
      /\ Whole(after + 1) \in Lowest
  BY <1>1, FloorBounds, WholeNumbers, FractionsClosed
<1>4. Plus(Whole(after), left) = exact
  BY <1>1, <1>3, PlusLaws, MinusLaws
<1>5. Leq(Zero, left)
  <2>1. Minus(Plus(Zero, Whole(after)), Whole(after)) = Zero
    BY <1>3, ZeroStandsFor, MinusLaws
  <2>2. Leq(Minus(Whole(after), Whole(after)), left)
    BY <1>1, <1>3, OrderKept
  <2>3. QED
    BY <1>3, <2>1, <2>2, PlusLaws
<1>6. Less(left, Whole(1))
  <2> HIDE DEF after, left
  <2>1. Whole(1) \in Lowest /\ Plus(Whole(1), Whole(after)) = Whole(after + 1)
    <3>1. Plus(Whole(1), Whole(after)) = Whole(1 + after) /\ 1 + after = after + 1
      BY <1>3, WholePlus
    <3>2. QED
      BY <3>1, WholeNumbers
  <2>2. SUFFICES ASSUME Leq(Whole(1), left) PROVE FALSE
    BY <1>3, <2>1, OrderLaws
  <2>3. Leq(Plus(Whole(1), Whole(after)), Plus(left, Whole(after)))
    BY <1>3, <2>1, <2>2, OrderKept
  <2>4. Leq(Whole(after + 1), exact)
    BY <1>3, <1>4, <2>1, <2>3, PlusLaws
  <2>5. QED
    BY <1>1, <1>3, <2>4, OrderLaws
<1>7. QED
  BY <1>2, <1>4, <1>5, <1>6 DEF SplitSound, exact

-----------------------------------------------------------------------------

(* Multiplying by a positive number can be undone, and keeps the order     *)
(* both ways.                                                              *)
LEMMA TimesUndone ==
  \A a, b, c \in Lowest : Positive(c) =>
    /\ Over(Times(a, c), c) = a
    /\ Leq(Times(a, c), Times(b, c)) => Leq(a, b)
<1> SUFFICES ASSUME NEW a \in Lowest, NEW b \in Lowest, NEW c \in Lowest,
                    Positive(c)
             PROVE  /\ Over(Times(a, c), c) = a
                    /\ Leq(Times(a, c), Times(b, c)) => Leq(a, b)
  OBVIOUS
<1> DEFINE one == Whole(1)
           part == Over(one, c)
<1>1. one \in Lowest /\ part \in Lowest /\ Leq(Zero, one)
  <2>1. Leq(Zero, one)
    BY DEF Leq, Zero, Whole
  <2>2. QED
    BY <2>1, WholeNumbers, FractionsClosed
<1>2. c.n # 0 /\ Leq(Zero, c)
  <2>1. ~Leq(c, Zero)
    BY OrderLaws
  <2>2. Leq(Zero, c)
    BY <2>1, ZeroStandsFor, OrderLaws
  <2>3. c # Zero
    BY <2>1, <2>2
  <2>4. QED
    BY <2>2, <2>3, OrderLaws
<1>3. Leq(Zero, part) /\ Times(part, c) = one
  BY <1>1, <1>2, OrderKept, OverLaws
<1> HIDE DEF part
<1>4. \A x \in Lowest : Times(Times(x, c), part) = x
  <2>1. ASSUME NEW x \in Lowest PROVE Times(Times(x, c), part) = x
    <3>1. Times(Times(x, c), part) = Times(x, Times(c, part))
      BY <1>1, TimesLaws
    <3>2. Times(c, part) = one
      BY <1>1, <1>3, TimesLaws
    <3>3. QED
      BY <3>1, <3>2, TimesLaws
  <2>2. QED
    BY <2>1
<1>5. Over(Times(a, c), c) = a
  <2>1. Times(a, c) \in Lowest
    BY FractionsClosed
  <2>2. Times(Times(a, c), part) = Times(Over(Times(a, c), c), one)
    BY <1>1, <2>1, OverLaws DEF part
  <2>3. Over(Times(a, c), c) \in Lowest
    BY <2>1, FractionsClosed
  <2>4. QED
    BY <1>4, <2>2, <2>3, TimesLaws
<1>6. ASSUME Leq(Times(a, c), Times(b, c)) PROVE Leq(a, b)
  <2>1. Leq(Times(Times(a, c), part), Times(Times(b, c), part))
    BY <1>1, <1>3, <1>6, FractionsClosed, OrderKept
  <2>2. QED
    BY <1>4, <2>1
<1>7. QED
  BY <1>5, <1>6

LEMMA LeastFraction ==
  ASSUME NEW S, IsFiniteSet(S), S \subseteq Lowest, S # {}
  PROVE  \E p \in S : \A q \in S : Leq(p, q)
<1> DEFINE C == {T \in SUBSET S : T # {} => \E p \in T : \A q \in T : Leq(p, q)}
<1>1. {} \in C
  OBVIOUS
<1>2. ASSUME NEW T \in SUBSET S, NEW x \in S \ T, T \in C
      PROVE  T \cup {x} \in C
  <2>0. x \in Lowest /\ Leq(x, x)
    BY OrderLaws
  <2>1. CASE T = {}
    BY <2>0, <2>1
  <2>2. CASE T # {}
    <3>1. PICK p \in T : \A q \in T : Leq(p, q)
      BY <1>2, <2>2
    <3>2. p \in Lowest /\ T \subseteq Lowest
      BY <3>1
    <3>3. CASE Leq(p, x)
      <4>1. \A q \in T \cup {x} : Leq(p, q)
        BY <3>1, <3>3
      <4>2. QED
        BY <4>1
    <3>4. CASE ~Leq(p, x)
      <4>1. Leq(x, p)
        BY <2>0, <3>2, <3>4, OrderLaws
      <4>2. \A q \in T \cup {x} : Leq(x, q)
        BY <2>0, <3>1, <3>2, <4>1, OrderLaws
      <4>3. QED
        BY <4>2
    <3>5. QED
      BY <3>3, <3>4
  <2>3. QED
    BY <2>1, <2>2
<1>3. S \in C
  <2> HIDE DEF C
  <2>1. QED
    BY <1>1, <1>2, AddInduction
<1>4. QED
  BY <1>3

(* The lowest of the positive ones among some prices.                      *)
LowestOf(price, prices) ==
  /\ price \in prices /\ price \in Lowest /\ Positive(price)
  /\ \A p \in prices : Positive(p) => Leq(price, p)

LEMMA BestPrice ==
  ASSUME NEW cap \in Lowest, NEW discount \in Lowest, NEW round \in Lowest,
         Positive(cap) \/ Positive(round),
         NEW price, price = SelectBestPrice(cap, discount, round)
  PROVE  LowestOf(price, {cap, discount, round})
<1> DEFINE prices == {p \in {cap, discount, round} : Positive(p)}
<1>1. prices # {} /\ prices \subseteq Lowest
  OBVIOUS
<1>2. IsFiniteSet(prices)
  <2>1. IsFiniteSet({} \cup {cap} \cup {discount} \cup {round})
    BY FS_EmptySet, FS_AddElement
  <2>2. prices \subseteq {} \cup {cap} \cup {discount} \cup {round}
    OBVIOUS
  <2>3. QED
    BY <2>1, <2>2, FS_Subset
<1>3. \E p \in prices : \A q \in prices : Leq(p, q)
  <2> HIDE DEF prices
  <2>1. QED
    BY <1>1, <1>2, LeastFraction
<1>4. price = CHOOSE p \in prices : \A q \in prices : Leq(p, q)
  BY <1>1 DEF SelectBestPrice
<1>5. price \in prices /\ \A q \in prices : Leq(price, q)
  BY <1>3, <1>4
<1>6. QED
  BY <1>5 DEF LowestOf

(* So many whole shares are worth an amount to within one share.           *)
LEMMA WholeShares ==
  ASSUME NEW amount \in Lowest, NEW price \in Lowest, Positive(price)
  PROVE  LET shares == Floor(Over(amount, price)) IN
         /\ Leq(Times(Whole(shares), price), amount)
         /\ Less(amount, Times(Whole(shares + 1), price))
<1> DEFINE shares == Floor(Over(amount, price))
           exact == Over(amount, price)
<1>1. exact \in Lowest /\ price.n # 0 /\ Leq(Zero, price)
  <2>1. ~Leq(price, Zero)
    BY OrderLaws
  <2>2. price # Zero /\ Leq(Zero, price)
    BY <2>1, ZeroStandsFor, OrderLaws
  <2>3. QED
    BY <2>2, FractionsClosed, OrderLaws
<1>2. Times(exact, price) = amount
  BY <1>1, OverLaws
<1>3. /\ shares \in Int /\ Leq(Whole(shares), exact)
      /\ Less(exact, Whole(shares + 1))
  BY <1>1, FloorBounds
<1> HIDE DEF exact, shares
<1>4. Whole(shares) \in Lowest /\ Whole(shares + 1) \in Lowest
  BY <1>3, WholeNumbers
<1>5. Leq(Times(Whole(shares), price), amount)
  BY <1>1, <1>2, <1>3, <1>4, OrderKept
<1>6. ~Leq(Times(Whole(shares + 1), price), amount)
  <2>1. SUFFICES ASSUME Leq(Times(Whole(shares + 1), price), amount)
                 PROVE  FALSE
    OBVIOUS
  <2>2. Leq(Whole(shares + 1), exact)
    BY <1>1, <1>2, <1>4, <2>1, TimesUndone
  <2>3. QED
    BY <1>1, <1>3, <1>4, <2>2, OrderLaws
<1>7. QED
  BY <1>4, <1>5, <1>6, OrderLaws, FractionsClosed DEF shares

(* What converts does so at the best price, for whole shares.              *)
LEMMA ConversionIsSound ==
  ASSUME NEW i \in Convertible, NEW t \in Trigger, ~Unpriced(i, t)
  PROVE  ConversionSound(Convert(i, t), t)
<1> DEFINE cap == CapPrice(i, t)
           discount == DiscountPrice(i, t)
           round == Whole(t.price)
           price == SelectBestPrice(cap, discount, round)
           amount == ConvertedAmount(i, t)
           shares == Floor(Over(amount, price))
           c == Convert(i, t)
<1>1. /\ i.cap \in Nat /\ i.discount \in Nat /\ i.amount \in Nat
      /\ i.rate \in Nat /\ i.maturity \in Int
      /\ t.price \in Nat /\ t.preShares \in Nat /\ t.postShares \in Nat
      /\ t.days \in Int
  BY DEF Convertible, Trigger
<1>2. cap \in Lowest /\ round \in Lowest /\ discount \in Lowest
  <2>1. cap \in Lowest /\ round \in Lowest
    BY <1>1, WholeNumbers, FractionsClosed DEF CapPrice, CapShares
  <2>2. 100 - i.discount \in Int
    BY <1>1
  <2>3. discount \in Lowest
    BY <1>1, <2>2, WholeNumbers, ZeroStandsFor, PercentStandsFor,
       FractionsClosed DEF DiscountPrice
  <2>4. QED
    BY <2>1, <2>3
<1>3. amount \in Lowest
  <2>1. ASSUME NEW days \in Int PROVE Fraction(days, 365) \in Lowest
    BY FractionStandsFor DEF StandsFor
  <2>2. AccruedInterest(i, t) \in Lowest
    BY <1>1, <2>1, WholeNumbers, ZeroStandsFor, PercentStandsFor,
       FractionsClosed DEF AccruedInterest
  <2>3. QED
    BY <1>1, <2>2, WholeNumbers, FractionsClosed DEF ConvertedAmount
<1>4. Positive(cap) \/ Positive(round)
  <2>1. CASE t.price > 0
    BY <2>1 DEF Positive, Whole
  <2>2. CASE ~(t.price > 0)
    <3> DEFINE k == CapShares(i, t)
    <3>1. i.cap > 0 /\ k \in Nat /\ k # 0
      BY <1>1, <2>2 DEF Unpriced, CapShares
    <3> HIDE DEF k
    <3>2. StandsFor(Whole(i.cap), i.cap, 1) /\ StandsFor(Whole(k), k, 1)
      BY <1>1, <3>1, WholeNumbers
    <3>3. StandsFor(cap, i.cap * 1, 1 * k)
      BY <3>1, <3>2, OperationsStandFor DEF CapPrice, k
    <3>4. StandsFor(Zero, 0, 1) /\ 1 \in Nat \ {0}
      BY ZeroStandsFor
    <3>5. i.cap * 1 = i.cap /\ 1 * k = k /\ k \in Nat \ {0}
      BY <1>1, <3>1
    <3>6. Positive(cap) <=> i.cap > 0
      <4>1. StandsFor(cap, i.cap, k)
        BY <3>3, <3>5
      <4> HIDE DEF cap
      <4>2. QED
        BY <3>4, <3>5, <4>1, ComparedByNumbers
    <3>7. QED
      BY <3>1, <3>6
  <2>3. QED
    BY <2>1, <2>2
<1>5. Leq(discount, round) \/ discount = Zero
  <2>1. CASE i.discount = 0
    BY <2>1 DEF DiscountPrice
  <2>2. CASE i.discount # 0
    <3>1. PICK x \in Int, y \in Nat : x = 100 - i.discount /\ y = t.price
                                       /\ x <= 99
      BY <1>1, <2>2
    <3>2. StandsFor(Whole(y), y, 1) /\ StandsFor(Percent(x), x, 100)
      BY <3>1, WholeNumbers, PercentStandsFor
    <3>3. StandsFor(discount, y * x, 1 * 100)
      BY ZenonT(60), <2>2, <3>1, <3>2, OperationsStandFor DEF DiscountPrice
    <3>4. StandsFor(discount, y * x, 100) /\ StandsFor(round, y, 1)
      BY <3>1, <3>2, <3>3
    <3>5. Leq(discount, round) <=> (y * x) * 1 <= y * 100
      <4>1. 100 \in Nat \ {0} /\ 1 \in Nat \ {0}
        OBVIOUS
      <4> HIDE DEF discount, round
      <4>2. QED
        BY <3>4, <4>1, ComparedByNumbers
    <3>6. (y * x) * 1 <= y * 100
      BY <3>1
    <3>7. QED
      BY <3>5, <3>6
  <2>3. QED
    BY <2>1, <2>2
<1>6. c = [price |-> price, amount |-> amount, cap |-> cap,
           discount |-> discount, method |-> Method(cap, discount),
           shares |-> shares]
  BY DEF Convert
<1> HIDE DEF cap, discount, round, amount
<1>7. /\ price \in Lowest /\ Positive(price)
      /\ \A p \in {cap, discount, round} : Positive(p) => Leq(price, p)
      /\ \A p \in {cap, discount, round} :
           Positive(p) /\ (\A q \in {cap, discount, round} :
                             Positive(q) => Leq(p, q)) => price = p
  <2>1. price = SelectBestPrice(cap, discount, round)
    OBVIOUS
  <2> HIDE DEF price
  <2>2. LowestOf(price, {cap, discount, round})
    BY <1>2, <1>4, <2>1, BestPrice
  <2>3. ASSUME NEW p \in {cap, discount, round}, Positive(p),
               \A q \in {cap, discount, round} : Positive(q) => Leq(p, q)
        PROVE  price = p
    <3>1. Leq(price, p) /\ Leq(p, price) /\ p \in Lowest /\ price \in Lowest
      BY <1>2, <2>2, <2>3 DEF LowestOf
    <3>2. QED
      BY <3>1, OrderLaws
  <2>4. QED
    BY <2>2, <2>3 DEF LowestOf
<1> HIDE DEF price
<1>8. Leq(Times(Whole(shares), price), amount)
      /\ Less(amount, Times(Whole(shares + 1), price))
  BY <1>3, <1>7, WholeShares
<1>9. Method(cap, discount) = "cap" => price = cap \/ Less(round, cap)
  <2>1. SUFFICES ASSUME Method(cap, discount) = "cap", ~Less(round, cap)
                 PROVE  price = cap
    OBVIOUS
  <2>2. Positive(cap) /\ (Positive(discount) => Leq(cap, discount))
    BY <2>1 DEF Method
  <2>3. Leq(cap, round) /\ Leq(cap, cap)
    BY <1>2, <2>1, OrderLaws
  <2>4. QED
    BY <1>7, <2>2, <2>3
<1>10. Method(cap, discount) = "discount" => price = discount
  <2>1. SUFFICES ASSUME Method(cap, discount) = "discount"
                 PROVE  price = discount
    OBVIOUS
  <2>2. Positive(discount) /\ ~(Positive(cap) /\ Leq(cap, discount))
    BY <2>1 DEF Method
  <2>3. discount # Zero /\ Leq(discount, discount)
    BY <1>2, <2>2, OrderLaws
  <2>4. Leq(discount, round) /\ (Positive(cap) => Leq(discount, cap))
    BY <1>2, <1>5, <2>2, <2>3, OrderLaws
  <2>5. QED
    BY <1>7, <2>2, <2>3, <2>4
<1>11. QED
  BY <1>6, <1>7, <1>8, <1>9, <1>10 DEF ConversionSound, round

(* So does everything that converts together.                              *)
LEMMA ConversionsAreSound ==
  ASSUME NEW instruments \in Seq(Convertible), NEW t \in Trigger
  PROVE  LET all == ConvertAll(instruments, t) IN
         \A i \in DOMAIN all : ConversionSound(all[i], t)
<1>1. CASE \E i \in DOMAIN instruments : Unpriced(instruments[i], t)
  <2>1. ConvertAll(instruments, t) = <<>>
    BY <1>1 DEF ConvertAll
  <2>2. DOMAIN <<>> = {}
    OBVIOUS
  <2>3. QED
    BY <2>1, <2>2
<1>2. CASE ~\E i \in DOMAIN instruments : Unpriced(instruments[i], t)
  <2>1. ConvertAll(instruments, t) =
          [i \in DOMAIN instruments |-> Convert(instruments[i], t)]
    BY <1>2 DEF ConvertAll
  <2>2. \A i \in DOMAIN instruments : instruments[i] \in Convertible
    OBVIOUS
  <2>3. QED
    BY <1>2, <2>1, <2>2, ConversionIsSound
<1>3. QED
  BY <1>1, <1>2

-----------------------------------------------------------------------------

LEMMA TotalSharesWhole ==
  ASSUME NEW held, IsFiniteSet(DOMAIN held),
         \A h \in DOMAIN held : held[h] \in Nat
  PROVE  /\ SumFunctionOnSet(held, DOMAIN held) \in Nat
         /\ TotalShares(held) = Whole(SumFunctionOnSet(held, DOMAIN held))
<1> DEFINE S == DOMAIN held
           f == [h \in S |-> Whole(held[h])]
<1>1. SumFunctionOnSet(held, S) \in Nat
  BY SumType
<1>2. \A h \in S : held[h] \in Int /\ f[h] = Whole(held[h])
  OBVIOUS
<1>3. Total(f, S) = Whole(SumFunctionOnSet(held, S))
  <2> HIDE DEF f, S
  <2>1. IsFiniteSet(S)
    BY DEF S
  <2>2. QED
    BY <1>2, <2>1, TotalWhole
<1>4. QED
  BY <1>1, <1>3 DEF TotalShares

(* An exit pays out the valuation at one price per share.                  *)
LEMMA ExitSharesOut ==
  ASSUME NEW after, IsFiniteSet(DOMAIN after),
         \A h \in DOMAIN after : after[h] \in Nat,
         TotalShares(after).n # 0, NEW valuation \in Int,
         NEW exit, exit = ModelExit(after, valuation)
  PROVE  /\ Total(exit, DOMAIN exit) = Whole(valuation)
         /\ \A g, h \in DOMAIN exit : Times(exit[g], Whole(after[h]))
                                      = Times(exit[h], Whole(after[g]))
<1> DEFINE D == DOMAIN after
           H == {g \in D : after[g] # 0}
           all == TotalShares(after)
           shares == [h \in D |-> Whole(after[h])]
           value == Whole(valuation)
           price == Over(value, all)
<1>1. /\ \A h \in D : shares[h] = Whole(after[h]) /\ shares[h] \in Lowest
      /\ \A h \in D \ H : shares[h] = Zero
  BY WholeNumbers DEF Zero
<1>2. all = Total(shares, D) /\ all \in Lowest /\ value \in Lowest
      /\ price \in Lowest
  <2>1. all = Total(shares, D)
    BY DEF TotalShares
  <2>2. all \in Lowest
    BY TotalSharesWhole, WholeNumbers
  <2>3. QED
    BY <2>1, <2>2, WholeNumbers, FractionsClosed
<1>3. /\ DOMAIN exit = H
      /\ \A h \in H : exit[h] = Times(Over(Whole(after[h]), all), value)
  BY DEF ModelExit
<1>4. IsFiniteSet(D) /\ IsFiniteSet(H) /\ H \in SUBSET D /\ all.n # 0
  BY FS_Subset
<1> HIDE DEF D, H, all, shares, value
<1>5. \A h \in H : exit[h] = Times(price, shares[h])
  <2>1. ASSUME NEW h \in H PROVE exit[h] = Times(price, shares[h])
    <3>1. /\ shares[h] \in Lowest /\ Over(shares[h], all) \in Lowest
          /\ exit[h] = Times(Over(shares[h], all), value)
      BY <1>1, <1>2, <1>3, <1>4, FractionsClosed
    <3>2. exit[h] = Times(value, Over(shares[h], all))
      BY <1>2, <3>1, TimesLaws
    <3>3. QED
      BY <1>2, <3>1, <3>2, OverLaws
  <2>2. QED
    BY <2>1
<1> HIDE DEF price
<1>6. Total(exit, H) = value
  <2>1. Total(exit, H) = Times(price, Total(shares, H))
    BY <1>1, <1>2, <1>4, <1>5, TotalTimes
  <2>2. Total(shares, D) = Total(shares, H)
    BY <1>1, <1>4, TotalPart
  <2>3. Times(price, all) = value
    BY <1>2, <1>4, OverLaws DEF price
  <2>4. QED
    BY <1>2, <2>1, <2>2, <2>3
<1>7. ASSUME NEW g \in H, NEW h \in H
      PROVE  Times(exit[g], shares[h]) = Times(exit[h], shares[g])
  <2>1. /\ shares[g] \in Lowest /\ shares[h] \in Lowest
        /\ exit[g] = Times(price, shares[g]) /\ exit[h] = Times(price, shares[h])
    BY <1>1, <1>4, <1>5
  <2>2. QED
    BY <1>2, <2>1, TimesLaws
<1>8. QED
  <2>1. \A h \in H : shares[h] = Whole(after[h])
    BY <1>1, <1>4
  <2>2. QED
    BY <1>3, <1>6, <1>7, <2>1 DEF value

(* A round keeps every share, and the pool is the largest its percentage   *)
(* allows.                                                                 *)
LEMMA RoundIsSound ==
  ASSUME NEW before, NEW preMoney, NEW investment, NEW pool,
         RoundAsked(before, preMoney, investment, pool)
  PROVE  RoundSound(before, preMoney, investment, pool)
<1> DEFINE S == DOMAIN before
           E == SumFunctionOnSet(before, S)
           existing == TotalShares(before)
           price == Over(Whole(preMoney), existing)
           new == Floor(Over(Whole(investment), price))
           extra == Over(Times(Percent(pool), Plus(existing, Whole(new))),
                         Percent(100 - pool))
           k == Floor(extra)
           r == ModelRound(before, preMoney, investment, pool)
           D == S \cup {"investor"} \cup (IF k > 0 THEN {"pool"} ELSE {})
<1>1. /\ IsFiniteSet(S) /\ \A h \in S : before[h] \in Nat
      /\ "investor" \notin S /\ "pool" \notin S
      /\ Positive(existing)
      /\ preMoney \in Nat \ {0} /\ investment \in Nat \ {0} /\ pool \in 0 .. 99
  BY DEF RoundAsked
<1>2. r = [price |-> price, new |-> new, pool |-> k,
           diluted |-> existing.n + new + k,
           after |-> [h \in D |-> CASE h = "investor" -> new
                                    [] h = "pool" -> k [] OTHER -> before[h]]]
  BY DEF ModelRound
<1>3. E \in Nat /\ E > 0 /\ existing = Whole(E) /\ existing.n = E
  <2>1. E \in Nat /\ existing = Whole(E)
    BY <1>1, TotalSharesWhole
  <2>2. QED
    BY <1>1, <2>1 DEF Positive, Whole
<1> HIDE DEF E, existing
<1>4. StandsFor(price, preMoney, E) /\ price \in Lowest /\ Positive(price)
  <2>1. StandsFor(Whole(preMoney), preMoney, 1) /\ StandsFor(existing, E, 1)
    BY <1>1, <1>3, WholeNumbers
  <2>2. StandsFor(price, preMoney * 1, 1 * E)
    BY <1>3, <2>1, OperationsStandFor
  <2>3. preMoney * 1 = preMoney /\ 1 * E = E /\ E \in Nat \ {0}
    BY <1>1, <1>3
  <2> HIDE DEF price
  <2>4. StandsFor(price, preMoney, E)
    BY <2>2, <2>3
  <2>5. Positive(price) <=> preMoney > 0
    BY <2>3, <2>4, ComparedByNumbers
  <2>6. QED
    BY <1>1, <2>4, <2>5 DEF StandsFor
<1> HIDE DEF price
<1>5. new \in Nat
  <2> DEFINE exact == Over(Whole(investment), price)
  <2>1. StandsFor(Whole(investment), investment, 1) /\ preMoney # 0
    BY <1>1, WholeNumbers
  <2>2. StandsFor(exact, investment * E, 1 * preMoney)
    BY <1>4, <2>1, OperationsStandFor
  <2>3. PICK n \in Nat, d \in Nat \ {0} : n = investment * E /\ d = 1 * preMoney
    BY <1>1, <1>3
  <2>4. StandsFor(exact, n, d) /\ exact \in Lowest
    BY <2>2, <2>3 DEF StandsFor
  <2>5. StandsFor(Zero, 0, 1) /\ 1 \in Nat \ {0}
    BY ZeroStandsFor
  <2> HIDE DEF exact
  <2>6. Leq(Zero, exact) <=> 0 * d <= n * 1
    BY <2>4, <2>5, ComparedByNumbers
  <2>7. QED
    BY <2>3, <2>4, <2>6, FloorNatural DEF exact
<1>6. Leq(Times(Whole(new), price), Whole(investment))
  <2>1. Whole(investment) \in Lowest
    BY <1>1, WholeNumbers
  <2>2. QED
    BY <1>4, <2>1, WholeShares
<1> HIDE DEF new
<1> DEFINE M == E + new
<1>7. /\ k \in Nat /\ k * (100 - pool) <= pool * M
      /\ pool * M < (k + 1) * (100 - pool)
  <2>1. PICK p \in 0 .. 99, m \in Nat : p = pool /\ m = M
    BY <1>1, <1>3, <1>5
  <2>2. Plus(existing, Whole(new)) = Whole(m)
    BY <1>3, <1>5, <2>1, WholePlus
  <2>3. /\ StandsFor(Whole(m), m, 1) /\ StandsFor(Percent(p), p, 100)
        /\ StandsFor(Percent(100 - p), 100 - p, 100)
    BY <2>1, WholeNumbers, PercentStandsFor
  <2>4. StandsFor(Times(Percent(p), Whole(m)), p * m, 100 * 1)
    BY <2>3, OperationsStandFor
  <2>5. 100 - p # 0
    BY <2>1
  <2>6. StandsFor(extra, (p * m) * 100, (100 * 1) * (100 - p))
    <3> DEFINE part == Times(Percent(p), Whole(m))
               rest == Percent(100 - p)
    <3>1. extra = Over(part, rest)
      BY <2>1, <2>2
    <3>2. StandsFor(part, p * m, 100 * 1) /\ StandsFor(rest, 100 - p, 100)
      BY <2>3, <2>4
    <3> HIDE DEF part, rest, extra
    <3>3. StandsFor(Over(part, rest), (p * m) * 100, (100 * 1) * (100 - p))
      BY <2>5, <3>2, OperationsStandFor
    <3>4. QED
      BY <3>1, <3>3
  <2>7. PICK n \in Nat, d \in Nat \ {0}, q \in Nat \ {0} :
          n = p * m /\ q = 100 - p /\ d = 100 * q
    BY <2>1
  <2>8. StandsFor(extra, n * 100, d) /\ extra \in Lowest
    <3>1. (p * m) * 100 = n * 100 /\ (100 * 1) * (100 - p) = d
      BY <2>7
    <3>2. StandsFor(extra, n * 100, d)
      BY <2>6, <3>1
    <3>3. QED
      BY <3>2 DEF StandsFor
  <2> HIDE DEF extra
  <2>9. StandsFor(Zero, 0, 1) /\ 1 \in Nat \ {0}
    BY ZeroStandsFor
  <2>10. Leq(Zero, extra) <=> 0 * d <= (n * 100) * 1
    BY <2>8, <2>9, ComparedByNumbers
  <2>11. k \in Nat /\ Leq(Whole(k), extra) /\ Less(extra, Whole(k + 1))
    BY <2>7, <2>8, <2>10, FloorNatural, FloorBounds
  <2> HIDE DEF k
  <2>12. StandsFor(Whole(k), k, 1) /\ StandsFor(Whole(k + 1), k + 1, 1)
    BY <2>11, WholeNumbers
  <2>13. k * d <= (n * 100) * 1 /\ (n * 100) * 1 < (k + 1) * d
    <3>1. PICK a \in Int, l \in Int : a = n * 100 /\ l = k + 1
      BY <2>7, <2>11
    <3>2. StandsFor(extra, a, d) /\ StandsFor(Whole(l), l, 1)
          /\ Leq(Whole(k), extra) /\ Less(extra, Whole(l))
      BY <2>8, <2>11, <2>12, <3>1
    <3>3. k * d <= a * 1
      BY <2>9, <2>12, <3>2, ComparedByNumbers
    <3>4. a * 1 < l * d
      BY <2>9, <3>2, ComparedByNumbers
    <3>5. QED
      BY <3>1, <3>3, <3>4
  <2>14. k * d = 100 * (k * q) /\ (k + 1) * d = 100 * ((k + 1) * q)
    BY <2>7, <2>11
  <2>15. k * q <= n /\ n < (k + 1) * q
    <3>1. PICK x \in Int, y \in Int : x = k * q /\ y = (k + 1) * q
      BY <2>7, <2>11
    <3>2. QED
      BY <2>13, <2>14, <3>1
  <2>16. QED
    BY <2>1, <2>7, <2>11, <2>15
<1> HIDE DEF k
<1>8. /\ k * 100 <= pool * (E + new + k)
      /\ (k + 1) * 100 > pool * (E + new + k + 1)
  <2>1. PICK p \in Int, m \in Int, x \in Int, y \in Int :
          p = pool /\ m = M /\ x = p * m /\ y = p * k
    BY <1>1, <1>3, <1>5, <1>7
  <2>2. k * (100 - p) = k * 100 - y
        /\ (k + 1) * (100 - p) = (k + 1) * 100 - y - p
    BY <1>7, <2>1
  <2>3. p * (m + k) = x + y /\ p * (m + k + 1) = x + y + p
    BY <1>7, <2>1
  <2>4. k * 100 <= p * (m + k) /\ (k + 1) * 100 > p * (m + k + 1)
    BY <1>7, <2>1, <2>2, <2>3
  <2>5. QED
    BY <2>1, <2>4
<1> DEFINE after == [h \in D |-> CASE h = "investor" -> new
                                   [] h = "pool" -> k [] OTHER -> before[h]]
<1>9. /\ IsFiniteSet(D) /\ DOMAIN after = D /\ \A h \in D : after[h] \in Nat
      /\ TotalShares(after) = Whole(E + new + k)
  <2> DEFINE R == S \cup {"investor"}
             sum(T) == SumFunctionOnSet(after, T)
  <2>1. /\ \A h \in S : after[h] = before[h] /\ before[h] \in Nat
        /\ after["investor"] = new
        /\ k > 0 => after["pool"] = k
        /\ \A h \in D : after[h] \in Nat
        /\ DOMAIN after = D
    BY <1>1, <1>5, <1>7
  <2>2. D = IF k > 0 THEN R \cup {"pool"} ELSE R
    OBVIOUS
  <2> HIDE DEF after, D
  <2>3. IsFiniteSet(R) /\ IsFiniteSet(D)
    <3>1. IsFiniteSet(R)
      BY <1>1, FS_AddElement
    <3>2. QED
      BY <2>2, <3>1, FS_AddElement
  <2>4. sum(S) = E
    BY <1>1, <2>1, SumAgree DEF E
  <2>5. sum(R) = new + sum(S)
    <3>1. \A h \in S \cup {"investor"} : after[h] \in Int
      BY <1>5, <2>1
    <3>2. QED
      BY <1>1, <2>1, <3>1, SumAdd
  <2>6. sum(D) = E + new + k
    <3>1. CASE k > 0
      <4>1. \A h \in R \cup {"pool"} : after[h] \in Int
        BY <2>1, <2>2, <3>1
      <4>2. "pool" \notin R
        BY <1>1
      <4> HIDE DEF R
      <4>3. sum(R \cup {"pool"}) = k + sum(R)
        BY <2>1, <2>3, <3>1, <4>1, <4>2, SumAdd
      <4>4. sum(D) = k + sum(R)
        BY <2>2, <3>1, <4>3
      <4> HIDE DEF sum
      <4>5. QED
        BY <1>3, <1>5, <1>7, <2>4, <2>5, <4>4 DEF R
    <3>2. CASE ~(k > 0)
      <4>1. k = 0 /\ D = R
        BY <1>7, <2>2, <3>2
      <4> HIDE DEF sum, R
      <4>2. QED
        BY <1>3, <1>5, <2>4, <2>5, <4>1 DEF R
    <3>3. QED
      BY <3>1, <3>2
  <2>7. TotalShares(after) = Whole(sum(D))
    BY <2>1, <2>3, TotalSharesWhole
  <2>8. QED
    BY <2>1, <2>3, <2>6, <2>7
<1> HIDE DEF D
<1> DEFINE exit == ModelExit(after, preMoney + investment)
<1>10. /\ Total(exit, DOMAIN exit) = Whole(preMoney + investment)
       /\ \A g, h \in DOMAIN exit : Times(exit[g], Whole(after[h]))
                                    = Times(exit[h], Whole(after[g]))
  <2>1. TotalShares(after).n = E + new + k /\ E + new + k # 0
    BY <1>3, <1>5, <1>7, <1>9 DEF Whole
  <2>2. preMoney + investment \in Int
    BY <1>1
  <2>3. exit = ModelExit(after, preMoney + investment)
    OBVIOUS
  <2> HIDE DEF exit, after
  <2>4. QED
    BY <1>9, <2>1, <2>2, <2>3, ExitSharesOut
<1>11. /\ r.price = price /\ r.new = new /\ r.pool = k
       /\ r.diluted = E + new + k /\ r.after = after
  BY <1>2, <1>3 DEF D
<1> HIDE DEF after, r, exit
<1>12. QED
  BY <1>6, <1>8, <1>9, <1>10, <1>11 DEF RoundSound, r, exit

-----------------------------------------------------------------------------

(* What is added, taken away and shared out of amounts that are not below  *)
(* zero.                                                                   *)
LEMMA AddedAndTaken ==
  \A a, b \in Lowest :
    /\ Leq(a, a) /\ Minus(a, Zero) = a /\ Minus(a, a) = Zero
    /\ Plus(b, Minus(a, b)) = a
    /\ Leq(Zero, b) => Leq(a, Plus(a, b))
    /\ Leq(b, a) => Leq(Zero, Minus(a, b))
    /\ Leq(Zero, a) /\ Leq(Zero, b) =>
         Leq(Zero, Plus(a, b)) /\ Leq(Zero, Times(a, b))
<1> SUFFICES ASSUME NEW a \in Lowest, NEW b \in Lowest
             PROVE  /\ Leq(a, a) /\ Minus(a, Zero) = a /\ Minus(a, a) = Zero
                    /\ Plus(b, Minus(a, b)) = a
                    /\ Leq(Zero, b) => Leq(a, Plus(a, b))
                    /\ Leq(b, a) => Leq(Zero, Minus(a, b))
                    /\ Leq(Zero, a) /\ Leq(Zero, b) =>
                         Leq(Zero, Plus(a, b)) /\ Leq(Zero, Times(a, b))
  OBVIOUS
<1>1. Zero \in Lowest /\ Leq(a, a)
  BY ZeroStandsFor, OrderLaws
<1>2. Minus(a, Zero) = a /\ \A x \in Lowest : Minus(x, x) = Zero
  <2>1. Minus(Plus(a, Zero), Zero) = a /\ Plus(a, Zero) = a
    BY <1>1, MinusLaws, PlusLaws
  <2>2. \A x \in Lowest : Minus(Plus(Zero, x), x) = Zero /\ Plus(Zero, x) = x
    BY <1>1, MinusLaws, PlusLaws
  <2>3. QED
    BY <2>1, <2>2
<1>3. Plus(b, Minus(a, b)) = a
  BY MinusLaws, PlusLaws, FractionsClosed
<1>4. Leq(Zero, b) => Leq(a, Plus(a, b))
  <2>1. Leq(Zero, b) => Leq(Plus(Zero, a), Plus(b, a))
    BY <1>1, OrderKept
  <2>2. Plus(Zero, a) = a /\ Plus(b, a) = Plus(a, b)
    BY PlusLaws
  <2>3. QED
    BY <2>1, <2>2
<1>5. Leq(b, a) => Leq(Zero, Minus(a, b))
  <2>1. Leq(b, a) => Leq(Minus(b, b), Minus(a, b))
    BY OrderKept
  <2>2. QED
    BY <1>2, <2>1
<1>6. Leq(Zero, a) /\ Leq(Zero, b) => Leq(Zero, Plus(a, b))
  <2>1. Plus(a, b) \in Lowest
    BY FractionsClosed
  <2>2. QED
    BY <1>1, <1>4, <2>1, OrderLaws
<1>7. Leq(Zero, a) /\ Leq(Zero, b) => Leq(Zero, Times(a, b))
  <2>1. Leq(Zero, b) /\ Leq(Zero, a) => Leq(Times(Zero, b), Times(a, b))
    BY <1>1, OrderKept
  <2>2. Times(Zero, b) = Zero
    BY TimesLaws
  <2>3. QED
    BY <2>1, <2>2
<1>8. QED
  BY <1>1, <1>2, <1>3, <1>4, <1>5, <1>6, <1>7

(* An amount divided pro rata is not exceeded, and is used up when the     *)
(* parts are all there is.                                                 *)
LEMMA ProRata ==
  ASSUME NEW S, IsFiniteSet(S), NEW f, NEW h,
         NEW amount \in Lowest, Leq(Zero, amount),
         NEW all \in Lowest, Leq(Total(f, S), all),
         \A x \in S : /\ f[x] \in Lowest /\ Leq(Zero, f[x])
                      /\ h[x] = Times(amount, Over(f[x], all))
  PROVE  /\ \A x \in S : h[x] \in Lowest /\ Leq(Zero, h[x])
         /\ Total(h, S) \in Lowest /\ Leq(Total(h, S), amount)
         /\ all # Zero /\ Total(f, S) = all => Total(h, S) = amount
<1> DEFINE each == Over(amount, all)
<1>1. Total(f, S) \in Lowest /\ Leq(Zero, Total(f, S)) /\ Leq(Zero, all)
  <2>1. Total(f, S) \in Lowest /\ Leq(Zero, Total(f, S))
    BY TotalType, TotalPositive
  <2>2. QED
    BY <2>1, ZeroStandsFor, OrderLaws
<1>2. each \in Lowest /\ Leq(Zero, each)
  BY <1>1, FractionsClosed, OrderKept
<1>3. \A x \in S : h[x] = Times(each, f[x])
  BY OverLaws
<1>4. Times(each, all) = IF all = Zero THEN Zero ELSE amount
  <2>1. CASE all = Zero
    BY <1>2, <2>1, TimesLaws
  <2>2. CASE all # Zero
    <3>1. all.n # 0
      BY <2>2, OrderLaws
    <3>2. QED
      BY <2>2, <3>1, OverLaws
  <2>3. QED
    BY <2>1, <2>2
<1> HIDE DEF each
<1>5. \A x \in S : h[x] \in Lowest /\ Leq(Zero, h[x])
  <2>1. ASSUME NEW x \in S PROVE h[x] \in Lowest /\ Leq(Zero, h[x])
    <3>1. f[x] \in Lowest /\ Leq(Zero, f[x]) /\ h[x] = Times(each, f[x])
      BY <1>3
    <3>2. Times(each, f[x]) \in Lowest
      BY <1>2, <3>1, FractionsClosed
    <3>3. Leq(Zero, Times(each, f[x]))
      BY <1>2, <3>1, AddedAndTaken
    <3>4. QED
      BY <3>1, <3>2, <3>3
  <2>2. QED
    BY <2>1
<1>6. Total(h, S) = Times(each, Total(f, S))
  BY <1>2, <1>3, TotalTimes
<1>7. Leq(Times(Total(f, S), each), Times(all, each))
  BY <1>1, <1>2, OrderKept
<1>8. Leq(Total(h, S), amount)
  <2>1. /\ Times(Total(f, S), each) = Times(each, Total(f, S))
        /\ Times(all, each) = Times(each, all)
    BY <1>1, <1>2, TimesLaws
  <2>2. Leq(Times(each, all), amount)
    BY <1>4, AddedAndTaken
  <2>3. QED
    BY <1>1, <1>2, <1>6, <1>7, <2>1, <2>2, FractionsClosed, OrderLaws
<1>9. Total(h, S) \in Lowest
  BY <1>1, <1>2, <1>6, FractionsClosed
<1>10. all # Zero /\ Total(f, S) = all => Total(h, S) = amount
  BY <1>4, <1>6
<1>11. QED
  BY <1>5, <1>8, <1>9, <1>10

(* Of amounts not below zero, a part totals to no more than the whole.     *)
LEMMA TotalOfPart ==
  ASSUME NEW S, IsFiniteSet(S), NEW R \in SUBSET S, NEW f,
         \A x \in S : f[x] \in Lowest /\ Leq(Zero, f[x])
  PROVE  Leq(Total(f, R), Total(f, S))
<1> DEFINE g == [x \in S |-> IF x \in R THEN f[x] ELSE Zero]
<1>1. /\ \A x \in R : g[x] = f[x]
      /\ \A x \in S \ R : g[x] = Zero
      /\ \A x \in S : g[x] \in Lowest /\ Leq(g[x], f[x])
  BY ZeroStandsFor, OrderLaws
<1> HIDE DEF g
<1>2. IsFiniteSet(R)
  BY FS_Subset
<1>3. Total(g, R) = Total(f, R)
  BY <1>1, <1>2, TotalAgree
<1>4. Total(g, S) = Total(g, R)
  BY <1>1, TotalPart
<1>5. Leq(Total(g, S), Total(f, S))
  BY <1>1, TotalLeq
<1>6. QED
  BY <1>3, <1>4, <1>5

LEMMA TotalOne == ASSUME NEW f, NEW x, f[x] \in Lowest
                  PROVE  Total(f, {x}) = f[x]
<1>1. {} \cup {x} = {x} /\ x \notin {} /\ IsFiniteSet({})
  BY FS_EmptySet
<1>2. Total(f, {} \cup {x}) = Plus(f[x], Total(f, {}))
  BY <1>1, TotalAdd
<1>3. QED
  BY <1>1, <1>2, TotalEmpty, PlusLaws

(* What totals to nothing is nothing each.                                 *)
LEMMA TotalNothing ==
  ASSUME NEW S, IsFiniteSet(S), NEW f,
         \A x \in S : f[x] \in Lowest /\ Leq(Zero, f[x]),
         Leq(Total(f, S), Zero)
  PROVE  \A x \in S : f[x] = Zero
<1>1. ASSUME NEW x \in S PROVE f[x] = Zero
  <2>1. Leq(Total(f, {x}), Total(f, S)) /\ Total(f, {x}) = f[x]
    BY TotalOfPart, TotalOne
  <2>2. Total(f, S) \in Lowest
    BY TotalType
  <2>3. Leq(f[x], Zero)
    BY <2>1, <2>2, ZeroStandsFor, OrderLaws
  <2>4. QED
    BY <2>3, ZeroStandsFor, OrderLaws
<1>2. QED
  BY <1>1

-----------------------------------------------------------------------------

(* The amounts a table of classes gives, none of them below zero.          *)
Money(a) == a \in Lowest /\ Leq(Zero, a)

LEMMA WholeAmount == \A n \in Nat : Money(Whole(n))
<1>1. ASSUME NEW n \in Nat PROVE Money(Whole(n))
  <2>1. Leq(Zero, Whole(n))
    BY DEF Leq, Zero, Whole
  <2>2. QED
    BY <2>1, WholeNumbers DEF Money
<1>2. QED
  BY <1>1

LEMMA AmountsKept ==
  \A a, b : Money(a) /\ Money(b) => /\ Money(Plus(a, b))
                                      /\ Money(Times(a, b))
                                      /\ Money(Over(a, b))
BY FractionsClosed, AddedAndTaken, OrderKept DEF Money

LEMMA ClassAmounts ==
  ASSUME NEW cs, ClassTable(cs)
  PROVE  /\ IsFiniteSet(DOMAIN cs)
         /\ \A c \in DOMAIN cs :
              /\ cs[c].seniority \in Int
              /\ Money(Preference(cs, c)) /\ Money(AsConverted(cs, c))
              /\ Money(Whole(cs[c].shares))
              /\ Money(Whole(cs[c].investment * cs[c].cap))
         /\ \A S \in SUBSET DOMAIN cs :
              IsFiniteSet(S) /\ Money(AsConvertedTotal(cs, S))
         /\ Money(CommonShares(cs)) /\ Money(AsConvertedShares(cs))
<1>1. IsFiniteSet(DOMAIN cs)
  BY DEF ClassTable
<1>2. ASSUME NEW c \in DOMAIN cs
      PROVE  /\ cs[c].seniority \in Int
             /\ Money(Preference(cs, c)) /\ Money(AsConverted(cs, c))
             /\ Money(Whole(cs[c].shares))
             /\ Money(Whole(cs[c].investment * cs[c].cap))
  <2>1. cs[c] \in [shares : Nat, investment : Nat, multiple : Nat,
                   participating : BOOLEAN, cap : Nat,
                   seniority : Int, ratio : Nat]
    BY DEF ClassTable
  <2>2. /\ cs[c].shares \in Nat /\ cs[c].investment \in Nat
        /\ cs[c].multiple \in Nat /\ cs[c].cap \in Nat /\ cs[c].ratio \in Nat
        /\ cs[c].seniority \in Int
    BY <2>1
  <2> DEFINE ratio == IF cs[c].ratio = 0 THEN 1 ELSE cs[c].ratio
  <2>3. ratio \in Nat
    BY <2>2
  <2> HIDE DEF ratio
  <2>4. \A x, y \in Nat : x * y \in Nat
    OBVIOUS
  <2>5. /\ cs[c].investment * cs[c].multiple \in Nat
        /\ cs[c].shares * ratio \in Nat /\ cs[c].investment * cs[c].cap \in Nat
    BY <2>2, <2>3, <2>4
  <2>6. AsConverted(cs, c) = Whole(cs[c].shares * ratio)
    BY DEF AsConverted, ratio
  <2>7. QED
    BY <2>2, <2>5, <2>6, WholeAmount DEF Preference
<1>3. ASSUME NEW S \in SUBSET DOMAIN cs
      PROVE  IsFiniteSet(S) /\ Money(AsConvertedTotal(cs, S))
  <2> DEFINE f == [c \in S |-> AsConverted(cs, c)]
  <2>1. \A c \in S : f[c] \in Lowest /\ Leq(Zero, f[c])
    BY <1>2 DEF Money
  <2>2. IsFiniteSet(S)
    BY <1>1, FS_Subset
  <2> HIDE DEF f
  <2>3. Money(Total(f, S))
    BY <2>1, <2>2, TotalType, TotalPositive DEF Money
  <2>4. QED
    BY <2>2, <2>3 DEF AsConvertedTotal, f
<1>4. Money(CommonShares(cs))
  <2> DEFINE f == [c \in Common(cs) |-> Whole(cs[c].shares)]
  <2>1. \A c \in Common(cs) : f[c] \in Lowest /\ Leq(Zero, f[c])
    BY <1>2 DEF Money, Common
  <2>2. IsFiniteSet(Common(cs))
    BY <1>3 DEF Common
  <2> HIDE DEF f
  <2>3. Money(Total(f, Common(cs)))
    BY <2>1, <2>2, TotalType, TotalPositive DEF Money
  <2>4. QED
    BY <2>3 DEF CommonShares, f
<1>5. Money(AsConvertedShares(cs))
  <2>1. Preferred(cs) \in SUBSET DOMAIN cs
    BY DEF Preferred
  <2>2. Money(AsConvertedTotal(cs, Preferred(cs)))
    BY <1>3, <2>1
  <2>3. QED
    BY <1>4, <2>2, AmountsKept DEF AsConvertedShares
<1>6. QED
  BY <1>1, <1>2, <1>3, <1>4, <1>5

(* What is left and what was paid make up the proceeds.                    *)
Accounted(money, classes, proceeds) ==
  /\ money.remaining \in Lowest
  /\ money.paid \in [classes -> Lowest]
  /\ \A c \in classes : Leq(Zero, money.paid[c])
  /\ Plus(Total(money.paid, classes), money.remaining) = proceeds

(* So they do after a tier that takes from what is left what it pays.      *)
LEMMA TierAccounted ==
  ASSUME NEW D, IsFiniteSet(D), NEW proceeds, NEW money,
         Accounted(money, D, proceeds),
         NEW given, \A c \in D : Money(given[c]),
         NEW next, next.remaining = Minus(money.remaining, Total(given, D)),
         next.paid = [c \in D |-> Plus(money.paid[c], given[c])]
  PROVE  /\ Accounted(next, D, proceeds)
         /\ \A c \in D : Leq(money.paid[c], next.paid[c])
         /\ \A c \in D : given[c] = Zero => next.paid[c] = money.paid[c]
<1>1. /\ money.remaining \in Lowest /\ money.paid \in [D -> Lowest]
      /\ \A c \in D : money.paid[c] \in Lowest /\ Leq(Zero, money.paid[c])
      /\ Plus(Total(money.paid, D), money.remaining) = proceeds
  BY DEF Accounted
<1>2. \A c \in D : given[c] \in Lowest /\ Leq(Zero, given[c])
  BY DEF Money
<1>3. \A c \in D : next.paid[c] = Plus(money.paid[c], given[c])
  OBVIOUS
<1>4. Total(money.paid, D) \in Lowest /\ Total(given, D) \in Lowest
  BY <1>1, <1>2, TotalType
<1>5. Total(next.paid, D) = Plus(Total(money.paid, D), Total(given, D))
  BY <1>1, <1>2, <1>3, TotalPlus
<1>6. next.remaining \in Lowest
  BY <1>1, <1>4, FractionsClosed
<1>7. Plus(Total(next.paid, D), next.remaining) = proceeds
  <2> DEFINE p == Total(money.paid, D)
             g == Total(given, D)
             m == money.remaining
  <2>1. p \in Lowest /\ g \in Lowest /\ m \in Lowest /\ Minus(m, g) \in Lowest
    BY <1>1, <1>4, FractionsClosed
  <2> HIDE DEF p, g, m
  <2>2. Plus(Plus(p, g), Minus(m, g)) = Plus(p, Plus(g, Minus(m, g)))
    BY <2>1, PlusLaws
  <2>3. Plus(g, Minus(m, g)) = m
    BY <2>1, AddedAndTaken
  <2>4. QED
    BY <1>1, <1>5, <2>2, <2>3 DEF p, g, m
<1>8. ASSUME NEW c \in D
      PROVE  /\ next.paid[c] \in Lowest /\ Leq(Zero, next.paid[c])
             /\ Leq(money.paid[c], next.paid[c])
             /\ given[c] = Zero => next.paid[c] = money.paid[c]
  <2>1. /\ money.paid[c] \in Lowest /\ Leq(Zero, money.paid[c])
        /\ given[c] \in Lowest /\ Leq(Zero, given[c])
        /\ next.paid[c] = Plus(money.paid[c], given[c])
    BY <1>1, <1>2, <1>3
  <2>2. /\ Plus(money.paid[c], given[c]) \in Lowest
        /\ Leq(Zero, Plus(money.paid[c], given[c]))
        /\ Leq(money.paid[c], Plus(money.paid[c], given[c]))
        /\ Plus(money.paid[c], Zero) = money.paid[c]
    BY <2>1, FractionsClosed, AddedAndTaken, PlusLaws
  <2>3. QED
    BY <2>1, <2>2
<1>9. next.paid \in [D -> Lowest]
  BY <1>8
<1>10. QED
  BY <1>6, <1>7, <1>8, <1>9 DEF Accounted

(* The preferences of the seniorities in T have been met, from the highest *)
(* down, as far as the proceeds went.                                      *)
LiquidatedDownTo(cs, proceeds, T, money) ==
  /\ Accounted(money, DOMAIN cs, proceeds)
  /\ Leq(Zero, money.remaining)
  /\ \A c \in DOMAIN cs : Leq(money.paid[c], Preference(cs, c))
  /\ \A c \in DOMAIN cs : cs[c].seniority \notin T => money.paid[c] = Zero
  /\ \A c \in DOMAIN cs :
       cs[c].seniority \in T /\ Less(money.paid[c], Preference(cs, c)) =>
         /\ money.remaining = Zero
         /\ \A d \in DOMAIN cs : cs[d].seniority < cs[c].seniority =>
              money.paid[d] = Zero

LEMMA LiquidationTierGoesDown ==
  ASSUME NEW cs, ClassTable(cs), NEW proceeds, NEW T \in SUBSET Int,
         NEW m \in Int, \A s \in T : m < s,
         NEW money, LiquidatedDownTo(cs, proceeds, T, money),
         NEW next, next = LiquidationTier(cs, money, m)
  PROVE  LiquidatedDownTo(cs, proceeds, T \cup {m}, next)
<1> DEFINE D == DOMAIN cs
           group == {c \in D : cs[c].seniority = m}
           pref == [c \in group |-> Preference(cs, c)]
           due == Total(pref, group)
           left == money.remaining
           covered == Leq(due, left)
           given == [c \in D |-> IF c \in group
                                 THEN IF covered THEN Preference(cs, c)
                                      ELSE Times(left, Over(Preference(cs, c), due))
                                 ELSE Zero]
<1>1. /\ IsFiniteSet(D) /\ IsFiniteSet(group) /\ group \in SUBSET D
      /\ \A c \in D : cs[c].seniority \in Int /\ Money(Preference(cs, c))
  BY ClassAmounts, FS_Subset
<1>2. /\ left \in Lowest /\ Leq(Zero, left)
      /\ \A c \in D : money.paid[c] \in Lowest
  BY DEF LiquidatedDownTo, Accounted
<1>3. \A c \in group : /\ pref[c] = Preference(cs, c)
                       /\ pref[c] \in Lowest /\ Leq(Zero, pref[c])
  BY <1>1 DEF Money
<1>4. /\ next.remaining = IF covered THEN Minus(left, due) ELSE Zero
      /\ next.paid = [c \in D |-> IF c \in group
                                  THEN Plus(money.paid[c], given[c])
                                  ELSE money.paid[c]]
  BY DEF LiquidationTier
<1>5. /\ \A c \in group :
           given[c] = IF covered THEN pref[c] ELSE Times(left, Over(pref[c], due))
      /\ \A c \in D \ group : given[c] = Zero
      /\ DOMAIN given = D
  OBVIOUS
<1> HIDE DEF group, pref, due, left, given, D, covered
<1>6. due \in Lowest /\ Leq(Zero, due)
  BY <1>1, <1>3, TotalType, TotalPositive DEF due
<1>7. /\ \A c \in group : /\ given[c] \in Lowest /\ Leq(Zero, given[c])
                          /\ Leq(given[c], pref[c])
      /\ Total(given, group) = IF covered THEN due ELSE left
  <2>1. CASE covered
    <3>1. \A c \in group : given[c] = pref[c]
      BY <1>5, <2>1
    <3>2. Total(given, group) = due
      BY <1>1, <3>1, TotalAgree DEF due
    <3>3. QED
      BY <1>3, <2>1, <3>1, <3>2, OrderLaws
  <2>2. CASE ~covered
    <3>1. Leq(due, due) /\ due # Zero /\ Leq(left, due)
      BY <1>2, <1>6, <2>2, OrderLaws DEF covered
    <3>2. \A c \in group : given[c] = Times(left, Over(pref[c], due))
      BY <1>5, <2>2
    <3>3. Leq(Total(pref, group), due) /\ Total(pref, group) = due
      BY <3>1 DEF due
    <3>4. /\ \A c \in group : given[c] \in Lowest /\ Leq(Zero, given[c])
          /\ Total(given, group) = left
      <4>1. \A c \in group : /\ pref[c] \in Lowest /\ Leq(Zero, pref[c])
                             /\ given[c] = Times(left, Over(pref[c], due))
        BY <1>3, <3>2
      <4>2. QED
        BY <1>1, <1>2, <1>6, <3>1, <3>3, <4>1, ProRata
    <3>5. ASSUME NEW c \in group PROVE Leq(given[c], pref[c])
      <4> DEFINE part == Over(pref[c], due)
      <4>1. pref[c] \in Lowest /\ part \in Lowest /\ Leq(Zero, part)
        BY <1>3, <1>6, FractionsClosed, OrderKept
      <4>2. Leq(Times(left, part), Times(due, part))
        BY <1>2, <1>6, <3>1, <4>1, OrderKept
      <4>3. due.n # 0
        BY <1>6, <3>1, OrderLaws
      <4>4. Times(part, due) = pref[c]
        BY <1>6, <4>1, <4>3, OverLaws
      <4> HIDE DEF part
      <4>5. Times(due, part) = pref[c]
        BY <1>6, <4>1, <4>4, TimesLaws
      <4>6. given[c] = Times(left, part)
        BY <3>2 DEF part
      <4>7. QED
        BY <4>2, <4>5, <4>6
    <3>6. QED
      BY <2>2, <3>4, <3>5
  <2>3. QED
    BY <2>1, <2>2
<1>8. \A c \in D : Money(given[c])
  BY <1>5, <1>7, WholeAmount, ZeroStandsFor, AddedAndTaken DEF Money
<1>9. Total(given, D) = IF covered THEN due ELSE left
  BY <1>1, <1>5, <1>7, TotalPart
<1>10. next.remaining = Minus(left, Total(given, D))
  BY <1>2, <1>4, <1>9, AddedAndTaken
<1>11. next.paid = [c \in D |-> Plus(money.paid[c], given[c])]
  <2>1. \A c \in D \ group : Plus(money.paid[c], given[c]) = money.paid[c]
    BY <1>2, <1>5, PlusLaws
  <2>2. QED
    BY <1>4, <2>1
<1>12. Leq(Zero, next.remaining)
  BY <1>2, <1>4, <1>6, ZeroStandsFor, AddedAndTaken DEF covered
<1>13. /\ Accounted(next, D, proceeds)
       /\ \A c \in D : given[c] = Zero => next.paid[c] = money.paid[c]
  <2>1. Accounted(money, D, proceeds)
    BY DEF LiquidatedDownTo, D
  <2>2. next.remaining = Minus(money.remaining, Total(given, D))
    BY <1>10 DEF left
  <2>3. QED
    BY <1>1, <1>8, <1>11, <2>1, <2>2, TierAccounted
<1>14. \A c \in group : next.paid[c] = given[c]
  <2>1. ASSUME NEW c \in group PROVE next.paid[c] = given[c]
    <3>1. c \in D /\ cs[c].seniority = m
      BY <1>1 DEF group
    <3>2. cs[c].seniority \notin T
      BY <3>1
    <3>3. money.paid[c] = Zero
      BY <3>1, <3>2 DEF LiquidatedDownTo, D
    <3>4. next.paid[c] = Plus(Zero, given[c])
      BY <1>11, <3>1, <3>3
    <3>5. QED
      BY <1>7, <3>4, PlusLaws
  <2>2. QED
    BY <2>1
<1>15. \A c \in D \ group : next.paid[c] = money.paid[c]
  BY <1>5, <1>13
<1>16. left = Zero => next.remaining = Zero /\ \A c \in D : given[c] = Zero
  <2>1. SUFFICES ASSUME left = Zero
                 PROVE  next.remaining = Zero /\ \A c \in D : given[c] = Zero
    OBVIOUS
  <2>2. Leq(Total(given, D), Zero)
    <3>1. Leq(Zero, Zero)
      BY ZeroStandsFor, AddedAndTaken
    <3>2. QED
      BY <1>9, <2>1, <3>1 DEF covered
  <2>3. \A c \in D : given[c] \in Lowest /\ Leq(Zero, given[c])
    BY <1>8 DEF Money
  <2>4. \A c \in D : given[c] = Zero
    BY <1>1, <2>2, <2>3, TotalNothing
  <2>5. Total(given, D) = Zero
    BY <1>1, <2>4, TotalZero
  <2>6. QED
    BY <1>10, <2>1, <2>4, <2>5, ZeroStandsFor, AddedAndTaken
<1>17. \A c \in D : Leq(next.paid[c], Preference(cs, c))
  <2>1. \A c \in group : Leq(next.paid[c], Preference(cs, c))
    BY <1>3, <1>7, <1>14
  <2>2. \A c \in D \ group : Leq(next.paid[c], Preference(cs, c))
    BY <1>15 DEF LiquidatedDownTo, D
  <2>3. QED
    BY <2>1, <2>2
<1>18. \A c \in D : cs[c].seniority \notin T \cup {m} => next.paid[c] = Zero
  <2>1. ASSUME NEW c \in D, cs[c].seniority \notin T \cup {m}
        PROVE  next.paid[c] = Zero
    <3>1. c \in D \ group /\ cs[c].seniority \notin T
      BY <2>1 DEF group
    <3>2. QED
      BY <1>15, <3>1 DEF LiquidatedDownTo, D
  <2>2. QED
    BY <2>1
<1>19. ASSUME NEW c \in D, cs[c].seniority \in T \cup {m},
              Less(next.paid[c], Preference(cs, c))
       PROVE  /\ next.remaining = Zero
              /\ \A d \in D : cs[d].seniority < cs[c].seniority =>
                   next.paid[d] = Zero
  <2>1. CASE c \in group
    <3>1. ~covered
      <4>1. SUFFICES ASSUME covered PROVE FALSE
        OBVIOUS
      <4>2. next.paid[c] = Preference(cs, c)
        BY <1>3, <1>5, <1>14, <2>1, <4>1
      <4>3. Preference(cs, c) \in Lowest
        BY <1>1 DEF Money
      <4>4. QED
        BY <1>19, <4>2, <4>3, OrderLaws
    <3>2. next.remaining = Zero
      BY <1>4, <3>1
    <3>3. ASSUME NEW d \in D, cs[d].seniority < cs[c].seniority
          PROVE  next.paid[d] = Zero
      <4>1. cs[c].seniority = m /\ cs[d].seniority < m /\ cs[d].seniority \in Int
        BY <1>1, <2>1, <3>3 DEF group
      <4>2. cs[d].seniority \notin T \cup {m}
        BY <4>1
      <4>3. QED
        BY <1>18, <4>2
    <3>4. QED
      BY <3>2, <3>3
  <2>2. CASE c \notin group
    <3>1. cs[c].seniority \in T /\ next.paid[c] = money.paid[c]
      BY <1>15, <1>19, <2>2 DEF group
    <3>2. /\ left = Zero
          /\ \A d \in D : cs[d].seniority < cs[c].seniority =>
               money.paid[d] = Zero
      BY <1>19, <3>1 DEF LiquidatedDownTo, D, left
    <3>3. QED
      BY <1>13, <1>16, <3>2
  <2>3. QED
    BY <2>1, <2>2
<1>20. QED
  BY <1>12, <1>13, <1>17, <1>18, <1>19 DEF LiquidatedDownTo, D

LEMMA LeastInteger ==
  ASSUME NEW S, IsFiniteSet(S), S \subseteq Int, S # {}
  PROVE  Min(S) \in S /\ \A s \in S : Min(S) <= s
<1> DEFINE C == {T \in SUBSET S : T # {} => \E p \in T : \A q \in T : p <= q}
<1>1. {} \in C
  OBVIOUS
<1>2. ASSUME NEW T \in SUBSET S, NEW x \in S \ T, T \in C
      PROVE  T \cup {x} \in C
  <2>0. x \in Int /\ T \subseteq Int
    OBVIOUS
  <2>1. CASE T = {}
    BY <2>0, <2>1
  <2>2. CASE T # {}
    <3>1. PICK p \in T : \A q \in T : p <= q
      BY <1>2, <2>2
    <3>2. CASE p <= x
      <4>1. \A q \in T \cup {x} : p <= q
        BY <3>1, <3>2
      <4>2. QED
        BY <4>1
    <3>3. CASE ~(p <= x)
      <4>1. \A q \in T \cup {x} : x <= q
        BY <2>0, <3>1, <3>3
      <4>2. QED
        BY <4>1
    <3>4. QED
      BY <3>2, <3>3
  <2>3. QED
    BY <2>1, <2>2
<1>3. S \in C
  <2> HIDE DEF C
  <2>1. QED
    BY <1>1, <1>2, AddInduction
<1>4. \E p \in S : \A q \in S : p <= q
  BY <1>3
<1>5. QED
  BY <1>4 DEF Min

(* The recursive function behind Liquidate, the lowest seniority last.     *)
Unpaid(cs, proceeds) ==
  [remaining |-> proceeds, paid |-> [c \in DOMAIN cs |-> Zero]]

TierByTier(cs, proceeds, D) ==
  CHOOSE p : p = [s \in D |->
                    IF s = {} THEN Unpaid(cs, proceeds)
                    ELSE LiquidationTier(cs, p[s \ {Min(s)}], Min(s))]

LEMMA LiquidateIsTierByTier ==
  ASSUME NEW cs, NEW proceeds, NEW S,
         S = {cs[c].seniority : c \in Preferred(cs)}
  PROVE  Liquidate(cs, proceeds) = TierByTier(cs, proceeds, SUBSET S)[S]
BY Zenon DEF Liquidate, MapThenFoldSet, TierByTier, Unpaid

GoesTierByTier(p, cs, proceeds, S) ==
  /\ p[{}] = Unpaid(cs, proceeds)
  /\ \A s \in SUBSET S : s # {} =>
       p[s] = LiquidationTier(cs, p[s \ {Min(s)}], Min(s))

(* It is defined: it is made from the smaller sets to the larger ones.     *)
LEMMA TierByTierIsDefined ==
  ASSUME NEW cs, NEW proceeds, NEW S, IsFiniteSet(S), S \subseteq Int,
         NEW p, p = TierByTier(cs, proceeds, SUBSET S)
  PROVE  GoesTierByTier(p, cs, proceeds, S)
<1> DEFINE Small(n) == {s \in SUBSET S : Cardinality(s) < n}
           Tiers(q, D) == q = [s \in D |->
                    IF s = {} THEN Unpaid(cs, proceeds)
                    ELSE LiquidationTier(cs, q[s \ {Min(s)}], Min(s))]
           N == {n \in Nat : \E q : Tiers(q, Small(n))}
<1>1. \A s \in SUBSET S : IsFiniteSet(s) /\ Cardinality(s) \in Nat
  BY FS_Subset, FS_CardinalityType
<1>2. \A s \in SUBSET S : s # {} =>
        s \ {Min(s)} \in SUBSET S /\ Cardinality(s \ {Min(s)}) = Cardinality(s) - 1
  <2>1. ASSUME NEW s \in SUBSET S, s # {}
        PROVE  /\ s \ {Min(s)} \in SUBSET S
               /\ Cardinality(s \ {Min(s)}) = Cardinality(s) - 1
    <3>1. Min(s) \in s
      BY <1>1, <2>1, LeastInteger
    <3>2. QED
      BY <1>1, <3>1, FS_RemoveElement
  <2>2. QED
    BY <2>1
<1>3. 0 \in N
  <2>1. Small(0) = {}
    BY <1>1
  <2>2. Tiers([s \in {} |-> Zero], Small(0))
    BY <2>1
  <2> HIDE DEF Tiers, Small
  <2>3. QED
    BY <2>2
<1>4. ASSUME NEW n \in Nat, n \in N PROVE n + 1 \in N
  <2>1. PICK q : Tiers(q, Small(n))
    BY <1>4
  <2> DEFINE r == [s \in Small(n + 1) |->
                     IF s = {} THEN Unpaid(cs, proceeds)
                     ELSE LiquidationTier(cs, q[s \ {Min(s)}], Min(s))]
  <2>2. Small(n) \subseteq Small(n + 1)
    BY <1>1
  <2>3. \A s \in Small(n + 1) : s # {} => s \ {Min(s)} \in Small(n)
    BY <1>1, <1>2
  <2> HIDE DEF Small
  <2>4. \A s \in Small(n) : r[s] = q[s]
    BY <2>1, <2>2
  <2>5. Tiers(r, Small(n + 1))
    BY <2>3, <2>4
  <2> HIDE DEF Tiers, r
  <2>6. QED
    BY <2>5
<1>5. \E q : Tiers(q, SUBSET S)
  <2>1. Nat \subseteq N
    <3> HIDE DEF N
    <3>1. QED
      BY <1>3, <1>4, NatSetInduction
  <2>2. Cardinality(S) + 1 \in N
    <3>1. S \in SUBSET S
      OBVIOUS
    <3>2. Cardinality(S) + 1 \in Nat
      BY <1>1, <3>1
    <3> HIDE DEF N
    <3>3. QED
      BY <2>1, <3>2
  <2>3. Small(Cardinality(S) + 1) = SUBSET S
    <3>1. \A s \in SUBSET S : Cardinality(s) <= Cardinality(S)
      BY FS_Subset
    <3>2. QED
      BY <1>1, <3>1
  <2> HIDE DEF Small, Tiers
  <2>4. QED
    BY <2>2, <2>3
<1>6. Tiers(p, SUBSET S)
  BY <1>5 DEF TierByTier
<1>7. QED
  BY <1>6 DEF GoesTierByTier

(* All preferences have been met as far as the proceeds went.              *)
LEMMA LiquidateGoesDown ==
  ASSUME NEW cs, ClassTable(cs), NEW proceeds, Money(proceeds),
         NEW S, S = {cs[c].seniority : c \in Preferred(cs)}
  PROVE  LiquidatedDownTo(cs, proceeds, S, Liquidate(cs, proceeds))
<1> DEFINE D == DOMAIN cs
           p == TierByTier(cs, proceeds, SUBSET S)
           C == {T \in SUBSET S : LiquidatedDownTo(cs, proceeds, T, p[T])}
<1>1. IsFiniteSet(S) /\ S \subseteq Int
  <2>1. Preferred(cs) \subseteq D /\ IsFiniteSet(Preferred(cs))
    BY ClassAmounts, FS_Subset DEF Preferred
  <2> DEFINE f == [c \in Preferred(cs) |-> cs[c].seniority]
  <2>2. IsFiniteSet({f[c] : c \in Preferred(cs)})
    <3> HIDE DEF f
    <3>1. QED
      BY <2>1, FiniteImage
  <2>3. S = {f[c] : c \in Preferred(cs)}
    OBVIOUS
  <2>4. QED
    BY <2>1, <2>2, <2>3, ClassAmounts
<1>2. /\ p[{}] = Unpaid(cs, proceeds)
      /\ \A s \in SUBSET S : s # {} =>
           p[s] = LiquidationTier(cs, p[s \ {Min(s)}], Min(s))
  <2>1. p = TierByTier(cs, proceeds, SUBSET S)
    OBVIOUS
  <2> HIDE DEF p
  <2>2. GoesTierByTier(p, cs, proceeds, S)
    BY <1>1, <2>1, TierByTierIsDefined
  <2>3. QED
    BY <2>2 DEF GoesTierByTier
<1> HIDE DEF p
<1>3. LiquidatedDownTo(cs, proceeds, {}, Unpaid(cs, proceeds))
  <2> DEFINE u == Unpaid(cs, proceeds)
  <2>1. /\ u.remaining = proceeds /\ u.paid = [c \in D |-> Zero]
        /\ \A c \in D : u.paid[c] = Zero
    BY DEF Unpaid
  <2> HIDE DEF u
  <2>2. Zero \in Lowest /\ Leq(Zero, Zero)
    BY ZeroStandsFor, AddedAndTaken
  <2>3. Total(u.paid, D) = Zero
    BY <2>1, ClassAmounts, TotalZero
  <2>4. Plus(Zero, proceeds) = proceeds /\ proceeds \in Lowest
        /\ Leq(Zero, proceeds)
    BY PlusLaws DEF Money
  <2>5. u.paid \in [D -> Lowest]
    BY <2>1, <2>2
  <2>6. Accounted(u, D, proceeds)
    BY <2>1, <2>2, <2>3, <2>4, <2>5 DEF Accounted
  <2>7. \A c \in D : Leq(u.paid[c], Preference(cs, c))
    BY <2>1, ClassAmounts DEF Money
  <2>8. QED
    BY <2>1, <2>4, <2>6, <2>7 DEF LiquidatedDownTo, u
<1>4. ASSUME NEW T \in SUBSET S, \A U \in (SUBSET T) \ {T} : U \in C
      PROVE  T \in C
  <2>1. CASE T = {}
    BY <1>2, <1>3, <2>1
  <2>2. CASE T # {}
    <3> DEFINE m == Min(T)
               U == T \ {m}
    <3>1. m \in T /\ \A s \in T : m <= s
      BY <1>1, <2>2, FS_Subset, LeastInteger
    <3> HIDE DEF m
    <3>2. /\ U \in (SUBSET T) \ {T} /\ U \in SUBSET Int /\ m \in Int
          /\ T = U \cup {m} /\ \A s \in U : m < s
      BY <1>1, <3>1
    <3>3. p[T] = LiquidationTier(cs, p[U], m)
      BY <1>2, <2>2 DEF m
    <3>4. LiquidatedDownTo(cs, proceeds, U, p[U])
      BY <1>4, <3>2
    <3> HIDE DEF U
    <3>5. LiquidatedDownTo(cs, proceeds, U \cup {m}, p[T])
      BY <3>2, <3>3, <3>4, LiquidationTierGoesDown
    <3>6. QED
      BY <3>2, <3>5
  <2>3. QED
    BY <2>1, <2>2
<1>5. S \in C
  <2> HIDE DEF C
  <2>1. \A T \in SUBSET S : T \in C
    BY ZenonT(60), <1>1, <1>4, SubsetInduction
  <2>2. QED
    BY <2>1
<1>6. Liquidate(cs, proceeds) = p[S]
  BY LiquidateIsTierByTier DEF p
<1>7. QED
  BY <1>5, <1>6

-----------------------------------------------------------------------------

(* What every later tier keeps: a class is paid only when the preferences  *)
(* of those above it are met, and no participating class exceeds its cap.  *)
SeniorFirst(cs, money) ==
  \A c \in Preferred(cs) : Less(money.paid[c], Preference(cs, c)) =>
    /\ money.remaining = Zero
    /\ \A d \in DOMAIN cs : cs[d].seniority < cs[c].seniority =>
         money.paid[d] = Zero

Ceiling(cs, c) ==
  Greater(Preference(cs, c), Whole(cs[c].investment * cs[c].cap))

WithinCaps(cs, money) ==
  \A c \in Participating(cs) : cs[c].cap # 0 =>
    Leq(money.paid[c], Ceiling(cs, c))

LEMMA ClassKinds ==
  ASSUME NEW cs
  PROVE  /\ Preferred(cs) \in SUBSET DOMAIN cs
         /\ Common(cs) \in SUBSET DOMAIN cs
         /\ Preferred(cs) \cap Common(cs) = {}
         /\ Participating(cs) \in SUBSET Preferred(cs)
         /\ NonParticipating(cs) \in SUBSET Preferred(cs)
         /\ Participating(cs) \cap NonParticipating(cs) = {}
BY DEF Preferred, Common, Participating, NonParticipating

(* A tier that only adds to what was paid, and does nothing once nothing   *)
(* is left, keeps the classes in their order.                              *)
LEMMA SeniorFirstKept ==
  ASSUME NEW cs, ClassTable(cs), NEW proceeds, NEW money, NEW next,
         Accounted(money, DOMAIN cs, proceeds),
         Accounted(next, DOMAIN cs, proceeds),
         SeniorFirst(cs, money),
         \A c \in DOMAIN cs : Leq(money.paid[c], next.paid[c]),
         money.remaining = Zero =>
           /\ next.remaining = Zero
           /\ \A c \in DOMAIN cs : next.paid[c] = money.paid[c]
  PROVE  SeniorFirst(cs, next)
<1>1. ASSUME NEW c \in Preferred(cs), Less(next.paid[c], Preference(cs, c))
      PROVE  /\ next.remaining = Zero
             /\ \A d \in DOMAIN cs : cs[d].seniority < cs[c].seniority =>
                  next.paid[d] = Zero
  <2>1. c \in DOMAIN cs
    BY ClassKinds
  <2>2. /\ money.paid[c] \in Lowest /\ next.paid[c] \in Lowest
        /\ Preference(cs, c) \in Lowest /\ Leq(money.paid[c], next.paid[c])
    BY <2>1, ClassAmounts DEF Accounted, Money
  <2>3. Less(money.paid[c], Preference(cs, c))
    BY <1>1, <2>2, OrderLaws
  <2>4. /\ money.remaining = Zero
        /\ \A d \in DOMAIN cs : cs[d].seniority < cs[c].seniority =>
             money.paid[d] = Zero
    BY <2>3 DEF SeniorFirst
  <2>5. QED
    BY <2>4
<1>2. QED
  BY <1>1 DEF SeniorFirst

LEMMA AsConvertedOfPart ==
  ASSUME NEW cs, ClassTable(cs), NEW S \in SUBSET DOMAIN cs, NEW R \in SUBSET S
  PROVE  Leq(AsConvertedTotal(cs, R), AsConvertedTotal(cs, S))
<1> DEFINE f == [c \in S |-> AsConverted(cs, c)]
           g == [c \in R |-> AsConverted(cs, c)]
<1>1. \A c \in S : f[c] \in Lowest /\ Leq(Zero, f[c])
  BY ClassAmounts DEF Money
<1>2. \A c \in R : g[c] = f[c]
  OBVIOUS
<1>3. IsFiniteSet(S) /\ IsFiniteSet(R)
  BY ClassAmounts, FS_Subset
<1> HIDE DEF f, g
<1>4. Leq(Total(f, R), Total(f, S))
  BY <1>1, <1>3, TotalOfPart
<1>5. Total(g, R) = Total(f, R)
  BY <1>2, <1>3, TotalAgree
<1>6. QED
  BY <1>4, <1>5 DEF AsConvertedTotal, f, g

LEMMA CappedBounds ==
  ASSUME NEW cs, ClassTable(cs), NEW c \in DOMAIN cs,
         NEW paid, NEW share, Money(paid), Money(share),
         Leq(paid, Preference(cs, c))
  PROVE  /\ Money(Capped(cs, c, paid, share))
         /\ Leq(Capped(cs, c, paid, share), share)
         /\ cs[c].cap # 0 =>
              Leq(Plus(paid, Capped(cs, c, paid, share)), Ceiling(cs, c))
<1> DEFINE cap == Whole(cs[c].investment * cs[c].cap)
           pref == Preference(cs, c)
           room == Greater(Zero, Minus(cap, paid))
           given == Capped(cs, c, paid, share)
<1>1. /\ cap \in Lowest /\ pref \in Lowest /\ paid \in Lowest
      /\ share \in Lowest /\ Leq(Zero, share) /\ Zero \in Lowest
  BY ClassAmounts, ZeroStandsFor DEF Money
<1>2. /\ given = IF cs[c].cap = 0 THEN share ELSE Lesser(share, room)
      /\ Ceiling(cs, c) = Greater(pref, cap)
  BY DEF Capped, Ceiling
<1> HIDE DEF cap, pref, given
<1>3. Minus(cap, paid) \in Lowest
  BY <1>1, FractionsClosed
<1>4. /\ room \in Lowest /\ Leq(Zero, room)
      /\ room = Zero \/ room = Minus(cap, paid)
  BY <1>1, <1>3, OrderLaws DEF Greater
<1> HIDE DEF room
<1>5. Money(given) /\ Leq(given, share)
  BY <1>1, <1>2, <1>4, OrderLaws DEF Lesser, Money
<1>6. ASSUME cs[c].cap # 0 PROVE Leq(Plus(paid, given), Greater(pref, cap))
  <2>1. given \in Lowest /\ Leq(given, room)
    BY <1>1, <1>2, <1>4, <1>5, <1>6, OrderLaws DEF Lesser, Money
  <2>2. Leq(Plus(paid, given), Plus(paid, room))
    <3>1. Leq(Plus(given, paid), Plus(room, paid))
      BY <1>1, <1>4, <2>1, OrderKept
    <3>2. QED
      BY <1>1, <1>4, <2>1, <3>1, PlusLaws
  <2>3. Plus(paid, room) = paid \/ Plus(paid, room) = cap
    BY <1>1, <1>4, AddedAndTaken, PlusLaws
  <2>4. Leq(paid, pref) /\ Leq(pref, Greater(pref, cap))
        /\ Leq(cap, Greater(pref, cap)) /\ Greater(pref, cap) \in Lowest
    BY <1>1, OrderLaws DEF Greater, pref
  <2>5. Leq(Plus(paid, room), Greater(pref, cap))
    BY <1>1, <2>3, <2>4, OrderLaws
  <2>6. QED
    BY <1>1, <1>4, <2>1, <2>2, <2>4, <2>5, FractionsClosed, OrderLaws
<1>7. QED
  BY <1>2, <1>5, <1>6 DEF given

(* Participating classes share in no more than what is left.               *)
LEMMA ParticipationTierSound ==
  ASSUME NEW cs, ClassTable(cs), NEW proceeds, NEW money,
         Accounted(money, DOMAIN cs, proceeds), Leq(Zero, money.remaining),
         SeniorFirst(cs, money),
         \A c \in DOMAIN cs : Leq(money.paid[c], Preference(cs, c)),
         NEW next, next = ParticipationTier(cs, money)
  PROVE  /\ Accounted(next, DOMAIN cs, proceeds) /\ Leq(Zero, next.remaining)
         /\ SeniorFirst(cs, next) /\ WithinCaps(cs, next)
<1> DEFINE D == DOMAIN cs
           P == Participating(cs)
           left == money.remaining
           all == AsConvertedShares(cs)
           f == [c \in P |-> AsConverted(cs, c)]
           share == [c \in P |-> Times(left, Over(AsConverted(cs, c), all))]
           given == [c \in D |->
                       IF c \in P
                       THEN Capped(cs, c, money.paid[c],
                                   Times(left, Over(AsConverted(cs, c), all)))
                       ELSE Zero]
<1>1. /\ left \in Lowest /\ Leq(Zero, left)
      /\ \A c \in D : money.paid[c] \in Lowest /\ Leq(Zero, money.paid[c])
  BY DEF Accounted
<1>2. IsFiniteSet(D) /\ IsFiniteSet(P) /\ P \in SUBSET D
  BY ClassAmounts, ClassKinds, FS_Subset
<1>3. ASSUME ~Positive(left)
      PROVE  /\ Accounted(next, D, proceeds) /\ Leq(Zero, next.remaining)
             /\ SeniorFirst(cs, next) /\ WithinCaps(cs, next)
  <2>1. next = money
    BY <1>3 DEF ParticipationTier
  <2>2. WithinCaps(cs, money)
    <3>1. ASSUME NEW c \in P PROVE Leq(money.paid[c], Ceiling(cs, c))
      <4>1. c \in D
        BY <1>2
      <4> DEFINE pref == Preference(cs, c)
                 cap == Whole(cs[c].investment * cs[c].cap)
      <4>2. /\ pref \in Lowest /\ cap \in Lowest /\ money.paid[c] \in Lowest
            /\ Leq(money.paid[c], pref) /\ Ceiling(cs, c) = Greater(pref, cap)
        BY <1>1, <4>1, ClassAmounts DEF Money, Ceiling
      <4> HIDE DEF pref, cap
      <4>3. QED
        BY <4>2, OrderLaws DEF Greater
    <3>2. QED
      BY <3>1 DEF WithinCaps
  <2>3. QED
    BY <2>1, <2>2
<1>4. ASSUME Positive(left)
      PROVE  /\ Accounted(next, D, proceeds) /\ Leq(Zero, next.remaining)
             /\ SeniorFirst(cs, next) /\ WithinCaps(cs, next)
  <2>1. /\ next.remaining = Minus(left, Total(given, D))
        /\ next.paid = [c \in D |-> Plus(money.paid[c], given[c])]
    BY <1>4 DEF ParticipationTier
  <2>2. \A c \in P : /\ f[c] \in Lowest /\ Leq(Zero, f[c])
                     /\ share[c] = Times(left, Over(f[c], all))
    BY <1>2, ClassAmounts DEF Money
  <2>3. /\ \A c \in P : given[c] = Capped(cs, c, money.paid[c], share[c])
        /\ \A c \in D \ P : given[c] = Zero
    BY <1>2
  <2>4. all \in Lowest /\ Leq(Total(f, P), all)
    <3>1. Total(f, P) = AsConvertedTotal(cs, P)
      BY DEF AsConvertedTotal
    <3> DEFINE part == AsConvertedTotal(cs, P)
               whole == AsConvertedTotal(cs, Preferred(cs))
    <3>2. Leq(part, whole)
      BY ClassKinds, AsConvertedOfPart
    <3>3. Money(part) /\ Money(whole) /\ Money(CommonShares(cs)) /\ Money(all)
      BY <1>2, ClassAmounts, ClassKinds
    <3>4. all = Plus(CommonShares(cs), whole)
      BY DEF AsConvertedShares
    <3> HIDE DEF part, whole, all
    <3>5. Leq(whole, all)
      <4>1. Leq(whole, Plus(whole, CommonShares(cs)))
        BY <3>3, AddedAndTaken DEF Money
      <4>2. Plus(whole, CommonShares(cs)) = all
        BY <3>3, <3>4, PlusLaws DEF Money
      <4>3. QED
        BY <4>1, <4>2
    <3>6. Leq(part, all)
      BY <3>2, <3>3, <3>5, OrderLaws DEF Money
    <3>7. QED
      BY <3>1, <3>3, <3>6 DEF Money, part
  <2> HIDE DEF f, share, given, all, P
  <2>5. /\ \A c \in P : share[c] \in Lowest /\ Leq(Zero, share[c])
        /\ Total(share, P) \in Lowest /\ Leq(Total(share, P), left)
    BY <1>1, <1>2, <2>2, <2>4, ProRata
  <2>6. ASSUME NEW c \in P
        PROVE  /\ Money(given[c]) /\ Leq(given[c], share[c])
               /\ cs[c].cap # 0 =>
                    Leq(Plus(money.paid[c], given[c]), Ceiling(cs, c))
    <3>1. /\ c \in D /\ Money(money.paid[c]) /\ Money(share[c])
          /\ Leq(money.paid[c], Preference(cs, c))
      BY <1>1, <1>2, <2>5 DEF Money
    <3>2. given[c] = Capped(cs, c, money.paid[c], share[c])
      BY <2>3
    <3>3. QED
      BY <3>1, <3>2, CappedBounds
  <2>7. \A c \in D : Money(given[c])
    BY <2>3, <2>6, ZeroStandsFor, AddedAndTaken DEF Money
  <2>8. Leq(Total(given, D), left) /\ Total(given, D) \in Lowest
    <3>1. Total(given, D) = Total(given, P)
      BY <1>2, <2>3, <2>6, TotalPart DEF Money
    <3>2. \A c \in P : /\ given[c] \in Lowest /\ share[c] \in Lowest
                       /\ Leq(given[c], share[c])
      BY <2>5, <2>6 DEF Money
    <3>3. Leq(Total(given, P), Total(share, P)) /\ Total(given, P) \in Lowest
      BY <1>2, <3>2, TotalLeq, TotalType
    <3>4. QED
      BY <1>1, <2>5, <3>1, <3>3, OrderLaws
  <2>9. Leq(Zero, next.remaining)
    BY <1>1, <2>1, <2>8, AddedAndTaken
  <2>10. /\ Accounted(next, D, proceeds)
         /\ \A c \in D : Leq(money.paid[c], next.paid[c])
    BY <1>2, <2>1, <2>7, TierAccounted
  <2>11. SeniorFirst(cs, next)
    <3>1. left # Zero
      BY <1>1, <1>4, OrderLaws
    <3>2. QED
      BY <2>10, <3>1, SeniorFirstKept
  <2>12. WithinCaps(cs, next)
    BY <1>2, <2>1, <2>6 DEF WithinCaps, P
  <2>13. QED
    BY <2>9, <2>10, <2>11, <2>12
<1>5. QED
  BY <1>3, <1>4

(* Classes that convert can be paid more than is left only when some       *)
(* convert and some do not.                                                *)
LEMMA ConversionTierSound ==
  ASSUME NEW cs, ClassTable(cs), NEW proceeds, NEW money,
         Accounted(money, DOMAIN cs, proceeds), Leq(Zero, money.remaining),
         SeniorFirst(cs, money), WithinCaps(cs, money),
         NEW next, next = ConversionTier(cs, money)
  PROVE  /\ Accounted(next, DOMAIN cs, proceeds)
         /\ SeniorFirst(cs, next) /\ WithinCaps(cs, next)
         /\ Less(next.remaining, Zero) =>
              /\ Converters(cs, money) # {}
              /\ Converters(cs, money) # NonParticipating(cs)
<1> DEFINE D == DOMAIN cs
           NP == NonParticipating(cs)
           K == Converters(cs, money)
           left == money.remaining
           kept == Total(money.paid, NP)
           pool == Plus(left, kept)
           all == Plus(CommonShares(cs), AsConvertedTotal(cs, NP))
           f == [c \in NP |-> AsConverted(cs, c)]
           pay == [c \in NP |-> ConversionPayout(cs, money, c)]
           given == [c \in D |->
                       Minus(IF c \in K THEN ConversionPayout(cs, money, c)
                             ELSE money.paid[c], money.paid[c])]
<1>1. /\ left \in Lowest /\ Leq(Zero, left)
      /\ \A c \in D : money.paid[c] \in Lowest /\ Leq(Zero, money.paid[c])
  BY DEF Accounted
<1>2. /\ IsFiniteSet(D) /\ IsFiniteSet(NP) /\ NP \in SUBSET D
      /\ K \in SUBSET NP /\ NP \cap Participating(cs) = {}
  BY ClassAmounts, ClassKinds, FS_Subset DEF Converters
<1>3. \A c \in NP : /\ f[c] \in Lowest /\ Leq(Zero, f[c])
                    /\ pay[c] = Times(pool, Over(f[c], all))
  <2>1. ASSUME NEW c \in NP
        PROVE  /\ f[c] \in Lowest /\ Leq(Zero, f[c])
               /\ pay[c] = Times(pool, Over(f[c], all))
    <3>1. f[c] = AsConverted(cs, c) /\ pay[c] = ConversionPayout(cs, money, c)
      OBVIOUS
    <3>2. ConversionPayout(cs, money, c) = Times(pool, Over(AsConverted(cs, c), all))
      BY DEF ConversionPayout
    <3>3. c \in D
      BY <1>2
    <3>4. QED
      BY <3>1, <3>2, <3>3, ClassAmounts DEF Money
  <2>2. QED
    BY <2>1
<1>4. /\ kept \in Lowest /\ Leq(Zero, kept)
      /\ pool \in Lowest /\ Leq(Zero, pool)
  <2>1. kept \in Lowest /\ Leq(Zero, kept)
    BY <1>1, <1>2, TotalType, TotalPositive
  <2>2. QED
    BY <1>1, <2>1, FractionsClosed, AddedAndTaken
<1>5. all \in Lowest /\ Leq(Total(f, NP), all)
  <2> DEFINE part == AsConvertedTotal(cs, NP)
             common == CommonShares(cs)
  <2>1. Total(f, NP) = part
    BY DEF AsConvertedTotal
  <2>2. part \in Lowest /\ Leq(Zero, common) /\ common \in Lowest
    BY <1>2, ClassAmounts DEF Money
  <2> HIDE DEF part, common
  <2>3. Leq(part, Plus(part, common)) /\ Plus(part, common) = Plus(common, part)
        /\ Plus(common, part) \in Lowest
    BY <2>2, AddedAndTaken, PlusLaws, FractionsClosed
  <2>4. QED
    BY <2>1, <2>3 DEF part, common
<1>6. /\ next.remaining = Minus(left, Total(given, D))
      /\ next.paid = [c \in D |-> IF c \in K
                                  THEN ConversionPayout(cs, money, c)
                                  ELSE money.paid[c]]
  BY DEF ConversionTier
<1>7. /\ \A c \in K : given[c] = Minus(pay[c], money.paid[c])
      /\ \A c \in D \ K : given[c] = Minus(money.paid[c], money.paid[c])
      /\ \A c \in K : next.paid[c] = pay[c] /\ Less(money.paid[c], pay[c])
      /\ \A c \in D \ K : next.paid[c] = money.paid[c]
      /\ DOMAIN given = D /\ next.paid = [c \in D |-> next.paid[c]]
  <2>1. \A c \in K : c \in D /\ c \in NP
    BY <1>2
  <2>2. \A c \in K : given[c] = Minus(pay[c], money.paid[c])
    BY <2>1
  <2>3. \A c \in D \ K : given[c] = Minus(money.paid[c], money.paid[c])
    OBVIOUS
  <2>4. \A c \in K : Less(money.paid[c], ConversionPayout(cs, money, c))
    BY DEF Converters
  <2>5. \A c \in K : pay[c] = ConversionPayout(cs, money, c)
    BY <2>1
  <2>6. \A c \in K : next.paid[c] = ConversionPayout(cs, money, c)
    BY <1>6, <2>1
  <2>7. \A c \in D \ K : next.paid[c] = money.paid[c]
    BY <1>6
  <2>8. next.paid = [c \in D |-> next.paid[c]]
    BY <1>6
  <2>9. DOMAIN given = D
    OBVIOUS
  <2> HIDE DEF given, pay, K
  <2>10. QED
    BY <2>2, <2>3, <2>4, <2>5, <2>6, <2>7, <2>8, <2>9
<1> HIDE DEF f, pay, given, kept, pool, all, NP, D
<1>8. /\ \A c \in NP : pay[c] \in Lowest /\ Leq(Zero, pay[c])
      /\ Total(pay, NP) \in Lowest /\ Leq(Total(pay, NP), pool)
  BY <1>2, <1>3, <1>4, <1>5, ProRata
<1>9. ASSUME NEW c \in D
      PROVE  /\ Money(given[c])
             /\ Plus(money.paid[c], given[c]) = next.paid[c]
             /\ c \notin K => given[c] = Zero
  <2>1. CASE c \in K
    <3>1. /\ pay[c] \in Lowest /\ money.paid[c] \in Lowest
          /\ Less(money.paid[c], pay[c]) /\ next.paid[c] = pay[c]
          /\ given[c] = Minus(pay[c], money.paid[c])
      BY <1>1, <1>2, <1>7, <1>8, <2>1
    <3>2. Leq(money.paid[c], pay[c])
      BY <3>1, OrderLaws
    <3>3. QED
      BY ZenonT(60), <2>1, <3>1, <3>2, AddedAndTaken, FractionsClosed DEF Money
  <2>2. CASE c \notin K
    <3>1. /\ money.paid[c] \in Lowest /\ next.paid[c] = money.paid[c]
          /\ given[c] = Minus(money.paid[c], money.paid[c])
      BY <1>1, <1>7, <2>2
    <3>2. given[c] = Zero
      BY <3>1, AddedAndTaken
    <3>3. QED
      BY <3>1, <3>2, ZeroStandsFor, AddedAndTaken, PlusLaws DEF Money
  <2>3. QED
    BY <2>1, <2>2
<1>10. next.paid = [c \in D |-> Plus(money.paid[c], given[c])]
  BY <1>7, <1>9
<1>11. /\ Accounted(next, D, proceeds)
       /\ \A c \in D : Leq(money.paid[c], next.paid[c])
  <2>1. \A c \in D : Money(given[c])
    BY <1>9
  <2>2. QED
    BY <1>2, <1>6, <1>10, <2>1, TierAccounted DEF D
<1>12. ASSUME K = {} PROVE next.remaining = left /\ next.paid = money.paid
  <2>1. \A c \in D : given[c] = Zero /\ next.paid[c] = money.paid[c]
    BY <1>7, <1>9, <1>12
  <2>2. Total(given, D) = Zero
    BY <1>2, <2>1, TotalZero
  <2>3. money.paid = [c \in D |-> money.paid[c]]
    BY DEF Accounted, D
  <2>4. QED
    BY <1>1, <1>6, <1>7, <2>1, <2>2, <2>3, AddedAndTaken
<1>13. SeniorFirst(cs, next)
  <2>1. left = Zero => K = {}
    <3>1. ~Positive(Zero)
      BY DEF Positive, Zero, Whole
    <3>2. QED
      BY <3>1 DEF Converters
  <2>2. QED
    BY <1>11, <1>12, <2>1, SeniorFirstKept DEF D
<1>14. WithinCaps(cs, next)
  <2>1. \A c \in Participating(cs) : c \in D \ K
    BY <1>2, ClassKinds DEF D
  <2>2. \A c \in Participating(cs) : next.paid[c] = money.paid[c]
    BY <1>7, <2>1
  <2>3. QED
    BY <2>2 DEF WithinCaps
<1>15. ASSUME K = {} \/ K = NP PROVE Leq(Zero, next.remaining)
  <2>1. CASE K = {}
    BY <1>1, <1>12, <2>1
  <2>2. CASE K = NP
    <3> DEFINE G == Total(given, NP)
    <3>1. \A c \in NP : /\ given[c] \in Lowest /\ money.paid[c] \in Lowest
                        /\ pay[c] = Plus(money.paid[c], given[c])
      BY <1>1, <1>2, <1>7, <1>9, <2>2 DEF Money
    <3>2. G \in Lowest
      BY <1>2, <3>1, TotalType
    <3>3. Total(pay, NP) = Plus(kept, G)
      BY <1>2, <3>1, TotalPlus DEF kept
    <3>4. \A c \in D \ NP : given[c] = Zero
      BY <1>9, <2>2
    <3>5. Total(given, D) = G
      BY <1>2, <3>1, <3>4, TotalPart
    <3> HIDE DEF G
    <3>6. Leq(Plus(kept, G), Plus(left, kept))
      BY <1>8, <3>3 DEF pool
    <3>7. Leq(Plus(G, kept), Plus(left, kept))
      BY <1>4, <3>2, <3>6, PlusLaws
    <3>8. Leq(G, left)
      BY <1>1, <1>4, <3>2, <3>7, OrderKept
    <3>9. QED
      BY <1>1, <1>6, <3>2, <3>5, <3>8, AddedAndTaken
  <2>3. QED
    BY <1>15, <2>1, <2>2
<1>16. Less(next.remaining, Zero) => K # {} /\ K # NP
  <2>1. next.remaining \in Lowest
    BY <1>11 DEF Accounted
  <2>2. QED
    BY <1>15, <2>1, ZeroStandsFor, OrderLaws
<1>17. QED
  BY <1>11, <1>13, <1>14, <1>16 DEF D, NP

(* Common stock takes all that is left.                                    *)
LEMMA CommonTierSound ==
  ASSUME NEW cs, ClassTable(cs), NEW proceeds, NEW money,
         Accounted(money, DOMAIN cs, proceeds),
         SeniorFirst(cs, money), WithinCaps(cs, money),
         NEW next, next = CommonTier(cs, money)
  PROVE  /\ Accounted(next, DOMAIN cs, proceeds)
         /\ SeniorFirst(cs, next) /\ WithinCaps(cs, next)
         /\ Positive(CommonShares(cs)) => ~Positive(next.remaining)
         /\ Less(next.remaining, Zero) => Less(money.remaining, Zero)
<1> DEFINE D == DOMAIN cs
           S == Common(cs)
           left == money.remaining
           all == CommonShares(cs)
           f == [c \in S |-> Whole(cs[c].shares)]
           given == [c \in D |-> IF c \in S
                                 THEN Times(left, Over(Whole(cs[c].shares), all))
                                 ELSE Zero]
<1>1. CASE ~Positive(left) \/ ~Positive(all)
  <2>1. next = money
    BY <1>1 DEF CommonTier
  <2>2. QED
    BY <1>1, <2>1
<1>2. CASE Positive(left) /\ Positive(all)
  <2>1. /\ next.remaining = Zero
        /\ next.paid = [c \in D |-> IF c \in S THEN Plus(money.paid[c], given[c])
                                    ELSE money.paid[c]]
    BY <1>2 DEF CommonTier
  <2>2. /\ left \in Lowest /\ \A c \in D : money.paid[c] \in Lowest
        /\ all \in Lowest
    BY ClassAmounts DEF Accounted, Money
  <2>3. Leq(Zero, left) /\ left # Zero /\ Leq(Zero, all) /\ all # Zero
    BY <1>2, <2>2, ZeroStandsFor, OrderLaws
  <2>4. /\ IsFiniteSet(D) /\ IsFiniteSet(S) /\ S \in SUBSET D
        /\ S \cap Preferred(cs) = {} /\ Participating(cs) \subseteq Preferred(cs)
        /\ Preferred(cs) \subseteq D
    BY ClassAmounts, ClassKinds, FS_Subset
  <2>5. \A c \in S : /\ f[c] \in Lowest /\ Leq(Zero, f[c])
                     /\ given[c] = Times(left, Over(f[c], all))
    BY <2>4, ClassAmounts DEF Money
  <2>6. Total(f, S) = all /\ Leq(Total(f, S), all)
    <3>1. Total(f, S) = all
      BY DEF CommonShares
    <3>2. QED
      BY <2>2, <3>1, AddedAndTaken
  <2>7. \A c \in D \ S : given[c] = Zero
    OBVIOUS
  <2> HIDE DEF f, given, D, S, all, left
  <2>8. /\ \A c \in S : given[c] \in Lowest /\ Leq(Zero, given[c])
        /\ Total(given, S) = left
    BY <2>2, <2>3, <2>4, <2>5, <2>6, ProRata
  <2>9. Total(given, D) = left
    BY <2>4, <2>7, <2>8, TotalPart
  <2>10. \A c \in D : Money(given[c])
    BY <2>7, <2>8, ZeroStandsFor, AddedAndTaken DEF Money
  <2>11. next.remaining = Minus(left, Total(given, D))
    BY <2>1, <2>2, <2>9, AddedAndTaken
  <2>12. next.paid = [c \in D |-> Plus(money.paid[c], given[c])]
    <3>1. \A c \in D \ S : Plus(money.paid[c], given[c]) = money.paid[c]
      BY <2>2, <2>7, PlusLaws
    <3>2. QED
      BY <2>1, <3>1
  <2>13. /\ Accounted(next, D, proceeds)
         /\ \A c \in D : Leq(money.paid[c], next.paid[c])
    BY <2>4, <2>10, <2>11, <2>12, TierAccounted DEF D, left
  <2>14. SeniorFirst(cs, next)
    BY <2>3, <2>13, SeniorFirstKept DEF D, left
  <2>15. WithinCaps(cs, next)
    <3>1. \A c \in Participating(cs) : next.paid[c] = money.paid[c]
      BY <2>1, <2>4
    <3>2. QED
      BY <3>1 DEF WithinCaps
  <2>16. ~Positive(next.remaining) /\ ~Less(next.remaining, Zero)
    <3>1. ~Positive(Zero) /\ ~Less(Zero, Zero)
      BY DEF Positive, Less, Zero, Whole
    <3>2. QED
      BY <2>1, <3>1
  <2>17. QED
    BY <2>13, <2>14, <2>15, <2>16 DEF D
<1>3. QED
  BY <1>1, <1>2

(* What an exit brings goes where the terms of the classes say it goes.    *)
LEMMA DistributionIsSound ==
  ASSUME NEW cs, ClassTable(cs), NEW proceeds, Money(proceeds)
  PROVE  DistributionSound(Calculate(cs, proceeds))
<1> DEFINE D == DOMAIN cs
           S == {cs[c].seniority : c \in Preferred(cs)}
           first == Liquidate(cs, proceeds)
           kept == ParticipationTier(cs, first)
           converted == ConversionTier(cs, kept)
           last == CommonTier(cs, converted)
           r == Calculate(cs, proceeds)
<1>1. LiquidatedDownTo(cs, proceeds, S, first)
  BY LiquidateGoesDown
<1>2. /\ Accounted(first, D, proceeds) /\ Leq(Zero, first.remaining)
      /\ SeniorFirst(cs, first)
      /\ \A c \in D : Leq(first.paid[c], Preference(cs, c))
  <2> HIDE DEF first
  <2>1. \A c \in Preferred(cs) : c \in D /\ cs[c].seniority \in S
    BY ClassKinds
  <2> HIDE DEF S
  <2>2. QED
    BY <1>1, <2>1 DEF LiquidatedDownTo, SeniorFirst
<1> HIDE DEF first
<1>3. /\ Accounted(kept, D, proceeds) /\ Leq(Zero, kept.remaining)
      /\ SeniorFirst(cs, kept) /\ WithinCaps(cs, kept)
  BY <1>2, ParticipationTierSound
<1> HIDE DEF kept
<1>4. /\ Accounted(converted, D, proceeds)
      /\ SeniorFirst(cs, converted) /\ WithinCaps(cs, converted)
      /\ Less(converted.remaining, Zero) =>
           /\ Converters(cs, kept) # {}
           /\ Converters(cs, kept) # NonParticipating(cs)
  BY <1>3, ConversionTierSound
<1> HIDE DEF converted
<1>5. /\ Accounted(last, D, proceeds)
      /\ SeniorFirst(cs, last) /\ WithinCaps(cs, last)
      /\ Positive(CommonShares(cs)) => ~Positive(last.remaining)
      /\ Less(last.remaining, Zero) => Less(converted.remaining, Zero)
  BY <1>4, CommonTierSound
<1> HIDE DEF last
<1>6. r = [classes |-> cs, proceeds |-> proceeds, paid |-> last.paid,
           remaining |-> last.remaining, converted |-> Converters(cs, kept)]
  BY DEF Calculate, last, converted, kept, first
<1>7. /\ r.classes = cs /\ r.proceeds = proceeds /\ r.paid = last.paid
      /\ r.remaining = last.remaining /\ r.converted = Converters(cs, kept)
  BY <1>6
<1> HIDE DEF r
<1>8. Plus(Total(last.paid, D), last.remaining) = proceeds
  BY <1>5 DEF Accounted
<1>9. \A c \in Preferred(cs) : Less(last.paid[c], Preference(cs, c)) =>
        \A d \in D : cs[d].seniority < cs[c].seniority => last.paid[d] = Zero
  BY <1>5 DEF SeniorFirst
<1>10. \A c \in Participating(cs) : cs[c].cap # 0 =>
         Leq(last.paid[c], Greater(Preference(cs, c),
                                   Whole(cs[c].investment * cs[c].cap)))
  BY <1>5 DEF WithinCaps, Ceiling
<1>11. QED
  BY <1>4, <1>5, <1>7, <1>8, <1>9, <1>10 DEF DistributionSound, r
=============================================================================
