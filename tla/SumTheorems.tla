----------------------------- MODULE SumTheorems -----------------------------
(***************************************************************************)
(* Facts about SumFunctionOnSet over finite sets: what the models add up.  *)
(* The library's induction theorems take the predicate as an operator, so  *)
(* induction is stated here over sets of numbers and sets of sets.         *)
(***************************************************************************)
EXTENDS Functions, FiniteSetTheorems, WellFoundedInduction, TLAPS

LEMMA NatSetInduction ==
  ASSUME NEW N, 0 \in N, \A n \in Nat : n \in N => n + 1 \in N
  PROVE  Nat \subseteq N
<1> DEFINE R == OpToRel(<, Nat)
<1>1. SUFFICES ASSUME Nat \ N # {} PROVE FALSE
  OBVIOUS
<1>2. IsWellFoundedOn(R, Nat)
  BY NatLessThanWellFounded
<1>3. \A m, n \in Nat : m < n => <<m, n>> \in R
  BY DEF OpToRel
<1> HIDE DEF R
<1>4. PICK n \in Nat \ N : \A m \in Nat \ N : <<m, n>> \notin R
  <2>1. Nat \ N \subseteq Nat
    OBVIOUS
  <2>2. QED
    BY <1>1, <1>2, <2>1, WFMin
<1>5. n # 0 /\ n - 1 \in Nat /\ n - 1 < n /\ n = (n - 1) + 1
  BY <1>4
<1>6. n - 1 \in N
  BY <1>3, <1>4, <1>5
<1>7. QED
  BY <1>4, <1>5, <1>6

(* A family of sets that has a subset of S whenever it has all the smaller *)
(* ones has S.                                                             *)
LEMMA SubsetInduction ==
  ASSUME NEW S, IsFiniteSet(S), NEW C,
         \A T \in SUBSET S : (\A U \in (SUBSET T) \ {T} : U \in C) => T \in C
  PROVE  \A T \in SUBSET S : T \in C
<1> DEFINE N == {n \in Nat : \A T \in SUBSET S : Cardinality(T) < n => T \in C}
<1>1. \A T \in SUBSET S : IsFiniteSet(T) /\ Cardinality(T) \in Nat
  BY FS_Subset, FS_CardinalityType
<1>2. 0 \in N
  BY <1>1
<1>3. ASSUME NEW n \in Nat, n \in N PROVE n + 1 \in N
  <2>1. ASSUME NEW T \in SUBSET S, Cardinality(T) < n + 1 PROVE T \in C
    <3>1. ASSUME NEW U \in (SUBSET T) \ {T} PROVE U \in C
      <4>1. /\ Cardinality(U) <= Cardinality(T)
            /\ Cardinality(T) = Cardinality(U) => T = U
        BY <1>1, FS_Subset
      <4>2. U \in SUBSET S /\ Cardinality(U) < n
        BY <1>1, <2>1, <3>1, <4>1
      <4>3. QED
        BY <1>3, <4>2
    <3>2. QED
      BY <3>1
  <2>2. QED
    BY <2>1
<1>4. Nat \subseteq N
  <2> HIDE DEF N
  <2>1. QED
    BY <1>2, <1>3, NatSetInduction
<1>5. QED
  <2>1. ASSUME NEW T \in SUBSET S PROVE T \in C
    <3>1. Cardinality(T) + 1 \in N
      BY <1>1, <1>4
    <3>2. QED
      BY <1>1, <3>1
  <2>2. QED
    BY <2>1

(* The recursive function behind SumFunctionOnSet(f, S).                   *)
Some(s) == CHOOSE x \in s : TRUE

Partial(f, D) ==
  CHOOSE p : p = [s \in D |-> IF s = {} THEN 0
                              ELSE f[Some(s)] + p[s \ {Some(s)}]]

LEMMA SumIsPartial ==
  ASSUME NEW f, NEW S
  PROVE  SumFunctionOnSet(f, S) = Partial(f, SUBSET S)[S]
BY Zenon DEF SumFunctionOnSet, FoldFunctionOnSet, MapThenFoldSet, Partial, Some

Unfolds(p, f, D) ==
  \A s \in D : p[s] = IF s = {} THEN 0 ELSE f[Some(s)] + p[s \ {Some(s)}]

(* It exists: it is made from the smaller sets to the larger ones.         *)
LEMMA PartialIsDefined ==
  ASSUME NEW f, NEW S, IsFiniteSet(S)
  PROVE  Unfolds(Partial(f, SUBSET S), f, SUBSET S)
<1> DEFINE Small(n) == {s \in SUBSET S : Cardinality(s) < n}
           Sums(p, D) == p = [s \in D |-> IF s = {} THEN 0
                                          ELSE f[Some(s)] + p[s \ {Some(s)}]]
           N == {n \in Nat : \E p : Sums(p, Small(n))}
<1>1. \A s \in SUBSET S : IsFiniteSet(s) /\ Cardinality(s) \in Nat
  BY FS_Subset, FS_CardinalityType
<1>2. \A s \in SUBSET S : s # {} =>
        /\ Some(s) \in s /\ s \ {Some(s)} \in SUBSET S
        /\ Cardinality(s \ {Some(s)}) = Cardinality(s) - 1
  <2>1. ASSUME NEW s \in SUBSET S, s # {}
        PROVE  /\ Some(s) \in s /\ s \ {Some(s)} \in SUBSET S
               /\ Cardinality(s \ {Some(s)}) = Cardinality(s) - 1
    <3>1. Some(s) \in s
      BY <2>1 DEF Some
    <3>2. QED
      BY <1>1, <3>1, FS_RemoveElement
  <2>2. QED
    BY <2>1
<1>3. 0 \in N
  <2>1. Small(0) = {}
    BY <1>1
  <2>2. Sums([s \in {} |-> 0], Small(0))
    BY <2>1
  <2> HIDE DEF Sums, Small
  <2>3. QED
    BY <2>2
<1>4. ASSUME NEW n \in Nat, n \in N PROVE n + 1 \in N
  <2>1. PICK p : Sums(p, Small(n))
    BY <1>4
  <2> DEFINE q == [s \in Small(n + 1) |->
                     IF s = {} THEN 0 ELSE f[Some(s)] + p[s \ {Some(s)}]]
  <2>2. Small(n) \subseteq Small(n + 1)
    BY <1>1
  <2>3. \A s \in Small(n + 1) : s # {} => s \ {Some(s)} \in Small(n)
    BY <1>1, <1>2
  <2> HIDE DEF Small
  <2>4. \A s \in Small(n) : q[s] = p[s]
    BY <2>1, <2>2
  <2>5. Sums(q, Small(n + 1))
    BY <2>3, <2>4
  <2> HIDE DEF Sums, q
  <2>6. QED
    BY <2>5
<1>5. \E p : Sums(p, SUBSET S)
  <2>1. Nat \subseteq N
    <3> HIDE DEF N
    <3>1. QED
      BY <1>3, <1>4, NatSetInduction
  <2>2. Cardinality(S) + 1 \in N
    <3>1. S \in SUBSET S
      OBVIOUS
    <3>2. Cardinality(S) + 1 \in Nat
      BY <1>1, <3>1
    <3> HIDE DEF N
    <3>3. QED
      BY <2>1, <3>2
  <2>3. Small(Cardinality(S) + 1) = SUBSET S
    <3>1. \A s \in SUBSET S : Cardinality(s) <= Cardinality(S)
      BY FS_Subset
    <3>2. QED
      BY <1>1, <3>1
  <2> HIDE DEF Small, Sums
  <2>4. QED
    BY <2>2, <2>3
<1>6. Sums(Partial(f, SUBSET S), SUBSET S)
  BY <1>5 DEF Partial
<1>7. QED
  BY <1>6 DEF Unfolds

(* What it says of a set does not depend on the larger set it is made for. *)
LEMMA PartialsAgree ==
  ASSUME NEW f, NEW S, IsFiniteSet(S)
  PROVE  \A T \in SUBSET S : Partial(f, SUBSET S)[T] = Partial(f, SUBSET T)[T]
<1> DEFINE C == {T \in SUBSET S : \A U \in SUBSET S : T \subseteq U =>
                   Partial(f, SUBSET U)[T] = Partial(f, SUBSET S)[T]}
<1>1. ASSUME NEW T \in SUBSET S, \A U \in (SUBSET T) \ {T} : U \in C
      PROVE  T \in C
  <2>1. ASSUME NEW U \in SUBSET S, T \subseteq U
        PROVE  Partial(f, SUBSET U)[T] = Partial(f, SUBSET S)[T]
    <3>1. IsFiniteSet(U)
      BY FS_Subset
    <3>2. CASE T = {}
      BY <2>1, <3>1, <3>2, PartialIsDefined DEF Unfolds
    <3>3. CASE T # {}
      <4> DEFINE V == T \ {Some(T)}
      <4>1. Some(T) \in T
        BY <3>3 DEF Some
      <4>2. V \in (SUBSET T) \ {T} /\ V \subseteq U
        BY <2>1, <4>1
      <4>3. Partial(f, SUBSET U)[V] = Partial(f, SUBSET S)[V]
        BY <1>1, <4>2
      <4>4. /\ Partial(f, SUBSET U)[T] = f[Some(T)] + Partial(f, SUBSET U)[V]
            /\ Partial(f, SUBSET S)[T] = f[Some(T)] + Partial(f, SUBSET S)[V]
        BY <2>1, <3>1, <3>3, PartialIsDefined DEF Unfolds
      <4>5. QED
        BY <4>3, <4>4
    <3>4. QED
      BY <3>2, <3>3
  <2>2. QED
    BY <2>1
<1>2. \A T \in SUBSET S : T \in C
  <2> HIDE DEF C
  <2>1. QED
    BY <1>1, SubsetInduction
<1>3. QED
  BY <1>2

LEMMA SumEmpty == ASSUME NEW f PROVE SumFunctionOnSet(f, {}) = 0
BY FS_EmptySet, SumIsPartial, PartialIsDefined DEF Unfolds

LEMMA SumSome ==
  ASSUME NEW f, NEW S, IsFiniteSet(S), S # {}
  PROVE  /\ Some(S) \in S
         /\ SumFunctionOnSet(f, S) =
              f[Some(S)] + SumFunctionOnSet(f, S \ {Some(S)})
<1>1. Some(S) \in S
  BY DEF Some
<1>2. Unfolds(Partial(f, SUBSET S), f, SUBSET S)
  BY PartialIsDefined
<1>3. Partial(f, SUBSET S)[S] =
        f[Some(S)] + Partial(f, SUBSET S)[S \ {Some(S)}]
  BY <1>2 DEF Unfolds
<1>4. QED
  BY <1>1, <1>3, SumIsPartial, PartialsAgree

(* Integers add up to an integer, natural numbers to a natural number.     *)
LEMMA SumType ==
  ASSUME NEW S, IsFiniteSet(S), NEW R \in {Nat, Int}, NEW f,
         \A x \in S : f[x] \in R
  PROVE  SumFunctionOnSet(f, S) \in R
<1> DEFINE C == {T \in SUBSET S : SumFunctionOnSet(f, T) \in R}
<1>1. ASSUME NEW T \in SUBSET S, \A U \in (SUBSET T) \ {T} : U \in C
      PROVE  T \in C
  <2>1. CASE T = {}
    BY <2>1, SumEmpty
  <2>2. CASE T # {}
    <3>1. IsFiniteSet(T)
      BY FS_Subset
    <3>2. Some(T) \in T /\ T \ {Some(T)} \in (SUBSET T) \ {T}
      BY <2>2 DEF Some
    <3>3. SumFunctionOnSet(f, T \ {Some(T)}) \in R /\ f[Some(T)] \in R
      BY <1>1, <3>2
    <3>4. SumFunctionOnSet(f, T) =
            f[Some(T)] + SumFunctionOnSet(f, T \ {Some(T)})
      BY <2>2, <3>1, SumSome
    <3>5. QED
      BY <3>3, <3>4
  <2>3. QED
    BY <2>1, <2>2
<1>2. \A T \in SUBSET S : T \in C
  <2> HIDE DEF C
  <2>1. QED
    BY <1>1, SubsetInduction
<1>3. QED
  BY <1>2

(* Any member can be taken out first.                                      *)
LEMMA SumTakeOut ==
  ASSUME NEW S, IsFiniteSet(S), NEW f, \A x \in S : f[x] \in Int,
         NEW x \in S
  PROVE  SumFunctionOnSet(f, S) = f[x] + SumFunctionOnSet(f, S \ {x})
<1> DEFINE Sum(T) == SumFunctionOnSet(f, T)
           C == {T \in SUBSET S : \A y \in T : Sum(T) = f[y] + Sum(T \ {y})}
<1> HIDE DEF Sum
<1>1. \A T \in SUBSET S : IsFiniteSet(T) /\ Sum(T) \in Int
  BY FS_Subset, SumType DEF Sum
<1>2. ASSUME NEW T \in SUBSET S, \A U \in (SUBSET T) \ {T} : U \in C
      PROVE  T \in C
  <2>1. ASSUME NEW y \in T PROVE Sum(T) = f[y] + Sum(T \ {y})
    <3> DEFINE z == Some(T)
    <3>1. z \in T /\ Sum(T) = f[z] + Sum(T \ {z})
      BY <1>1, SumSome DEF Sum
    <3> HIDE DEF z
    <3>2. CASE y = z
      BY <3>1, <3>2
    <3>3. CASE y # z
      <4>1. Sum(T \ {z}) = f[y] + Sum((T \ {z}) \ {y})
        BY <1>2, <3>1, <3>3
      <4>2. Sum(T \ {y}) = f[z] + Sum((T \ {y}) \ {z})
        BY <1>2, <2>1, <3>1, <3>3
      <4>3. (T \ {z}) \ {y} = (T \ {y}) \ {z}
        OBVIOUS
      <4>4. f[y] \in Int /\ f[z] \in Int /\ Sum((T \ {y}) \ {z}) \in Int
        BY <1>1, <2>1, <3>1
      <4>5. \A a, b, s \in Int : a + (b + s) = b + (a + s)
        OBVIOUS
      <4>6. f[z] + (f[y] + Sum((T \ {y}) \ {z}))
              = f[y] + (f[z] + Sum((T \ {y}) \ {z}))
        BY <4>4, <4>5
      <4>7. QED
        BY <3>1, <4>1, <4>2, <4>3, <4>6
    <3>4. QED
      BY <3>2, <3>3
  <2>2. QED
    BY <2>1
<1>3. \A T \in SUBSET S : T \in C
  <2> HIDE DEF C
  <2>1. QED
    BY <1>2, SubsetInduction
<1>4. QED
  BY <1>3 DEF Sum

LEMMA SumAdd ==
  ASSUME NEW S, IsFiniteSet(S), NEW f, NEW x, x \notin S,
         \A y \in S \cup {x} : f[y] \in Int
  PROVE  SumFunctionOnSet(f, S \cup {x}) = f[x] + SumFunctionOnSet(f, S)
<1>1. IsFiniteSet(S \cup {x}) /\ (S \cup {x}) \ {x} = S
  BY FS_AddElement
<1>2. SumFunctionOnSet(f, S \cup {x})
        = f[x] + SumFunctionOnSet(f, (S \cup {x}) \ {x})
  BY <1>1, SumTakeOut
<1>3. QED
  BY <1>1, <1>2

(* A sum depends on the values in the set alone.                           *)
LEMMA SumAgree ==
  ASSUME NEW S, IsFiniteSet(S), NEW f, NEW g, \A x \in S : f[x] = g[x]
  PROVE  SumFunctionOnSet(f, S) = SumFunctionOnSet(g, S)
<1> DEFINE C == {T \in SUBSET S :
                   SumFunctionOnSet(f, T) = SumFunctionOnSet(g, T)}
<1>1. ASSUME NEW T \in SUBSET S, \A U \in (SUBSET T) \ {T} : U \in C
      PROVE  T \in C
  <2>1. CASE T = {}
    BY <2>1, SumEmpty
  <2>2. CASE T # {}
    <3>1. IsFiniteSet(T)
      BY FS_Subset
    <3>2. Some(T) \in T /\ T \ {Some(T)} \in (SUBSET T) \ {T}
      BY <2>2 DEF Some
    <3>3. SumFunctionOnSet(f, T \ {Some(T)})
            = SumFunctionOnSet(g, T \ {Some(T)})
      BY <1>1, <3>2
    <3>4. /\ SumFunctionOnSet(f, T)
               = f[Some(T)] + SumFunctionOnSet(f, T \ {Some(T)})
          /\ SumFunctionOnSet(g, T)
               = g[Some(T)] + SumFunctionOnSet(g, T \ {Some(T)})
      BY <2>2, <3>1, SumSome
    <3>5. QED
      BY <3>2, <3>3, <3>4
  <2>3. QED
    BY <2>1, <2>2
<1>2. \A T \in SUBSET S : T \in C
  <2> HIDE DEF C
  <2>1. QED
    BY <1>1, SubsetInduction
<1>3. QED
  BY <1>2

(* What is added to natural numbers only makes their sum larger.           *)
LEMMA SumMonotone ==
  ASSUME NEW S, IsFiniteSet(S), NEW f, \A x \in S : f[x] \in Nat,
         NEW T \in SUBSET S
  PROVE  SumFunctionOnSet(f, T) <= SumFunctionOnSet(f, S)
<1> DEFINE Sum(U) == SumFunctionOnSet(f, U)
           C == {U \in SUBSET S : Sum(U \cap T) <= Sum(U)}
<1> HIDE DEF Sum
<1>0. \A a, b, c \in Nat : a <= b => c + a <= c + b /\ a <= c + b
  OBVIOUS
<1>1. \A U \in SUBSET S : IsFiniteSet(U) /\ Sum(U) \in Nat
  BY FS_Subset, SumType DEF Sum
<1>2. ASSUME NEW U \in SUBSET S, \A V \in (SUBSET U) \ {U} : V \in C
      PROVE  U \in C
  <2>1. CASE U = {}
    BY <1>1, <2>1
  <2>2. ASSUME NEW x \in U PROVE Sum(U \cap T) <= Sum(U)
    <3> DEFINE V == U \ {x}
    <3>1. Sum(V \cap T) <= Sum(V)
      BY <1>2
    <3>2. Sum(U) = f[x] + Sum(V)
      BY <1>1, SumTakeOut DEF Sum
    <3>3. CASE x \in T
      <4>1. Sum(U \cap T) = f[x] + Sum((U \cap T) \ {x})
        BY <1>1, <3>3, SumTakeOut DEF Sum
      <4>2. (U \cap T) \ {x} = V \cap T
        OBVIOUS
      <4>3. f[x] \in Nat /\ Sum(V) \in Nat /\ Sum(V \cap T) \in Nat
        BY <1>1
      <4>4. f[x] + Sum(V \cap T) <= f[x] + Sum(V)
        BY <1>0, <3>1, <4>3
      <4>5. QED
        BY <3>2, <4>1, <4>2, <4>4
    <3>4. CASE x \notin T
      <4>1. U \cap T = V \cap T
        BY <3>4
      <4>2. f[x] \in Nat /\ Sum(V) \in Nat /\ Sum(V \cap T) \in Nat
        BY <1>1
      <4>3. Sum(V \cap T) <= f[x] + Sum(V)
        BY <1>0, <3>1, <4>2
      <4>4. QED
        BY <3>2, <4>1, <4>3
    <3>5. QED
      BY <3>3, <3>4
  <2>3. QED
    BY <2>1, <2>2
<1>3. S \in C
  <2>1. \A U \in SUBSET S : U \in C
    <3> HIDE DEF C
    <3>1. QED
      BY <1>2, SubsetInduction
  <2>2. S \in SUBSET S
    OBVIOUS
  <2> HIDE DEF C
  <2>3. QED
    BY <2>1, <2>2
<1>4. QED
  <2>1. S \cap T = T
    OBVIOUS
  <2>2. QED
    BY <1>3, <2>1 DEF Sum

-----------------------------------------------------------------------------

(* Induction by adding one element at a time.                              *)
LEMMA AddInduction ==
  ASSUME NEW S, IsFiniteSet(S), NEW C, {} \in C,
         \A T \in SUBSET S : \A x \in S \ T : T \in C => T \cup {x} \in C
  PROVE  S \in C
<1>1. ASSUME NEW T \in SUBSET S, \A U \in (SUBSET T) \ {T} : U \in C
      PROVE  T \in C
  <2>1. ASSUME NEW x \in T PROVE T \in C
    <3> DEFINE U == T \ {x}
    <3>1. U \in (SUBSET T) \ {T} /\ U \in SUBSET S /\ x \in S \ U
      OBVIOUS
    <3>2. T = U \cup {x}
      OBVIOUS
    <3> HIDE DEF U
    <3>3. QED
      BY <1>1, <3>1, <3>2
  <2>2. QED
    BY <2>1
<1>2. \A T \in SUBSET S : T \in C
  BY <1>1, SubsetInduction
<1>3. S \in SUBSET S
  OBVIOUS
<1>4. QED
  BY <1>2, <1>3

LEMMA Regroup ==
  \A a, b, c \in Int : a + b = b + a /\ a + (b + c) = b + (a + c)
OBVIOUS

(* Disjoint sets sum to the sum of both.                                   *)
LEMMA SumUnion ==
  ASSUME NEW S, IsFiniteSet(S), NEW R, IsFiniteSet(R), R \cap S = {},
         NEW f, \A x \in R \cup S : f[x] \in Int
  PROVE  SumFunctionOnSet(f, R \cup S) =
           SumFunctionOnSet(f, R) + SumFunctionOnSet(f, S)
<1> DEFINE Sum(T) == SumFunctionOnSet(f, T)
           C == {T \in SUBSET S : Sum(R \cup T) = Sum(R) + Sum(T)}
<1> HIDE DEF Sum
<1>1. \A T \in SUBSET S : /\ IsFiniteSet(T) /\ IsFiniteSet(R \cup T)
                          /\ Sum(T) \in Int
  <2>1. ASSUME NEW T \in SUBSET S PROVE IsFiniteSet(T) /\ IsFiniteSet(R \cup T)
    BY FS_Subset, FS_Union
  <2>2. ASSUME NEW T \in SUBSET S PROVE Sum(T) \in Int
    BY <2>1, SumType DEF Sum
  <2>3. QED
    BY <2>1, <2>2
<1>2. Sum(R) \in Int
  BY SumType DEF Sum
<1>3. {} \in C
  <2>1. Sum({}) = 0 /\ R \cup {} = R
    BY SumEmpty DEF Sum
  <2>2. QED
    BY <1>2, <2>1
<1>4. ASSUME NEW T \in SUBSET S, NEW x \in S \ T, T \in C
      PROVE  T \cup {x} \in C
  <2>1. Sum(T \cup {x}) = f[x] + Sum(T)
    BY <1>1, SumAdd DEF Sum
  <2>2. Sum((R \cup T) \cup {x}) = f[x] + Sum(R \cup T)
    <3>1. x \notin R \cup T
      OBVIOUS
    <3>2. QED
      BY <1>1, <3>1, SumAdd DEF Sum
  <2>3. (R \cup T) \cup {x} = R \cup (T \cup {x})
    OBVIOUS
  <2>4. f[x] \in Int /\ Sum(T) \in Int
    BY <1>1
  <2>5. Sum(R \cup (T \cup {x})) = Sum(R) + Sum(T \cup {x})
    <3>1. Sum(R \cup T) = Sum(R) + Sum(T)
      BY <1>4
    <3>2. f[x] + (Sum(R) + Sum(T)) = Sum(R) + (f[x] + Sum(T))
      BY <1>2, <2>4, Regroup
    <3>3. QED
      BY <2>1, <2>2, <2>3, <3>1, <3>2
  <2>6. QED
    BY <2>5
<1>5. S \in C
  <2> HIDE DEF C
  <2>1. QED
    BY <1>3, <1>4, AddInduction
<1>6. QED
  BY <1>5 DEF Sum

(* Elements can be renamed, each by a name of its own: g is to the names   *)
(* in R what f is to the elements of S.                                    *)
Renames(h, S, R, f, g) ==
  /\ \A x, y \in S : h[x] = h[y] => x = y
  /\ \A x \in S : h[x] \in R /\ f[x] \in Int /\ g[h[x]] = f[x]
  /\ \A n \in R : \E x \in S : n = h[x]

LEMMA SumRenamed ==
  ASSUME NEW S, IsFiniteSet(S), NEW h, NEW f, NEW g, NEW R,
         Renames(h, S, R, f, g)
  PROVE  IsFiniteSet(R) /\ SumFunctionOnSet(g, R) = SumFunctionOnSet(f, S)
<1> USE DEF Renames
<1> DEFINE Names(T) == {h[x] : x \in T}
           C == {T \in SUBSET S :
                   /\ IsFiniteSet(Names(T))
                   /\ SumFunctionOnSet(g, Names(T)) = SumFunctionOnSet(f, T)}
<1>1. {} \in C
  BY FS_EmptySet, SumEmpty
<1>2. ASSUME NEW T \in SUBSET S, NEW x \in S \ T, T \in C
      PROVE  T \cup {x} \in C
  <2>1. IsFiniteSet(T)
    BY FS_Subset
  <2>2. SumFunctionOnSet(f, T \cup {x}) = f[x] + SumFunctionOnSet(f, T)
    BY <2>1, SumAdd
  <2>3. Names(T \cup {x}) = Names(T) \cup {h[x]} /\ h[x] \notin Names(T)
    OBVIOUS
  <2>4. \A n \in Names(T) \cup {h[x]} : g[n] \in Int
    OBVIOUS
  <2>5. IsFiniteSet(Names(T) \cup {h[x]})
    BY <1>2, FS_AddElement
  <2>6. SumFunctionOnSet(g, Names(T) \cup {h[x]})
          = g[h[x]] + SumFunctionOnSet(g, Names(T))
    <3> HIDE DEF Names
    <3>1. QED
      BY <1>2, <2>3, <2>4, SumAdd
  <2>7. g[h[x]] = f[x]
    OBVIOUS
  <2> HIDE DEF Names
  <2>8. QED
    BY <1>2, <2>2, <2>3, <2>5, <2>6, <2>7
<1>3. S \in C
  <2> HIDE DEF C
  <2>1. QED
    BY <1>1, <1>2, AddInduction
<1>4. R = Names(S)
  OBVIOUS
<1>5. QED
  BY <1>3, <1>4

(* A sum of ones counts.                                                   *)
LEMMA SumOnes ==
  ASSUME NEW S, IsFiniteSet(S), NEW f, \A x \in S : f[x] = 1
  PROVE  SumFunctionOnSet(f, S) = Cardinality(S)
<1> DEFINE C == {T \in SUBSET S : SumFunctionOnSet(f, T) = Cardinality(T)}
<1>1. {} \in C
  BY FS_EmptySet, SumEmpty
<1>2. ASSUME NEW T \in SUBSET S, NEW x \in S \ T, T \in C
      PROVE  T \cup {x} \in C
  <2>1. IsFiniteSet(T) /\ Cardinality(T) \in Nat
    BY FS_Subset, FS_CardinalityType
  <2>2. SumFunctionOnSet(f, T \cup {x}) = f[x] + SumFunctionOnSet(f, T)
    <3>1. \A y \in T \cup {x} : f[y] \in Int
      OBVIOUS
    <3>2. QED
      BY <2>1, <3>1, SumAdd
  <2>3. Cardinality(T \cup {x}) = Cardinality(T) + 1
    BY <2>1, FS_AddElement
  <2>4. QED
    BY <1>2, <2>1, <2>2, <2>3
<1>3. S \in C
  <2> HIDE DEF C
  <2>1. QED
    BY <1>1, <1>2, AddInduction
<1>4. QED
  BY <1>3

(* R is in disjoint parts, one for each member of S, and h has what f sums *)
(* to in each.                                                             *)
Parts(S, part, R, f, h) ==
  /\ R = UNION {part[s] : s \in S}
  /\ \A s, t \in S : s # t => part[s] \cap part[t] = {}
  /\ \A s \in S : /\ IsFiniteSet(part[s])
                  /\ \A x \in part[s] : f[x] \in Int
                  /\ h[s] = SumFunctionOnSet(f, part[s])

LEMMA SumParts ==
  ASSUME NEW S, IsFiniteSet(S), NEW part, NEW R, NEW f, NEW h,
         Parts(S, part, R, f, h)
  PROVE  IsFiniteSet(R) /\ SumFunctionOnSet(h, S) = SumFunctionOnSet(f, R)
<1> USE DEF Parts
<1> DEFINE All(T) == UNION {part[s] : s \in T}
           C == {T \in SUBSET S :
                   /\ IsFiniteSet(All(T))
                   /\ SumFunctionOnSet(h, T) = SumFunctionOnSet(f, All(T))}
<1>1. \A s \in S : h[s] \in Int
  BY SumType
<1>2. {} \in C
  <2>1. All({}) = {}
    OBVIOUS
  <2> HIDE DEF All
  <2>2. QED
    BY <2>1, FS_EmptySet, SumEmpty
<1>3. ASSUME NEW T \in SUBSET S, NEW s \in S \ T, T \in C
      PROVE  T \cup {s} \in C
  <2>1. All(T \cup {s}) = All(T) \cup part[s]
    OBVIOUS
  <2>2. All(T) \cap part[s] = {}
    OBVIOUS
  <2>3. \A x \in All(T) \cup part[s] : f[x] \in Int
    OBVIOUS
  <2>4. SumFunctionOnSet(h, T \cup {s}) = h[s] + SumFunctionOnSet(h, T)
    BY <1>1, FS_Subset, SumAdd
  <2> HIDE DEF All
  <2>5. IsFiniteSet(All(T)) /\ IsFiniteSet(part[s])
    BY <1>3
  <2>6. SumFunctionOnSet(f, All(T) \cup part[s])
          = SumFunctionOnSet(f, All(T)) + SumFunctionOnSet(f, part[s])
    BY <2>2, <2>3, <2>5, SumUnion
  <2>7. IsFiniteSet(All(T) \cup part[s])
    BY <2>5, FS_Union
  <2>8. h[s] \in Int /\ SumFunctionOnSet(h, T) \in Int
    BY <1>1, FS_Subset, SumType
  <2>9. h[s] + SumFunctionOnSet(h, T) = SumFunctionOnSet(h, T) + h[s]
    BY <2>8, Regroup
  <2>10. SumFunctionOnSet(h, T) = SumFunctionOnSet(f, All(T))
    BY <1>3
  <2>11. SumFunctionOnSet(h, T \cup {s})
           = SumFunctionOnSet(f, All(T \cup {s}))
    BY <2>1, <2>4, <2>6, <2>9, <2>10
  <2>12. QED
    BY <2>1, <2>7, <2>11
<1>4. S \in C
  <2> HIDE DEF C
  <2>1. QED
    BY <1>2, <1>3, AddInduction
<1>5. R = All(S)
  OBVIOUS
<1>6. QED
  <2> HIDE DEF All
  <2>1. QED
    BY <1>4, <1>5

LEMMA FiniteImage ==
  ASSUME NEW S, IsFiniteSet(S), NEW f
  PROVE  IsFiniteSet({f[x] : x \in S})
<1> DEFINE Image(T) == {f[x] : x \in T}
           C == {T \in SUBSET S : IsFiniteSet(Image(T))}
<1>1. {} \in C
  BY FS_EmptySet
<1>2. ASSUME NEW T \in SUBSET S, NEW x \in S \ T, T \in C
      PROVE  T \cup {x} \in C
  <2>1. Image(T \cup {x}) = Image(T) \cup {f[x]}
    OBVIOUS
  <2> HIDE DEF Image
  <2>2. IsFiniteSet(Image(T) \cup {f[x]})
    BY <1>2, FS_AddElement
  <2>3. QED
    BY <2>1, <2>2
<1>3. S \in C
  <2> HIDE DEF C
  <2>1. QED
    BY <1>1, <1>2, AddInduction
<1>4. QED
  BY <1>3

(* What an interval holds, when it is not shorter than an empty one.       *)
LEMMA IntervalSize ==
  \A a, b \in Int : a <= b + 1 => /\ IsFiniteSet(a .. b)
                                  /\ Cardinality(a .. b) = b - a + 1
<1>1. ASSUME NEW a \in Int, NEW b \in Int, a <= b + 1
      PROVE  IsFiniteSet(a .. b) /\ Cardinality(a .. b) = b - a + 1
  BY <1>1, FS_Interval
<1>2. QED
  BY <1>1
=============================================================================
