---------------------------- MODULE DataLemmas ----------------------------
(***************************************************************************)
(* Lemmas about numbers, sums, finite sets of numbers and powers of two.   *)
(* Induction over data is here a set of numbers, or of finite sets, that   *)
(* has no least member missing: NatLessThanWellFounded and WFMin give that,*)
(* where a rule of induction would need a predicate as its parameter.      *)
(***************************************************************************)
EXTENDS PowersOfTwo, Sequences, FiniteSets, FiniteSetsExt, Functions, FiniteSetTheorems,
        WellFoundedInduction, TLAPS

-----------------------------------------------------------------------------
(* Induction *)

\* A set of numbers that is not empty has a least one.
LEMMA LeastNumber ==
    ASSUME NEW T \in SUBSET Nat, T # {}
    PROVE  \E n \in T : \A m \in T : n =< m
<1>. DEFINE R == OpToRel(<, Nat)
<1>1. IsWellFoundedOn(R, Nat)
  BY NatLessThanWellFounded
<1>2. \A m, n \in Nat : m < n => <<m, n>> \in R
  BY DEF OpToRel
<1>. HIDE DEF R
<1>3. PICK n \in T : \A m \in T : ~ (<<m, n>> \in R)
  BY <1>1, WFMin
<1>4. ASSUME NEW m \in T PROVE n =< m
  <2>1. m \in Nat /\ n \in Nat /\ ~(m < n)
    BY <1>2, <1>3
  <2>. QED  BY <2>1
<1>. QED  BY <1>4

\* A set that holds 0 and with each number the next holds every number: a least number
\* missing from it would contradict that.
LEMMA InductionOnNumbers ==
    ASSUME NEW T, 0 \in T, \A n \in Nat : n \in T => n + 1 \in T
    PROVE  Nat \subseteq T
<1>. DEFINE Missing == Nat \ T
<1>. SUFFICES ASSUME Missing # {} PROVE FALSE
  OBVIOUS
<1>1. PICK n \in Missing : \A m \in Missing : n =< m
  BY LeastNumber
<1>2. n \in Nat /\ n # 0 /\ n \notin T
  OBVIOUS
<1>3. n - 1 \in Nat /\ ~(n =< n - 1)
  BY <1>2
<1>4. n - 1 \in T
  BY <1>1, <1>3
<1>5. (n - 1) + 1 = n
  BY <1>2
<1>. QED  BY <1>2, <1>3, <1>4, <1>5

\* Induction over the subsets of a finite set.
LEMMA InductionOnSubsets ==
    ASSUME NEW S, IsFiniteSet(S), NEW G,
           {} \in G, \A s \in SUBSET S : s # {} /\ s \ {CHOOSE x \in s : TRUE} \in G => s \in G
    PROVE  SUBSET S \subseteq G
<1>. DEFINE Sized == {n \in Nat : \A s \in SUBSET S : Cardinality(s) = n => s \in G}
<1>0. \A s \in SUBSET S : IsFiniteSet(s) /\ Cardinality(s) \in Nat
  BY FS_Subset, FS_CardinalityType
<1>1. 0 \in Sized
  BY <1>0, FS_EmptySet
<1>2. ASSUME NEW n \in Nat, n \in Sized PROVE n + 1 \in Sized
  <2>. SUFFICES ASSUME NEW s \in SUBSET S, Cardinality(s) = n + 1 PROVE s \in G
    OBVIOUS
  <2>1. s # {}
    BY FS_EmptySet
  <2>. DEFINE c == CHOOSE x \in s : TRUE
  <2>2. c \in s
    BY <2>1
  <2>3. Cardinality(s \ {c}) = n
    <3>1. Cardinality(s \ {c}) = (n + 1) - 1
      BY <1>0, <2>2, FS_RemoveElement
    <3>. QED  BY <3>1
  <2>4. s \ {c} \in G
    BY <1>2, <2>3
  <2>. QED  BY <2>1, <2>4
<1>. HIDE DEF Sized
<1>3. Nat \subseteq Sized
  BY <1>1, <1>2, InductionOnNumbers
<1>. QED  BY <1>0, <1>3 DEF Sized

-----------------------------------------------------------------------------
(* Sums over finite sets, and their greatest and least elements *)

\* The sum of f over the elements of a finite set.
Sum(S, f) == FoldSet(LAMBDA x, n : n + f[x], 0, S)

\* The recursion by which the fold of a finite set is defined.
SumRecursion(it, S, f) ==
    it = [s \in SUBSET S |->
             IF s = {} THEN 0
             ELSE it[s \ {CHOOSE x \in s : TRUE}] + f[CHOOSE x \in s : TRUE]]

\* The recursion behind a sum has a solution.
LEMMA SumRecursionSolved ==
    ASSUME NEW S, IsFiniteSet(S), NEW f
    PROVE  \E it : SumRecursion(it, S, f)
<1>. DEFINE c(s) == CHOOSE x \in s : TRUE
            Upto(n) == {s \in SUBSET S : Cardinality(s) =< n}
            Solves(g, n) == g = [s \in Upto(n) |-> IF s = {} THEN 0 ELSE g[s \ {c(s)}] + f[c(s)]]
            Solvable == {n \in Nat : \E g : Solves(g, n)}
<1>0. \A s \in SUBSET S : IsFiniteSet(s) /\ Cardinality(s) \in Nat /\ (Cardinality(s) = 0 <=> s = {})
  BY FS_Subset, FS_CardinalityType, FS_EmptySet
<1>1. \A s \in SUBSET S : s # {} => c(s) \in s
  OBVIOUS
<1>2. \A s \in SUBSET S : s # {} => Cardinality(s \ {c(s)}) = Cardinality(s) - 1
  BY <1>0, <1>1, FS_RemoveElement
<1>. HIDE DEF c
<1>3. 0 \in Solvable
  <2>. DEFINE g == [s \in Upto(0) |-> 0]
  <2>1. \A s \in Upto(0) : s = {}
    BY <1>0
  <2>2. g = [s \in Upto(0) |-> IF s = {} THEN 0 ELSE g[s \ {c(s)}] + f[c(s)]]
    BY <2>1
  <2>. HIDE DEF g
  <2>. QED  BY <2>2
<1>4. ASSUME NEW n \in Nat, n \in Solvable PROVE n + 1 \in Solvable
  <2>1. PICK g : Solves(g, n)
    BY <1>4
  <2>. DEFINE h == [s \in Upto(n + 1) |-> IF s = {} THEN 0 ELSE g[s \ {c(s)}] + f[c(s)]]
  <2>2. \A s \in Upto(n) : s \in Upto(n + 1) /\ h[s] = g[s]
    <3>1. \A s \in Upto(n) : s \in Upto(n + 1)
      BY <1>0
    <3>. QED  BY <2>1, <3>1
  <2>3. \A s \in Upto(n + 1) : s # {} => s \ {c(s)} \in Upto(n)
    BY <1>0, <1>2
  <2>4. \A s \in Upto(n + 1) : s # {} => h[s \ {c(s)}] = g[s \ {c(s)}]
    BY <2>2, <2>3
  <2>5. h = [s \in Upto(n + 1) |-> IF s = {} THEN 0 ELSE h[s \ {c(s)}] + f[c(s)]]
    <3>. DEFINE k == [s \in Upto(n + 1) |-> IF s = {} THEN 0 ELSE h[s \ {c(s)}] + f[c(s)]]
    <3>1. \A s \in Upto(n + 1) : h[s] = k[s]
      BY <2>4
    <3>. QED  BY <3>1
  <2>. HIDE DEF h, Upto
  <2>. QED  BY <2>5
<1>5. Cardinality(S) \in Solvable
  <2>. HIDE DEF Solvable
  <2>. QED  BY <1>0, <1>3, <1>4, InductionOnNumbers
<1>6. Upto(Cardinality(S)) = SUBSET S
  BY <1>0, FS_Subset
<1>. HIDE DEF Upto
<1>. QED  BY <1>5, <1>6 DEF c, SumRecursion

\* The same, as equations.
SumsUp(it, S, f) ==
    /\ it[{}] = 0
    /\ \A s \in SUBSET S : s # {} =>
           it[s] = it[s \ {CHOOSE x \in s : TRUE}] + f[CHOOSE x \in s : TRUE]

\* So the sum is what that solution says of the whole set.
LEMMA SumWitness ==
    ASSUME NEW S, IsFiniteSet(S), NEW f
    PROVE  \E it : SumsUp(it, S, f) /\ Sum(S, f) = it[S]
<1>. DEFINE it == CHOOSE g : SumRecursion(g, S, f)
<1>1. SumRecursion(it, S, f)
  BY SumRecursionSolved, Zenon
<1>2. Sum(S, f) = it[S]
  BY DEF Sum, FoldSet, MapThenFoldSet, SumRecursion
<1>. HIDE DEF it
<1>3. SumsUp(it, S, f)
  BY <1>1 DEF SumsUp, SumRecursion
<1>. QED  BY <1>2, <1>3

\* A sum of numbers is a number.
LEMMA SumIsNatural ==
    ASSUME NEW S, IsFiniteSet(S), NEW f, \A x \in S : f[x] \in Nat
    PROVE  Sum(S, f) \in Nat
<1>1. PICK it : SumsUp(it, S, f) /\ Sum(S, f) = it[S]
  BY SumWitness
<1>. DEFINE G == {s \in SUBSET S : it[s] \in Nat}
<1>2. {} \in G
  BY <1>1 DEF SumsUp
<1>3. ASSUME NEW s \in SUBSET S, s # {}, s \ {CHOOSE x \in s : TRUE} \in G PROVE s \in G
  <2>1. (CHOOSE x \in s : TRUE) \in S
    BY <1>3
  <2>2. it[s] = it[s \ {CHOOSE x \in s : TRUE}] + f[CHOOSE x \in s : TRUE]
    BY <1>1, <1>3 DEF SumsUp
  <2>3. it[s \ {CHOOSE x \in s : TRUE}] \in Nat /\ f[CHOOSE x \in s : TRUE] \in Nat
    BY <1>3, <2>1
  <2>. QED  BY <2>2, <2>3
<1>. HIDE DEF G
<1>4. SUBSET S \subseteq G
  BY <1>2, <1>3, InductionOnSubsets
<1>. QED  BY <1>1, <1>4 DEF G

\* A sum of zeros is zero.
LEMMA SumOfNothing ==
    ASSUME NEW S, IsFiniteSet(S), NEW f, \A x \in S : f[x] = 0
    PROVE  Sum(S, f) = 0
<1>1. PICK it : SumsUp(it, S, f) /\ Sum(S, f) = it[S]
  BY SumWitness
<1>. DEFINE G == {s \in SUBSET S : it[s] = 0}
<1>2. {} \in G
  BY <1>1 DEF SumsUp
<1>3. ASSUME NEW s \in SUBSET S, s # {}, s \ {CHOOSE x \in s : TRUE} \in G PROVE s \in G
  <2>1. (CHOOSE x \in s : TRUE) \in S
    BY <1>3
  <2>. QED  BY <1>1, <1>3, <2>1 DEF SumsUp
<1>. HIDE DEF G
<1>4. SUBSET S \subseteq G
  BY <1>2, <1>3, InductionOnSubsets
<1>. QED  BY <1>1, <1>4 DEF G

\* One more of one element is one more in the sum, if the element is in it.
LEMMA SumOfOneMore ==
    ASSUME NEW S, IsFiniteSet(S), NEW f, NEW g, NEW b,
           \A x \in S : f[x] \in Nat /\ g[x] = IF x = b THEN f[x] + 1 ELSE f[x]
    PROVE  Sum(S, g) = Sum(S, f) + (IF b \in S THEN 1 ELSE 0)
<1>1. PICK it : SumsUp(it, S, f) /\ Sum(S, f) = it[S]
  BY SumWitness
<1>2. PICK jt : SumsUp(jt, S, g) /\ Sum(S, g) = jt[S]
  BY SumWitness
<1>. DEFINE G == {s \in SUBSET S : it[s] \in Nat /\ jt[s] = it[s] + (IF b \in s THEN 1 ELSE 0)}
<1>3. {} \in G
  BY <1>1, <1>2 DEF SumsUp
<1>4. ASSUME NEW s \in SUBSET S, s # {}, s \ {CHOOSE x \in s : TRUE} \in G PROVE s \in G
  <2>. DEFINE c == CHOOSE x \in s : TRUE
  <2>1. c \in s /\ f[c] \in Nat /\ g[c] = IF c = b THEN f[c] + 1 ELSE f[c]
    BY <1>4
  <2>2. it[s] = it[s \ {c}] + f[c] /\ jt[s] = jt[s \ {c}] + g[c]
    BY <1>1, <1>2, <1>4 DEF SumsUp
  <2>3. it[s \ {c}] \in Nat /\ jt[s \ {c}] = it[s \ {c}] + (IF b \in s \ {c} THEN 1 ELSE 0)
    BY <1>4
  <2>. HIDE DEF c
  <2>. QED  BY <2>1, <2>2, <2>3
<1>. HIDE DEF G
<1>5. SUBSET S \subseteq G
  BY <1>3, <1>4, InductionOnSubsets
<1>. QED  BY <1>1, <1>2, <1>5 DEF G

\* A finite set of integers has a greatest and a least element.
LEMMA MaxExists ==
    ASSUME NEW S \in SUBSET Int, IsFiniteSet(S), S # {}
    PROVE  Max(S) \in S /\ \A x \in S : Max(S) >= x
<1>. DEFINE G == {s \in SUBSET S : s # {} => \E x \in s : \A y \in s : x >= y}
<1>1. {} \in G
  OBVIOUS
<1>2. ASSUME NEW s \in SUBSET S, s # {}, s \ {CHOOSE x \in s : TRUE} \in G PROVE s \in G
  <2>. DEFINE c == CHOOSE x \in s : TRUE
  <2>1. c \in s /\ c \in Int
    BY <1>2
  <2>. HIDE DEF c
  <2>2. CASE s \ {c} = {}
    <3>1. s = {c}
      BY <2>1, <2>2
    <3>. QED  BY <2>1, <3>1
  <2>3. CASE s \ {c} # {}
    <3>1. PICK x \in s \ {c} : \A y \in s \ {c} : x >= y
      BY <1>2, <2>3 DEF c
    <3>2. \A y \in s : (IF x >= c THEN x ELSE c) >= y
      <4>. SUFFICES ASSUME NEW y \in s PROVE (IF x >= c THEN x ELSE c) >= y
        OBVIOUS
      <4>1. x \in Int /\ y \in Int /\ (y = c \/ x >= y)
        BY <3>1
      <4>. QED  BY <2>1, <4>1
    <3>. QED  BY <2>1, <3>1, <3>2
  <2>. QED  BY <2>2, <2>3
<1>. HIDE DEF G
<1>3. S \in G
  BY <1>1, <1>2, InductionOnSubsets
<1>4. \E x \in S : \A y \in S : x >= y
  BY <1>3 DEF G
<1>. QED  BY <1>4 DEF Max

\* The least is the greatest of the negated.
LEMMA MinExists ==
    ASSUME NEW S \in SUBSET Int, IsFiniteSet(S), S # {}
    PROVE  Min(S) \in S /\ \A x \in S : Min(S) =< x
<1>. DEFINE T == {-x : x \in S}
<1>1. IsFiniteSet(T)
  <2>. DEFINE negate == [x \in S |-> -x]
  <2>1. negate \in Surjection(S, T)
    BY DEF Surjection
  <2>. HIDE DEF T, negate
  <2>. QED  BY <2>1, FS_Surjection
<1>2. T \in SUBSET Int
  OBVIOUS
<1>2a. T # {}
  OBVIOUS
<1>. HIDE DEF T
<1>3. Max(T) \in T /\ \A x \in T : Max(T) >= x
  BY <1>1, <1>2, <1>2a, MaxExists
<1>4. PICK m \in S : Max(T) = -m
  BY <1>3 DEF T
<1>5. \A x \in S : m =< x
  <2>. SUFFICES ASSUME NEW x \in S PROVE m =< x
    OBVIOUS
  <2>1. -x \in T /\ x \in Int /\ m \in Int
    BY DEF T
  <2>2. -m >= -x
    BY <1>3, <1>4, <2>1
  <2>. QED  BY <2>1, <2>2
<1>. QED  BY <1>5 DEF Min

\* The greater of two numbers.
LEMMA MaxOfTwo ==
    ASSUME NEW a \in Int, NEW b \in Int
    PROVE  Max({a, b}) = IF a >= b THEN a ELSE b
<1>1. {a, b} \in SUBSET Int /\ {a, b} # {}
  OBVIOUS
<1>1a. IsFiniteSet({a, b})
  <2>1. IsFiniteSet({a}) /\ {a, b} = {a} \cup {b}
    BY FS_Singleton
  <2>. QED  BY <2>1, FS_AddElement
<1>2. Max({a, b}) \in {a, b} /\ \A x \in {a, b} : Max({a, b}) >= x
  BY <1>1, <1>1a, MaxExists
<1>. QED  BY <1>2

\* The smaller of two numbers.
LEMMA MinOfTwo ==
    ASSUME NEW a \in Int, NEW b \in Int
    PROVE  Min({a, b}) = IF a =< b THEN a ELSE b
<1>1. {a, b} \in SUBSET Int /\ {a, b} # {}
  OBVIOUS
<1>1a. IsFiniteSet({a, b})
  <2>1. IsFiniteSet({a}) /\ {a, b} = {a} \cup {b}
    BY FS_Singleton
  <2>. QED  BY <2>1, FS_AddElement
<1>2. Min({a, b}) \in {a, b} /\ \A x \in {a, b} : Min({a, b}) =< x
  BY <1>1, <1>1a, MinExists
<1>. QED  BY <1>2

-----------------------------------------------------------------------------
(* Products and quotients *)

\* What a quotient is, by its bounds.
LEMMA DivIs ==
    ASSUME NEW a \in Nat, NEW k \in Nat \ {0}
    PROVE  a \div k \in Nat /\ k * (a \div k) =< a /\ a < k * (a \div k) + k
OBVIOUS

\* A product grows with its factor.
LEMMA ProductMonotone ==
    ASSUME NEW a \in Nat, NEW b \in Nat, NEW k \in Nat, a =< b
    PROVE  k * a =< k * b /\ k * a \in Nat
<1>1. b - a \in Nat /\ b = a + (b - a)
  OBVIOUS
<1>2. k * (b - a) \in Nat /\ k * b = k * a + k * (b - a) /\ k * a \in Nat
  BY <1>1
<1>. QED  BY <1>2

\* A quotient is determined by its bounds.
LEMMA DivUnique ==
    ASSUME NEW a \in Nat, NEW k \in Nat \ {0}, NEW q \in Nat, k * q =< a, a < k * q + k
    PROVE  a \div k = q
<1>. DEFINE p == a \div k
<1>1. p \in Nat /\ k * p =< a /\ a < k * p + k /\ k * p \in Nat /\ k * q \in Nat
  BY DivIs
<1>. HIDE DEF p
<1>2. ASSUME p < q PROVE FALSE
  <2>1. p + 1 =< q /\ k * (p + 1) = k * p + k
    BY <1>1, <1>2
  <2>2. k * (p + 1) =< k * q
    BY <1>1, <2>1, ProductMonotone
  <2>. QED  BY <1>1, <2>1, <2>2
<1>3. ASSUME q < p PROVE FALSE
  <2>1. q + 1 =< p /\ k * (q + 1) = k * q + k
    BY <1>1, <1>3
  <2>2. k * (q + 1) =< k * p
    BY <1>1, <2>1, ProductMonotone
  <2>. QED  BY <1>1, <2>1, <2>2
<1>4. p = q
  BY <1>1, <1>2, <1>3
<1>. QED  BY <1>4 DEF p

\* A quotient grows with its dividend.
LEMMA DivGrows ==
    ASSUME NEW a \in Nat, NEW b \in Nat, NEW k \in Nat \ {0}, a =< b
    PROVE  a \div k =< b \div k
<1>. DEFINE p == a \div k
            q == b \div k
<1>1. p \in Nat /\ q \in Nat /\ k * p =< a /\ b < k * q + k /\ k * p \in Nat /\ k * q \in Nat
  BY DivIs
<1>. HIDE DEF p, q
<1>. SUFFICES ASSUME ~(p =< q) PROVE FALSE
  BY DEF p, q
<1>2. q + 1 =< p
  BY <1>1
<1>3. k * (q + 1) =< k * p
  BY <1>1, <1>2, ProductMonotone
<1>4. k * (q + 1) = k * q + k
  BY <1>1
<1>. QED  BY <1>1, <1>3, <1>4

\* A quotient shrinks as its divisor grows.
LEMMA DivShrinks ==
    ASSUME NEW a \in Nat, NEW j \in Nat \ {0}, NEW k \in Nat \ {0}, j =< k
    PROVE  a \div k =< a \div j
<1>. DEFINE p == a \div k
            q == a \div j
<1>1. p \in Nat /\ q \in Nat /\ k * p =< a /\ a < j * q + j /\ k * p \in Nat /\ j * q \in Nat
  BY DivIs
<1>. HIDE DEF p, q
<1>. SUFFICES ASSUME ~(p =< q) PROVE FALSE
  BY DEF p, q
<1>2. q + 1 =< p
  BY <1>1
<1>3. j * (q + 1) =< j * p
  BY <1>1, <1>2, ProductMonotone
<1>4. p * j =< p * k /\ p * j = j * p /\ p * k = k * p
  BY <1>1, ProductMonotone
<1>5. j * (q + 1) = j * q + j
  BY <1>1
<1>6. j * p \in Nat
  BY <1>1
<1>. QED  BY <1>1, <1>3, <1>4, <1>5, <1>6

\* Halving a quotient doubles the divisor.
LEMMA DivTwice ==
    ASSUME NEW a \in Nat, NEW k \in Nat \ {0}
    PROVE  a \div (2 * k) = (a \div k) \div 2
<1>. DEFINE p == a \div k
            h == p \div 2
<1>1. p \in Nat /\ k * p =< a /\ a < k * p + k
  BY DivIs
<1>. HIDE DEF p
<1>2. h \in Nat /\ (p = 2 * h \/ p = 2 * h + 1)
  BY <1>1
<1>. HIDE DEF h
<1>3. (2 * k) * h = 2 * (k * h) /\ k * h \in Nat /\ 2 * k \in Nat \ {0}
  BY <1>2
<1>4. k * p = 2 * (k * h) \/ k * p = 2 * (k * h) + k
  <2>1. k * (2 * h) = 2 * (k * h) /\ k * (2 * h + 1) = 2 * (k * h) + k
    BY <1>2
  <2>. QED  BY <1>2, <2>1
<1>5. (2 * k) * h =< a /\ a < (2 * k) * h + 2 * k
  BY <1>1, <1>3, <1>4
<1>. QED  BY <1>2, <1>3, <1>5, DivUnique DEF h, p

\* Squares grow.
LEMMA SquareMonotone ==
    ASSUME NEW a \in Nat, NEW b \in Nat, a =< b
    PROVE  a * a =< b * b /\ a * a \in Nat /\ b * b \in Nat
<1>1. a * a =< a * b /\ b * a =< b * b /\ a * b = b * a /\ a * a \in Nat /\ a * b \in Nat /\ b * b \in Nat
  BY ProductMonotone
<1>. QED  BY <1>1

-----------------------------------------------------------------------------
(* Powers of two *)

\* The powers of two up to n, as the recursion gives them.
PowersUpto(g, n) == /\ DOMAIN g = 0..n /\ g[0] = 1
                    /\ \A k \in 1..n : g[k] = 2 * g[k - 1]

\* There are powers of two up to every exponent.
LEMMA PowersUptoExist == \A n \in Nat : \E g : PowersUpto(g, n)
<1>. DEFINE Built == {n \in Nat : \E g : PowersUpto(g, n)}
<1>1. 0 \in Built
  <2>1. PowersUpto([k \in 0..0 |-> 1], 0)
    BY DEF PowersUpto
  <2>. QED  BY <2>1
<1>2. ASSUME NEW n \in Nat, n \in Built PROVE n + 1 \in Built
  <2>1. PICK g : PowersUpto(g, n)
    BY <1>2
  <2>. DEFINE h == [k \in 0..(n + 1) |-> IF k = n + 1 THEN 2 * g[n] ELSE g[k]]
  <2>2. PowersUpto(h, n + 1)
    <3>1. ASSUME NEW k \in 1..(n + 1) PROVE h[k] = 2 * h[k - 1]
      <4>1. CASE k = n + 1
        BY <4>1
      <4>2. CASE k # n + 1
        <5>1. k \in 1..n /\ k - 1 \in 0..n /\ k \in 0..(n + 1) /\ k - 1 \in 0..(n + 1) /\ k - 1 # n + 1
          BY <4>2
        <5>. QED  BY <5>1, <4>2, <2>1 DEF PowersUpto
      <4>. QED  BY <4>1, <4>2
    <3>2. h[0] = 1 /\ DOMAIN h = 0..(n + 1)
      BY <2>1 DEF PowersUpto
    <3>. HIDE DEF h
    <3>. QED  BY <3>1, <3>2 DEF PowersUpto
  <2>. HIDE DEF h
  <2>. QED  BY <2>2
<1>. HIDE DEF Built
<1>3. Nat \subseteq Built
  BY <1>1, <1>2, InductionOnNumbers
<1>. QED  BY <1>3 DEF Built

\* Two lists of powers of two agree as far as both go.
LEMMA PowersUptoAgree ==
    ASSUME NEW n \in Nat, NEW m \in Nat, NEW g, NEW h, PowersUpto(g, n), PowersUpto(h, m)
    PROVE  \A k \in Nat : k =< n /\ k =< m => g[k] = h[k]
<1>. DEFINE Same == {k \in Nat : k =< n /\ k =< m => g[k] = h[k]}
<1>1. 0 \in Same
  BY DEF PowersUpto
<1>2. ASSUME NEW k \in Nat, k \in Same PROVE k + 1 \in Same
  <2>. SUFFICES ASSUME k + 1 =< n, k + 1 =< m PROVE g[k + 1] = h[k + 1]
    OBVIOUS
  <2>1. k + 1 \in 1..n /\ k + 1 \in 1..m /\ (k + 1) - 1 = k /\ g[k] = h[k]
    BY <1>2
  <2>2. g[k + 1] = 2 * g[(k + 1) - 1] /\ h[k + 1] = 2 * h[(k + 1) - 1]
    BY <2>1 DEF PowersUpto
  <2>. QED  BY <2>1, <2>2
<1>. HIDE DEF Same
<1>3. Nat \subseteq Same
  BY <1>1, <1>2, InductionOnNumbers
<1>. QED  BY <1>3 DEF Same

\* TwoTo satisfies the equations it is defined by.
LEMMA TwoToStep == TwoTo[0] = 1 /\ \A n \in Nat : TwoTo[n + 1] = 2 * TwoTo[n]
<1>. DEFINE G(n) == CHOOSE g : PowersUpto(g, n)
            F == [n \in Nat |-> G(n)[n]]
            Eq(f) == f = [n \in Nat |-> IF n = 0 THEN 1 ELSE 2 * f[n - 1]]
<1>1. \A n \in Nat : PowersUpto(G(n), n)
  BY PowersUptoExist
<1>. HIDE DEF G
<1>2. F[0] = 1
  BY <1>1 DEF PowersUpto
<1>3. ASSUME NEW n \in Nat PROVE F[n + 1] = 2 * F[n]
  <2>1. G(n + 1)[n + 1] = 2 * G(n + 1)[(n + 1) - 1]
    BY <1>1 DEF PowersUpto
  <2>2. G(n + 1)[n] = G(n)[n]
    BY <1>1, PowersUptoAgree
  <2>3. (n + 1) - 1 = n /\ n + 1 \in Nat
    OBVIOUS
  <2>. QED  BY <2>1, <2>2, <2>3
<1>4. Eq(F)
  <2>. DEFINE K == [n \in Nat |-> IF n = 0 THEN 1 ELSE 2 * F[n - 1]]
  <2>1. ASSUME NEW n \in Nat PROVE F[n] = K[n]
    <3>1. CASE n = 0
      BY <3>1, <1>2
    <3>2. CASE n # 0
      <4>1. n - 1 \in Nat /\ (n - 1) + 1 = n
        BY <3>2
      <4>2. F[(n - 1) + 1] = 2 * F[n - 1]
        BY <1>3, <4>1
      <4>. HIDE DEF F
      <4>. QED  BY <3>2, <4>1, <4>2
    <3>. QED  BY <3>1, <3>2
  <2>. QED  BY <2>1
<1>. HIDE DEF F
<1>5. \E f : Eq(f)
  BY <1>4
<1>6. Eq(TwoTo)
  BY <1>5 DEF TwoTo
<1>7. TwoTo[0] = 1
  BY <1>6
<1>8. ASSUME NEW n \in Nat PROVE TwoTo[n + 1] = 2 * TwoTo[n]
  <2>1. n + 1 \in Nat /\ n + 1 # 0 /\ (n + 1) - 1 = n
    OBVIOUS
  <2>. QED  BY <1>6, <2>1
<1>. QED  BY <1>7, <1>8

\* A power of two is a number above its exponent.
LEMMA TwoToPositive == \A n \in Nat : TwoTo[n] \in Nat /\ n < TwoTo[n]
<1>. DEFINE Good == {n \in Nat : TwoTo[n] \in Nat /\ n < TwoTo[n]}
<1>1. 0 \in Good
  BY TwoToStep
<1>2. ASSUME NEW n \in Nat, n \in Good PROVE n + 1 \in Good
  BY <1>2, TwoToStep
<1>. HIDE DEF Good
<1>3. Nat \subseteq Good
  BY <1>1, <1>2, InductionOnNumbers
<1>. QED  BY <1>3 DEF Good

\* A greater exponent gives no smaller power.
LEMMA TwoToMonotone == \A n, m \in Nat : n =< m => TwoTo[n] =< TwoTo[m]
<1>. SUFFICES ASSUME NEW n \in Nat PROVE \A m \in Nat : n =< m => TwoTo[n] =< TwoTo[m]
  OBVIOUS
<1>. DEFINE Good == {d \in Nat : TwoTo[n] =< TwoTo[n + d]}
<1>1. 0 \in Good
  BY TwoToPositive
<1>2. ASSUME NEW d \in Nat, d \in Good PROVE d + 1 \in Good
  <2>1. TwoTo[n + d] \in Nat /\ TwoTo[n] \in Nat /\ TwoTo[n + d + 1] = 2 * TwoTo[n + d] /\ n + (d + 1) = n + d + 1
    BY TwoToPositive, TwoToStep
  <2>. QED  BY <1>2, <2>1
<1>. HIDE DEF Good
<1>3. Nat \subseteq Good
  BY <1>1, <1>2, InductionOnNumbers
<1>4. ASSUME NEW m \in Nat, n =< m PROVE TwoTo[n] =< TwoTo[m]
  <2>1. m - n \in Good /\ n + (m - n) = m
    BY <1>3, <1>4
  <2>. QED  BY <2>1 DEF Good
<1>. QED  BY <1>4

\* Of two different powers of two, one is at least twice the other.
LEMMA TwoToApart == \A n, m \in Nat : TwoTo[n] < TwoTo[m] => 2 * TwoTo[n] =< TwoTo[m]
<1>. SUFFICES ASSUME NEW n \in Nat, NEW m \in Nat, TwoTo[n] < TwoTo[m] PROVE 2 * TwoTo[n] =< TwoTo[m]
  OBVIOUS
<1>1. TwoTo[n] \in Nat /\ TwoTo[m] \in Nat
  BY TwoToPositive
<1>2. ~(m =< n)
  BY <1>1, TwoToMonotone
<1>3. n + 1 \in Nat /\ n + 1 =< m
  BY <1>2
<1>. QED  BY <1>3, TwoToMonotone, TwoToStep

===========================================================================
