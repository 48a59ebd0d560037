---------------------------- MODULE NumberLemmas ----------------------------
(***************************************************************************)
(* What the proofs about accounts, votes and margins need to know of       *)
(* quotients, and of sums over finite sets (SumFunctionOnSet of the        *)
(* community modules).                                                     *)
(***************************************************************************)
EXTENDS FiniteSetsExt, FiniteSetTheorems, WellFoundedInduction, TLAPS

(* Quotients, rounded down.                                                 *)
LEMMA DivBounds ==
  ASSUME NEW a \in Int, NEW d \in Nat \ {0}
  PROVE  /\ a \div d \in Int /\ d * (a \div d) <= a /\ a < d * (a \div d) + d
         /\ a >= 0 => a \div d >= 0
OBVIOUS

LEMMA DivAtMost ==
  ASSUME NEW a \in Int, NEW d \in Nat \ {0}, NEW b \in Int, a <= d * b
  PROVE  a \div d <= b
<1> DEFINE e == a \div d
<1>1. e \in Int /\ d * e <= a
  BY DivBounds
<1> HIDE DEF e
<1>2. SUFFICES ASSUME e >= b + 1 PROVE FALSE
  BY <1>1 DEF e
<1>3. d * e >= d * (b + 1)
  BY <1>1, <1>2
<1>4. d * (b + 1) = d * b + d
  OBVIOUS
<1> QED
  BY <1>1, <1>3, <1>4

LEMMA DivAtLeast ==
  ASSUME NEW a \in Int, NEW d \in Nat \ {0}, NEW b \in Int, d * b <= a
  PROVE  b <= a \div d
<1> DEFINE e == a \div d
<1>1. e \in Int /\ a < d * e + d
  BY DivBounds
<1> HIDE DEF e
<1>2. SUFFICES ASSUME e <= b - 1 PROVE FALSE
  BY <1>1 DEF e
<1>3. d * e <= d * (b - 1)
  BY <1>1, <1>2
<1>4. d * (b - 1) = d * b - d
  OBVIOUS
<1> QED
  BY <1>1, <1>3, <1>4

-----------------------------------------------------------------------------
(* A set of numbers with a member has a least one.                          *)
LEMMA LeastNumber ==
  ASSUME NEW T \in SUBSET Nat, T # {}
  PROVE  \E x \in T : \A y \in T : x <= y
<1>1. PICK x \in T : \A y \in T : ~ (<<y, x>> \in OpToRel(<, Nat))
  BY NatLessThanWellFounded, WFMin, Zenon
<1>2. \A y \in T : ~(y < x)
  BY <1>1 DEF OpToRel
<1> QED
  BY <1>2

(* A set of finite sets with a member has a smallest one.                   *)
LEMMA SmallestSet ==
  ASSUME NEW C, C # {}, \A T \in C : IsFiniteSet(T)
  PROVE  \E T \in C : \A U \in C : Cardinality(T) <= Cardinality(U)
<1> DEFINE N == {Cardinality(T) : T \in C}
<1>1. N \in SUBSET Nat /\ N # {}
  BY FS_CardinalityType
<1>2. PICK n \in N : \A m \in N : n <= m
  BY <1>1, LeastNumber
<1> QED
  BY <1>2

(* The partial sums of f over the subsets of S, one element at a time.      *)
IsSum(g, f, S) ==
  g = [s \in SUBSET S |-> IF s = {} THEN 0
                          ELSE LET x == CHOOSE x \in s : TRUE IN f[x] + g[s \ {x}]]

(* One element of a set of finite sets less: the set gets smaller.          *)
LEMMA OneLess ==
  ASSUME NEW T, IsFiniteSet(T), T # {}
  PROVE  LET x == CHOOSE x \in T : TRUE
         IN  /\ x \in T /\ IsFiniteSet(T \ {x})
             /\ Cardinality(T \ {x}) = Cardinality(T) - 1
             /\ Cardinality(T) \in Nat /\ Cardinality(T) > 0
<1>1. (CHOOSE x \in T : TRUE) \in T
  OBVIOUS
<1>2. Cardinality(T) \in Nat /\ Cardinality(T) # 0
  BY FS_CardinalityType, FS_EmptySet
<1> DEFINE y == CHOOSE x \in T : TRUE
<1> HIDE DEF y
<1>3. /\ IsFiniteSet(T \ {y})
      /\ Cardinality(T \ {y}) = IF y \in T THEN Cardinality(T) - 1 ELSE Cardinality(T)
  BY FS_RemoveElement
<1> QED
  BY <1>1, <1>2, <1>3 DEF y

(* There are such partial sums.                                             *)
LEMMA SumsExist ==
  ASSUME NEW S, IsFiniteSet(S), NEW f
  PROVE  \E g : IsSum(g, f, S)
<1> DEFINE Small(n) == {s \in SUBSET S : Cardinality(s) < n}
           Step(g, s) == IF s = {} THEN 0
                         ELSE LET x == CHOOSE x \in s : TRUE IN f[x] + g[s \ {x}]
           Defined(n) == \E g : \A s \in Small(n) : g[s] = Step(g, s)
           N == {n \in Nat : ~Defined(n)}
<1>1. \A s \in SUBSET S : IsFiniteSet(s) /\ Cardinality(s) \in Nat
  BY FS_Subset, FS_CardinalityType
<1>2. ASSUME NEW n \in Nat, Defined(n)
      PROVE  Defined(n + 1)
  <2>1. PICK g : \A s \in Small(n) : g[s] = Step(g, s)
    BY <1>2
  <2> DEFINE h == [s \in SUBSET S |-> Step(g, s)]
  <2>2. \A s \in Small(n) : h[s] = g[s]
    BY <2>1
  <2>3. ASSUME NEW s \in Small(n + 1)
        PROVE  h[s] = Step(h, s)
    <3>1. CASE s = {}
      BY <3>1
    <3>2. CASE s # {}
      <4> DEFINE x == CHOOSE x \in s : TRUE
      <4>1. s \ {x} \in Small(n)
        <5>1. s \in SUBSET S /\ Cardinality(s) < n + 1
          BY <2>3
        <5> QED
          BY <1>1, <3>2, <5>1, OneLess
      <4>2. h[s \ {x}] = g[s \ {x}]
        BY <2>2, <4>1
      <4>3. h[s] = f[x] + g[s \ {x}]
        BY <2>3, <3>2
      <4> QED
        BY <3>2, <4>2, <4>3
    <3> QED
      BY <3>1, <3>2
  <2> QED
    BY <2>3
<1>3. Defined(0)
  BY <1>1
<1>4. \A n \in Nat : Defined(n)
  <2> HIDE DEF Defined
  <2>1. N = {}
    <3> SUFFICES ASSUME N # {} PROVE FALSE
      OBVIOUS
    <3>1. N \in SUBSET Nat
      OBVIOUS
    <3> HIDE DEF N
    <3>2. PICK n \in N : \A m \in N : n <= m
      BY <3>1, LeastNumber
    <3>3. n \in Nat /\ ~Defined(n) /\ \A m \in Nat : m < n => Defined(m)
      BY <3>2 DEF N
    <3>4. n - 1 \in Nat /\ (n - 1) + 1 = n
      BY <1>3, <3>3
    <3>5. Defined(n - 1)
      BY <3>3, <3>4
    <3>6. Defined((n - 1) + 1)
      BY <1>2, <3>4, <3>5
    <3> QED
      BY <3>3, <3>4, <3>6
  <2> QED
    BY <2>1
<1>5. Defined(Cardinality(S) + 1)
  <2> HIDE DEF Defined
  <2>1. Cardinality(S) + 1 \in Nat
    BY FS_CardinalityType
  <2> QED
    BY <1>4, <2>1
<1>6. PICK g : \A s \in Small(Cardinality(S) + 1) : g[s] = Step(g, s)
  BY <1>5
<1>7. \A s \in SUBSET S : g[s] = Step(g, s)
  BY <1>1, <1>6, FS_Subset
<1> DEFINE h == [s \in SUBSET S |-> g[s]]
<1>8. \A s \in SUBSET S : h[s] = Step(h, s)
  <2> TAKE s \in SUBSET S
  <2>1. g[s] = Step(g, s)
    BY <1>7
  <2>2. h[s] = g[s]
    OBVIOUS
  <2>3. s # {} => h[s \ {CHOOSE x \in s : TRUE}] = g[s \ {CHOOSE x \in s : TRUE}]
    OBVIOUS
  <2> QED
    BY <2>1, <2>2, <2>3
<1>9. IsSum(h, f, S)
  BY <1>8 DEF IsSum
<1> QED
  BY <1>9

LEMMA SumIsSum ==
  ASSUME NEW S, IsFiniteSet(S), NEW f
  PROVE  \E g : IsSum(g, f, S) /\ SumFunctionOnSet(f, S) = g[S]
<1> DEFINE g == CHOOSE g : g = [s \in SUBSET S |-> IF s = {} THEN 0
                                 ELSE LET x == CHOOSE x \in s : TRUE IN f[x] + g[s \ {x}]]
<1>1. SumFunctionOnSet(f, S) = g[S]
  BY Zenon DEF SumFunctionOnSet, FoldFunctionOnSet, MapThenFoldSet
<1>2. IsSum(g, f, S)
  <2>1. \E h : h = [s \in SUBSET S |-> IF s = {} THEN 0
                     ELSE LET x == CHOOSE x \in s : TRUE IN f[x] + h[s \ {x}]]
    <3>1. PICK h : IsSum(h, f, S)
      BY SumsExist
    <3> QED
      BY <3>1, Zenon DEF IsSum
  <2>2. g = [s \in SUBSET S |-> IF s = {} THEN 0
             ELSE LET x == CHOOSE x \in s : TRUE IN f[x] + g[s \ {x}]]
    BY <2>1, Zenon
  <2> QED
    BY <2>2 DEF IsSum
<1> QED
  BY <1>1, <1>2

AnElement(s) == CHOOSE x \in s : TRUE

LEMMA PartialSums ==
  ASSUME NEW S, IsFiniteSet(S), NEW f, NEW g, IsSum(g, f, S)
  PROVE  /\ g[{}] = 0
         /\ \A s \in SUBSET S : s # {} =>
              /\ AnElement(s) \in s
              /\ g[s] = f[AnElement(s)] + g[s \ {AnElement(s)}]
              /\ Cardinality(s \ {AnElement(s)}) < Cardinality(s)
<1>1. g[{}] = 0
  BY DEF IsSum
<1>2. ASSUME NEW s \in SUBSET S, s # {}
      PROVE  /\ AnElement(s) \in s
             /\ g[s] = f[AnElement(s)] + g[s \ {AnElement(s)}]
             /\ Cardinality(s \ {AnElement(s)}) < Cardinality(s)
  <2>1. IsFiniteSet(s)
    BY FS_Subset
  <2>2. AnElement(s) \in s /\ Cardinality(s \ {AnElement(s)}) < Cardinality(s)
    BY <1>2, <2>1, OneLess DEF AnElement
  <2>3. g[s] = f[AnElement(s)] + g[s \ {AnElement(s)}]
    BY <1>2 DEF IsSum, AnElement
  <2> QED
    BY <2>2, <2>3
<1> QED
  BY <1>1, <1>2

(* What holds of the empty set, and of a set whenever of every smaller one, *)
(* holds of all: here of the partial sums that fail P.                      *)
LEMMA SmallestFailure ==
  ASSUME NEW S, IsFiniteSet(S), NEW C \in SUBSET (SUBSET S), C # {}
  PROVE  \E s \in C : \A t \in SUBSET S : Cardinality(t) < Cardinality(s) => t \notin C
<1>1. \A t \in SUBSET S : IsFiniteSet(t) /\ Cardinality(t) \in Nat
  BY FS_Subset, FS_CardinalityType
<1>2. PICK s \in C : \A t \in C : Cardinality(s) <= Cardinality(t)
  BY <1>1, SmallestSet
<1> QED
  BY <1>1, <1>2

(* Sums of integers are integers, sums of natural numbers are such.         *)
LEMMA SumType ==
  ASSUME NEW S, IsFiniteSet(S), NEW f, \A x \in S : f[x] \in Int
  PROVE  /\ SumFunctionOnSet(f, S) \in Int
         /\ (\A x \in S : f[x] >= 0) => SumFunctionOnSet(f, S) >= 0
<1>1. PICK g : IsSum(g, f, S) /\ SumFunctionOnSet(f, S) = g[S]
  BY SumIsSum
<1> DEFINE Nonneg == \A x \in S : f[x] >= 0
           C == {s \in SUBSET S : ~(g[s] \in Int /\ (Nonneg => g[s] >= 0))}
<1> HIDE DEF Nonneg
<1>2. C = {}
  <2> SUFFICES ASSUME C # {} PROVE FALSE
    OBVIOUS
  <2>1. PICK s \in C : \A t \in SUBSET S : Cardinality(t) < Cardinality(s) => t \notin C
    BY SmallestFailure
  <2>2. s # {}
    <3>1. g[{}] = 0
      BY <1>1, PartialSums
    <3> QED
      BY <2>1, <3>1
  <2> DEFINE x == AnElement(s)
  <2>3. x \in s /\ g[s] = f[x] + g[s \ {x}] /\ s \ {x} \notin C
    BY <1>1, <2>1, <2>2, PartialSums
  <2> HIDE DEF x
  <2>4. f[x] \in Int /\ (Nonneg => f[x] >= 0)
    BY <2>3 DEF Nonneg
  <2> QED
    BY <2>1, <2>3, <2>4
<1> QED
  BY <1>1, <1>2 DEF Nonneg

(* A sum is bounded by another when every term is.                          *)
LEMMA SumBound ==
  ASSUME NEW S, IsFiniteSet(S), NEW f, NEW h, NEW k \in Nat,
         \A x \in S : f[x] \in Int /\ h[x] \in Int /\ f[x] <= k * h[x]
  PROVE  SumFunctionOnSet(f, S) <= k * SumFunctionOnSet(h, S)
<1>1. PICK g : IsSum(g, f, S) /\ SumFunctionOnSet(f, S) = g[S]
  BY SumIsSum
<1>2. PICK e : IsSum(e, h, S) /\ SumFunctionOnSet(h, S) = e[S]
  BY SumIsSum
<1> DEFINE C == {s \in SUBSET S : ~(g[s] \in Int /\ e[s] \in Int /\ g[s] <= k * e[s])}
<1>3. C = {}
  <2> SUFFICES ASSUME C # {} PROVE FALSE
    OBVIOUS
  <2>1. PICK s \in C : \A t \in SUBSET S : Cardinality(t) < Cardinality(s) => t \notin C
    BY SmallestFailure
  <2>2. s # {}
    <3>1. g[{}] = 0 /\ e[{}] = 0 /\ k * 0 = 0
      BY <1>1, <1>2, PartialSums
    <3>2. {} \notin C
      BY <3>1
    <3> QED
      BY <2>1, <3>2
  <2> DEFINE x == AnElement(s)
  <2>3. x \in s /\ g[s] = f[x] + g[s \ {x}] /\ s \ {x} \notin C
    BY <1>1, <2>1, <2>2, PartialSums
  <2>4. e[s] = h[x] + e[s \ {x}]
    BY <1>2, <2>1, <2>2, PartialSums
  <2> HIDE DEF x
  <2> DEFINE u == s \ {x}
  <2>5. g[u] \in Int /\ e[u] \in Int /\ g[u] <= k * e[u]
    BY <2>3
  <2>6. f[x] \in Int /\ h[x] \in Int /\ f[x] <= k * h[x]
    BY <2>3
  <2>7. k * (h[x] + e[u]) = k * h[x] + k * e[u] /\ k * h[x] \in Int /\ k * e[u] \in Int
    BY <2>5, <2>6
  <2> HIDE DEF u
  <2>8. f[x] + g[u] <= k * (h[x] + e[u])
    BY <2>5, <2>6, <2>7
  <2> QED
    BY <2>1, <2>3, <2>4, <2>5, <2>6, <2>8 DEF u
<1> QED
  BY <1>1, <1>2, <1>3

(* Where one term changes, the sum changes by as much.                      *)
LEMMA SumChange ==
  ASSUME NEW S, IsFiniteSet(S), NEW f, NEW h, NEW y \in S,
         \A x \in S : f[x] \in Int /\ h[x] \in Int,
         \A x \in S \ {y} : h[x] = f[x]
  PROVE  SumFunctionOnSet(h, S) = SumFunctionOnSet(f, S) + h[y] - f[y]
<1>1. PICK g : IsSum(g, f, S) /\ SumFunctionOnSet(f, S) = g[S]
  BY SumIsSum
<1>2. PICK e : IsSum(e, h, S) /\ SumFunctionOnSet(h, S) = e[S]
  BY SumIsSum
<1> DEFINE d(s) == IF y \in s THEN h[y] - f[y] ELSE 0
           C == {s \in SUBSET S : ~(g[s] \in Int /\ e[s] = g[s] + d(s))}
<1>3. C = {}
  <2> SUFFICES ASSUME C # {} PROVE FALSE
    OBVIOUS
  <2>1. PICK s \in C : \A t \in SUBSET S : Cardinality(t) < Cardinality(s) => t \notin C
    BY SmallestFailure
  <2>2. s # {}
    <3>1. g[{}] = 0 /\ e[{}] = 0
      BY <1>1, <1>2, PartialSums
    <3>2. {} \notin C
      BY <3>1
    <3> QED
      BY <2>1, <3>2
  <2> DEFINE x == AnElement(s)
  <2>3. x \in s /\ g[s] = f[x] + g[s \ {x}] /\ s \ {x} \notin C
    BY <1>1, <2>1, <2>2, PartialSums
  <2>4. e[s] = h[x] + e[s \ {x}]
    BY <1>2, <2>1, <2>2, PartialSums
  <2> HIDE DEF x
  <2> DEFINE u == s \ {x}
  <2>5. g[u] \in Int /\ e[u] = g[u] + d(u)
    BY <2>3
  <2>6. f[x] \in Int /\ h[x] \in Int /\ f[y] \in Int /\ h[y] \in Int /\ (x # y => h[x] = f[x])
    BY <2>3
  <2>7. h[x] + d(u) = f[x] + d(s)
    BY <2>3, <2>6
  <2> QED
    BY <2>1, <2>3, <2>4, <2>5, <2>6, <2>7
<1> QED
  BY <1>1, <1>2, <1>3

(* Sums of the same terms are the same.                                     *)
LEMMA SumSame ==
  ASSUME NEW S, IsFiniteSet(S), NEW f, NEW h, \A x \in S : f[x] \in Int /\ h[x] = f[x]
  PROVE  SumFunctionOnSet(h, S) = SumFunctionOnSet(f, S)
<1>1. CASE S = {}
  <2>1. PICK g : IsSum(g, f, S) /\ SumFunctionOnSet(f, S) = g[S]
    BY SumIsSum
  <2>2. PICK e : IsSum(e, h, S) /\ SumFunctionOnSet(h, S) = e[S]
    BY SumIsSum
  <2> QED
    BY <1>1, <2>1, <2>2, PartialSums
<1>2. CASE S # {}
  <2>1. PICK y \in S : TRUE
    BY <1>2
  <2>2. SumFunctionOnSet(h, S) = SumFunctionOnSet(f, S) + h[y] - f[y]
    BY <2>1, SumChange
  <2>3. SumFunctionOnSet(f, S) \in Int
    BY SumType
  <2> QED
    BY <2>1, <2>2, <2>3
<1> QED
  BY <1>1, <1>2

(* A sum of which no term counts is none.                                   *)
LEMMA SumOfNone ==
  ASSUME NEW S, IsFiniteSet(S), NEW f, \A x \in S : f[x] = 0
  PROVE  SumFunctionOnSet(f, S) = 0
<1> DEFINE h == [x \in S |-> 0]
<1>1. SumFunctionOnSet(f, S) <= 0 * SumFunctionOnSet(h, S)
  BY SumBound
<1>2. SumFunctionOnSet(h, S) \in Int /\ SumFunctionOnSet(f, S) \in Int /\ SumFunctionOnSet(f, S) >= 0
  BY SumType
<1> HIDE DEF h
<1> QED
  BY <1>1, <1>2

=============================================================================
