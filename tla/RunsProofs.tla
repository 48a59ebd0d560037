----------------------------- MODULE RunsProofs -----------------------------
(***************************************************************************)
(* Theorems about the two programs that share .runs with its housekeeping, *)
(* the paper desk (PaperDesk) and the leaderboard (Leaderboard), for every *)
(* set of loops, every number of backtests, providers, results and faults, *)
(* every bound and every housekeeping rule: only that housekeeping deletes *)
(* whole entries of the directory is used, and not which ones.             *)
(***************************************************************************)
EXTENDS PaperDesk, Leaderboard, NumberLemmas, TLAPS

USE DEF NoPid, Absent, Torn, Writer, Fill, Content, Readable, At, Go, Rest, Harmed

-----------------------------------------------------------------------------
(* Sequences: what is chosen from one, and directories.                     *)
IsSeq(s) == \E S : s \in Seq(S)

LEMMA SeqShape ==
  ASSUME NEW s, IsSeq(s)
  PROVE  /\ Len(s) \in Nat /\ DOMAIN s = 1..Len(s) /\ s \in Seq(Entries(s))
         /\ \A x : x \in Entries(s) <=> \E i \in 1..Len(s) : s[i] = x
<1>1. PICK S : s \in Seq(S)
  BY DEF IsSeq
<1>2. Len(s) \in Nat /\ DOMAIN s = 1..Len(s) /\ s \in [1..Len(s) -> S]
  BY <1>1
<1>3. s \in [1..Len(s) -> Entries(s)]
  BY <1>2 DEF Entries
<1>4. s \in Seq(Entries(s))
  BY <1>2, <1>3
<1> QED
  BY <1>2, <1>4 DEF Entries

LEMMA SeqMade ==
  ASSUME NEW n \in Nat, NEW s, DOMAIN s = 1..n, s = [i \in 1..n |-> s[i]]
  PROVE  IsSeq(s) /\ Len(s) = n
<1> DEFINE S == {s[i] : i \in 1..n}
<1>1. s \in [1..n -> S]
  OBVIOUS
<1> HIDE DEF S
<1>2. s \in Seq(S) /\ Len(s) \in Nat /\ DOMAIN s = 1..Len(s)
  BY <1>1
<1>3. Len(s) = n
  <2> DEFINE l == Len(s)
  <2>1. l \in Nat /\ 1..l = 1..n
    BY <1>2
  <2> HIDE DEF l
  <2>2. ~(l < n) /\ ~(n < l)
    <3>1. n \in 1..n <=> n >= 1
      OBVIOUS
    <3>2. l \in 1..l <=> l >= 1
      BY <2>1
    <3> QED
      BY <2>1, <3>1, <3>2
  <2> QED
    BY <2>1, <2>2 DEF l
<1> QED
  BY <1>2, <1>3 DEF IsSeq

(* The recursion of Only, and that there is a function like this.           *)
IsUpto(u, s, at) ==
  u = [n \in 0..Len(s) |-> IF n = 0 THEN <<>>
                           ELSE IF n \in at THEN Append(u[n - 1], s[n]) ELSE u[n - 1]]

LEMMA UptoExists ==
  ASSUME NEW s, Len(s) \in Nat, NEW at
  PROVE  \E u : IsUpto(u, s, at)
<1> DEFINE Step(u, n) == IF n = 0 THEN <<>>
                         ELSE IF n \in at THEN Append(u[n - 1], s[n]) ELSE u[n - 1]
           Defined(m) == \E u : \A n \in 0..m : u[n] = Step(u, n)
           N == {m \in Nat : ~Defined(m)}
<1>1. Defined(0)
  <2> DEFINE u == [n \in {0} |-> <<>>]
  <2>1. \A n \in 0..0 : u[n] = Step(u, n)
    OBVIOUS
  <2> QED
    BY <2>1
<1>2. ASSUME NEW m \in Nat, Defined(m)
      PROVE  Defined(m + 1)
  <2>1. PICK u : \A n \in 0..m : u[n] = Step(u, n)
    BY <1>2
  <2> DEFINE v == [n \in 0..(m + 1) |-> IF n = m + 1 THEN Step(u, n) ELSE u[n]]
  <2>2. \A n \in 0..m : v[n] = u[n]
    OBVIOUS
  <2>3. ASSUME NEW n \in 0..(m + 1) PROVE v[n] = Step(v, n)
    <3>1. n # 0 => v[n - 1] = u[n - 1]
      BY <2>2
    <3>2. Step(v, n) = Step(u, n)
      BY <3>1
    <3>3. v[n] = Step(u, n)
      BY <2>1
    <3> QED
      BY <3>2, <3>3
  <2> QED
    BY <2>3
<1>3. \A m \in Nat : Defined(m)
  <2> HIDE DEF Defined
  <2>1. N = {}
    <3> SUFFICES ASSUME N # {} PROVE FALSE
      OBVIOUS
    <3>1. N \in SUBSET Nat
      OBVIOUS
    <3> HIDE DEF N
    <3>2. PICK m \in N : \A k \in N : m <= k
      BY <3>1, LeastNumber
    <3>3. m \in Nat /\ ~Defined(m) /\ \A k \in Nat : k < m => Defined(k)
      BY <3>2 DEF N
    <3>4. m - 1 \in Nat /\ (m - 1) + 1 = m
      BY <1>1, <3>3
    <3>5. Defined(m - 1)
      BY <3>3, <3>4
    <3>6. Defined((m - 1) + 1)
      BY <1>2, <3>4, <3>5
    <3> QED
      BY <3>3, <3>4, <3>6
  <2> QED
    BY <2>1
<1>4. PICK u : \A n \in 0..Len(s) : u[n] = Step(u, n)
  BY <1>3
<1> DEFINE v == [n \in 0..Len(s) |-> u[n]]
<1>5. \A n \in 0..Len(s) : v[n] = Step(v, n)
  <2> TAKE n \in 0..Len(s)
  <2>1. n # 0 => v[n - 1] = u[n - 1]
    OBVIOUS
  <2> QED
    BY <1>4, <2>1
<1>6. IsUpto(v, s, at)
  BY <1>5 DEF IsUpto
<1> QED
  BY <1>6

LEMMA OnlyIsUpto ==
  ASSUME NEW s, Len(s) \in Nat, NEW at
  PROVE  \E u : IsUpto(u, s, at) /\ Only(s, at) = u[Len(s)]
<1> DEFINE u == CHOOSE u : u = [n \in 0..Len(s) |-> IF n = 0 THEN <<>>
                                ELSE IF n \in at THEN Append(u[n - 1], s[n]) ELSE u[n - 1]]
<1>1. Only(s, at) = u[Len(s)]
  BY Zenon DEF Only
<1>2. \E v : v = [n \in 0..Len(s) |-> IF n = 0 THEN <<>>
                  ELSE IF n \in at THEN Append(v[n - 1], s[n]) ELSE v[n - 1]]
  BY UptoExists, Zenon DEF IsUpto
<1>3. IsUpto(u, s, at)
  BY <1>2, Zenon DEF IsUpto
<1> QED
  BY <1>1, <1>3

(* t is made of the entries of s at the places in at, in their order.       *)
Drawn(t, s, at, h) ==
  /\ IsSeq(t) /\ h \in [1..Len(t) -> at]
  /\ \A i, j \in 1..Len(t) : i < j => h[i] < h[j]
  /\ \A a \in at : \E i \in 1..Len(t) : h[i] = a
  /\ \A i \in 1..Len(t) : t[i] = s[h[i]]

LEMMA DrawnMore ==
  ASSUME NEW t, NEW s, NEW n \in Nat, NEW at \in SUBSET (1..n), NEW h, Drawn(t, s, at, h)
  PROVE  LET u == Append(t, s[n + 1])
             g == [i \in 1..(Len(t) + 1) |-> IF i = Len(t) + 1 THEN n + 1 ELSE h[i]]
         IN  Drawn(u, s, at \cup {n + 1}, g)
<1> DEFINE u == Append(t, s[n + 1])
           m == Len(t)
           g == [i \in 1..(m + 1) |-> IF i = m + 1 THEN n + 1 ELSE h[i]]
<1>1. PICK S : t \in Seq(S)
  BY DEF Drawn, IsSeq
<1>2. m \in Nat /\ h \in [1..m -> at]
  BY <1>1 DEF Drawn
<1> DEFINE T == S \cup {s[n + 1]}
<1>3. t \in Seq(T) /\ s[n + 1] \in T
  BY <1>1
<1> HIDE DEF T
<1>4. u \in Seq(T) /\ Len(u) = m + 1 /\ u[m + 1] = s[n + 1] /\ \A i \in 1..m : u[i] = t[i]
  BY <1>3
<1>5. IsSeq(u)
  BY <1>4 DEF IsSeq
<1> HIDE DEF u
<1>6. g \in [1..(m + 1) -> at \cup {n + 1}]
  BY <1>2
<1>7. /\ g[m + 1] = n + 1 /\ \A i \in 1..m : g[i] = h[i]
  BY <1>2
<1>8. \A i \in 1..m : h[i] \in 1..n
  BY <1>2
<1> HIDE DEF g, m
<1>9. ASSUME NEW i \in 1..(m + 1), NEW j \in 1..(m + 1), i < j PROVE g[i] < g[j]
  <2>1. CASE j = m + 1
    <3>1. i \in 1..m
      BY <1>2, <1>9, <2>1
    <3> QED
      BY <1>7, <1>8, <2>1, <3>1
  <2>2. CASE j # m + 1
    <3>1. i \in 1..m /\ j \in 1..m
      BY <1>2, <1>9, <2>2
    <3> QED
      BY <1>7, <1>9, <3>1 DEF Drawn, m
  <2> QED
    BY <2>1, <2>2
<1>10. ASSUME NEW a \in at \cup {n + 1} PROVE \E i \in 1..(m + 1) : g[i] = a
  <2>1. CASE a = n + 1
    BY <1>2, <1>7, <2>1
  <2>2. CASE a \in at
    <3>1. PICK i \in 1..m : h[i] = a
      BY <2>2 DEF Drawn, m
    <3> QED
      BY <1>2, <1>7, <3>1
  <2> QED
    BY <2>1, <2>2
<1>11. ASSUME NEW i \in 1..(m + 1) PROVE u[i] = s[g[i]]
  <2>1. CASE i = m + 1
    BY <1>4, <1>7, <2>1
  <2>2. CASE i # m + 1
    <3>1. i \in 1..m
      BY <1>2, <2>2
    <3> QED
      BY <1>4, <1>7, <3>1 DEF Drawn, m
  <2> QED
    BY <2>1, <2>2
<1>12. Drawn(u, s, at \cup {n + 1}, g)
  BY <1>4, <1>5, <1>6, <1>9, <1>10, <1>11 DEF Drawn
<1> QED
  BY <1>12 DEF u, g, m

LEMMA OnlyDraws ==
  ASSUME NEW s, IsSeq(s), NEW at \in SUBSET (DOMAIN s)
  PROVE  \E h : Drawn(Only(s, at), s, at, h)
<1> DEFINE L == Len(s)
<1>1. L \in Nat /\ DOMAIN s = 1..L
  BY SeqShape
<1>2. PICK u : IsUpto(u, s, at) /\ Only(s, at) = u[L]
  BY <1>1, OnlyIsUpto
<1> DEFINE Here(n) == at \cap (1..n)
           Good(n) == \E h : Drawn(u[n], s, Here(n), h)
           N == {n \in Nat : n <= L /\ ~Good(n)}
<1>a. \A n \in 0..L : u[n] = IF n = 0 THEN <<>>
                           ELSE IF n \in at THEN Append(u[n - 1], s[n]) ELSE u[n - 1]
  BY <1>2 DEF IsUpto
<1> HIDE DEF L
<1>3. u[0] = <<>>
  BY <1>1, <1>a
<1>4. \A n \in 1..L : u[n] = IF n \in at THEN Append(u[n - 1], s[n]) ELSE u[n - 1]
  BY <1>1, <1>a
<1>5. Good(0)
  <2> DEFINE e == <<>>
             h == [i \in 1..0 |-> 0]
  <2>1. e \in Seq({}) /\ Len(e) = 0
    OBVIOUS
  <2>2. IsSeq(e)
    BY <2>1 DEF IsSeq
  <2>3. Here(0) = {} /\ 1..0 = {}
    OBVIOUS
  <2>4. h \in [1..0 -> Here(0)]
    BY <2>3
  <2> HIDE DEF e, h
  <2>5. Drawn(e, s, Here(0), h)
    BY <2>1, <2>2, <2>3, <2>4 DEF Drawn
  <2> QED
    BY <1>3, <2>5 DEF e
<1>6. ASSUME NEW n \in Nat, n + 1 <= L, Good(n) PROVE Good(n + 1)
  <2>1. PICK h : Drawn(u[n], s, Here(n), h)
    BY <1>6
  <2>2. n + 1 \in 1..L /\ (n + 1) - 1 = n
    BY <1>1, <1>6
  <2>3. CASE n + 1 \in at
    <3> DEFINE g == [i \in 1..(Len(u[n]) + 1) |-> IF i = Len(u[n]) + 1 THEN n + 1 ELSE h[i]]
    <3>1. u[n + 1] = Append(u[n], s[n + 1])
      BY <1>4, <2>2, <2>3
    <3>2. Here(n + 1) = Here(n) \cup {n + 1} /\ Here(n) \in SUBSET (1..n)
      BY <2>3
    <3> HIDE DEF Here
    <3>3. Drawn(Append(u[n], s[n + 1]), s, Here(n) \cup {n + 1}, g)
      BY <2>1, <3>2, DrawnMore
    <3> QED
      BY <3>1, <3>2, <3>3
  <2>4. CASE n + 1 \notin at
    <3>1. u[n + 1] = u[n]
      BY <1>4, <2>2, <2>4
    <3>2. Here(n + 1) = Here(n)
      BY <2>4
    <3> QED
      BY <2>1, <3>1, <3>2
  <2> QED
    BY <2>3, <2>4
<1>7. N = {}
  <2> HIDE DEF Good
  <2> SUFFICES ASSUME N # {} PROVE FALSE
    OBVIOUS
  <2>1. N \in SUBSET Nat
    OBVIOUS
  <2> HIDE DEF N
  <2>2. PICK m \in N : \A k \in N : m <= k
    BY <2>1, LeastNumber
  <2>3. m \in Nat /\ m <= L /\ ~Good(m) /\ \A k \in Nat : k <= L /\ k < m => Good(k)
    BY <2>2 DEF N
  <2>4. m - 1 \in Nat /\ (m - 1) + 1 = m
    BY <1>5, <2>3
  <2>5. Good(m - 1) /\ (m - 1) + 1 <= L
    BY <1>1, <2>3, <2>4
  <2>6. Good((m - 1) + 1)
    BY <1>6, <2>4, <2>5
  <2> QED
    BY <2>3, <2>4, <2>6
<1>8. Good(L) /\ Here(L) = at
  <2>1. Here(L) = at
    BY <1>1
  <2>2. Good(L)
    <3> HIDE DEF Good
    <3>1. L \in Nat /\ L <= L /\ L \notin N
      BY <1>1, <1>7
    <3> QED
      BY <3>1
  <2> QED
    BY <2>1, <2>2
<1> HIDE DEF Here
<1> QED
  BY <1>2, <1>8

(* A directory has no entry twice.                                          *)
Distinct(s) == \A i, j \in DOMAIN s : s[i] = s[j] => i = j
Dir(d) == IsSeq(d) /\ Distinct(d)

LEMMA DirSize ==
  ASSUME NEW d, Dir(d)
  PROVE  IsFiniteSet(Entries(d)) /\ Cardinality(Entries(d)) = Len(d)
<1> DEFINE n == Len(d)
<1>1. n \in Nat /\ DOMAIN d = 1..n /\ d \in Seq(Entries(d))
      /\ \A x : x \in Entries(d) <=> \E i \in 1..n : d[i] = x
  BY SeqShape DEF Dir
<1>2. d \in [1..n -> Entries(d)]
  BY <1>1
<1>3. \A i, j \in 1..n : d[i] = d[j] => i = j
  BY <1>1 DEF Dir, Distinct
<1> HIDE DEF n
<1>4. d \in Bijection(1..n, Entries(d))
  BY <1>1, <1>2, <1>3 DEF Bijection, Injection, Surjection, IsInjective
<1>5. ExistsBijection(1..n, Entries(d))
  BY <1>4 DEF ExistsBijection
<1>6. IsFiniteSet(1..n) /\ Cardinality(1..n) = n
  BY <1>1, FS_Interval
<1> QED
  BY <1>5, <1>6, FS_Bijection DEF n

LEMMA WithoutDir ==
  ASSUME NEW d, Dir(d), NEW gone
  PROVE  /\ Dir(Without(d, gone))
         /\ \A x : x \in Entries(Without(d, gone)) <=> x \in Entries(d) /\ x \notin gone
<1> DEFINE at == {i \in DOMAIN d : d[i] \notin gone}
           t == Without(d, gone)
<1>1. IsSeq(d) /\ DOMAIN d = 1..Len(d) /\ Len(d) \in Nat
      /\ \A x : x \in Entries(d) <=> \E i \in 1..Len(d) : d[i] = x
  BY SeqShape DEF Dir
<1>2. t = Only(d, at)
  BY DEF Without, Chosen
<1>a. at \in SUBSET (DOMAIN d) /\ \A i : i \in at <=> i \in DOMAIN d /\ d[i] \notin gone
  OBVIOUS
<1> HIDE DEF at
<1>b. \E h : Drawn(Only(d, at), d, at, h)
  BY <1>1, <1>a, OnlyDraws
<1>3. PICK h : Drawn(t, d, at, h)
  BY <1>2, <1>b
<1>4. /\ IsSeq(t) /\ h \in [1..Len(t) -> at]
      /\ \A i, j \in 1..Len(t) : i < j => h[i] < h[j]
      /\ \A a \in at : \E i \in 1..Len(t) : h[i] = a
      /\ \A i \in 1..Len(t) : t[i] = d[h[i]]
  BY <1>3 DEF Drawn
<1> HIDE DEF t
<1>5. Len(t) \in Nat /\ DOMAIN t = 1..Len(t)
      /\ \A x : x \in Entries(t) <=> \E i \in 1..Len(t) : t[i] = x
  BY <1>4, SeqShape
<1>6. ASSUME NEW i \in 1..Len(t), NEW j \in 1..Len(t), t[i] = t[j] PROVE i = j
  <2>1. h[i] \in DOMAIN d /\ h[j] \in DOMAIN d /\ d[h[i]] = d[h[j]]
    BY <1>4, <1>6, <1>a
  <2>2. h[i] = h[j] /\ h[i] \in Nat
    BY <1>1, <2>1 DEF Dir, Distinct
  <2>3. ~(i < j) /\ ~(j < i)
    BY <1>4, <2>2
  <2> QED
    BY <2>3
<1>7. Dir(t)
  BY <1>4, <1>5, <1>6 DEF Dir, Distinct
<1>8. ASSUME NEW x PROVE x \in Entries(t) <=> x \in Entries(d) /\ x \notin gone
  <2>1. ASSUME x \in Entries(t) PROVE x \in Entries(d) /\ x \notin gone
    <3>1. PICK i \in 1..Len(t) : t[i] = x
      BY <1>5, <2>1
    <3>2. h[i] \in at /\ d[h[i]] = x
      BY <1>4, <3>1
    <3> QED
      BY <1>1, <1>a, <3>2
  <2>2. ASSUME x \in Entries(d), x \notin gone PROVE x \in Entries(t)
    <3>1. PICK a \in 1..Len(d) : d[a] = x
      BY <1>1, <2>2
    <3>2. a \in at
      BY <1>1, <1>a, <2>2, <3>1
    <3>3. PICK i \in 1..Len(t) : h[i] = a
      BY <1>4, <3>2
    <3>4. t[i] = x
      BY <1>4, <3>1, <3>3
    <3> QED
      BY <1>5, <3>4
  <2> QED
    BY <2>1, <2>2
<1> QED
  BY <1>7, <1>8 DEF t

LEMMA TouchDir ==
  ASSUME NEW d, Dir(d), NEW e
  PROVE  /\ Dir(Touch(d, e))
         /\ \A x : x \in Entries(Touch(d, e)) <=> x \in Entries(d) \/ x = e
<1> DEFINE w == Without(d, {e})
           t == <<e>> \o w
           S == Entries(w) \cup {e}
<1>1. Dir(w) /\ \A x : x \in Entries(w) <=> x \in Entries(d) /\ x # e
  BY WithoutDir
<1> HIDE DEF w
<1>2. /\ Len(w) \in Nat /\ DOMAIN w = 1..Len(w) /\ w \in Seq(Entries(w))
      /\ \A x : x \in Entries(w) <=> \E i \in 1..Len(w) : w[i] = x
  BY <1>1, SeqShape DEF Dir
<1>3. w \in Seq(S) /\ <<e>> \in Seq(S) /\ Len(<<e>>) = 1 /\ <<e>>[1] = e
  <2>1. e \in S /\ \A i \in 1..Len(w) : w[i] \in S
    BY <1>2
  <2> HIDE DEF S
  <2> QED
    BY <1>2, <2>1
<1> HIDE DEF S
<1>4. /\ t \in Seq(S) /\ Len(t) = Len(w) + 1 /\ t[1] = e
      /\ \A i \in 1..Len(w) : t[i + 1] = w[i]
  BY <1>2, <1>3
<1> HIDE DEF t
<1>5. IsSeq(t) /\ DOMAIN t = 1..(Len(w) + 1)
  BY <1>4 DEF IsSeq
<1>6. \A i \in 1..(Len(w) + 1) : i = 1 \/ (i - 1 \in 1..Len(w) /\ t[i] = w[i - 1])
  <2> TAKE i \in 1..(Len(w) + 1)
  <2>1. i = 1 \/ (i - 1 \in 1..Len(w) /\ (i - 1) + 1 = i)
    BY <1>2
  <2> QED
    BY <1>4, <2>1
<1>7. ASSUME NEW i \in 1..(Len(w) + 1), NEW j \in 1..(Len(w) + 1), t[i] = t[j] PROVE i = j
  <2>1. \A k \in 1..Len(w) : w[k] # e
    BY <1>1, <1>2
  <2>2. CASE i = 1
    BY <1>4, <1>6, <1>7, <2>1, <2>2
  <2>3. CASE j = 1
    BY <1>4, <1>6, <1>7, <2>1, <2>3
  <2>4. CASE i # 1 /\ j # 1
    <3>1. i - 1 \in 1..Len(w) /\ j - 1 \in 1..Len(w) /\ w[i - 1] = w[j - 1]
      BY <1>6, <1>7, <2>4
    <3>2. i - 1 = j - 1
      BY <1>1, <1>2, <3>1 DEF Dir, Distinct
    <3> QED
      BY <1>2, <3>2
  <2> QED
    BY <2>2, <2>3, <2>4
<1>8. ASSUME NEW x PROVE x \in Entries(t) <=> x \in Entries(d) \/ x = e
  <2>1. x \in Entries(t) <=> \E i \in 1..(Len(w) + 1) : t[i] = x
    BY <1>5 DEF Entries
  <2>2. (\E i \in 1..(Len(w) + 1) : t[i] = x) <=> x = e \/ \E i \in 1..Len(w) : w[i] = x
    <3>1. 1 \in 1..(Len(w) + 1) /\ \A i \in 1..Len(w) : i + 1 \in 1..(Len(w) + 1)
      BY <1>2
    <3>2. ASSUME NEW i \in 1..(Len(w) + 1), t[i] = x
          PROVE  x = e \/ \E k \in 1..Len(w) : w[k] = x
      <4>1. CASE i = 1
        BY <1>4, <3>2, <4>1
      <4>2. CASE i - 1 \in 1..Len(w) /\ t[i] = w[i - 1]
        BY <3>2, <4>2
      <4> QED
        BY <1>6, <4>1, <4>2
    <3>3. ASSUME x = e PROVE \E i \in 1..(Len(w) + 1) : t[i] = x
      BY <1>4, <3>1, <3>3
    <3>4. ASSUME NEW k \in 1..Len(w), w[k] = x PROVE \E i \in 1..(Len(w) + 1) : t[i] = x
      BY <1>4, <3>1, <3>4
    <3> QED
      BY <3>2, <3>3, <3>4
  <2> QED
    BY <1>1, <1>2, <2>1, <2>2
<1>9. Dir(t) /\ Touch(d, e) = t
  BY <1>5, <1>7 DEF Dir, Distinct, Touch, t, w
<1> QED
  BY <1>8, <1>9

LEMMA NoEntries == Dir(<<>>) /\ Entries(<<>>) = {}
<1> DEFINE e == <<>>
<1>1. e \in Seq({}) /\ DOMAIN e = {}
  OBVIOUS
<1> QED
  BY <1>1 DEF Dir, IsSeq, Distinct, Entries

-----------------------------------------------------------------------------
(* Who can be where.  Only a pass fills orders, a look saves only the new   *)
(* account it made, and a reset saves an empty one.                         *)
HandInv ==
  \A w \in Writer :
    /\ At(w, "append") => w \in Pid /\ hand[w].fill # 0
    /\ hand[w].pc \in {"truncate", "write"} /\ w # "reset" /\ ~hand[w].init
         => w \in Pid /\ hand[w].fill # 0
    /\ w = "view" => hand[w].fill = 0
    /\ w = "reset" => /\ hand[w].pc \in {"off", "write", "unlink"}
                      /\ hand[w].got = {} /\ ~hand[w].init

TypeInv == StateTypeOK /\ HandInv

(* The fill of an order that is past its log entry is in the log, or its    *)
(* entry was deleted.                                                       *)
LogInv ==
  /\ LogKnowsTheRest
  /\ \A p \in Pid : hand[p].pc \in {"truncate", "write"} /\ ~hand[p].init
                      => hand[p].fill \in log \cup dropped

(* No loop is alive but the one the PID file names, and no pass but its.    *)
LoopInv ==
  "untracked" \notin harm =>
    /\ loops \subseteq {pidFile}
    /\ count.faults = 0 => \A p \in Pid : ~At(p, "off") => p \in loops

(* What the account holds as long as nothing that loses fills has happened: *)
(* the fills of the answered orders, or, while it is being written, what    *)
(* the one writer has in hand; and nobody has an account in hand that was   *)
(* not read from the file.                                                  *)
Writing(w) == At(w, "write")

BookInv ==
  harm \subseteq {"untracked"} =>
    /\ acct = Torn => \E w \in Writer : Writing(w)
    /\ acct # Torn => /\ acct = truth \/ (acct = Absent /\ truth = {})
                      /\ \A w \in Writer : ~Writing(w)
    /\ \A v, w \in Writer : Writing(v) /\ Writing(w) => v = w
    /\ \A w \in Writer :
         /\ At(w, "append") => hand[w].got = hand[w].base
         /\ At(w, "truncate") =>
              IF hand[w].init THEN hand[w].base = Absent /\ hand[w].got = {}
                              ELSE hand[w].base # Torn /\ hand[w].base # Absent
                                   /\ hand[w].got = hand[w].base \cup {hand[w].fill}
         /\ Writing(w) /\ w # "reset" =>
              IF hand[w].init THEN hand[w].got = {} /\ truth = {}
                              ELSE hand[w].got = truth \cup {hand[w].fill}

-----------------------------------------------------------------------------
(* Type correctness.                                                        *)

LEMMA OffType == Off \in Hand
BY DeskConstants DEF Off, Hand

LEMMA InitType == Init => TypeInv
BY DeskConstants, OffType DEF Init, TypeInv, StateTypeOK, HandInv, Off

(* A step that replaces what one writer is doing.                           *)
LEMMA HandStep ==
  ASSUME TypeInv, NEW w \in Writer, NEW h \in Hand, hand' = [hand EXCEPT ![w] = h],
         h.pc = "append" => w \in Pid /\ h.fill # 0,
         h.pc \in {"truncate", "write"} /\ w # "reset" /\ ~h.init => w \in Pid /\ h.fill # 0,
         w = "view" => h.fill = 0,
         w = "reset" => h.pc \in {"off", "write", "unlink"} /\ h.got = {} /\ ~h.init
  PROVE  hand' \in [Writer -> Hand] /\ HandInv'
BY DEF TypeInv, StateTypeOK, HandInv

(* What a load leaves in hand.                                              *)
Loaded(w, n) ==
  [hand[w] EXCEPT !.pc = IF ~Readable THEN "truncate" ELSE IF n = 0 THEN Rest(w) ELSE "append",
                  !.got = IF Readable THEN acct ELSE {}, !.base = acct, !.fill = n, !.init = ~Readable]

LEMMA LoadType ==
  ASSUME TypeInv, NEW w \in Pid \cup {"view"}, NEW n \in 0..MaxFills, w = "view" => n = 0, Load(w, n)
  PROVE  /\ hand' = [hand EXCEPT ![w] = Loaded(w, n)] /\ Loaded(w, n) \in Hand
         /\ hand' \in [Writer -> Hand] /\ HandInv'
         /\ Loaded(w, n).pc \in {"truncate", "ready", "off", "append"}
         /\ Loaded(w, n).pc = "truncate" => Loaded(w, n).init
         /\ harm' \subseteq {"cut", "unreadable", "overlap", "evicted", "untracked"}
<1> USE DeskConstants
<1>1. hand[w] \in Hand /\ acct \in Content
  BY DEF TypeInv, StateTypeOK
<1>2. Loaded(w, n) \in Hand
  BY <1>1 DEF Hand, Loaded
<1>3. hand' = [hand EXCEPT ![w] = Loaded(w, n)]
  BY DEF Load, TypeInv, StateTypeOK, Loaded
<1>4. /\ Loaded(w, n).pc \in {"truncate", "ready", "off", "append"}
      /\ Loaded(w, n).pc = "truncate" => Loaded(w, n).init
      /\ Loaded(w, n).pc = "append" => n # 0
      /\ Loaded(w, n).fill = n
  BY <1>1 DEF Hand, Loaded
<1>5. hand' \in [Writer -> Hand] /\ HandInv'
  BY <1>2, <1>3, <1>4, HandStep
<1> QED
  BY <1>2, <1>3, <1>4, <1>5 DEF Load, TypeInv, StateTypeOK

(* What an order has in hand after its log entry.                           *)
Appended(w) == [hand[w] EXCEPT !.pc = "truncate", !.got = @ \cup {hand[w].fill}, !.init = FALSE]

LEMMA AppendType ==
  ASSUME TypeInv, NEW w \in Writer, AppendTrade(w)
  PROVE  /\ w \in Pid /\ hand[w].fill \in Fill
         /\ hand' = [hand EXCEPT ![w] = Appended(w)] /\ Appended(w) \in Hand
         /\ hand' \in [Writer -> Hand] /\ HandInv'
<1> USE DeskConstants
<1>1. hand[w] \in Hand
  BY DEF TypeInv, StateTypeOK
<1>2. w \in Pid /\ hand[w].fill \in Fill
  BY <1>1 DEF AppendTrade, TypeInv, HandInv, Hand
<1>3. Appended(w) \in Hand
  BY <1>1, <1>2 DEF Appended, Hand
<1>4. hand' = [hand EXCEPT ![w] = Appended(w)]
  BY DEF AppendTrade, TypeInv, StateTypeOK, Appended
<1>5. Appended(w).pc = "truncate" /\ Appended(w).fill = hand[w].fill
  BY <1>1 DEF Appended, Hand
<1>6. w \notin {"view", "reset"} /\ Appended(w).fill # 0
  BY <1>2, <1>5
<1>7. hand' \in [Writer -> Hand] /\ HandInv'
  BY <1>2, <1>3, <1>4, <1>5, <1>6, HandStep
<1> QED
  BY <1>2, <1>3, <1>4, <1>7

(* What a writer has in hand after its write.                               *)
Written(w) ==
  IF hand[w].init
  THEN [hand[w] EXCEPT !.pc = IF hand[w].fill # 0 THEN "append" ELSE Rest(w), !.base = hand[w].got]
  ELSE [hand[w] EXCEPT !.pc = IF w = "reset" THEN "unlink" ELSE "ready", !.fill = 0]

LEMMA WriteType ==
  ASSUME TypeInv, NEW w \in Writer, Write(w)
  PROVE  /\ hand' = [hand EXCEPT ![w] = Written(w)] /\ Written(w) \in Hand
         /\ Written(w).pc \in {"append", "ready", "off", "unlink"}
         /\ hand' \in [Writer -> Hand] /\ HandInv'
         /\ hand[w].got \in SUBSET Fill
         /\ w # "reset" /\ ~hand[w].init => hand[w].fill \in Fill
<1> USE DeskConstants
<1>1. hand[w] \in Hand /\ Writing(w)
  BY DEF TypeInv, StateTypeOK, Write, Writing
<1>2. Written(w) \in Hand
  <2>1. CASE hand[w].init
    <3>1. hand[w].got \in Content /\ Rest(w) \in {"ready", "off"}
      BY <1>1 DEF Hand
    <3> QED
      BY <1>1, <2>1, <3>1 DEF Written, Hand
  <2>2. CASE ~hand[w].init
    <3>1. Written(w) = [hand[w] EXCEPT !.pc = IF w = "reset" THEN "unlink" ELSE "ready", !.fill = 0]
      BY <2>2 DEF Written
    <3>2. 0 \in 0..MaxFills
      OBVIOUS
    <3> QED
      BY <1>1, <3>1, <3>2 DEF Hand
  <2> QED
    BY <2>1, <2>2
<1>3. hand' = [hand EXCEPT ![w] = Written(w)]
  BY DEF Write, TypeInv, StateTypeOK, Written
<1>4. /\ Written(w).pc \in {"append", "ready", "off", "unlink"}
      /\ Written(w).pc = "append" => hand[w].init /\ Written(w).fill = hand[w].fill /\ hand[w].fill # 0
      /\ Written(w).fill \in {0, hand[w].fill}
      /\ w = "reset" /\ ~hand[w].init => Written(w).pc = "unlink"
      /\ Written(w).got = hand[w].got /\ Written(w).init = hand[w].init
  BY <1>1 DEF Written, Hand
<1>5. hand' \in [Writer -> Hand] /\ HandInv'
  <2>1. /\ w = "view" => hand[w].fill = 0
        /\ w = "reset" => hand[w].got = {} /\ ~hand[w].init
    BY DEF TypeInv, HandInv
  <2> QED
    BY <1>2, <1>3, <1>4, <2>1, HandStep
<1>6. /\ hand[w].got \in SUBSET Fill
      /\ w # "reset" /\ ~hand[w].init => hand[w].fill \in Fill
  BY <1>1 DEF Hand, TypeInv, HandInv, Writing
<1> QED
  BY <1>2, <1>3, <1>4, <1>5, <1>6

(* A step of one writer that changes only where it is.                      *)
LEMMA GoType ==
  ASSUME TypeInv, NEW w \in Writer, NEW pc \in {"off", "write"}, Go(w, pc),
         pc = "write" => At(w, "truncate") \/ w = "reset"
  PROVE  hand' \in [Writer -> Hand] /\ HandInv'
<1> DEFINE h == [hand[w] EXCEPT !.pc = pc]
<1>1. hand[w] \in Hand
  BY DEF TypeInv, StateTypeOK
<1>2. h \in Hand /\ h.pc = pc /\ h.fill = hand[w].fill /\ h.init = hand[w].init /\ h.got = hand[w].got
  BY <1>1 DEF Hand
<1>3. hand' = [hand EXCEPT ![w] = h]
  BY DEF TypeInv, StateTypeOK
<1> HIDE DEF h
<1>4. /\ w = "view" => hand[w].fill = 0
      /\ w = "reset" => hand[w].got = {} /\ ~hand[w].init
      /\ At(w, "truncate") /\ ~hand[w].init /\ w # "reset" => w \in Pid /\ hand[w].fill # 0
  BY DEF TypeInv, HandInv
<1> QED
  BY <1>2, <1>3, <1>4, HandStep

LEMMA OffStep ==
  ASSUME TypeInv, NEW p \in Pid, hand' = [hand EXCEPT ![p] = Off]
  PROVE  hand' \in [Writer -> Hand] /\ HandInv'
BY DeskConstants, OffType, HandStep DEF Off

LEMMA TypeStep == TypeInv /\ [Next]_vars => TypeInv'
<1> SUFFICES ASSUME TypeInv, [Next]_vars PROVE TypeInv'
  OBVIOUS
<1> USE DeskConstants DEF TypeInv
<1>1. ASSUME NEW p \in Pid, StartPass(p) PROVE TypeInv'
  <2> DEFINE h == [Off EXCEPT !.pc = "ready", !.run = count.runs + 1]
  <2>1. count.runs + 1 \in 0..MaxRuns
    BY <1>1 DEF StartPass, StateTypeOK
  <2>2. h \in Hand /\ h.pc = "ready"
    BY <2>1, OffType DEF Hand
  <2>3. hand' = [hand EXCEPT ![p] = h]
    BY <1>1 DEF StartPass
  <2> HIDE DEF h
  <2>4. hand' \in [Writer -> Hand] /\ HandInv'
    BY <2>2, <2>3, HandStep
  <2> QED
    BY <1>1, <2>1, <2>4 DEF StartPass, StateTypeOK
<1>2. ASSUME NEW p \in Pid, Look(p) PROVE TypeInv'
  BY <1>2, LoadType DEF Look, StateTypeOK
<1>3. ASSUME NEW p \in Pid, Order(p) PROVE TypeInv'
  <2>1. count.fills + 1 \in 0..MaxFills
    BY <1>3 DEF Order, StateTypeOK
  <2> QED
    BY <1>3, <2>1, LoadType DEF Order, StateTypeOK
<1>4. ASSUME NEW p \in Pid, EndPass(p) PROVE TypeInv'
  <2>1. hand' \in [Writer -> Hand] /\ HandInv'
    BY <1>4, OffStep DEF EndPass
  <2>2. PICK gone : /\ pidFile' = IF PidEntry \in gone THEN NoPid ELSE pidFile
                    /\ acct' = IF PaperDir \in gone THEN Absent ELSE acct
                    /\ log' = IF PaperDir \in gone THEN {} ELSE log
                    /\ dropped' = IF PaperDir \in gone THEN dropped \cup log ELSE dropped
                    /\ harm' = harm \cup {h \in {"evicted"} : PaperDir \in gone}
                                   \cup {h \in {"untracked"} : PidEntry \in gone}
    BY <1>4 DEF EndPass
  <2> QED
    BY <1>4, <2>1, <2>2 DEF EndPass, StateTypeOK
<1>5. ASSUME NEW p \in Pid, Start(p) PROVE TypeInv'
  BY <1>5 DEF Start, StateTypeOK, HandInv
<1>6. ASSUME NEW p \in Pid, LoopDies(p) PROVE TypeInv'
  BY <1>6 DEF LoopDies, StateTypeOK, HandInv
<1>7. ASSUME NEW w \in Writer, AppendTrade(w) PROVE TypeInv'
  <2>1. hand' \in [Writer -> Hand] /\ HandInv' /\ hand[w].fill \in Fill
    BY <1>7, AppendType
  <2>2. log' = log \cup {hand[w].fill}
    BY <1>7 DEF AppendTrade
  <2>3. UNCHANGED <<loops, pidFile, acct, count, truth, harm, dropped>>
    BY <1>7 DEF AppendTrade
  <2> QED
    BY <2>1, <2>2, <2>3 DEF StateTypeOK
<1>8. ASSUME NEW w \in Writer, Truncate(w) PROVE TypeInv'
  <2>1. hand' \in [Writer -> Hand] /\ HandInv'
    BY <1>8, GoType DEF Truncate
  <2> QED
    BY <1>8, <2>1 DEF Truncate, StateTypeOK
<1>9. ASSUME NEW w \in Writer, Write(w) PROVE TypeInv'
  <2>1. acct' \in Content
    BY <1>9, WriteType DEF Write, AfterWrite
  <2>2. truth' \subseteq Fill
    BY <1>9, WriteType DEF Write, StateTypeOK
  <2> QED
    BY <1>9, <2>1, <2>2, WriteType DEF Write, StateTypeOK
<1>10. ASSUME Stop PROVE TypeInv'
  <2>1. pidFile \in Pid
    BY <1>10 DEF Stop, StateTypeOK
  <2>2. hand' \in [Writer -> Hand] /\ HandInv'
    BY <1>10, <2>1, OffStep DEF Stop
  <2> QED
    BY <1>10, <2>2 DEF Stop, StateTypeOK
<1>11. ASSUME View PROVE TypeInv'
  <2>1. CASE UNCHANGED vars
    BY <2>1 DEF StateTypeOK, HandInv, vars
  <2>2. CASE Load("view", 0) /\ UNCHANGED <<loops, pidFile, acct, log, root, count, truth, dropped>>
    <3>1. 0 \in 0..MaxFills /\ "view" \in Pid \cup {"view"}
      OBVIOUS
    <3> QED
      BY <2>2, <3>1, LoadType DEF StateTypeOK
  <2> QED
    BY <1>11, <2>1, <2>2 DEF View
<1>12. ASSUME Reset PROVE TypeInv'
  <2>1. hand' \in [Writer -> Hand] /\ HandInv'
    BY <1>12, GoType DEF Reset
  <2> QED
    BY <1>12, <2>1 DEF Reset, StateTypeOK
<1>13. ASSUME Unlink PROVE TypeInv'
  <2>1. hand' \in [Writer -> Hand] /\ HandInv'
    BY <1>13, GoType DEF Unlink
  <2> QED
    BY <1>13, <2>1 DEF Unlink, StateTypeOK
<1>14. CASE UNCHANGED vars
  BY <1>14 DEF vars, StateTypeOK, HandInv
<1> QED
  BY <1>1, <1>2, <1>3, <1>4, <1>5, <1>6, <1>7, <1>8, <1>9, <1>10, <1>11, <1>12, <1>13, <1>14
     DEF Next

-----------------------------------------------------------------------------
(* The directory.  It has an entry of every run, each once; the PID file's  *)
(* as long as there is one; the account's as long as there is an account or *)
(* a log.  A pass ends under the name of its run, which has a number.       *)
RootInv ==
  /\ Dir(root) /\ RootTypeOK
  /\ \A p \in Pid : ~At(p, "off") => hand[p].run # 0

LEMMA EntryNames == /\ PaperDir # PidEntry
                    /\ \A n \in Nat : n # PaperDir /\ n # PidEntry
                    /\ \A p \in Pid : p # NoPid
BY DeskConstants DEF PaperDir, PidEntry

(* A directory after one of its entries is written to, as the steps do it.  *)
LEMMA RootTouched ==
  ASSUME RootInv, NEW e \in {PaperDir, PidEntry} \cup 1..MaxRuns, root' = Touch(root, e)
  PROVE  /\ Dir(root') /\ Cardinality(Entries(root')) = Len(root')
         /\ Entries(root') \subseteq {PaperDir, PidEntry} \cup 1..MaxRuns
         /\ \A x : x \in Entries(root') <=> x \in Entries(root) \/ x = e
<1>1. Dir(root') /\ \A x : x \in Entries(root') <=> x \in Entries(root) \/ x = e
  BY TouchDir DEF RootInv
<1>2. Cardinality(Entries(root')) = Len(root')
  BY <1>1, DirSize
<1>3. Entries(root') \subseteq {PaperDir, PidEntry} \cup 1..MaxRuns
  BY <1>1 DEF RootInv, RootTypeOK
<1> QED
  BY <1>1, <1>2, <1>3

(* So it is when the account's directory is, if it is.                      *)
LEMMA PaperTouched ==
  ASSUME RootInv, NEW if \in BOOLEAN, TouchPaper(if), pidFile' = pidFile,
         (acct' # Absent \/ log' # {}) /\ ~if => acct # Absent \/ log # {},
         \A p \in Pid : hand'[p].run = hand[p].run /\ (hand'[p].pc # "off" => hand[p].pc # "off")
  PROVE  RootInv'
<1>1. CASE if
  <2>1. root' = Touch(root, PaperDir)
    BY <1>1 DEF TouchPaper
  <2>2. /\ Dir(root') /\ Cardinality(Entries(root')) = Len(root')
        /\ Entries(root') \subseteq {PaperDir, PidEntry} \cup 1..MaxRuns
        /\ \A x : x \in Entries(root') <=> x \in Entries(root) \/ x = PaperDir
    BY <2>1, RootTouched
  <2> QED
    BY <2>2, EntryNames DEF RootInv, RootTypeOK
<1>2. CASE ~if
  <2>1. root' = root
    BY <1>2 DEF TouchPaper
  <2> QED
    BY <1>2, <2>1 DEF RootInv, RootTypeOK, Dir, Distinct, IsSeq, Entries
<1> QED
  BY <1>1, <1>2

(* A step that touches no entry.                                            *)
LEMMA RootKept ==
  ASSUME RootInv, root' = root, pidFile' = pidFile,
         acct' # Absent \/ log' # {} => acct # Absent \/ log # {},
         \A p \in Pid : hand'[p].run = hand[p].run /\ (hand'[p].pc # "off" => hand[p].pc # "off")
  PROVE  RootInv'
BY DEF RootInv, RootTypeOK, Dir, Distinct, IsSeq, Entries

(* Replacing what a writer has in hand by something of the same run.        *)
LEMMA SameRun ==
  ASSUME TypeInv, NEW w \in Writer, NEW h, hand' = [hand EXCEPT ![w] = h],
         h.run = hand[w].run, h.pc # "off" /\ w \in Pid => hand[w].pc # "off"
  PROVE  \A p \in Pid : hand'[p].run = hand[p].run /\ (hand'[p].pc # "off" => hand[p].pc # "off")
BY DEF TypeInv, StateTypeOK

LEMMA RootStep == TypeInv /\ RootInv /\ [Next]_vars => RootInv'
<1> SUFFICES ASSUME TypeInv, RootInv, [Next]_vars PROVE RootInv'
  OBVIOUS
<1> USE DeskConstants
<1>0. hand \in [Writer -> Hand] /\ acct \in Content /\ pidFile \in Pid \cup {NoPid}
  BY DEF TypeInv, StateTypeOK
<1>load. ASSUME NEW w \in Pid \cup {"view"}, NEW n \in 0..MaxFills, w = "view" => n = 0, Load(w, n),
                w \in Pid => ~At(w, "off"), UNCHANGED <<root, pidFile, acct, log>>
         PROVE  RootInv'
  <2>1. hand' = [hand EXCEPT ![w] = Loaded(w, n)]
    BY <1>load, LoadType
  <2>2. Loaded(w, n).run = hand[w].run
    BY <1>0 DEF Loaded, Hand
  <2>3. \A p \in Pid : hand'[p].run = hand[p].run /\ (hand'[p].pc # "off" => hand[p].pc # "off")
    BY <1>load, <2>1, <2>2, SameRun
  <2> QED
    BY <1>load, <2>3, RootKept
<1>1. ASSUME NEW p \in Pid, StartPass(p) PROVE RootInv'
  <2> DEFINE n == count.runs + 1
  <2>1. n \in 1..MaxRuns /\ n # 0
    BY <1>1 DEF StartPass, TypeInv, StateTypeOK
  <2>2. [Off EXCEPT !.pc = "ready", !.run = n].run = n
    BY DEF Off
  <2>3. \A q \in Pid : hand'[q].run = IF q = p THEN n ELSE hand[q].run
    BY <1>0, <1>1, <2>2 DEF StartPass
  <2>4. \A q \in Pid \ {p} : hand'[q] = hand[q]
    BY <1>0, <1>1 DEF StartPass
  <2>5. root' = Touch(root, n) /\ UNCHANGED <<pidFile, acct, log>>
    BY <1>1 DEF StartPass
  <2> HIDE DEF n
  <2>6. /\ Dir(root') /\ Cardinality(Entries(root')) = Len(root')
        /\ Entries(root') \subseteq {PaperDir, PidEntry} \cup 1..MaxRuns
        /\ \A x : x \in Entries(root') <=> x \in Entries(root) \/ x = n
    BY <2>1, <2>5, RootTouched
  <2>7. n # PaperDir /\ n # PidEntry
    BY <2>1, EntryNames
  <2>8. RootTypeOK'
    BY <2>5, <2>6, <2>7 DEF RootInv, RootTypeOK
  <2>9. \A q \in Pid : ~At(q, "off")' => hand'[q].run # 0
    BY <2>1, <2>3, <2>4 DEF RootInv
  <2> QED
    BY <2>6, <2>8, <2>9 DEF RootInv
<1>2. ASSUME NEW p \in Pid, Look(p) PROVE RootInv'
  BY <1>2, <1>load DEF Look
<1>3. ASSUME NEW p \in Pid, Order(p) PROVE RootInv'
  <2>1. count.fills + 1 \in 0..MaxFills
    BY <1>3 DEF Order, TypeInv, StateTypeOK
  <2> QED
    BY <1>3, <2>1, <1>load DEF Order
<1>4. ASSUME NEW p \in Pid, EndPass(p) PROVE RootInv'
  <2> DEFINE now == Touch(root, hand[p].run)
             gone == Evicted(now, {hand[p].run}, Bulk)
  <2>1. hand[p].run \in 1..MaxRuns
    BY <1>0, <1>4 DEF EndPass, RootInv, Hand
  <2>2. Dir(now) /\ \A x : x \in Entries(now) <=> x \in Entries(root) \/ x = hand[p].run
    BY TouchDir DEF RootInv
  <2>3. /\ root' = Without(now, gone)
        /\ pidFile' = IF PidEntry \in gone THEN NoPid ELSE pidFile
        /\ acct' = IF PaperDir \in gone THEN Absent ELSE acct
        /\ log' = IF PaperDir \in gone THEN {} ELSE log
        /\ hand' = [hand EXCEPT ![p] = Off]
    BY <1>4 DEF EndPass
  <2> HIDE DEF now, gone
  <2>4. Dir(root') /\ \A x : x \in Entries(root') <=> x \in Entries(now) /\ x \notin gone
    BY <2>2, <2>3, WithoutDir
  <2>5. Cardinality(Entries(root')) = Len(root')
    BY <2>4, DirSize
  <2>6. hand[p].run # PaperDir /\ hand[p].run # PidEntry
    BY <2>1, EntryNames
  <2>7. Entries(root') \subseteq {PaperDir, PidEntry} \cup 1..MaxRuns
    BY <2>1, <2>2, <2>4 DEF RootInv, RootTypeOK
  <2>8. (pidFile' # NoPid) = (PidEntry \in Entries(root'))
    BY <2>2, <2>3, <2>4, <2>6 DEF RootInv, RootTypeOK
  <2>9. acct' # Absent \/ log' # {} => PaperDir \in Entries(root')
    BY <2>2, <2>3, <2>4, <2>6 DEF RootInv, RootTypeOK
  <2>10. \A q \in Pid : ~At(q, "off")' => hand'[q].run # 0
    BY <1>0, <2>3 DEF RootInv, Off
  <2> QED
    BY <2>4, <2>5, <2>7, <2>8, <2>9, <2>10 DEF RootInv, RootTypeOK
<1>5. ASSUME NEW p \in Pid, Start(p) PROVE RootInv'
  <2>1. root' = Touch(root, PidEntry) /\ pidFile' = p /\ p # NoPid /\ UNCHANGED <<hand, acct, log>>
    BY <1>5, EntryNames DEF Start
  <2>2. /\ Dir(root') /\ Cardinality(Entries(root')) = Len(root')
        /\ Entries(root') \subseteq {PaperDir, PidEntry} \cup 1..MaxRuns
        /\ \A x : x \in Entries(root') <=> x \in Entries(root) \/ x = PidEntry
    BY <2>1, RootTouched
  <2> QED
    BY <2>1, <2>2 DEF RootInv, RootTypeOK
<1>6. ASSUME NEW p \in Pid, LoopDies(p) PROVE RootInv'
  BY <1>6, RootKept DEF LoopDies
<1>7. ASSUME NEW w \in Writer, AppendTrade(w) PROVE RootInv'
  <2>a. hand' = [hand EXCEPT ![w] = Appended(w)]
    BY <1>7, AppendType
  <2>b. hand[w].pc = "append"
    BY <1>7 DEF AppendTrade
  <2>1. hand' = [hand EXCEPT ![w] = Appended(w)] /\ hand[w].pc = "append"
    BY <2>a, <2>b, Zenon
  <2>2. Appended(w).run = hand[w].run
    BY <1>0 DEF Appended, Hand
  <2>3. \A p \in Pid : hand'[p].run = hand[p].run /\ (hand'[p].pc # "off" => hand[p].pc # "off")
    BY <2>1, <2>2, SameRun
  <2>4. TouchPaper(log = {}) /\ UNCHANGED <<pidFile, acct>>
    BY <1>7 DEF AppendTrade
  <2> QED
    BY <2>3, <2>4, PaperTouched
<1>8. ASSUME NEW w \in Writer, Truncate(w) PROVE RootInv'
  <2>1. /\ hand' = [hand EXCEPT ![w] = [hand[w] EXCEPT !.pc = "write"]] /\ hand[w].pc = "truncate"
        /\ TouchPaper(acct = Absent) /\ UNCHANGED <<pidFile, log>>
    BY <1>0, <1>8 DEF Truncate
  <2>2. [hand[w] EXCEPT !.pc = "write"].run = hand[w].run
    BY <1>0 DEF Hand
  <2>3. \A p \in Pid : hand'[p].run = hand[p].run /\ (hand'[p].pc # "off" => hand[p].pc # "off")
    BY <2>1, <2>2, SameRun
  <2> QED
    BY <2>1, <2>3, PaperTouched
<1>9. ASSUME NEW w \in Writer, Write(w) PROVE RootInv'
  <2>1. hand' = [hand EXCEPT ![w] = Written(w)] /\ hand[w].pc = "write"
    BY <1>9, WriteType DEF Write
  <2>2. Written(w).run = hand[w].run
    BY <1>0 DEF Written, Hand
  <2>3. \A p \in Pid : hand'[p].run = hand[p].run /\ (hand'[p].pc # "off" => hand[p].pc # "off")
    BY <2>1, <2>2, SameRun
  <2>4. UNCHANGED <<root, pidFile, log>> /\ (acct = Absent => acct' = Absent)
    BY <1>9 DEF Write, AfterWrite
  <2> QED
    BY <2>3, <2>4, RootKept
<1>10. ASSUME Stop PROVE RootInv'
  <2>1. /\ root' = Without(root, {PidEntry}) /\ pidFile' = NoPid /\ UNCHANGED <<acct, log>>
        /\ hand' = [hand EXCEPT ![pidFile] = Off] /\ pidFile \in Pid
    BY <1>10 DEF Stop, TypeInv, StateTypeOK
  <2>2. Dir(root') /\ \A x : x \in Entries(root') <=> x \in Entries(root) /\ x \notin {PidEntry}
    BY <2>1, WithoutDir DEF RootInv
  <2>3. Cardinality(Entries(root')) = Len(root')
    BY <2>2, DirSize
  <2>4. \A q \in Pid : ~At(q, "off")' => hand'[q].run # 0
    BY <1>0, <2>1 DEF RootInv, Off
  <2>5. PaperDir \in Entries(root) <=> PaperDir \in Entries(root')
    BY <2>2, EntryNames
  <2>6. PidEntry \notin Entries(root') /\ Entries(root') \subseteq Entries(root)
    BY <2>2
  <2>7. RootTypeOK'
    <3>1. acct' # Absent \/ log' # {} => PaperDir \in Entries(root')
      BY <2>1, <2>5 DEF RootInv, RootTypeOK
    <3>2. Entries(root') \subseteq {PaperDir, PidEntry} \cup 1..MaxRuns
      BY <2>6 DEF RootInv, RootTypeOK
    <3>3. (pidFile' # NoPid) = (PidEntry \in Entries(root'))
      BY <2>1, <2>6
    <3> QED
      BY <2>3, <3>1, <3>2, <3>3 DEF RootTypeOK
  <2> QED
    BY <2>2, <2>4, <2>7 DEF RootInv
<1>11. ASSUME View PROVE RootInv'
  <2>1. CASE UNCHANGED vars
    BY <2>1, RootKept DEF vars
  <2>2. CASE Load("view", 0) /\ UNCHANGED <<loops, pidFile, acct, log, root, count, truth, dropped>>
    BY <2>2, <1>load
  <2> QED
    BY <1>11, <2>1, <2>2 DEF View
<1>api. ASSUME NEW pc, hand' = [hand EXCEPT !["reset"].pc = pc]
        PROVE  \A p \in Pid : hand'[p].run = hand[p].run /\ (hand'[p].pc # "off" => hand[p].pc # "off")
  <2>1. \A p \in Pid : p # "reset"
    OBVIOUS
  <2> QED
    BY <1>0, <1>api, <2>1
<1>12. ASSUME Reset PROVE RootInv'
  <2>1. TouchPaper(acct = Absent) /\ UNCHANGED <<pidFile, log>> /\ hand' = [hand EXCEPT !["reset"].pc = "write"]
    BY <1>12 DEF Reset
  <2> QED
    BY <2>1, <1>api, PaperTouched
<1>13. ASSUME Unlink PROVE RootInv'
  <2>1. /\ TouchPaper(log # {}) /\ UNCHANGED <<pidFile, acct>> /\ log' = {}
        /\ hand' = [hand EXCEPT !["reset"].pc = "off"]
    BY <1>13 DEF Unlink
  <2> QED
    BY <2>1, <1>api, PaperTouched
<1>14. CASE UNCHANGED vars
  BY <1>14, RootKept DEF vars
<1> QED
  BY <1>1, <1>2, <1>3, <1>4, <1>5, <1>6, <1>7, <1>8, <1>9, <1>10, <1>11, <1>12, <1>13, <1>14
     DEF Next

(* The paper desk's state has its type, its directory included: no entry    *)
(* twice, the PID file's there exactly when a loop is named, and the        *)
(* account's whenever there is an account or a log.                         *)
THEOREM DeskTypes == Spec => []TypeOK
<1>1. Init => TypeInv /\ RootInv
  <2>1. ASSUME Init PROVE RootInv
    <3>1. Dir(root) /\ Entries(root) = {} /\ Cardinality(Entries(root)) = Len(root)
      <4>1. root = <<>>
        BY <2>1 DEF Init
      <4>2. Dir(root) /\ Entries(root) = {}
        BY <4>1, NoEntries
      <4> QED
        BY <4>2, DirSize
    <3>2. \A p \in Pid : At(p, "off")
      BY <2>1 DEF Init, Off
    <3>3. pidFile = NoPid /\ acct = Absent /\ log = {}
      BY <2>1 DEF Init
    <3> QED
      BY <3>1, <3>2, <3>3 DEF RootInv, RootTypeOK
  <2> QED
    BY <2>1, InitType
<1>2. TypeInv /\ RootInv /\ [Next]_vars => (TypeInv /\ RootInv)'
  BY TypeStep, RootStep
<1>3. TypeInv /\ RootInv => TypeOK
  BY DEF TypeInv, RootInv, TypeOK
<1> QED
  BY <1>1, <1>2, <1>3, PTL DEF Spec

-----------------------------------------------------------------------------
(* The log.                                                                 *)

(* A step that neither logs nor deletes log entries, and changes what one   *)
(* writer is doing to something that is not a save of an order.             *)
LEMMA LogHandStep ==
  ASSUME TypeInv, LogInv, NEW w \in Writer, NEW h, hand' = [hand EXCEPT ![w] = h],
         h.pc \in {"truncate", "write"} => w = "reset" \/ h.init,
         log' = log, dropped' = dropped, truth' = truth
  PROVE  LogInv'
BY DeskConstants DEF LogInv, LogKnowsTheRest, TypeInv, StateTypeOK

LEMMA LogStep == TypeInv /\ LogInv /\ [Next]_vars => LogInv'
<1> SUFFICES ASSUME TypeInv, LogInv, [Next]_vars PROVE LogInv'
  OBVIOUS
<1> USE DeskConstants
<1>0. hand \in [Writer -> Hand]
  BY DEF TypeInv, StateTypeOK
<1>load. ASSUME NEW w \in Pid \cup {"view"}, NEW n \in 0..MaxFills, w = "view" => n = 0, Load(w, n),
                log' = log, dropped' = dropped, truth' = truth
         PROVE  LogInv'
  BY <1>load, LoadType, LogHandStep
<1>1. ASSUME NEW p \in Pid, StartPass(p) PROVE LogInv'
  <2>1. [Off EXCEPT !.pc = "ready", !.run = count.runs + 1].pc = "ready"
    BY DEF Off
  <2> QED
    BY <1>1, <2>1, LogHandStep DEF StartPass
<1>2. ASSUME NEW p \in Pid, Look(p) PROVE LogInv'
  BY <1>2, <1>load DEF Look
<1>3. ASSUME NEW p \in Pid, Order(p) PROVE LogInv'
  <2>1. count.fills + 1 \in 0..MaxFills
    BY <1>3 DEF Order, TypeInv, StateTypeOK
  <2> QED
    BY <1>3, <2>1, <1>load DEF Order
<1>4. ASSUME NEW p \in Pid, EndPass(p) PROVE LogInv'
  <2>1. hand' = [hand EXCEPT ![p] = Off] /\ truth' = truth
    BY <1>4 DEF EndPass
  <2>2. log' \cup dropped' = log \cup dropped
    BY <1>4 DEF EndPass
  <2>3. ASSUME NEW q \in Pid, hand'[q].pc \in {"truncate", "write"}, ~hand'[q].init
        PROVE  hand'[q].fill \in log' \cup dropped'
    BY <1>0, <2>1, <2>2, <2>3 DEF LogInv, Off
  <2>4. truth' \subseteq log' \cup dropped'
    BY <2>1, <2>2 DEF LogInv, LogKnowsTheRest
  <2> QED
    BY <2>3, <2>4 DEF LogInv, LogKnowsTheRest
<1>5. ASSUME NEW p \in Pid, Start(p) PROVE LogInv'
  BY <1>5 DEF Start, LogInv, LogKnowsTheRest
<1>6. ASSUME NEW p \in Pid, LoopDies(p) PROVE LogInv'
  BY <1>6 DEF LoopDies, LogInv, LogKnowsTheRest
<1>7. ASSUME NEW w \in Writer, AppendTrade(w) PROVE LogInv'
  <2>1. hand' = [hand EXCEPT ![w] = Appended(w)] /\ Appended(w).fill = hand[w].fill
    BY <1>0, <1>7, AppendType DEF Appended, Hand
  <2>2. log' = log \cup {hand[w].fill} /\ dropped' = dropped /\ truth' = truth
    BY <1>7 DEF AppendTrade
  <2>3. ASSUME NEW q \in Pid, hand'[q].pc \in {"truncate", "write"}, ~hand'[q].init
        PROVE  hand'[q].fill \in log' \cup dropped'
    BY <1>0, <2>1, <2>2, <2>3 DEF LogInv
  <2> QED
    BY <2>2, <2>3 DEF LogInv, LogKnowsTheRest
<1>8. ASSUME NEW w \in Writer, Truncate(w) PROVE LogInv'
  <2>1. /\ hand' = [hand EXCEPT ![w] = [hand[w] EXCEPT !.pc = "write"]]
        /\ hand[w].pc = "truncate" /\ log' = log /\ dropped' = dropped /\ truth' = truth
    BY <1>0, <1>8 DEF Truncate
  <2>2. ASSUME NEW q \in Pid, hand'[q].pc \in {"truncate", "write"}, ~hand'[q].init
        PROVE  hand'[q].fill \in log' \cup dropped'
    BY <1>0, <2>1, <2>2 DEF LogInv, Hand
  <2> QED
    BY <2>1, <2>2 DEF LogInv, LogKnowsTheRest
<1>9. ASSUME NEW w \in Writer, Write(w) PROVE LogInv'
  <2>1. /\ hand' = [hand EXCEPT ![w] = Written(w)]
        /\ Written(w).pc \notin {"truncate", "write"}
        /\ log' = log /\ dropped' = dropped
    BY <1>9, WriteType DEF Write
  <2>2. ASSUME NEW q \in Pid, hand'[q].pc \in {"truncate", "write"}, ~hand'[q].init
        PROVE  hand'[q].fill \in log' \cup dropped'
    BY <1>0, <2>1, <2>2 DEF LogInv
  <2>3. truth' \subseteq log' \cup dropped'
    <3>1. w # "reset" /\ ~hand[w].init => w \in Pid /\ hand[w].fill \in log \cup dropped
      BY <1>9 DEF Write, LogInv, TypeInv, HandInv
    <3>2. truth' \in {truth, {}, truth \cup {hand[w].fill}}
          /\ (truth' = truth \/ truth' = {} \/ (w # "reset" /\ ~hand[w].init))
      BY <1>9 DEF Write
    <3> QED
      BY <2>1, <3>1, <3>2 DEF LogInv, LogKnowsTheRest
  <2> QED
    BY <2>2, <2>3 DEF LogInv, LogKnowsTheRest
<1>10. ASSUME Stop PROVE LogInv'
  <2>1. pidFile \in Pid
    BY <1>10 DEF Stop, TypeInv, StateTypeOK
  <2> QED
    BY <1>10, <2>1, LogHandStep DEF Stop, Off
<1>11. ASSUME View PROVE LogInv'
  <2>1. CASE UNCHANGED vars
    BY <2>1 DEF LogInv, LogKnowsTheRest, vars
  <2>2. CASE Load("view", 0) /\ UNCHANGED <<loops, pidFile, acct, log, root, count, truth, dropped>>
    BY <2>2, <1>load
  <2> QED
    BY <1>11, <2>1, <2>2 DEF View
<1>12. ASSUME Reset PROVE LogInv'
  <2>1. hand' = [hand EXCEPT !["reset"] = [hand["reset"] EXCEPT !.pc = "write"]]
    BY <1>0, <1>12 DEF Reset
  <2> QED
    BY <1>12, <2>1, LogHandStep DEF Reset
<1>13. ASSUME Unlink PROVE LogInv'
  <2>1. /\ hand' = [hand EXCEPT !["reset"] = [hand["reset"] EXCEPT !.pc = "off"]]
        /\ log' \cup dropped' = log \cup dropped /\ truth' = truth
    BY <1>0, <1>13 DEF Unlink
  <2>2. \A p \in Pid : hand'[p] = hand[p]
    BY <1>0, <2>1
  <2> QED
    BY <2>1, <2>2 DEF LogInv, LogKnowsTheRest
<1>14. CASE UNCHANGED vars
  BY <1>14 DEF vars, LogInv, LogKnowsTheRest
<1> QED
  BY <1>1, <1>2, <1>3, <1>4, <1>5, <1>6, <1>7, <1>8, <1>9, <1>10, <1>11, <1>12, <1>13, <1>14
     DEF Next

(* Whatever is killed, torn, overlapped or deleted, every fill that was     *)
(* answered "booked" is in the trade log, or its entry was deleted by a     *)
(* reset or by housekeeping.                                                *)
THEOREM BookedFillsAreLogged == Spec => []LogKnowsTheRest
<1>1. Init => TypeInv /\ LogInv
  BY InitType DEF Init, LogInv, LogKnowsTheRest, Off
<1>2. TypeInv /\ LogInv /\ [Next]_vars => (TypeInv /\ LogInv)'
  BY TypeStep, LogStep
<1>3. TypeInv /\ LogInv => LogKnowsTheRest
  BY DEF LogInv
<1> QED
  BY <1>1, <1>2, <1>3, PTL DEF Spec

-----------------------------------------------------------------------------
(* The loops.                                                               *)

LEMMA LoopStep == TypeInv /\ LoopInv /\ [Next]_vars => LoopInv'
<1> SUFFICES ASSUME TypeInv, LoopInv, [Next]_vars, "untracked" \notin harm' PROVE LoopInv'
  BY DEF LoopInv
<1> USE DeskConstants
<1>0. hand \in [Writer -> Hand] /\ loops \subseteq Pid /\ pidFile \in Pid \cup {NoPid}
      /\ count.faults \in Nat
  BY DEF TypeInv, StateTypeOK
(* A step that leaves the loops alone and starts no pass.                   *)
<1>hand. ASSUME NEW w \in Writer, NEW h, hand' = [hand EXCEPT ![w] = h],
                w \in Pid => h.pc = "off" \/ ~At(w, "off"),
                UNCHANGED <<loops, pidFile>>, count'.faults = count.faults, harm \subseteq harm'
         PROVE  LoopInv'
  BY <1>0, <1>hand DEF LoopInv
<1>load. ASSUME NEW w \in Pid \cup {"view"}, NEW n \in 0..MaxFills, w = "view" => n = 0, Load(w, n),
                w \in Pid => ~At(w, "off"), UNCHANGED <<loops, pidFile>>, count'.faults = count.faults
         PROVE  LoopInv'
  <2>1. hand' = [hand EXCEPT ![w] = Loaded(w, n)]
    BY <1>load, LoadType
  <2>2. harm \subseteq harm'
    BY <1>load DEF Load
  <2> QED
    BY <1>hand, <1>load, <2>1, <2>2
<1>1. ASSUME NEW p \in Pid, StartPass(p) PROVE LoopInv'
  <2>1. /\ hand' = [hand EXCEPT ![p] = [Off EXCEPT !.pc = "ready", !.run = count.runs + 1]]
        /\ p \in loops /\ count'.faults = count.faults
        /\ UNCHANGED <<loops, pidFile, harm>>
    BY <1>1 DEF StartPass, TypeInv, StateTypeOK
  <2> QED
    BY <1>0, <2>1 DEF LoopInv
<1>2. ASSUME NEW p \in Pid, Look(p) PROVE LoopInv'
  BY <1>2, <1>load DEF Look
<1>3. ASSUME NEW p \in Pid, Order(p) PROVE LoopInv'
  <2>1. count.fills + 1 \in 0..MaxFills /\ count'.faults = count.faults
    BY <1>3 DEF Order, TypeInv, StateTypeOK
  <2> QED
    BY <1>3, <2>1, <1>load DEF Order
<1>4. ASSUME NEW p \in Pid, EndPass(p) PROVE LoopInv'
  <2>1. /\ hand' = [hand EXCEPT ![p] = Off] /\ UNCHANGED <<loops, count>>
        /\ pidFile' = pidFile /\ harm \subseteq harm'
    BY <1>4 DEF EndPass
  <2> QED
    BY <1>hand, <2>1 DEF Off
<1>5. ASSUME NEW p \in Pid, Start(p) PROVE LoopInv'
  BY <1>0, <1>5 DEF Start, LoopInv
<1>6. ASSUME NEW p \in Pid, LoopDies(p) PROVE LoopInv'
  BY <1>0, <1>6 DEF LoopDies, LoopInv, TypeInv, StateTypeOK
<1>7. ASSUME NEW w \in Writer, AppendTrade(w) PROVE LoopInv'
  BY <1>hand, <1>7, AppendType DEF AppendTrade
<1>8. ASSUME NEW w \in Writer, Truncate(w) PROVE LoopInv'
  <2>1. hand' = [hand EXCEPT ![w] = [hand[w] EXCEPT !.pc = "write"]] /\ harm \subseteq harm'
    BY <1>0, <1>8 DEF Truncate
  <2> QED
    BY <1>hand, <1>8, <2>1 DEF Truncate
<1>9. ASSUME NEW w \in Writer, Write(w) PROVE LoopInv'
  <2>1. hand' = [hand EXCEPT ![w] = Written(w)] /\ harm \subseteq harm'
    BY <1>9, WriteType DEF Write
  <2> QED
    BY <1>hand, <1>9, <2>1 DEF Write
<1>10. ASSUME Stop PROVE LoopInv'
  <2>1. /\ hand' = [hand EXCEPT ![pidFile] = Off] /\ pidFile \in Pid
        /\ loops' = loops \ {pidFile} /\ pidFile' = NoPid
        /\ count' = count /\ harm \subseteq harm'
    BY <1>0, <1>10 DEF Stop
  <2> QED
    BY <1>0, <2>1 DEF LoopInv, Off
<1>11. ASSUME View PROVE LoopInv'
  <2>1. CASE UNCHANGED vars
    BY <2>1 DEF LoopInv, vars
  <2>2. CASE Load("view", 0) /\ UNCHANGED <<loops, pidFile, acct, log, root, count, truth, dropped>>
    BY <2>2, <1>load
  <2> QED
    BY <1>11, <2>1, <2>2 DEF View
<1>12. ASSUME Reset PROVE LoopInv'
  <2>1. /\ hand' = [hand EXCEPT !["reset"] = [hand["reset"] EXCEPT !.pc = "write"]]
        /\ harm \subseteq harm' /\ count'.faults = count.faults
        /\ UNCHANGED <<loops, pidFile>>
    BY <1>0, <1>12 DEF Reset, TypeInv, StateTypeOK
  <2> QED
    BY <1>hand, <2>1
<1>13. ASSUME Unlink PROVE LoopInv'
  <2>1. hand' = [hand EXCEPT !["reset"] = [hand["reset"] EXCEPT !.pc = "off"]]
    BY <1>0, <1>13 DEF Unlink
  <2> QED
    BY <1>hand, <1>13, <2>1 DEF Unlink
<1>14. CASE UNCHANGED vars
  BY <1>14 DEF vars, LoopInv
<1> QED
  BY <1>1, <1>2, <1>3, <1>4, <1>5, <1>6, <1>7, <1>8, <1>9, <1>10, <1>11, <1>12, <1>13, <1>14
     DEF Next

LEMMA AtMostOneOf ==
  ASSUME NEW S, NEW x, S \subseteq {x}
  PROVE  Cardinality(S) <= 1
<1>1. S = {} \/ S = {x}
  OBVIOUS
<1> QED
  <2>1. Cardinality({}) = 0 /\ Cardinality({x}) = 1
    BY FS_EmptySet, FS_Singleton
  <2> QED
    BY <1>1, <2>1

LEMMA LoopInvOneDesk == TypeInv /\ LoopInv => OneDesk
<1> SUFFICES ASSUME TypeInv, LoopInv, "untracked" \notin harm PROVE OneDesk
  BY DEF OneDesk
<1>1. loops \subseteq {pidFile}
  BY DEF LoopInv
<1>2. Cardinality(loops) <= 1
  BY <1>1, AtMostOneOf
<1>3. ASSUME ~(count.faults > 0) PROVE Cardinality({p \in Pid : ~At(p, "off")}) <= 1
  <2>1. count.faults = 0
    BY <1>3 DEF TypeInv, StateTypeOK
  <2>2. {p \in Pid : ~At(p, "off")} \subseteq {pidFile}
    BY <1>1, <2>1 DEF LoopInv
  <2> QED
    BY <2>2, AtMostOneOf
<1> QED
  BY <1>2, <1>3 DEF OneDesk

(* Two loops are alive only after housekeeping deleted the PID file of one; *)
(* two passes only then, or after a loop died without its pass.             *)
THEOREM OneDeskAtATime == Spec => []OneDesk
<1>1. Init => TypeInv /\ LoopInv
  BY InitType DEF Init, LoopInv, Off
<1>2. TypeInv /\ LoopInv /\ [Next]_vars => (TypeInv /\ LoopInv)'
  BY TypeStep, LoopStep
<1> QED
  BY <1>1, <1>2, LoopInvOneDesk, PTL DEF Spec

-----------------------------------------------------------------------------
(* The account.                                                             *)

(* A step that changes neither the account nor the answers, and replaces    *)
(* what a writer that is not at its write is doing by something consistent. *)
Consistent(h) ==
  /\ h.pc # "write"
  /\ h.pc = "append" => h.got = h.base
  /\ h.pc = "truncate" =>
       IF h.init THEN h.base = Absent /\ h.got = {}
                 ELSE h.base # Torn /\ h.base # Absent /\ h.got = h.base \cup {h.fill}

LEMMA BookHandStep ==
  ASSUME TypeInv, BookInv, NEW w \in Writer, NEW h, hand' = [hand EXCEPT ![w] = h],
         harm' \subseteq {"untracked"} => harm \subseteq {"untracked"} /\ ~Writing(w) /\ Consistent(h),
         acct' = acct, truth' = truth
  PROVE  BookInv'
<1> SUFFICES ASSUME harm' \subseteq {"untracked"} PROVE BookInv'
  BY DEF BookInv
<1>1. hand \in [Writer -> Hand]
  BY DEF TypeInv, StateTypeOK
<1>2. /\ hand'[w] = h
      /\ \A v \in Writer \ {w} : hand'[v] = hand[v]
      /\ ~Writing(w) /\ Consistent(h)
  BY <1>1
<1>3. \A v \in Writer : Writing(v)' <=> Writing(v)
  BY <1>2 DEF Writing, Consistent
<1>4. BookInv!2
  BY DEF BookInv
<1>5. /\ acct' = Torn => \E v \in Writer : Writing(v)'
      /\ acct' # Torn => /\ acct' = truth' \/ (acct' = Absent /\ truth' = {})
                         /\ \A v \in Writer : ~Writing(v)'
      /\ \A v, u \in Writer : Writing(v)' /\ Writing(u)' => v = u
  BY <1>3, <1>4
<1> QED
  BY <1>2, <1>4, <1>5 DEF BookInv, Consistent, Writing

LEMMA BookStep == TypeInv /\ BookInv /\ [Next]_vars => BookInv'
<1> SUFFICES ASSUME TypeInv, BookInv, [Next]_vars, harm' \subseteq {"untracked"} PROVE BookInv'
  BY DEF BookInv
<1> USE DeskConstants
<1>0. hand \in [Writer -> Hand] /\ acct \in Content
  BY DEF TypeInv, StateTypeOK
<1>load. ASSUME NEW w \in Pid \cup {"view"}, NEW n \in 0..MaxFills, w = "view" => n = 0, Load(w, n),
                ~Writing(w), acct' = acct, truth' = truth
         PROVE  BookInv'
  <2>1. harm \subseteq {"untracked"} /\ acct # Torn
    BY <1>load DEF Load
  <2>2. Consistent(Loaded(w, n))
    <3>1. hand[w] \in Hand
      BY <1>0
    <3>2. CASE Readable
      <4>1. /\ Loaded(w, n).pc \in {"ready", "off", "append"}
            /\ Loaded(w, n).got = acct /\ Loaded(w, n).base = acct
        BY <3>1, <3>2 DEF Loaded, Hand
      <4> QED
        BY <4>1 DEF Consistent
    <3>3. CASE ~Readable
      <4>1. /\ Loaded(w, n).pc = "truncate" /\ Loaded(w, n).init
            /\ Loaded(w, n).got = {} /\ Loaded(w, n).base = Absent
        BY <2>1, <3>1, <3>3 DEF Loaded, Hand
      <4> QED
        BY <4>1 DEF Consistent
    <3> QED
      BY <3>2, <3>3
  <2> QED
    BY <1>load, <2>1, <2>2, LoadType, BookHandStep
<1>1. ASSUME NEW p \in Pid, StartPass(p) PROVE BookInv'
  <2>1. Consistent([Off EXCEPT !.pc = "ready", !.run = count.runs + 1])
    BY DEF Off, Consistent
  <2> QED
    BY <1>1, <2>1, BookHandStep DEF StartPass, Writing
<1>2. ASSUME NEW p \in Pid, Look(p) PROVE BookInv'
  BY <1>2, <1>load DEF Look, Writing
<1>3. ASSUME NEW p \in Pid, Order(p) PROVE BookInv'
  <2>1. count.fills + 1 \in 0..MaxFills
    BY <1>3 DEF Order, TypeInv, StateTypeOK
  <2> QED
    BY <1>3, <2>1, <1>load DEF Order, Writing
<1>4. ASSUME NEW p \in Pid, EndPass(p) PROVE BookInv'
  <2>1. hand' = [hand EXCEPT ![p] = Off] /\ truth' = truth /\ ~Writing(p)
    BY <1>4 DEF EndPass, Writing
  <2>2. harm \subseteq {"untracked"} /\ acct' = acct
    BY <1>4 DEF EndPass
  <2>3. Consistent(Off)
    BY DEF Off, Consistent
  <2> QED
    BY <2>1, <2>2, <2>3, BookHandStep
<1>5. ASSUME NEW p \in Pid, Start(p) PROVE BookInv'
  BY <1>5 DEF Start, BookInv, Writing
<1>6. ASSUME NEW p \in Pid, LoopDies(p) PROVE BookInv'
  BY <1>6 DEF LoopDies, BookInv, Writing
<1>7. ASSUME NEW w \in Writer, AppendTrade(w) PROVE BookInv'
  <2>1. hand[w] \in Hand /\ harm \subseteq {"untracked"} /\ ~Writing(w)
    BY <1>0, <1>7 DEF AppendTrade, Writing
  <2>2. Consistent(Appended(w))
    <3>1. hand[w].got = hand[w].base /\ hand[w].got \subseteq Fill
      BY <1>7, <2>1 DEF AppendTrade, BookInv, Hand
    <3> QED
      BY <2>1, <3>1 DEF Consistent, Appended, Hand
  <2> QED
    BY <1>7, <2>1, <2>2, AppendType, BookHandStep DEF AppendTrade
<1>8. ASSUME NEW w \in Writer, Truncate(w) PROVE BookInv'
  <2>1. /\ hand' = [hand EXCEPT ![w] = [hand[w] EXCEPT !.pc = "write"]]
        /\ At(w, "truncate") /\ acct' = Torn /\ truth' = truth
        /\ harm \subseteq {"untracked"} /\ acct = hand[w].base
    BY <1>0, <1>8 DEF Truncate
  <2>2. w # "reset"
    BY <2>1 DEF TypeInv, HandInv
  <2>3. IF hand[w].init THEN acct = Absent /\ hand[w].got = {}
                        ELSE acct # Torn /\ acct # Absent /\ hand[w].got = acct \cup {hand[w].fill}
    BY <2>1 DEF BookInv
  <2>4. acct # Torn
    BY <2>3
  <2>5. /\ acct = truth \/ (acct = Absent /\ truth = {})
        /\ \A v \in Writer : ~Writing(v)
    BY <2>1, <2>4 DEF BookInv
  <2>6. truth \subseteq Fill
    BY DEF TypeInv, StateTypeOK
  <2>7. IF hand[w].init THEN hand[w].got = {} /\ truth = {}
                        ELSE hand[w].got = truth \cup {hand[w].fill}
    BY <2>3, <2>5, <2>6
  <2>8. /\ hand[w] \in Hand
        /\ hand'[w] = [hand[w] EXCEPT !.pc = "write"]
        /\ \A v \in Writer \ {w} : hand'[v] = hand[v]
    BY <1>0, <2>1
  <2>9. /\ hand'[w].pc = "write" /\ hand'[w].init = hand[w].init
        /\ hand'[w].got = hand[w].got /\ hand'[w].fill = hand[w].fill
    BY <2>8 DEF Hand
  <2>10. \A v \in Writer : Writing(v)' <=> v = w
    BY <2>5, <2>8, <2>9 DEF Writing
  <2>11. \A v \in Writer \ {w} : BookInv!2!4!(v)
    BY <2>1 DEF BookInv
  <2> QED
    BY <2>1, <2>2, <2>7, <2>8, <2>9, <2>10, <2>11 DEF BookInv, Writing
<1>9. ASSUME NEW w \in Writer, Write(w) PROVE BookInv'
  <2>1. /\ hand[w] \in Hand /\ Writing(w) /\ acct # Absent /\ harm \subseteq {"untracked"}
        /\ hand' = [hand EXCEPT ![w] = Written(w)]
    BY <1>0, <1>9, WriteType DEF Write, Writing
  <2>2. acct = Torn /\ \A v \in Writer : Writing(v) => v = w
    BY <2>1 DEF BookInv
  <2>3. acct' = hand[w].got /\ acct' \in SUBSET Fill
    <3>1. acct' \in {hand[w].got}
      BY <1>9, <2>1, <2>2 DEF Write, AfterWrite
    <3> QED
      BY <1>9, <3>1, WriteType
  <2>4. acct' = truth'
    <3>1. CASE hand[w].init
      <4>1. w # "reset" /\ hand[w].got = {} /\ truth = {}
        BY <2>1, <3>1 DEF BookInv, TypeInv, HandInv
      <4> QED
        BY <1>9, <2>3, <3>1, <4>1 DEF Write
    <3>2. CASE ~hand[w].init /\ w = "reset"
      <4>1. hand[w].got = {}
        BY <3>2 DEF TypeInv, HandInv
      <4> QED
        BY <1>9, <2>3, <3>2, <4>1 DEF Write
    <3>3. CASE ~hand[w].init /\ w # "reset"
      <4>1. hand[w].got = truth \cup {hand[w].fill}
        BY <2>1, <3>3 DEF BookInv
      <4> QED
        BY <1>9, <2>3, <3>3, <4>1 DEF Write
    <3> QED
      BY <3>1, <3>2, <3>3
  <2>5. Consistent(Written(w))
    <3>1. Written(w).pc \notin {"write", "truncate"}
      BY <1>9, WriteType
    <3>2. Written(w).pc = "append" => Written(w).got = Written(w).base
      BY <2>1 DEF Written, Hand
    <3> QED
      BY <3>1, <3>2 DEF Consistent
  <2>6. hand'[w] = Written(w) /\ \A v \in Writer \ {w} : hand'[v] = hand[v]
    BY <1>0, <2>1
  <2>7. \A v \in Writer : ~Writing(v)'
    BY <2>2, <2>5, <2>6 DEF Consistent, Writing
  <2>8. acct' # Torn
    BY <2>3
  <2> QED
    BY <2>1, <2>4, <2>5, <2>6, <2>7, <2>8 DEF BookInv, Consistent, Writing
<1>10. ASSUME Stop PROVE BookInv'
  <2>1. /\ hand' = [hand EXCEPT ![pidFile] = Off] /\ pidFile \in Pid
        /\ acct' = acct /\ truth' = truth /\ harm \subseteq {"untracked"} /\ ~Writing(pidFile)
    BY <1>10 DEF Stop, TypeInv, StateTypeOK, Writing
  <2>2. Consistent(Off)
    BY DEF Off, Consistent
  <2> QED
    BY <2>1, <2>2, BookHandStep
<1>11. ASSUME View PROVE BookInv'
  <2>1. CASE UNCHANGED vars
    BY <2>1 DEF BookInv, vars, Writing
  <2>2. CASE Load("view", 0) /\ UNCHANGED <<loops, pidFile, acct, log, root, count, truth, dropped>>
    BY <1>11, <2>2, <1>load DEF View, Writing
  <2> QED
    BY <1>11, <2>1, <2>2 DEF View
<1>12. ASSUME Reset PROVE BookInv'
  <2>1. /\ hand' = [hand EXCEPT !["reset"] = [hand["reset"] EXCEPT !.pc = "write"]]
        /\ acct' = Torn /\ acct # Torn /\ truth' = truth /\ harm \subseteq {"untracked"}
    BY <1>0, <1>12 DEF Reset
  <2>2. \A v \in Writer : ~Writing(v)
    BY <2>1 DEF BookInv
  <2>3. hand'["reset"].pc = "write" /\ \A v \in Writer \ {"reset"} : hand'[v] = hand[v]
    BY <1>0, <2>1 DEF Hand
  <2>4. \A v \in Writer : Writing(v)' <=> v = "reset"
    BY <2>2, <2>3 DEF Writing
  <2> QED
    BY <2>1, <2>2, <2>3, <2>4 DEF BookInv, Writing
<1>13. ASSUME Unlink PROVE BookInv'
  <2>1. /\ hand' = [hand EXCEPT !["reset"] = [hand["reset"] EXCEPT !.pc = "off"]]
        /\ acct' = acct /\ truth' = truth /\ harm' = harm /\ ~Writing("reset")
    BY <1>0, <1>13 DEF Unlink, Writing
  <2>2. Consistent([hand["reset"] EXCEPT !.pc = "off"])
    BY <1>0 DEF Consistent, Hand
  <2> QED
    BY <2>1, <2>2, BookHandStep
<1>14. CASE UNCHANGED vars
  BY <1>14 DEF vars, BookInv, Writing
<1> QED
  BY <1>1, <1>2, <1>3, <1>4, <1>5, <1>6, <1>7, <1>8, <1>9, <1>10, <1>11, <1>12, <1>13, <1>14
     DEF Next

LEMMA BookInvExplains == BookInv => LossesAreExplained
BY DEF BookInv, LossesAreExplained, Writing

(* Four things and no others take a booked fill out of the account: a stop  *)
(* in the middle of a save, a reader that took a torn or deleted file for   *)
(* no account, a save over another's save, and housekeeping.                *)
THEOREM LossesHaveFourCauses == Spec => []LossesAreExplained
<1>1. Init => TypeInv /\ BookInv
  <2>1. ASSUME Init PROVE BookInv
    <3>1. /\ acct = Absent /\ Absent # Torn /\ truth = {}
          /\ \A w \in Writer : hand[w].pc = "off"
      BY <2>1 DEF Init, Off
    <3> QED
      BY <3>1 DEF BookInv, Writing
  <2> QED
    BY <2>1, InitType
<1>2. TypeInv /\ BookInv /\ [Next]_vars => (TypeInv /\ BookInv)'
  BY TypeStep, BookStep
<1> QED
  BY <1>1, <1>2, BookInvExplains, PTL DEF Spec

-----------------------------------------------------------------------------
(* The leaderboard: the table holds one row of a run (StoredOnce), for      *)
(* whatever order a sync takes the directories in.                          *)
(* What publishers are doing, as far as the table is concerned.             *)
SyncOK ==
  /\ sync = [p \in Publisher |-> sync[p]]
  /\ \A p \in Publisher :
       sync[p] = [pc |-> sync[p].pc, todo |-> sync[p].todo, result |-> sync[p].result]

LocalOnce ==
  \A i, j \in DOMAIN rows :
    rows[i].provider = "local" /\ rows[j].provider = "local" /\ rows[i].run = rows[j].run => i = j

Inserts(p, r) == sync[p].pc = "insert" /\ Head(sync[p].todo) = r

(* Whoever is about to insert a run is the only one, and it has no row.     *)
AloneInserting ==
  \A p \in Publisher : sync[p].pc = "insert" =>
    /\ ~Stored(Head(sync[p].todo))
    /\ \A q \in Publisher \ {p} : ~Inserts(q, Head(sync[p].todo))

OnceInv ==
  /\ IsSeq(rows) /\ SyncOK /\ raced \in BOOLEAN
  /\ ~raced => LocalOnce /\ AloneInserting

-----------------------------------------------------------------------------
(* A row appended to the table is its last, and the others stay.            *)
LEMMA AppendedRow ==
  ASSUME NEW row, IsSeq(rows), rows' = Append(rows, row)
  PROVE  /\ IsSeq(rows') /\ Len(rows) \in Nat
         /\ DOMAIN rows = 1..Len(rows) /\ DOMAIN rows' = 1..(Len(rows) + 1)
         /\ rows'[Len(rows) + 1] = row
         /\ \A i \in 1..Len(rows) : rows'[i] = rows[i]
<1>1. PICK S : rows \in Seq(S) BY DEF IsSeq
<1>. DEFINE T == S \cup {row}
<1>2. rows \in Seq(T) /\ row \in T BY <1>1
<1>. HIDE DEF T
<1>3. rows' \in Seq(T) BY <1>2
<1>4. /\ Len(rows) \in Nat /\ DOMAIN rows = 1..Len(rows)
      /\ DOMAIN rows' = 1..(Len(rows) + 1)
      /\ rows'[Len(rows) + 1] = row
      /\ \A i \in 1..Len(rows) : rows'[i] = rows[i]
  BY <1>2
<1>. QED BY <1>3, <1>4 DEF IsSeq

(* What a publisher goes on to do after a run is not to insert one.         *)
LEMMA SkippedChecks ==
  ASSUME NEW todo
  PROVE  /\ Skipped(todo).pc # "insert"
         /\ Skipped(todo) = [pc |-> Skipped(todo).pc, todo |-> Skipped(todo).todo,
                             result |-> Skipped(todo).result]
BY DEF Skipped, Idle

(* Nor is what it does with the list of runs it starts with.                *)
LEMMA ListsChecks ==
  ASSUME NEW list, NEW next, next = [Idle EXCEPT !.pc = "check", !.todo = list]
  PROVE  /\ next.pc # "insert"
         /\ next = [pc |-> next.pc, todo |-> next.todo, result |-> next.result]
<1>1. Idle = [pc |-> Idle.pc, todo |-> Idle.todo, result |-> Idle.result] BY DEF Idle
<1>. QED BY <1>1

(* A step that inserts no row, and after which a publisher does not insert, *)
(* keeps the invariant.                                                     *)
LEMMA QuietStep ==
  ASSUME OnceInv, rows' = rows, raced' = raced,
         NEW p \in Publisher, NEW next,
         next.pc # "insert",
         next = [pc |-> next.pc, todo |-> next.todo, result |-> next.result],
         sync' = [sync EXCEPT ![p] = next]
  PROVE  OnceInv'
<1>1. \A q \in Publisher : sync'[q] = IF q = p THEN next ELSE sync[q] BY DEF OnceInv, SyncOK
<1>2. SyncOK' BY <1>1 DEF OnceInv, SyncOK
<1>3. LocalOnce' = LocalOnce BY DEF LocalOnce
<1>4. \A r : Stored(r)' = Stored(r) BY DEF Stored
<1>5. AloneInserting => AloneInserting' BY <1>1, <1>4 DEF AloneInserting, Inserts
<1>. QED BY <1>2, <1>3, <1>5 DEF OnceInv, IsSeq

LEMMA InitOnce == BoardInit => OnceInv
<1>. SUFFICES ASSUME BoardInit PROVE OnceInv OBVIOUS
<1>1. rows \in Seq({}) BY DEF BoardInit
<1>2. SyncOK BY DEF BoardInit, SyncOK, Idle
<1>3. LocalOnce /\ AloneInserting BY DEF BoardInit, LocalOnce, AloneInserting, Idle
<1>. QED BY <1>1, <1>2, <1>3 DEF OnceInv, IsSeq, BoardInit

(* A provider's row is not a local one.                                     *)
LEMMA PostOnce ==
  ASSUME OnceInv, NEW p \in Provider, NEW run, NEW res, Post(p, run, res)
  PROVE  OnceInv'
<1>. DEFINE row == Row("external", p, run, clock + 1, res, NoResult)
<1>1. rows' = Append(rows, row) /\ sync' = sync /\ raced' = raced BY DEF Post, Insert
<1>2. row.provider # "local" BY LeaderboardConstants DEF Row
<1>. HIDE DEF row
<1>3. /\ IsSeq(rows') /\ Len(rows) \in Nat
      /\ DOMAIN rows = 1..Len(rows) /\ DOMAIN rows' = 1..(Len(rows) + 1)
      /\ rows'[Len(rows) + 1] = row
      /\ \A i \in 1..Len(rows) : rows'[i] = rows[i]
  BY <1>1, AppendedRow DEF OnceInv
<1>4. LocalOnce => LocalOnce' BY <1>2, <1>3 DEF LocalOnce
<1>5. \A r : Stored(r)' = Stored(r) BY <1>2, <1>3 DEF Stored
<1>6. AloneInserting => AloneInserting' BY <1>1, <1>5 DEF AloneInserting, Inserts
<1>. QED BY <1>1, <1>3, <1>4, <1>6 DEF OnceInv, SyncOK

(* The run that was looked up is inserted by the publisher that is alone    *)
(* with it, unless two of them looked at once.                              *)
LEMMA LookUpOnce ==
  ASSUME OnceInv, NEW p \in Publisher, LookUp(p)
  PROVE  OnceInv'
<1>. DEFINE r == Head(sync[p].todo)
            skips == summary[r] = NoResult \/ Stored(r)
            next == IF skips THEN Skipped(sync[p].todo)
                    ELSE [sync[p] EXCEPT !.pc = "insert", !.result = summary[r]]
<1>1. sync' = [sync EXCEPT ![p] = next] /\ rows' = rows BY DEF LookUp
<1>2. raced' = (raced \/ \E q \in Publisher \ {p} : Inserts(q, r)) BY DEF LookUp, Inserts
<1>3. \A q \in Publisher : sync'[q] = IF q = p THEN next ELSE sync[q]
  BY <1>1 DEF OnceInv, SyncOK
<1>4. next = [pc |-> next.pc, todo |-> next.todo, result |-> next.result]
  BY SkippedChecks DEF OnceInv, SyncOK
<1>5. next.pc = "insert" => ~Stored(r) /\ Head(next.todo) = r
  BY SkippedChecks DEF OnceInv, SyncOK
<1>. HIDE DEF next
<1>6. SyncOK' BY <1>1, <1>3, <1>4 DEF OnceInv, SyncOK
<1>7. raced' \in BOOLEAN BY <1>2 DEF OnceInv
<1>8. LocalOnce' = LocalOnce BY <1>1 DEF LocalOnce
<1>9. \A x : Stored(x)' = Stored(x) BY <1>1 DEF Stored
<1>10. ASSUME ~raced' PROVE AloneInserting'
  <2>1. AloneInserting /\ \A q \in Publisher \ {p} : ~Inserts(q, r)
    BY <1>2, <1>10 DEF OnceInv
  <2>. QED BY <2>1, <1>3, <1>5, <1>9 DEF AloneInserting, Inserts
<1>11. ~raced' => ~raced BY <1>2
<1>. QED BY <1>1, <1>6, <1>7, <1>8, <1>10, <1>11 DEF OnceInv, IsSeq

(* The inserted run had no row, and nobody else is about to insert it.      *)
LEMMA InsertOnce ==
  ASSUME OnceInv, NEW p \in Publisher, InsertLocal(p)
  PROVE  OnceInv'
<1>. DEFINE r == Head(sync[p].todo)
            row == Row("external", "local", r, clock + 1,
                       [sync[p].result EXCEPT !.rest = Unknown], sync[p].result)
            next == Skipped(sync[p].todo)
<1>1. /\ rows' = Append(rows, row) /\ raced' = raced
      /\ sync' = [sync EXCEPT ![p] = next] /\ sync[p].pc = "insert"
  BY DEF InsertLocal, Insert
<1>2. row.provider = "local" /\ row.run = r BY DEF Row
<1>3. /\ next.pc # "insert"
      /\ next = [pc |-> next.pc, todo |-> next.todo, result |-> next.result]
  BY SkippedChecks
<1>. HIDE DEF row, next
<1>4. /\ IsSeq(rows') /\ Len(rows) \in Nat
      /\ DOMAIN rows = 1..Len(rows) /\ DOMAIN rows' = 1..(Len(rows) + 1)
      /\ rows'[Len(rows) + 1] = row
      /\ \A i \in 1..Len(rows) : rows'[i] = rows[i]
  BY <1>1, AppendedRow DEF OnceInv
<1>5. \A q \in Publisher : sync'[q] = IF q = p THEN next ELSE sync[q]
  BY <1>1 DEF OnceInv, SyncOK
<1>6. SyncOK' BY <1>1, <1>3, <1>5 DEF OnceInv, SyncOK
<1>7. ASSUME ~raced PROVE LocalOnce' /\ AloneInserting'
  <2>1. LocalOnce /\ ~Stored(r) /\ \A q \in Publisher \ {p} : ~Inserts(q, r)
    BY <1>1, <1>7 DEF OnceInv, AloneInserting
  <2>2. LocalOnce' BY <2>1, <1>2, <1>4 DEF LocalOnce, Stored
  <2>3. \A x : Stored(x)' => Stored(x) \/ x = r BY <1>2, <1>4 DEF Stored
  <2>4. AloneInserting' BY <2>1, <2>3, <1>1, <1>3, <1>5, <1>7 DEF OnceInv, AloneInserting, Inserts
  <2>. QED BY <2>2, <2>4
<1>. QED BY <1>1, <1>4, <1>6, <1>7 DEF OnceInv

LEMMA NextOnce == OnceInv /\ [BoardNext]_boardVars => OnceInv'
<1>. SUFFICES ASSUME OnceInv, [BoardNext]_boardVars PROVE OnceInv' OBVIOUS
<1>1. ASSUME rows' = rows, sync' = sync, raced' = raced PROVE OnceInv'
  <2>1. AloneInserting' = AloneInserting BY <1>1 DEF AloneInserting, Inserts, Stored
  <2>. QED BY <1>1, <2>1 DEF OnceInv, SyncOK, LocalOnce, IsSeq
<1>2. Idle.pc # "insert" /\ Idle = [pc |-> Idle.pc, todo |-> Idle.todo, result |-> Idle.result]
  BY DEF Idle
<1>3. CASE UNCHANGED boardVars BY <1>1, <1>3 DEF boardVars
<1>4. ASSUME NEW r \in Run, StartRun(r) PROVE OnceInv' BY <1>1, <1>4 DEF StartRun
<1>5. ASSUME NEW r \in Run, PublishRun(r) PROVE OnceInv'
  <2>. DEFINE next == [Idle EXCEPT !.pc = "check", !.todo = <<r>>]
  <2>1. /\ sync' = [sync EXCEPT !["operator"] = next] /\ rows' = rows /\ raced' = raced
    BY <1>5 DEF PublishRun
  <2>2. next.pc # "insert" /\ next = [pc |-> next.pc, todo |-> next.todo, result |-> next.result]
    BY ListsChecks
  <2>. HIDE DEF next
  <2>. QED BY <2>1, <2>2, QuietStep DEF Publisher
<1>6. ASSUME NEW r \in Run, NEW res, FinishRun(r, res) PROVE OnceInv' BY <1>1, <1>6 DEF FinishRun
<1>7. ASSUME NEW p \in Provider, NEW run, NEW res, Post(p, run, res) PROVE OnceInv'
  BY <1>7, PostOnce
<1>8. ASSUME NEW run, NEW ret, NEW submits, PassEnds(run, ret, submits) PROVE OnceInv'
  BY <1>1, <1>8 DEF PassEnds
<1>9. CASE StartSync
  <2>. DEFINE next == [Idle EXCEPT !.pc = "check", !.todo = Lists]
  <2>1. /\ sync' = [sync EXCEPT !["worker"] = next] /\ rows' = rows /\ raced' = raced
    BY <1>9 DEF StartSync
  <2>2. next.pc # "insert" /\ next = [pc |-> next.pc, todo |-> next.todo, result |-> next.result]
    BY ListsChecks
  <2>. HIDE DEF next
  <2>. QED BY <2>1, <2>2, QuietStep DEF Publisher
<1>10. ASSUME NEW p \in Publisher, LookUp(p) PROVE OnceInv' BY <1>10, LookUpOnce
<1>11. ASSUME NEW p \in Publisher, InsertLocal(p) PROVE OnceInv' BY <1>11, InsertOnce
<1>12. ASSUME NEW p \in Publisher, InsertRaises(p) PROVE OnceInv'
  BY <1>2, <1>12, QuietStep DEF InsertRaises
<1>13. ASSUME NEW p \in Publisher, SyncFails(p) PROVE OnceInv'
  BY <1>2, <1>13, QuietStep DEF SyncFails
<1>. QED BY <1>3, <1>4, <1>5, <1>6, <1>7, <1>8, <1>9, <1>10, <1>11, <1>12, <1>13 DEF BoardNext

(* "Idempotent insert": a run has one row in the table, unless two          *)
(* publishers looked it up at the same time; faults, refused inserts,       *)
(* housekeeping and providers do not matter.                                *)
THEOREM OneRowPerRun == BoardSpec => []StoredOnce
<1>1. OnceInv => StoredOnce BY DEF OnceInv, StoredOnce, LocalOnce
<1>. QED BY InitOnce, NextOnce, <1>1, PTL DEF BoardSpec

-----------------------------------------------------------------------------
(* Pages.  A strict total order of the members of a set, as Ranking needs.  *)
TotalOrder(S, before) ==
  /\ \A x \in S : <<x, x>> \notin before
  /\ \A x, y, z \in S : <<x, y>> \in before /\ <<y, z>> \in before => <<x, z>> \in before
  /\ \A x, y \in S : x # y => <<x, y>> \in before \/ <<y, x>> \in before

Preceding(S, before, x) == {y \in S : <<y, x>> \in before}

(* Ranking lists every member of the set once, where so many precede it.    *)
LEMMA RankingLists ==
  ASSUME NEW S, IsFiniteSet(S), NEW before, TotalOrder(S, before)
  PROVE  /\ Cardinality(S) \in Nat
         /\ Ranking(S, before) \in [1..Cardinality(S) -> S]
         /\ \A i, j \in 1..Cardinality(S) : Ranking(S, before)[i] = Ranking(S, before)[j] => i = j
         /\ \A x \in S : \E i \in 1..Cardinality(S) : Ranking(S, before)[i] = x
         /\ \A i \in 1..Cardinality(S) : Cardinality(Preceding(S, before, Ranking(S, before)[i])) = i - 1
         /\ \A x, y \in S : Cardinality(Preceding(S, before, x)) = Cardinality(Preceding(S, before, y)) => x = y
<1> DEFINE n == Cardinality(S)
           Below(x) == {y \in S : <<y, x>> \in before}
           place == [x \in S |-> Cardinality(Below(x)) + 1]
<1>1. n \in Nat
  BY FS_CardinalityType
<1>2. \A x \in S : IsFiniteSet(Below(x)) /\ Cardinality(Below(x)) \in Nat /\ Cardinality(Below(x)) < n
  <2> TAKE x \in S
  <2>1. Below(x) \in SUBSET S /\ x \notin Below(x)
    BY DEF TotalOrder
  <2> HIDE DEF Below
  <2>2. IsFiniteSet(Below(x)) /\ Cardinality(Below(x)) <= n /\ (n = Cardinality(Below(x)) => S = Below(x))
    BY <2>1, FS_Subset
  <2>3. Cardinality(Below(x)) \in Nat
    BY <2>2, FS_CardinalityType
  <2> HIDE DEF n
  <2> QED
    BY <1>1, <2>1, <2>2, <2>3
<1>3. ASSUME NEW x \in S, NEW y \in S, <<x, y>> \in before
      PROVE  Cardinality(Below(x)) < Cardinality(Below(y))
  <2>1. Below(x) \in SUBSET Below(y) /\ x \in Below(y) /\ x \notin Below(x)
    BY <1>3 DEF TotalOrder
  <2>2. IsFiniteSet(Below(y)) /\ Cardinality(Below(x)) \in Nat /\ Cardinality(Below(y)) \in Nat
    BY <1>2
  <2> HIDE DEF Below
  <2>3. /\ Cardinality(Below(x)) <= Cardinality(Below(y))
        /\ Cardinality(Below(y)) = Cardinality(Below(x)) => Below(y) = Below(x)
    BY <2>1, <2>2, FS_Subset
  <2> QED
    BY <2>1, <2>2, <2>3
<1>4. place \in [S -> 1..n]
  <2> HIDE DEF Below, n
  <2> QED
    BY <1>1, <1>2
<1>5. \A x, y \in S : place[x] = place[y] => x = y
  <2> TAKE x \in S, y \in S
  <2>1. place[x] = Cardinality(Below(x)) + 1 /\ place[y] = Cardinality(Below(y)) + 1
    OBVIOUS
  <2>2. Cardinality(Below(x)) \in Nat /\ Cardinality(Below(y)) \in Nat
    BY <1>2
  <2> HIDE DEF place, Below
  <2>3. x # y => <<x, y>> \in before \/ <<y, x>> \in before
    BY DEF TotalOrder
  <2> QED
    BY <1>3, <2>1, <2>2, <2>3
<1>6. \A k \in 1..n : \E x \in S : place[x] = k
  <2> HIDE DEF place, n
  <2>1. place \in Injection(S, 1..n)
    BY <1>4, <1>5 DEF Injection, IsInjective
  <2>2. IsFiniteSet(1..n) /\ Cardinality(1..n) = n
    BY <1>1, FS_Interval
  <2>3. Cardinality(S) = Cardinality(1..n) => place \in Surjection(S, 1..n)
    BY <2>1, <2>2, FS_Injection
  <2>4. place \in Surjection(S, 1..n)
    BY <2>2, <2>3 DEF n
  <2> QED
    BY <2>4 DEF Surjection
<1> DEFINE r == Ranking(S, before)
<1>7. /\ DOMAIN r = 1..n /\ r = [k \in 1..n |-> r[k]]
      /\ \A k \in 1..n : r[k] = CHOOSE x \in S : Cardinality(Below(x)) = k - 1
  <2> DEFINE at(k) == CHOOSE x \in S : Cardinality(Below(x)) = k - 1
  <2>1. r = [k \in 1..n |-> at(k)]
    BY Zenon DEF Ranking
  <2>2. \A k \in 1..n : at(k) = CHOOSE x \in S : Cardinality(Below(x)) = k - 1
    BY Zenon
  <2> HIDE DEF r, Below, n, at
  <2>3. /\ DOMAIN r = 1..n /\ r = [k \in 1..n |-> r[k]]
        /\ \A k \in 1..n : r[k] = at(k)
    BY <2>1
  <2> QED
    BY <2>2, <2>3, Zenon
<1>8. \A k \in 1..n : r[k] \in S /\ place[r[k]] = k
  <2> TAKE k \in 1..n
  <2>1. PICK x \in S : place[x] = k
    BY <1>6
  <2>2. Cardinality(Below(x)) = k - 1
    <3>1. place[x] = Cardinality(Below(x)) + 1 /\ Cardinality(Below(x)) \in Nat
      BY <1>2
    <3> HIDE DEF place, Below, n
    <3> QED
      BY <1>1, <2>1, <3>1
  <2>3. r[k] \in S /\ Cardinality(Below(r[k])) = k - 1
    <3> HIDE DEF r, Below, n, place
    <3> QED
      BY <1>7, <2>2
  <2>4. place[r[k]] = Cardinality(Below(r[k])) + 1
    BY <2>3
  <2> HIDE DEF place, Below, r, n
  <2> QED
    BY <1>1, <2>3, <2>4
<1>11. \A k \in 1..n : Cardinality(Below(r[k])) = k - 1
  <2> TAKE k \in 1..n
  <2>1. r[k] \in S /\ place[r[k]] = k
    BY <1>8
  <2>2. place[r[k]] = Cardinality(Below(r[k])) + 1 /\ Cardinality(Below(r[k])) \in Nat
    BY <1>2, <2>1
  <2> HIDE DEF place, Below, r, n
  <2> QED
    BY <1>1, <2>1, <2>2
<1>12. \A x, y \in S : Cardinality(Below(x)) = Cardinality(Below(y)) => x = y
  BY <1>5
<1>13. /\ \A k \in 1..n : Cardinality(Preceding(S, before, r[k])) = k - 1
       /\ \A x, y \in S : Cardinality(Preceding(S, before, x)) = Cardinality(Preceding(S, before, y)) => x = y
  <2>1. \A x : Preceding(S, before, x) = Below(x)
    BY DEF Preceding
  <2> HIDE DEF Below, n, r, place
  <2> QED
    BY <1>11, <1>12, <2>1
<1> HIDE DEF r, place
<1>9. \A x \in S : \E i \in 1..n : r[i] = x
  <2> HIDE DEF n
  <2> QED
    BY <1>4, <1>5, <1>8
<1>10. r \in [1..n -> S] /\ \A i, j \in 1..n : r[i] = r[j] => i = j
  <2> HIDE DEF n
  <2> QED
    BY <1>7, <1>8
<1> QED
  BY <1>1, <1>9, <1>10, <1>13 DEF r

(* t is made of entries of s, each taken once at most, in any order: what   *)
(* sorting, cutting, choosing and merging do to a list of rows.             *)
Takes(t, s, h) ==
  /\ IsSeq(t) /\ h \in [1..Len(t) -> 1..Len(s)]
  /\ \A i, j \in 1..Len(t) : h[i] = h[j] => i = j
  /\ \A i \in 1..Len(t) : t[i] = s[h[i]]
TakenFrom(t, s) == \E h : Takes(t, s, h)

(* The entries at places that are all different.                            *)
LEMMA TakenAt ==
  ASSUME NEW s, IsSeq(s), NEW n \in Nat, NEW at, DOMAIN at = 1..n,
         \A i \in 1..n : at[i] \in DOMAIN s,
         \A i, j \in 1..n : at[i] = at[j] => i = j
  PROVE  LET t == [k \in DOMAIN at |-> s[at[k]]]
         IN  TakenFrom(t, s) /\ Len(t) = n /\ DOMAIN t = 1..n
<1> DEFINE t == [k \in 1..n |-> s[at[k]]]
           h == [k \in 1..n |-> at[k]]
<1>1. IsSeq(t) /\ Len(t) = n
  <2>1. DOMAIN t = 1..n /\ t = [i \in 1..n |-> t[i]]
    OBVIOUS
  <2> HIDE DEF t
  <2> QED
    BY <2>1, SeqMade
<1>2. DOMAIN s = 1..Len(s)
  BY SeqShape
<1>3. h \in [1..n -> 1..Len(s)] /\ \A i, j \in 1..n : h[i] = h[j] => i = j
  BY <1>2
<1>4. \A i \in 1..n : t[i] = s[h[i]]
  OBVIOUS
<1>5. DOMAIN t = 1..n
  OBVIOUS
<1> HIDE DEF h, t
<1>6. Takes(t, s, h)
  BY <1>1, <1>3, <1>4 DEF Takes
<1>7. t = [k \in DOMAIN at |-> s[at[k]]]
  BY DEF t
<1> QED
  BY <1>1, <1>5, <1>6, <1>7 DEF TakenFrom

LEMMA TakenEntries ==
  ASSUME NEW s, IsSeq(s), NEW t, TakenFrom(t, s)
  PROVE  IsSeq(t) /\ \A x : x \in Entries(t) => x \in Entries(s)
<1>1. PICK h : Takes(t, s, h)
  BY DEF TakenFrom
<1>2. IsSeq(t)
  BY <1>1 DEF Takes
<1>3. \A x : x \in Entries(t) <=> \E i \in 1..Len(t) : t[i] = x
  BY <1>2, SeqShape
<1>4. \A x : x \in Entries(s) <=> \E i \in 1..Len(s) : s[i] = x
  BY SeqShape
<1>5. \A i \in 1..Len(t) : h[i] \in 1..Len(s) /\ t[i] = s[h[i]]
  BY <1>1 DEF Takes
<1> QED
  BY <1>2, <1>3, <1>4, <1>5

(* No set has more members than there are places for them, and no list more *)
(* rows than the one they are taken from.                                   *)
LEMMA FewerPlaces ==
  ASSUME NEW n \in Nat, NEW I, NEW f, \A i \in I : f[i] \in 1..n,
         \A i, j \in I : f[i] = f[j] => i = j
  PROVE  IsFiniteSet(I) /\ Cardinality(I) \in Nat /\ Cardinality(I) <= n
<1> DEFINE g == [i \in I |-> f[i]]
<1>1. g \in Injection(I, 1..n)
  BY DEF Injection, IsInjective
<1>2. IsFiniteSet(1..n) /\ Cardinality(1..n) = n
  BY FS_Interval
<1>3. IsFiniteSet(I) /\ Cardinality(I) <= Cardinality(1..n)
  <2> HIDE DEF g
  <2> QED
    BY <1>1, <1>2, FS_Injection
<1> QED
  BY <1>2, <1>3, FS_CardinalityType

LEMMA TakenLen ==
  ASSUME NEW s, IsSeq(s), NEW t, TakenFrom(t, s)
  PROVE  IsSeq(t) /\ Len(t) \in Nat /\ Len(s) \in Nat /\ Len(t) <= Len(s)
<1>1. PICK h : Takes(t, s, h)
  BY DEF TakenFrom
<1>2. /\ IsSeq(t) /\ \A i \in 1..Len(t) : h[i] \in 1..Len(s)
      /\ \A i, j \in 1..Len(t) : h[i] = h[j] => i = j
  BY <1>1 DEF Takes
<1>3. Len(t) \in Nat /\ Len(s) \in Nat
  BY <1>2, SeqShape
<1>4. Cardinality(1..Len(t)) <= Len(s)
  BY <1>2, <1>3, FewerPlaces
<1>5. Cardinality(1..Len(t)) = Len(t)
  <2> DEFINE n == Len(t)
  <2>1. n \in Nat
    BY <1>3
  <2> HIDE DEF n
  <2>2. Cardinality(1..n) = n
    BY <2>1, FS_Interval
  <2> QED
    BY <2>2 DEF n
<1> QED
  BY <1>2, <1>3, <1>4, <1>5

(* Choosing.                                                                *)
LEMMA OnlyTakes ==
  ASSUME NEW s, IsSeq(s), NEW at \in SUBSET (DOMAIN s)
  PROVE  /\ TakenFrom(Only(s, at), s)
         /\ \A x : x \in Entries(Only(s, at)) <=> \E i \in at : s[i] = x
<1> DEFINE t == Only(s, at)
<1>1. PICK h : Drawn(t, s, at, h)
  BY OnlyDraws
<1>2. DOMAIN s = 1..Len(s) /\ Len(s) \in Nat
  BY SeqShape
<1> HIDE DEF t
<1>3. IsSeq(t)
  BY <1>1 DEF Drawn
<1>4. DOMAIN t = 1..Len(t) /\ Len(t) \in Nat /\ \A x : x \in Entries(t) <=> \E i \in 1..Len(t) : t[i] = x
  BY <1>3, SeqShape
<1>5. h \in [1..Len(t) -> 1..Len(s)]
  BY <1>1, <1>2 DEF Drawn
<1>6. ASSUME NEW i \in 1..Len(t), NEW j \in 1..Len(t), h[i] = h[j] PROVE i = j
  <2>1. h[i] \in 1..Len(s)
    BY <1>5
  <2>2. ~(i < j) /\ ~(j < i)
    BY <1>1, <1>2, <1>6, <2>1 DEF Drawn
  <2> QED
    BY <1>4, <2>2
<1>7. Takes(t, s, h)
  BY <1>1, <1>3, <1>5, <1>6 DEF Drawn, Takes
<1>8. \A x : x \in Entries(t) <=> \E i \in at : s[i] = x
  <2> TAKE x
  <2>1. ASSUME x \in Entries(t) PROVE \E i \in at : s[i] = x
    BY <1>1, <1>4, <2>1 DEF Drawn
  <2>2. ASSUME NEW a \in at, s[a] = x PROVE x \in Entries(t)
    <3>1. PICK i \in 1..Len(t) : h[i] = a
      BY <1>1 DEF Drawn
    <3> QED
      BY <1>1, <1>4, <2>2, <3>1 DEF Drawn
  <2> QED
    BY <2>1, <2>2
<1> QED
  BY <1>7, <1>8 DEF TakenFrom, t

(* Cutting.                                                                 *)
LEMMA UpToTakes ==
  ASSUME NEW s, IsSeq(s), NEW n \in Nat
  PROVE  /\ TakenFrom(UpTo(s, n), s)
         /\ Len(UpTo(s, n)) = IF n < Len(s) THEN n ELSE Len(s)
<1> DEFINE m == IF n < Len(s) THEN n ELSE Len(s)
           t == UpTo(s, n)
           h == [i \in 1..m |-> i]
<1>1. PICK S : s \in Seq(S)
  BY DEF IsSeq
<1>2. Len(s) \in Nat
  BY SeqShape
<1>3. m \in 0..Len(s)
  BY <1>2
<1>4. t = SubSeq(s, 1, m)
  BY DEF UpTo
<1> HIDE DEF m, t
<1>5. Len(t) = m /\ IsSeq(t) /\ \A i \in 1..m : t[i] = s[i]
  <2>1. t \in Seq(S) /\ Len(t) = m
    BY <1>1, <1>2, <1>3, <1>4
  <2>2. \A i \in 1..m : t[i] = s[i]
    BY <1>1, <1>2, <1>3, <1>4
  <2> QED
    BY <2>1, <2>2 DEF IsSeq
<1>6. h \in [1..m -> 1..Len(s)]
  BY <1>2, <1>3
<1>7. Takes(t, s, h)
  BY <1>5, <1>6 DEF Takes
<1> QED
  BY <1>5, <1>7 DEF TakenFrom, t, m

(* Turning round.                                                           *)
LEMMA ReversedTakes ==
  ASSUME NEW s, IsSeq(s)
  PROVE  TakenFrom(Reversed(s), s)
<1> DEFINE L == Len(s)
           at == [i \in 1..L |-> L - i + 1]
<1>1. L \in Nat /\ DOMAIN s = 1..L
  BY SeqShape
<1> HIDE DEF L
<1>2. DOMAIN at = 1..L /\ (\A i \in 1..L : at[i] \in DOMAIN s) /\ \A i, j \in 1..L : at[i] = at[j] => i = j
  BY <1>1
<1>3. Reversed(s) = [k \in DOMAIN at |-> s[at[k]]]
  BY <1>1 DEF Reversed, L
<1> HIDE DEF at
<1>4. TakenFrom([k \in DOMAIN at |-> s[at[k]]], s)
  BY <1>1, <1>2, TakenAt
<1> QED
  BY <1>3, <1>4

(* Sorting.                                                                 *)
LEMMA SortedTakes ==
  ASSUME NEW s, IsSeq(s), NEW before, TotalOrder(DOMAIN s, before)
  PROVE  LET at == Ranking(DOMAIN s, before)
         IN  TakenFrom([k \in DOMAIN at |-> s[at[k]]], s)
<1> DEFINE at == Ranking(DOMAIN s, before)
<1>1. DOMAIN s = 1..Len(s) /\ Len(s) \in Nat
  BY SeqShape
<1>2. IsFiniteSet(DOMAIN s) /\ Cardinality(DOMAIN s) \in Nat
  <2>1. IsFiniteSet(1..Len(s))
    BY <1>1, FS_Interval
  <2> QED
    BY <1>1, <2>1, FS_CardinalityType
<1> DEFINE n == Cardinality(DOMAIN s)
<1>3. at \in [1..n -> DOMAIN s] /\ \A i, j \in 1..n : at[i] = at[j] => i = j
  BY <1>2, RankingLists
<1> HIDE DEF at, n
<1>4. TakenFrom([k \in DOMAIN at |-> s[at[k]]], s)
  BY <1>2, <1>3, TakenAt DEF n
<1> QED
  BY <1>4 DEF at

-----------------------------------------------------------------------------
(* The types of the leaderboard's state.                                    *)
RowBy(c) ==
  [source : {"local", "external", "none"}, provider : Provider \cup {"local"},
   run : Id \cup {NoRun}, ts : 0..c, ret : Int, sharpe : Int, trades : Int, rest : Int,
   meta : Result \cup {NoResult}]

DirsOK ==
  /\ Dir(dirs) /\ Entries(dirs) \subseteq Run
  /\ summary \in [Run -> Result \cup {NoResult}]
  /\ \A r \in Run : summary[r] # NoResult => r \in Entries(dirs)

TableOK ==
  /\ clock \in Nat
  /\ \A i \in DOMAIN rows : rows[i] \in RowBy(clock)
  /\ \A i, j \in DOMAIN rows : i < j => rows[i].ts < rows[j].ts

LinesOK ==
  IsSeq(lines) /\ \A i \in DOMAIN lines : lines[i] \in RowBy(clock) /\ lines[i].provider = "local"

(* A publisher that is not idle has runs to look at, and a result exactly   *)
(* when it is about to insert it.                                           *)
PublisherOK(q) ==
  /\ q.pc \in {"idle", "check", "insert"}
  /\ q.todo \in Seq(Run) /\ (q.pc = "idle") = (q.todo = <<>>)
  /\ q.result \in Result \cup {NoResult} /\ (q.pc = "insert") = (q.result # NoResult)
SyncsOK == \A p \in Publisher : PublisherOK(sync[p])

BoardInv == OnceInv /\ DirsOK /\ TableOK /\ LinesOK /\ SyncsOK

LEMMA BoardInvTypes == BoardInv => BoardTypeOK
<1> SUFFICES ASSUME BoardInv PROVE BoardTypeOK
  OBVIOUS
<1>1. Cardinality(Entries(dirs)) = Len(dirs)
  BY DirSize DEF BoardInv, DirsOK
<1>2. \A r \in RowBy(clock) : IsRow(r)
  BY DEF RowBy, IsRow
<1>3. \A p \in Publisher : /\ sync[p].pc \in {"idle", "check", "insert"}
                           /\ (sync[p].pc = "idle") = (sync[p].todo = <<>>)
                           /\ (sync[p].pc = "insert") = (sync[p].result # NoResult)
  BY Zenon DEF BoardInv, SyncsOK, PublisherOK
<1> QED
  BY <1>1, <1>2, <1>3 DEF BoardInv, OnceInv, DirsOK, TableOK, LinesOK, BoardTypeOK

LEMMA ResultColumns ==
  /\ \A res \in Result : res.ret \in Int /\ res.sharpe \in Int /\ res.trades \in Int /\ res.rest \in Int
  /\ NoResult \notin Result
  /\ Unknown \in Int /\ Run \subseteq Id /\ NoRun \notin Id /\ Run \subseteq Nat
BY LeaderboardConstants DEF NoResult, Blank, Unknown, Id

LEMMA SeqIn ==
  ASSUME NEW s, IsSeq(s), NEW S, \A x \in Entries(s) : x \in S
  PROVE  s \in Seq(S)
<1>1. s \in Seq(Entries(s))
  BY SeqShape
<1> QED
  BY <1>1

LEMMA SkippedOK ==
  ASSUME NEW todo \in Seq(Run), todo # <<>>
  PROVE  PublisherOK(Skipped(todo))
<1>1. CASE Len(todo) = 1
  BY <1>1 DEF Skipped, PublisherOK, Idle
<1>2. CASE Len(todo) # 1
  <2>1. Tail(todo) \in Seq(Run) /\ Tail(todo) # <<>>
    <3>1. Len(todo) \in Nat /\ Len(todo) # 0
      OBVIOUS
    <3>2. Tail(todo) \in Seq(Run) /\ Len(Tail(todo)) = Len(todo) - 1
      BY <3>1
    <3>3. Len(Tail(todo)) # 0
      BY <1>2, <3>1, <3>2
    <3>4. Len(<<>>) = 0
      OBVIOUS
    <3> QED
      BY <3>2, <3>3, <3>4
  <2>2. Skipped(todo).pc = "check" /\ Skipped(todo).todo = Tail(todo) /\ Skipped(todo).result = NoResult
    BY <1>2 DEF Skipped, Idle
  <2> QED
    BY <2>1, <2>2 DEF PublisherOK
<1> QED
  BY <1>1, <1>2

LEMMA IdleOK == PublisherOK(Idle)
BY DEF PublisherOK, Idle

(* The directories by name are the directories.                             *)
LEMMA NamesListed ==
  ASSUME Dir(dirs), Entries(dirs) \subseteq Run
  PROVE  /\ IsSeq(ByName) /\ Len(ByName) = Len(dirs)
         /\ \A x : x \in Entries(ByName) <=> x \in Entries(dirs)
<1> DEFINE S == Entries(dirs)
           before == {p \in Pairs(S) : p[1] > p[2]}
           n == Cardinality(S)
           r == Ranking(S, before)
<1>1. IsFiniteSet(S) /\ n = Len(dirs)
  BY DirSize
<1>2. TotalOrder(S, before)
  <2>1. \A x \in S : x \in Nat
    BY ResultColumns
  <2>2. \A x, y \in S : <<x, y>> \in before <=> x > y
    BY DEF Pairs
  <2> HIDE DEF S, before
  <2> QED
    BY <2>1, <2>2 DEF TotalOrder
<1> HIDE DEF before
<1>3. /\ n \in Nat /\ r \in [1..n -> S]
      /\ \A x \in S : \E i \in 1..n : r[i] = x
  BY <1>1, <1>2, RankingLists
<1>4. ByName = r
  BY DEF ByName, before
<1> HIDE DEF r, n
<1>5. IsSeq(r) /\ Len(r) = n
  BY <1>3, SeqMade
<1>6. \A x : x \in Entries(r) <=> \E i \in 1..n : r[i] = x
  BY <1>3 DEF Entries
<1>7. \A x : x \in Entries(r) <=> x \in S
  <2> HIDE DEF S
  <2> QED
    BY <1>3, <1>6
<1> QED
  BY <1>1, <1>4, <1>5, <1>7

LEMMA ListsOK ==
  ASSUME DirsOK, dirs # <<>>
  PROVE  Lists \in Seq(Run) /\ Lists # <<>>
<1>1. /\ IsSeq(ByName) /\ Len(ByName) = Len(dirs)
      /\ \A x : x \in Entries(ByName) <=> x \in Entries(dirs)
  BY NamesListed DEF DirsOK
<1>2. SyncLimit \in Nat /\ SyncLimit > 0
  BY LeaderboardConstants
<1>3. TakenFrom(Lists, ByName) /\ Len(Lists) = IF SyncLimit < Len(ByName) THEN SyncLimit ELSE Len(ByName)
  BY <1>1, <1>2, UpToTakes DEF Lists
<1>4. IsSeq(Lists) /\ \A x : x \in Entries(Lists) => x \in Entries(ByName)
  BY <1>1, <1>3, TakenEntries
<1>5. Len(dirs) \in Nat /\ Len(dirs) > 0
  <2>1. PICK S : dirs \in Seq(S)
    BY DEF DirsOK, Dir, IsSeq
  <2> QED
    BY <2>1
<1>6. Len(Lists) > 0
  BY <1>1, <1>2, <1>3, <1>5
<1>7. Lists \in Seq(Run)
  BY <1>1, <1>4, SeqIn DEF DirsOK
<1> QED
  BY <1>6, <1>7

(* A publisher goes on to something else.                                   *)
LEMMA SyncStep ==
  ASSUME OnceInv, SyncsOK, NEW p \in Publisher, NEW next, PublisherOK(next),
         sync' = [sync EXCEPT ![p] = next]
  PROVE  SyncsOK'
<1>1. \A q \in Publisher : sync'[q] = IF q = p THEN next ELSE sync[q]
  BY DEF OnceInv, SyncOK
<1>2. \A q \in Publisher : PublisherOK(sync'[q])
  BY <1>1 DEF SyncsOK
<1> QED
  BY <1>2, Zenon DEF SyncsOK, PublisherOK

(* A row gets into the table, at the time it is written.                    *)
LEMMA TableStep ==
  ASSUME OnceInv, TableOK, NEW row, row \in RowBy(clock + 1), row.ts = clock + 1,
         clock' = clock + 1, rows' = Append(rows, row)
  PROVE  TableOK'
<1>1. /\ Len(rows) \in Nat
      /\ DOMAIN rows = 1..Len(rows) /\ DOMAIN rows' = 1..(Len(rows) + 1)
      /\ rows'[Len(rows) + 1] = row
      /\ \A i \in 1..Len(rows) : rows'[i] = rows[i]
  BY AppendedRow DEF OnceInv
<1>2. clock \in Nat /\ \A i \in 1..Len(rows) : rows[i] \in RowBy(clock)
  BY <1>1 DEF TableOK
<1>3. \A x \in RowBy(clock) : x \in RowBy(clock + 1) /\ x.ts \in 0..clock
  BY <1>2 DEF RowBy
<1> DEFINE n == Len(rows)
<1> HIDE DEF n
<1>4. ASSUME NEW i \in 1..(n + 1) PROVE rows'[i] \in RowBy(clock + 1)
  <2>1. CASE i = n + 1
    BY <1>1, <2>1 DEF n
  <2>2. CASE i # n + 1
    <3>1. i \in 1..n
      BY <1>1, <2>2 DEF n
    <3> QED
      BY <1>1, <1>2, <1>3, <3>1 DEF n
  <2> QED
    BY <2>1, <2>2
<1>5. ASSUME NEW i \in 1..(n + 1), NEW j \in 1..(n + 1), i < j PROVE rows'[i].ts < rows'[j].ts
  <2>1. i \in 1..n
    BY <1>1, <1>5 DEF n
  <2>2. CASE j = n + 1
    <3>1. rows'[j].ts = clock + 1
      BY <1>1, <2>2 DEF n
    <3>2. rows'[i].ts \in 0..clock
      BY <1>1, <1>2, <1>3, <2>1 DEF n
    <3>3. \A k \in 0..clock : k < clock + 1
      BY <1>2
    <3> QED
      BY <3>1, <3>2, <3>3
  <2>3. CASE j # n + 1
    <3>1. j \in 1..n
      BY <1>1, <2>3 DEF n
    <3>2. rows'[i] = rows[i] /\ rows'[j] = rows[j] /\ i \in DOMAIN rows /\ j \in DOMAIN rows
      BY <1>1, <2>1, <3>1 DEF n
    <3> QED
      BY <1>5, <3>2 DEF TableOK
  <2> QED
    BY <2>2, <2>3
<1>6. clock' \in Nat /\ \A i \in DOMAIN rows' : rows'[i] \in RowBy(clock')
  BY <1>1, <1>2, <1>4 DEF n
<1>7. \A i, j \in DOMAIN rows' : i < j => rows'[i].ts < rows'[j].ts
  BY <1>1, <1>5 DEF n
<1> QED
  BY <1>6, <1>7 DEF TableOK, RowBy

(* Later, the same rows and lines are all right.                            *)
LEMMA Later ==
  ASSUME NEW c \in Nat, NEW r \in RowBy(c)
  PROVE  r \in RowBy(c + 1)
BY DEF RowBy

LEMMA LinesStep ==
  ASSUME TableOK, LinesOK, clock' = clock + 1, lines' = lines
  PROVE  LinesOK'
<1>1. \A i \in DOMAIN lines' : lines'[i] \in RowBy(clock') /\ lines'[i].provider = "local"
  BY Later DEF TableOK, LinesOK
<1>2. IsSeq(lines)'
  BY DEF LinesOK, IsSeq
<1> QED
  BY <1>1, <1>2 DEF LinesOK, RowBy

(* Concatenation.                                                           *)
LEMMA Joined ==
  ASSUME NEW s, IsSeq(s), NEW t, IsSeq(t)
  PROVE  /\ IsSeq(s \o t) /\ Len(s) \in Nat /\ Len(t) \in Nat /\ Len(s \o t) = Len(s) + Len(t)
         /\ \A i \in 1..Len(s) : (s \o t)[i] = s[i]
         /\ \A i \in 1..Len(t) : (s \o t)[Len(s) + i] = t[i]
         /\ \A x : x \in Entries(s \o t) <=> x \in Entries(s) \/ x \in Entries(t)
<1> DEFINE S == Entries(s) \cup Entries(t)
           u == s \o t
<1>1. /\ Len(s) \in Nat /\ DOMAIN s = 1..Len(s) /\ s \in Seq(Entries(s))
      /\ \A x : x \in Entries(s) <=> \E i \in 1..Len(s) : s[i] = x
  BY SeqShape
<1>2. /\ Len(t) \in Nat /\ DOMAIN t = 1..Len(t) /\ t \in Seq(Entries(t))
      /\ \A x : x \in Entries(t) <=> \E i \in 1..Len(t) : t[i] = x
  BY SeqShape
<1>3. s \in Seq(S) /\ t \in Seq(S)
  BY <1>1, <1>2
<1> HIDE DEF S
<1>4. /\ u \in Seq(S) /\ Len(u) = Len(s) + Len(t)
      /\ \A i \in 1..Len(s) : u[i] = s[i]
      /\ \A i \in 1..Len(t) : u[Len(s) + i] = t[i]
  BY <1>3
<1> HIDE DEF u
<1>5. IsSeq(u)
  BY <1>4 DEF IsSeq
<1>6. \A x : x \in Entries(u) <=> \E i \in 1..Len(u) : u[i] = x
  BY <1>5, SeqShape
<1>7. ASSUME NEW x PROVE x \in Entries(u) <=> x \in Entries(s) \/ x \in Entries(t)
  <2>1. ASSUME x \in Entries(u) PROVE x \in Entries(s) \/ x \in Entries(t)
    <3>1. PICK i \in 1..Len(u) : u[i] = x
      BY <1>6, <2>1
    <3>2. CASE i \in 1..Len(s)
      BY <1>1, <1>4, <3>1, <3>2
    <3>3. CASE i \notin 1..Len(s)
      <4>1. i - Len(s) \in 1..Len(t) /\ i = Len(s) + (i - Len(s))
        BY <1>1, <1>2, <1>4, <3>1, <3>3
      <4> QED
        BY <1>2, <1>4, <3>1, <4>1
    <3> QED
      BY <3>2, <3>3
  <2>2. ASSUME NEW i \in 1..Len(s), s[i] = x PROVE x \in Entries(u)
    <3>1. i \in 1..Len(u)
      BY <1>1, <1>2, <1>4
    <3> QED
      BY <1>4, <1>6, <2>2, <3>1
  <2>3. ASSUME NEW i \in 1..Len(t), t[i] = x PROVE x \in Entries(u)
    <3>1. Len(s) + i \in 1..Len(u)
      BY <1>1, <1>2, <1>4
    <3> QED
      BY <1>4, <1>6, <2>3, <3>1
  <2> QED
    BY <1>1, <1>2, <2>1, <2>2, <2>3
<1> QED
  BY <1>1, <1>2, <1>4, <1>5, <1>7 DEF u

(* The line of a pass, and the other one.                                   *)
LEMMA ScannedLines ==
  ASSUME NEW run \in PassRun, NEW ret \in Int, NEW submits, clock \in Nat
  PROVE  /\ IsSeq(ScanLines(run, ret, submits))
         /\ \A x \in Entries(ScanLines(run, ret, submits)) :
              x \in RowBy(clock + 1) /\ x.provider = "local" /\ x.run \in {run, NoRun}
<1> DEFINE line == Row("local", "local", run, clock + 1, [Blank EXCEPT !.ret = ret], NoResult)
           other == Row("none", "local", NoRun, 0, Blank, NoResult)
           t == ScanLines(run, ret, submits)
<1>1. t = <<line, other>> \/ t = <<line>>
  BY DEF ScanLines
<1>2. line \in RowBy(clock + 1) /\ line.provider = "local" /\ line.run = run
  BY DEF RowBy, Row, Blank, Unknown, NoResult, Id
<1>3. other \in RowBy(clock + 1) /\ other.provider = "local" /\ other.run = NoRun
  BY DEF RowBy, Row, Blank, Unknown, NoResult
<1> HIDE DEF line, other, t
<1>4. t \in Seq({line, other}) /\ \A i \in DOMAIN t : t[i] \in {line, other}
  <2>1. CASE t = <<line, other>>
    BY <2>1
  <2>2. CASE t = <<line>>
    BY <2>2
  <2> QED
    BY <1>1, <2>1, <2>2
<1> QED
  BY <1>2, <1>3, <1>4 DEF t, IsSeq, Entries

LEMMA LinesMore ==
  ASSUME TableOK, LinesOK, NEW run \in PassRun, NEW ret \in Int, NEW submits,
         clock' = clock + 1, lines' = lines \o ScanLines(run, ret, submits)
  PROVE  LinesOK'
<1>1. clock \in Nat
  BY DEF TableOK
<1>2. /\ IsSeq(ScanLines(run, ret, submits))
      /\ \A x \in Entries(ScanLines(run, ret, submits)) : x \in RowBy(clock + 1) /\ x.provider = "local"
  BY <1>1, ScannedLines
<1>3. IsSeq(lines') /\ \A x : x \in Entries(lines') => x \in Entries(lines)
                                                        \/ x \in Entries(ScanLines(run, ret, submits))
  BY <1>2, Joined DEF LinesOK
<1>4. \A x \in Entries(lines) : x \in RowBy(clock + 1) /\ x.provider = "local"
  BY <1>1, Later DEF LinesOK, Entries
<1>5. \A i \in DOMAIN lines' : lines'[i] \in Entries(lines')
  BY DEF Entries
<1>6. \A i \in DOMAIN lines' : lines'[i] \in RowBy(clock') /\ lines'[i].provider = "local"
  BY <1>2, <1>3, <1>4, <1>5
<1> QED
  BY <1>3, <1>6 DEF LinesOK, RowBy, IsSeq

(* Directories and their summaries, as backtests and housekeeping leave     *)
(* them.                                                                    *)
LEMMA TouchedDirs ==
  ASSUME DirsOK, NEW r \in Run, dirs' = Touch(dirs, r)
  PROVE  /\ Dir(dirs') /\ Entries(dirs') \subseteq Run
         /\ \A x : x \in Entries(dirs') <=> x \in Entries(dirs) \/ x = r
<1>1. Dir(dirs') /\ \A x : x \in Entries(dirs') <=> x \in Entries(dirs) \/ x = r
  BY TouchDir DEF DirsOK
<1> QED
  BY <1>1 DEF DirsOK

LEMMA KeptDirs ==
  ASSUME DirsOK, NEW run, NEW ret, NEW submits, PassEnds(run, ret, submits)
  PROVE  /\ DirsOK'
         /\ \A x : x \in Entries(dirs') => x \in Entries(dirs)
         /\ \A r \in Run : summary'[r] = summary[r] \/ (summary'[r] = NoResult /\ r \notin Entries(dirs'))
<1> DEFINE gone == Evicted(dirs, {}, 0)
<1>1. /\ dirs' = Without(dirs, gone)
      /\ summary' = [r \in Run |-> IF r \in gone THEN NoResult ELSE summary[r]]
  BY DEF PassEnds
<1> HIDE DEF gone
<1>2. Dir(dirs') /\ \A x : x \in Entries(dirs') <=> x \in Entries(dirs) /\ x \notin gone
  BY <1>1, WithoutDir DEF DirsOK
<1>3. summary' \in [Run -> Result \cup {NoResult}]
  BY <1>1 DEF DirsOK
<1>4. \A r \in Run : summary'[r] = IF r \in gone THEN NoResult ELSE summary[r]
  BY <1>1
<1>5. DirsOK'
  BY <1>2, <1>3, <1>4 DEF DirsOK
<1> QED
  BY <1>2, <1>4, <1>5

LEMMA BoardStep == BoardInv /\ [BoardNext]_boardVars => BoardInv'
<1> SUFFICES ASSUME BoardInv, [BoardNext]_boardVars PROVE BoardInv'
  OBVIOUS
<1> USE DEF BoardInv
<1>0. OnceInv /\ OnceInv' /\ clock \in Nat
  BY NextOnce DEF TableOK
<1>dirs. ASSUME UNCHANGED <<dirs, summary>> PROVE DirsOK'
  BY <1>dirs DEF DirsOK, Dir, Distinct, IsSeq, Entries
<1>table. ASSUME UNCHANGED <<rows, clock>> PROVE TableOK'
  BY <1>table DEF TableOK, RowBy
<1>lines. ASSUME UNCHANGED <<lines, clock>> PROVE LinesOK'
  BY <1>lines DEF LinesOK, RowBy, IsSeq
<1>sync. ASSUME UNCHANGED sync PROVE SyncsOK'
  BY <1>sync DEF SyncsOK, PublisherOK
<1>1. CASE UNCHANGED boardVars
  BY <1>0, <1>1, <1>dirs, <1>table, <1>lines, <1>sync DEF boardVars
<1>2. ASSUME NEW r \in Run, StartRun(r) PROVE BoardInv'
  <2>1. dirs' = Touch(dirs, r) /\ UNCHANGED <<summary, rows, lines, sync, clock>>
    BY <1>2 DEF StartRun
  <2>2. DirsOK'
    BY <2>1, TouchedDirs DEF DirsOK
  <2> QED
    BY <1>0, <2>1, <2>2, <1>table, <1>lines, <1>sync
<1>3. ASSUME NEW r \in Run, PublishRun(r) PROVE BoardInv'
  <2> DEFINE next == [Idle EXCEPT !.pc = "check", !.todo = <<r>>]
  <2>1. sync' = [sync EXCEPT !["operator"] = next] /\ UNCHANGED <<dirs, summary, rows, lines, clock>>
    BY <1>3 DEF PublishRun
  <2>2. next.pc = "check" /\ next.todo = <<r>> /\ next.result = NoResult
    BY DEF Idle
  <2> HIDE DEF next
  <2>3. PublisherOK(next)
    BY <2>2 DEF PublisherOK
  <2>4. SyncsOK'
    BY <1>0, <2>1, <2>3, SyncStep DEF Publisher
  <2> QED
    BY <1>0, <2>1, <2>4, <1>dirs, <1>table, <1>lines
<1>4. ASSUME NEW r \in Run, NEW res \in RunResult[r], FinishRun(r, res) PROVE BoardInv'
  <2>1. /\ dirs' = Touch(dirs, r) /\ summary' = [summary EXCEPT ![r] = res]
        /\ UNCHANGED <<rows, lines, sync, clock>>
    BY <1>4 DEF FinishRun
  <2>2. res \in Result
    BY LeaderboardConstants
  <2>3. /\ summary' \in [Run -> Result \cup {NoResult}]
        /\ \A x \in Run : summary'[x] = IF x = r THEN res ELSE summary[x]
    BY <2>1, <2>2 DEF DirsOK
  <2>4. DirsOK'
    BY <2>1, <2>3, TouchedDirs DEF DirsOK
  <2> QED
    BY <1>0, <2>1, <2>4, <1>table, <1>lines, <1>sync
<1>5. ASSUME NEW p \in Provider, NEW run \in PostRun, NEW res \in PostResult \ Refused, Post(p, run, res)
      PROVE  BoardInv'
  <2> DEFINE row == Row("external", p, run, clock + 1, res, NoResult)
  <2>1. rows' = Append(rows, row) /\ clock' = clock + 1 /\ UNCHANGED <<dirs, summary, lines, sync>>
    BY <1>5 DEF Post, Insert
  <2>2. res \in Result
    BY DEF Result
  <2>3. row \in RowBy(clock + 1) /\ row.ts = clock + 1
    BY <1>0, <2>2, ResultColumns DEF RowBy, Row, Id
  <2> HIDE DEF row
  <2>4. TableOK'
    BY <1>0, <2>1, <2>3, TableStep
  <2>5. LinesOK'
    BY <2>1, LinesStep
  <2> QED
    BY <1>0, <2>1, <2>4, <2>5, <1>dirs, <1>sync
<1>6. ASSUME NEW run \in PassRun, NEW ret \in PassReturn, NEW submits \in Submits,
             PassEnds(run, ret, submits)
      PROVE  BoardInv'
  <2>1. /\ clock' = clock + 1 /\ lines' = lines \o ScanLines(run, ret, submits)
        /\ UNCHANGED <<rows, sync>>
    BY <1>6 DEF PassEnds
  <2>2. ret \in Int
    BY LeaderboardConstants
  <2>3. LinesOK'
    BY <2>1, <2>2, LinesMore
  <2>4. DirsOK'
    BY <1>6, KeptDirs
  <2>5. TableOK'
    <3>1. \A i \in DOMAIN rows : rows[i] \in RowBy(clock + 1)
      BY <1>0, Later DEF TableOK
    <3>2. /\ clock' \in Nat /\ \A i \in DOMAIN rows' : rows'[i] \in RowBy(clock')
      BY <1>0, <2>1, <3>1
    <3> QED
      BY <2>1, <3>2 DEF TableOK, RowBy
  <2> QED
    BY <1>0, <2>1, <2>3, <2>4, <2>5, <1>sync
<1>7. CASE StartSync
  <2> DEFINE next == [Idle EXCEPT !.pc = "check", !.todo = Lists]
  <2>1. /\ sync' = [sync EXCEPT !["worker"] = next] /\ dirs # <<>>
        /\ UNCHANGED <<dirs, summary, rows, lines, clock>>
    BY <1>7 DEF StartSync
  <2>2. next.pc = "check" /\ next.todo = Lists /\ next.result = NoResult
    BY DEF Idle
  <2> HIDE DEF next
  <2>3. Lists \in Seq(Run) /\ Lists # <<>>
    BY <2>1, ListsOK
  <2>4. PublisherOK(next)
    BY <2>2, <2>3 DEF PublisherOK
  <2>5. SyncsOK'
    BY <1>0, <2>1, <2>4, SyncStep DEF Publisher
  <2> QED
    BY <1>0, <2>1, <2>5, <1>dirs, <1>table, <1>lines
<1>8. ASSUME NEW p \in Publisher, LookUp(p) PROVE BoardInv'
  <2> DEFINE r == Head(sync[p].todo)
             skips == summary[r] = NoResult \/ Stored(r)
             next == IF skips THEN Skipped(sync[p].todo)
                     ELSE [sync[p] EXCEPT !.pc = "insert", !.result = summary[r]]
  <2>1. sync' = [sync EXCEPT ![p] = next] /\ UNCHANGED <<dirs, summary, rows, lines, clock>>
    BY <1>8 DEF LookUp
  <2>2. /\ sync[p].todo \in Seq(Run) /\ sync[p].todo # <<>>
        /\ sync[p] = [pc |-> sync[p].pc, todo |-> sync[p].todo, result |-> sync[p].result]
    BY <1>8 DEF LookUp, SyncsOK, PublisherOK, OnceInv, SyncOK
  <2>3. CASE skips
    <3>1. PublisherOK(Skipped(sync[p].todo))
      BY <2>2, SkippedOK
    <3> QED
      BY <1>0, <2>1, <2>3, <3>1, SyncStep, <1>dirs, <1>table, <1>lines
  <2>4. CASE ~skips
    <3>1. r \in Run
      BY <2>2
    <3>2. summary[r] \in Result \cup {NoResult} /\ summary[r] # NoResult
      BY <2>4, <3>1 DEF DirsOK
    <3>3. next.pc = "insert" /\ next.todo = sync[p].todo /\ next.result = summary[r]
      BY <2>2, <2>4
    <3> HIDE DEF next, r
    <3>4. PublisherOK(next)
      BY <2>2, <3>2, <3>3 DEF PublisherOK
    <3> QED
      BY <1>0, <2>1, <3>4, SyncStep, <1>dirs, <1>table, <1>lines
  <2> QED
    BY <2>3, <2>4
<1>9. ASSUME NEW p \in Publisher, InsertLocal(p) PROVE BoardInv'
  <2> DEFINE res == sync[p].result
             row == Row("external", "local", Head(sync[p].todo), clock + 1,
                        [res EXCEPT !.rest = Unknown], res)
  <2>1. /\ rows' = Append(rows, row) /\ clock' = clock + 1
        /\ sync' = [sync EXCEPT ![p] = Skipped(sync[p].todo)] /\ sync[p].pc = "insert"
        /\ UNCHANGED <<dirs, summary, lines>>
    BY <1>9 DEF InsertLocal, Insert
  <2>2. /\ sync[p].todo \in Seq(Run) /\ sync[p].todo # <<>> /\ res \in Result
    BY <2>1 DEF SyncsOK, PublisherOK
  <2>3. Head(sync[p].todo) \in Run
    BY <2>2
  <2>4. row \in RowBy(clock + 1) /\ row.ts = clock + 1
    <3> HIDE DEF res
    <3>1. /\ [res EXCEPT !.rest = Unknown].ret = res.ret
          /\ [res EXCEPT !.rest = Unknown].sharpe = res.sharpe
          /\ [res EXCEPT !.rest = Unknown].trades = res.trades
          /\ [res EXCEPT !.rest = Unknown].rest = Unknown
      BY <2>2, LeaderboardConstants
    <3> QED
      BY <1>0, <2>2, <2>3, <3>1, ResultColumns DEF RowBy, Row
  <2> HIDE DEF row
  <2>5. TableOK'
    BY <1>0, <2>1, <2>4, TableStep
  <2>6. LinesOK'
    BY <2>1, LinesStep
  <2>7. SyncsOK'
    <3>1. PublisherOK(Skipped(sync[p].todo))
      BY <2>2, SkippedOK
    <3> QED
      BY <1>0, <2>1, <3>1, SyncStep
  <2> QED
    BY <1>0, <2>1, <2>5, <2>6, <2>7, <1>dirs
<1>10. ASSUME NEW p \in Publisher, InsertRaises(p) \/ SyncFails(p) PROVE BoardInv'
  <2>1. sync' = [sync EXCEPT ![p] = Idle] /\ UNCHANGED <<dirs, summary, rows, lines, clock>>
    BY <1>10 DEF InsertRaises, SyncFails
  <2> QED
    BY <1>0, <2>1, IdleOK, SyncStep, <1>dirs, <1>table, <1>lines
<1> QED
  BY <1>1, <1>2, <1>3, <1>4, <1>5, <1>6, <1>7, <1>8, <1>9, <1>10 DEF BoardNext

LEMMA InitBoard == BoardInit => BoardInv
<1> SUFFICES ASSUME BoardInit PROVE BoardInv
  OBVIOUS
<1>1. DirsOK
  <2>1. Dir(dirs) /\ Entries(dirs) = {}
    BY NoEntries DEF BoardInit
  <2> QED
    BY <2>1 DEF BoardInit, DirsOK
<1>2. DOMAIN <<>> = {} /\ Dir(<<>>)
  BY NoEntries
<1>3. TableOK
  BY <1>2 DEF BoardInit, TableOK
<1>4. LinesOK
  BY <1>2 DEF BoardInit, LinesOK, Dir
<1>5. SyncsOK
  <2>1. \A p \in Publisher : sync[p] = Idle
    BY DEF BoardInit
  <2> QED
    BY <2>1, IdleOK, Zenon DEF SyncsOK
<1> QED
  BY <1>1, <1>3, <1>4, <1>5, InitOnce DEF BoardInv

(* The leaderboard's state has its type: a directory is there once, only a  *)
(* directory has a summary, the rows of the table are in the order of their *)
(* times, a publisher is busy exactly with the runs it has left, and has a  *)
(* result exactly when it is about to insert one.                           *)
THEOREM BoardTypes == BoardSpec => []BoardTypeOK
BY InitBoard, BoardStep, BoardInvTypes, PTL DEF BoardSpec

-----------------------------------------------------------------------------
(* Merging.  The recursion of Winners, and that there is a function like it.*)
IsKept(w, key, better) ==
  w = [n \in 0..Len(key) |-> IF n = 0 THEN <<>> ELSE Merged(key, better, w[n - 1], n)]

LEMMA KeptExists ==
  ASSUME NEW key, Len(key) \in Nat, NEW better
  PROVE  \E w : IsKept(w, key, better)
<1> DEFINE Step(w, n) == IF n = 0 THEN <<>> ELSE Merged(key, better, w[n - 1], n)
           Defined(m) == \E w : \A n \in 0..m : w[n] = Step(w, n)
           N == {m \in Nat : ~Defined(m)}
<1>1. Defined(0)
  <2> DEFINE w == [n \in {0} |-> <<>>]
  <2>1. \A n \in 0..0 : w[n] = Step(w, n)
    OBVIOUS
  <2> QED
    BY <2>1
<1>2. ASSUME NEW m \in Nat, Defined(m)
      PROVE  Defined(m + 1)
  <2>1. PICK w : \A n \in 0..m : w[n] = Step(w, n)
    BY <1>2
  <2> DEFINE v == [n \in 0..(m + 1) |-> IF n = m + 1 THEN Step(w, n) ELSE w[n]]
  <2>2. \A n \in 0..m : v[n] = w[n]
    OBVIOUS
  <2>3. ASSUME NEW n \in 0..(m + 1) PROVE v[n] = Step(v, n)
    <3>1. n # 0 => v[n - 1] = w[n - 1]
      BY <2>2
    <3>2. Step(v, n) = Step(w, n)
      BY <3>1
    <3>3. v[n] = Step(w, n)
      BY <2>1
    <3> QED
      BY <3>2, <3>3
  <2> QED
    BY <2>3
<1>3. \A m \in Nat : Defined(m)
  <2> HIDE DEF Defined
  <2>1. N = {}
    <3> SUFFICES ASSUME N # {} PROVE FALSE
      OBVIOUS
    <3>1. N \in SUBSET Nat
      OBVIOUS
    <3> HIDE DEF N
    <3>2. PICK m \in N : \A k \in N : m <= k
      BY <3>1, LeastNumber
    <3>3. m \in Nat /\ ~Defined(m) /\ \A k \in Nat : k < m => Defined(k)
      BY <3>2 DEF N
    <3>4. m - 1 \in Nat /\ (m - 1) + 1 = m
      BY <1>1, <3>3
    <3>5. Defined(m - 1)
      BY <3>3, <3>4
    <3>6. Defined((m - 1) + 1)
      BY <1>2, <3>4, <3>5
    <3> QED
      BY <3>3, <3>4, <3>6
  <2> QED
    BY <2>1
<1>4. PICK w : \A n \in 0..Len(key) : w[n] = Step(w, n)
  BY <1>3
<1> DEFINE v == [n \in 0..Len(key) |-> w[n]]
<1>5. \A n \in 0..Len(key) : v[n] = Step(v, n)
  <2> TAKE n \in 0..Len(key)
  <2>1. n # 0 => v[n - 1] = w[n - 1]
    OBVIOUS
  <2> QED
    BY <1>4, <2>1
<1>6. IsKept(v, key, better)
  BY <1>5 DEF IsKept
<1> QED
  BY <1>6

LEMMA WinnersAreKept ==
  ASSUME NEW key, Len(key) \in Nat, NEW better
  PROVE  \E w : IsKept(w, key, better) /\ Winners(key, better) = w[Len(key)]
<1> DEFINE w == CHOOSE w : w = [n \in 0..Len(key) |-> IF n = 0 THEN <<>>
                                                      ELSE Merged(key, better, w[n - 1], n)]
<1>1. Winners(key, better) = w[Len(key)]
  BY Zenon DEF Winners
<1>2. \E v : v = [n \in 0..Len(key) |-> IF n = 0 THEN <<>> ELSE Merged(key, better, v[n - 1], n)]
  <2>1. PICK v : IsKept(v, key, better)
    BY KeptExists
  <2>2. v = [n \in 0..Len(key) |-> IF n = 0 THEN <<>> ELSE Merged(key, better, v[n - 1], n)]
    BY <2>1, Zenon DEF IsKept
  <2> QED
    BY <2>2, Zenon
<1>3. IsKept(w, key, better)
  BY <1>2, Zenon DEF IsKept
<1> QED
  BY <1>1, <1>3

(* Places before n + 1, of one row of each key that has come up.            *)
OfEach(at, key, n) ==
  /\ IsSeq(at) /\ \A i \in DOMAIN at : at[i] \in 1..n
  /\ \A i, j \in DOMAIN at : key[at[i]] = key[at[j]] => i = j
  /\ \A m \in 1..n : \E i \in DOMAIN at : key[at[i]] = key[m]

LEMMA MergedOnce ==
  ASSUME NEW key, NEW better, NEW n \in Nat, NEW at, OfEach(at, key, n)
  PROVE  OfEach(Merged(key, better, at, n + 1), key, n + 1)
<1> DEFINE L == Len(at)
           same == {k \in DOMAIN at : key[at[k]] = key[n + 1]}
<1>1. IsSeq(at) /\ L \in Nat /\ DOMAIN at = 1..L
  BY SeqShape DEF OfEach
<1>2. \A i \in 1..L : at[i] \in 1..n /\ at[i] \in 1..(n + 1)
  BY <1>1 DEF OfEach
<1>3. CASE same = {}
  <2> DEFINE u == Append(at, n + 1)
  <2>1. u = Merged(key, better, at, n + 1)
    BY <1>3 DEF Merged
  <2>2. IsSeq(u) /\ DOMAIN u = 1..(L + 1) /\ u[L + 1] = n + 1 /\ \A i \in 1..L : u[i] = at[i]
    <3>1. at \in Seq(1..(n + 1))
      <4>1. at \in Seq(Entries(at)) /\ \A x \in Entries(at) : x \in 1..(n + 1)
        BY <1>1, <1>2, SeqShape DEF Entries
      <4> QED
        BY <4>1
    <3>2. u \in Seq(1..(n + 1)) /\ DOMAIN u = 1..(L + 1) /\ u[L + 1] = n + 1 /\ \A i \in 1..L : u[i] = at[i]
      BY <3>1
    <3> QED
      BY <3>2 DEF IsSeq
  <2>3. \A i \in 1..L : key[at[i]] # key[n + 1]
    BY <1>1, <1>3
  <2> HIDE DEF L, u
  <2>4. \A i \in 1..(L + 1) : i = L + 1 \/ i \in 1..L
    BY <1>1
  <2>5. \A i \in 1..(L + 1) : u[i] \in 1..(n + 1)
    BY <1>2, <2>2, <2>4
  <2>6. ASSUME NEW i \in 1..(L + 1), NEW j \in 1..(L + 1), key[u[i]] = key[u[j]] PROVE i = j
    <3>1. CASE i \in 1..L /\ j \in 1..L
      BY <1>1, <2>2, <2>6, <3>1 DEF OfEach
    <3>2. CASE i = L + 1 /\ j \in 1..L
      BY <2>2, <2>3, <2>6, <3>2
    <3>3. CASE i \in 1..L /\ j = L + 1
      BY <2>2, <2>3, <2>6, <3>3
    <3> QED
      BY <2>4, <3>1, <3>2, <3>3
  <2>7. ASSUME NEW m \in 1..(n + 1) PROVE \E i \in 1..(L + 1) : key[u[i]] = key[m]
    <3>1. CASE m = n + 1
      <4>1. L + 1 \in 1..(L + 1)
        BY <1>1
      <4> QED
        BY <2>2, <3>1, <4>1
    <3>2. CASE m # n + 1
      <4>1. m \in 1..n
        BY <3>2
      <4>2. PICK i \in 1..L : key[at[i]] = key[m]
        BY <1>1, <4>1 DEF OfEach
      <4> QED
        BY <1>1, <2>2, <4>2
    <3> QED
      BY <3>1, <3>2
  <2> QED
    BY <2>1, <2>2, <2>5, <2>6, <2>7 DEF OfEach
<1>4. CASE same # {}
  <2> DEFINE u == [k \in DOMAIN at |-> IF k \in same /\ <<n + 1, at[k]>> \in better THEN n + 1 ELSE at[k]]
  <2>1. u = Merged(key, better, at, n + 1)
    BY <1>4 DEF Merged
  <2>2. /\ DOMAIN u = 1..L /\ u = [i \in 1..L |-> u[i]]
        /\ \A i \in 1..L : u[i] = at[i] \/ (i \in same /\ u[i] = n + 1)
    BY <1>1
  <2> HIDE DEF u
  <2>3. IsSeq(u)
    BY <1>1, <2>2, SeqMade
  <2>4. \A i \in same : key[at[i]] = key[n + 1]
    OBVIOUS
  <2>7. same # {} /\ same \in SUBSET (1..L)
    BY <1>1, <1>4
  <2> HIDE DEF L, same
  <2>5. \A i \in 1..L : u[i] \in 1..(n + 1) /\ key[u[i]] = key[at[i]]
    BY <1>2, <2>2, <2>4
  <2>6. \A i, j \in 1..L : key[u[i]] = key[u[j]] => i = j
    <3>1. \A i, j \in 1..L : key[at[i]] = key[at[j]] => i = j
      BY <1>1 DEF OfEach
    <3> QED
      BY <2>5, <3>1
  <2>8. ASSUME NEW m \in 1..(n + 1) PROVE \E i \in 1..L : key[u[i]] = key[m]
    <3>1. CASE m = n + 1
      BY <2>4, <2>5, <2>7, <3>1
    <3>2. CASE m # n + 1
      <4>1. m \in 1..n
        BY <3>2
      <4>2. PICK i \in 1..L : key[at[i]] = key[m]
        BY <1>1, <4>1 DEF OfEach
      <4> QED
        BY <2>5, <4>2
    <3> QED
      BY <3>1, <3>2
  <2> QED
    BY <2>1, <2>2, <2>3, <2>5, <2>6, <2>8 DEF OfEach
<1> QED
  BY <1>3, <1>4

LEMMA KeptOnce ==
  ASSUME NEW key, Len(key) \in Nat, NEW better, NEW w, IsKept(w, key, better)
  PROVE  \A n \in 0..Len(key) : OfEach(w[n], key, n)
<1> DEFINE L == Len(key)
<1>2. \A n \in 0..L : w[n] = IF n = 0 THEN <<>> ELSE Merged(key, better, w[n - 1], n)
  BY Zenon DEF IsKept
<1> DEFINE Good(n) == OfEach(w[n], key, n)
           N == {n \in Nat : n <= L /\ ~Good(n)}
<1>3. L \in Nat
  OBVIOUS
<1> HIDE DEF L
<1>4. Good(0)
  <2>1. w[0] = <<>>
    <3>1. 0 \in 0..L
      BY <1>3
    <3> QED
      BY <1>2, <3>1, Zenon
  <2>2. IsSeq(<<>>) /\ DOMAIN <<>> = {}
    BY NoEntries DEF Dir
  <2> QED
    BY <2>1, <2>2 DEF OfEach
<1>5. ASSUME NEW n \in Nat, n + 1 <= L, Good(n) PROVE Good(n + 1)
  <2>1. w[n + 1] = Merged(key, better, w[n], n + 1)
    <3>1. n + 1 \in 0..L /\ n + 1 # 0 /\ (n + 1) - 1 = n
      BY <1>3, <1>5
    <3> QED
      BY <1>2, <3>1
  <2> QED
    BY <1>5, <2>1, MergedOnce
<1> HIDE DEF Good
<1>6. N = {}
  <2> SUFFICES ASSUME N # {} PROVE FALSE
    OBVIOUS
  <2>1. N \in SUBSET Nat
    OBVIOUS
  <2> HIDE DEF N
  <2>2. PICK m \in N : \A k \in N : m <= k
    BY <2>1, LeastNumber
  <2>3. m \in Nat /\ m <= L /\ ~Good(m) /\ \A k \in Nat : k <= L /\ k < m => Good(k)
    BY <2>2 DEF N
  <2>4. m - 1 \in Nat /\ (m - 1) + 1 = m
    BY <1>4, <2>3
  <2>5. Good(m - 1) /\ (m - 1) + 1 <= L
    BY <1>3, <2>3, <2>4
  <2>6. Good((m - 1) + 1)
    BY <1>5, <2>4, <2>5
  <2> QED
    BY <2>3, <2>4, <2>6
<1>7. \A n \in 0..L : Good(n)
  <2> TAKE n \in 0..L
  <2>1. n \in Nat /\ n <= L /\ n \notin N
    BY <1>3, <1>6
  <2> QED
    BY <2>1
<1> QED
  BY <1>7 DEF Good, L

LEMMA WinnersOnce ==
  ASSUME NEW key, Len(key) \in Nat, NEW better
  PROVE  OfEach(Winners(key, better), key, Len(key))
<1>1. PICK w : IsKept(w, key, better) /\ Winners(key, better) = w[Len(key)]
  BY WinnersAreKept
<1>2. Len(key) \in 0..Len(key)
  OBVIOUS
<1> QED
  BY <1>1, <1>2, KeptOnce

(* What OneEach does, in terms of its keys.                                 *)
(* t is what is picked of s, at being the places of the winners.            *)
Picked(t, s, at) == t = [k \in DOMAIN at |-> s[at[k]]]
Best(t, s, key, better) ==
  /\ IsSeq(s) /\ DOMAIN key = DOMAIN s /\ key = [i \in DOMAIN s |-> key[i]]
  /\ Picked(t, s, Winners(key, better))
OneOf(t, s, key) ==
  \E h : /\ Takes(t, s, h) /\ \A i, j \in 1..Len(t) : key[h[i]] = key[h[j]] => i = j
         /\ \A m \in 1..Len(s) : \E i \in 1..Len(t) : key[h[i]] = key[m]

LEMMA OneOfEach ==
  ASSUME NEW s, NEW key, NEW better, NEW t, Best(t, s, key, better)
  PROVE  OneOf(t, s, key)
<1> DEFINE at == Winners(key, better)
<1>1. Len(s) \in Nat /\ DOMAIN s = 1..Len(s)
  BY SeqShape DEF Best
<1>2. Len(key) = Len(s)
  BY <1>1, SeqMade DEF Best
<1>3. OfEach(at, key, Len(s))
  BY <1>1, <1>2, WinnersOnce DEF Best
<1> HIDE DEF at
<1>4. IsSeq(at)
  BY <1>3 DEF OfEach
<1>5. Len(at) \in Nat /\ DOMAIN at = 1..Len(at)
  BY <1>4, SeqShape
<1>6. /\ DOMAIN t = 1..Len(at) /\ t = [i \in 1..Len(at) |-> t[i]]
      /\ \A i \in 1..Len(at) : t[i] = s[at[i]]
  BY <1>5 DEF Best, Picked, at
<1>7. IsSeq(t) /\ Len(t) = Len(at)
  BY <1>5, <1>6, SeqMade
<1> DEFINE h == [i \in 1..Len(at) |-> at[i]]
<1>8. h \in [1..Len(t) -> 1..Len(s)] /\ \A i \in 1..Len(t) : h[i] = at[i]
  BY <1>3, <1>5, <1>7 DEF OfEach
<1> HIDE DEF h
<1>9. \A i, j \in 1..Len(t) : key[h[i]] = key[h[j]] => i = j
  <2> SUFFICES ASSUME NEW i \in 1..Len(t), NEW j \in 1..Len(t), key[h[i]] = key[h[j]]
               PROVE  i = j
    OBVIOUS
  <2>1. i \in 1..Len(at) /\ j \in 1..Len(at) /\ key[at[i]] = key[at[j]]
    BY <1>7, <1>8
  <2> QED
    BY <1>3, <2>1 DEF OfEach
<1>10. \A i, j \in 1..Len(t) : h[i] = h[j] => i = j
  BY <1>9
<1>11. Takes(t, s, h)
  BY <1>6, <1>7, <1>8, <1>10 DEF Takes
<1>12. \A m \in 1..Len(s) : \E i \in 1..Len(t) : key[h[i]] = key[m]
  <2> TAKE m \in 1..Len(s)
  <2>1. PICK i \in 1..Len(at) : key[at[i]] = key[m]
    BY <1>3, <1>5 DEF OfEach
  <2> QED
    BY <1>7, <1>8, <2>1
<1> QED
  BY <1>9, <1>11, <1>12 DEF OneOf

-----------------------------------------------------------------------------
(* What the table holds of a run is what its summary holds, for as long as  *)
(* there is one: a name is not used again while there is a row of it, or a  *)
(* publisher has it in its list.                                            *)
Known(d, s, r, res) == res # NoResult /\ (s[r] = res \/ (s[r] = NoResult /\ r \notin Entries(d)))

KnownInv ==
  /\ \A i \in DOMAIN rows : rows[i].run \in Run => Known(dirs, summary, rows[i].run, rows[i].meta)
  /\ \A p \in Publisher : sync[p].pc = "insert" => Known(dirs, summary, Head(sync[p].todo), sync[p].result)
  /\ \A i \in DOMAIN lines : lines[i].run \notin Run

(* A step after which everything known is still known, and no publisher     *)
(* inserts that did not.                                                    *)
LEMMA KnownKept ==
  ASSUME BoardInv, KnownInv, UNCHANGED <<rows, lines>>,
         \A r \in Run : \A res : Known(dirs, summary, r, res) => Known(dirs', summary', r, res),
         \A p \in Publisher : sync'[p].pc = "insert" => sync'[p] = sync[p]
  PROVE  KnownInv'
<1>1. \A p \in Publisher : sync[p].pc = "insert" => Head(sync[p].todo) \in Run
  <2> TAKE p \in Publisher
  <2> HAVE sync[p].pc = "insert"
  <2>1. sync[p].todo \in Seq(Run) /\ sync[p].todo # <<>>
    BY DEF BoardInv, SyncsOK, PublisherOK
  <2> QED
    BY <2>1
<1>2. \A p \in Publisher : sync'[p].pc = "insert" => Known(dirs', summary', Head(sync'[p].todo), sync'[p].result)
  <2> TAKE p \in Publisher
  <2> HAVE sync'[p].pc = "insert"
  <2>1. sync'[p] = sync[p]
    OBVIOUS
  <2>2. Known(dirs, summary, Head(sync[p].todo), sync[p].result) /\ Head(sync[p].todo) \in Run
    BY <1>1, <2>1 DEF KnownInv
  <2> QED
    BY <2>1, <2>2 DEF Known
<1>3. \A i \in DOMAIN rows' : rows'[i].run \in Run => Known(dirs', summary', rows'[i].run, rows'[i].meta)
  BY DEF KnownInv, Known
<1> QED
  BY <1>2, <1>3 DEF KnownInv, Known

LEMMA KnownStep == BoardInv /\ KnownInv /\ [BoardNext]_boardVars => KnownInv'
<1> SUFFICES ASSUME BoardInv, KnownInv, [BoardNext]_boardVars PROVE KnownInv'
  OBVIOUS
<1>0. OnceInv /\ DirsOK /\ SyncsOK
  BY DEF BoardInv
<1>same. ASSUME UNCHANGED <<dirs, summary>> PROVE \A r \in Run : \A res : Known(dirs, summary, r, res) => Known(dirs', summary', r, res)
  BY <1>same DEF Known, Entries
<1>sync. ASSUME NEW p \in Publisher, NEW next, next.pc # "insert", sync' = [sync EXCEPT ![p] = next]
         PROVE  \A q \in Publisher : sync'[q].pc = "insert" => sync'[q] = sync[q]
  BY <1>0, <1>sync DEF OnceInv, SyncOK
<1>idle. Idle.pc = "idle"
  BY DEF Idle
<1>1. CASE UNCHANGED boardVars
  BY <1>1, <1>same, KnownKept DEF boardVars
<1>2. ASSUME NEW r \in Run, StartRun(r) PROVE KnownInv'
  <2>1. /\ dirs' = Touch(dirs, r) /\ UNCHANGED <<summary, rows, lines, sync>>
        /\ \A i \in DOMAIN rows : rows[i].run # r
        /\ \A p \in Publisher : r \notin Entries(sync[p].todo)
    BY <1>2 DEF StartRun
  <2>2. \A x : x \in Entries(dirs') <=> x \in Entries(dirs) \/ x = r
    BY <1>0, <2>1, TouchedDirs
  <2>3. \A x, res : x # r /\ Known(dirs, summary, x, res) => Known(dirs', summary', x, res)
    BY <2>1, <2>2 DEF Known
  <2>4. \A p \in Publisher : sync[p].pc = "insert" => Head(sync[p].todo) # r
    <3> TAKE p \in Publisher
    <3> HAVE sync[p].pc = "insert"
    <3>1. sync[p].todo \in Seq(Run) /\ sync[p].todo # <<>>
      BY <1>0 DEF SyncsOK, PublisherOK
    <3>2. 1 \in DOMAIN sync[p].todo /\ Head(sync[p].todo) = sync[p].todo[1]
      BY <3>1
    <3>3. Head(sync[p].todo) \in Entries(sync[p].todo)
      BY <3>2 DEF Entries
    <3> QED
      BY <2>1, <3>3
  <2>5. \A i \in DOMAIN rows' : rows'[i].run \in Run => Known(dirs', summary', rows'[i].run, rows'[i].meta)
    <3>1. \A i \in DOMAIN rows : rows[i].run \in Run => Known(dirs', summary', rows[i].run, rows[i].meta)
      <4> TAKE i \in DOMAIN rows
      <4> HAVE rows[i].run \in Run
      <4>1. Known(dirs, summary, rows[i].run, rows[i].meta) /\ rows[i].run # r
        BY <2>1 DEF KnownInv
      <4> QED
        BY <2>1, <2>2, <4>1 DEF Known
    <3> QED
      BY <2>1, <3>1 DEF Known
  <2>6. \A p \in Publisher : sync'[p].pc = "insert" => Known(dirs', summary', Head(sync'[p].todo), sync'[p].result)
    <3> TAKE p \in Publisher
    <3> HAVE sync'[p].pc = "insert"
    <3>1. Known(dirs, summary, Head(sync[p].todo), sync[p].result) /\ Head(sync[p].todo) # r
      BY <2>1, <2>4 DEF KnownInv
    <3> QED
      BY <2>1, <2>2, <3>1 DEF Known
  <2> QED
    BY <2>1, <2>5, <2>6 DEF KnownInv, Known
<1>3. ASSUME NEW r \in Run, PublishRun(r) PROVE KnownInv'
  <2> DEFINE next == [Idle EXCEPT !.pc = "check", !.todo = <<r>>]
  <2>1. sync' = [sync EXCEPT !["operator"] = next] /\ UNCHANGED <<dirs, summary, rows, lines>>
    BY <1>3 DEF PublishRun
  <2>2. next.pc # "insert"
    BY DEF Idle
  <2> HIDE DEF next
  <2>3. \A q \in Publisher : sync'[q].pc = "insert" => sync'[q] = sync[q]
    BY <2>1, <2>2, <1>sync DEF Publisher
  <2> QED
    BY <2>1, <2>3, <1>same, KnownKept
<1>4. ASSUME NEW r \in Run, NEW res \in RunResult[r], FinishRun(r, res) PROVE KnownInv'
  <2>1. /\ dirs' = Touch(dirs, r) /\ summary' = [summary EXCEPT ![r] = res]
        /\ UNCHANGED <<rows, lines, sync>> /\ r \in Entries(dirs) /\ summary[r] = NoResult
    BY <1>4 DEF FinishRun
  <2>2. \A x : x \in Entries(dirs') <=> x \in Entries(dirs)
    BY <1>0, <2>1, TouchedDirs
  <2>3. \A x \in Run : \A m : Known(dirs, summary, x, m) => Known(dirs', summary', x, m)
    <3> TAKE x \in Run
    <3> TAKE m
    <3> HAVE Known(dirs, summary, x, m)
    <3>1. x # r
      BY <2>1 DEF Known
    <3>2. summary'[x] = summary[x]
      BY <1>0, <2>1, <3>1 DEF DirsOK
    <3> QED
      BY <2>2, <3>2 DEF Known
  <2> QED
    BY <2>1, <2>3, KnownKept
<1>5. ASSUME NEW p \in Provider, NEW run \in PostRun, NEW res, Post(p, run, res) PROVE KnownInv'
  <2> DEFINE row == Row("external", p, run, clock + 1, res, NoResult)
  <2>1. rows' = Append(rows, row) /\ UNCHANGED <<dirs, summary, lines, sync>>
    BY <1>5 DEF Post, Insert
  <2>2. row.run \notin Run
    BY LeaderboardConstants DEF Row
  <2> HIDE DEF row
  <2>3. /\ Len(rows) \in Nat /\ DOMAIN rows = 1..Len(rows) /\ DOMAIN rows' = 1..(Len(rows) + 1)
        /\ rows'[Len(rows) + 1] = row /\ \A i \in 1..Len(rows) : rows'[i] = rows[i]
    BY <1>0, <2>1, AppendedRow DEF OnceInv
  <2>4. \A i \in DOMAIN rows' : rows'[i].run \in Run => i \in DOMAIN rows /\ rows'[i] = rows[i]
    BY <2>2, <2>3
  <2>5. \A i \in DOMAIN rows' : rows'[i].run \in Run => Known(dirs', summary', rows'[i].run, rows'[i].meta)
    BY <2>1, <2>4 DEF KnownInv, Known
  <2> QED
    BY <2>1, <2>5 DEF KnownInv, Known
<1>6. ASSUME NEW run \in PassRun, NEW ret \in PassReturn, NEW submits \in Submits,
             PassEnds(run, ret, submits)
      PROVE  KnownInv'
  <2>1. lines' = lines \o ScanLines(run, ret, submits) /\ UNCHANGED <<rows, sync>>
    BY <1>6 DEF PassEnds
  <2>2. /\ \A x : x \in Entries(dirs') => x \in Entries(dirs)
        /\ \A r \in Run : summary'[r] = summary[r] \/ (summary'[r] = NoResult /\ r \notin Entries(dirs'))
    BY <1>0, <1>6, KeptDirs
  <2>3. \A r \in Run : \A m : Known(dirs, summary, r, m) => Known(dirs', summary', r, m)
    BY <2>2 DEF Known
  <2>4. \A i \in DOMAIN rows' : rows'[i].run \in Run => Known(dirs', summary', rows'[i].run, rows'[i].meta)
    BY <2>1, <2>3 DEF KnownInv, Known
  <2>5. \A p \in Publisher : sync'[p].pc = "insert" => Known(dirs', summary', Head(sync'[p].todo), sync'[p].result)
    <3> TAKE p \in Publisher
    <3> HAVE sync'[p].pc = "insert"
    <3>1. sync[p].todo \in Seq(Run) /\ sync[p].todo # <<>>
      BY <1>0, <2>1 DEF SyncsOK, PublisherOK
    <3>2. Head(sync[p].todo) \in Run
      BY <3>1
    <3>3. Known(dirs, summary, Head(sync[p].todo), sync[p].result)
      BY <2>1 DEF KnownInv
    <3> QED
      BY <2>1, <2>3, <3>2, <3>3 DEF Known
  <2>6. \A i \in DOMAIN lines' : lines'[i].run \notin Run
    <3>1. clock \in Nat /\ ret \in Int /\ IsSeq(lines)
      BY LeaderboardConstants DEF BoardInv, TableOK, LinesOK
    <3>2. /\ IsSeq(ScanLines(run, ret, submits))
          /\ \A x \in Entries(ScanLines(run, ret, submits)) : x.run \in {run, NoRun}
      BY <3>1, ScannedLines
    <3>3. \A x : x \in Entries(lines') => x \in Entries(lines) \/ x \in Entries(ScanLines(run, ret, submits))
      BY <2>1, <3>1, <3>2, Joined
    <3>4. run \notin Run /\ NoRun \notin Run
      BY LeaderboardConstants DEF Id
    <3>5. \A x \in Entries(lines) : x.run \notin Run
      BY DEF KnownInv, Entries
    <3>6. \A i \in DOMAIN lines' : lines'[i] \in Entries(lines')
      BY DEF Entries
    <3> QED
      BY <3>2, <3>3, <3>4, <3>5, <3>6
  <2> QED
    BY <2>4, <2>5, <2>6 DEF KnownInv, Known
<1>7. CASE StartSync
  <2> DEFINE next == [Idle EXCEPT !.pc = "check", !.todo = Lists]
  <2>1. sync' = [sync EXCEPT !["worker"] = next] /\ UNCHANGED <<dirs, summary, rows, lines>>
    BY <1>7 DEF StartSync
  <2>2. next.pc # "insert"
    BY DEF Idle
  <2> HIDE DEF next
  <2>3. \A q \in Publisher : sync'[q].pc = "insert" => sync'[q] = sync[q]
    BY <2>1, <2>2, <1>sync DEF Publisher
  <2> QED
    BY <2>1, <2>3, <1>same, KnownKept
<1>8. ASSUME NEW p \in Publisher, LookUp(p) PROVE KnownInv'
  <2> DEFINE r == Head(sync[p].todo)
             skips == summary[r] = NoResult \/ Stored(r)
             looked == [sync[p] EXCEPT !.pc = "insert", !.result = summary[r]]
  <2>1. /\ sync' = [sync EXCEPT ![p] = IF skips THEN Skipped(sync[p].todo) ELSE looked]
        /\ UNCHANGED <<dirs, summary, rows, lines>>
    BY <1>8 DEF LookUp
  <2>2. CASE skips
    <3>1. \A q \in Publisher : sync'[q].pc = "insert" => sync'[q] = sync[q]
      BY <2>1, <2>2, SkippedChecks, <1>sync
    <3> QED
      BY <2>1, <3>1, <1>same, KnownKept
  <2>3. CASE ~skips
    <3>1. looked.todo = sync[p].todo /\ looked.result = summary[r]
      BY <1>0 DEF OnceInv, SyncOK
    <3> HIDE DEF looked
    <3>2. \A q \in Publisher : sync'[q] = IF q = p THEN looked ELSE sync[q]
      BY <1>0, <2>1, <2>3 DEF OnceInv, SyncOK
    <3>3. \A q \in Publisher : sync'[q].pc = "insert" => Known(dirs', summary', Head(sync'[q].todo), sync'[q].result)
      <4> TAKE q \in Publisher
      <4> HAVE sync'[q].pc = "insert"
      <4>1. CASE q = p
        BY <2>1, <2>3, <3>1, <3>2, <4>1 DEF Known
      <4>2. CASE q # p
        <5>1. Known(dirs, summary, Head(sync[q].todo), sync[q].result)
          BY <3>2, <4>2 DEF KnownInv
        <5> QED
          BY <2>1, <3>2, <4>2, <5>1 DEF Known
      <4> QED
        BY <4>1, <4>2
    <3>4. \A i \in DOMAIN rows' : rows'[i].run \in Run => Known(dirs', summary', rows'[i].run, rows'[i].meta)
      BY <2>1 DEF KnownInv, Known
    <3> QED
      BY <2>1, <3>3, <3>4 DEF KnownInv, Known
  <2> QED
    BY <2>2, <2>3
<1>9. ASSUME NEW p \in Publisher, InsertLocal(p) PROVE KnownInv'
  <2> DEFINE res == sync[p].result
             row == Row("external", "local", Head(sync[p].todo), clock + 1,
                        [res EXCEPT !.rest = Unknown], res)
  <2>1. /\ rows' = Append(rows, row) /\ sync[p].pc = "insert"
        /\ sync' = [sync EXCEPT ![p] = Skipped(sync[p].todo)]
        /\ UNCHANGED <<dirs, summary, lines>>
    BY <1>9 DEF InsertLocal, Insert
  <2>2. row.run = Head(sync[p].todo) /\ row.meta = res
    BY DEF Row
  <2>3. Known(dirs, summary, row.run, row.meta)
    BY <2>1, <2>2 DEF KnownInv
  <2> HIDE DEF row, res
  <2>4. /\ Len(rows) \in Nat /\ DOMAIN rows = 1..Len(rows) /\ DOMAIN rows' = 1..(Len(rows) + 1)
        /\ rows'[Len(rows) + 1] = row /\ \A i \in 1..Len(rows) : rows'[i] = rows[i]
    BY <1>0, <2>1, AppendedRow DEF OnceInv
  <2>5. \A i \in DOMAIN rows' : rows'[i] = row \/ (i \in DOMAIN rows /\ rows'[i] = rows[i])
    BY <2>4
  <2>6. \A i \in DOMAIN rows' : rows'[i].run \in Run => Known(dirs, summary, rows'[i].run, rows'[i].meta)
    BY <2>3, <2>5 DEF KnownInv
  <2>7. \A i \in DOMAIN rows' : rows'[i].run \in Run => Known(dirs', summary', rows'[i].run, rows'[i].meta)
    BY <2>1, <2>6 DEF Known
  <2>8. \A q \in Publisher : sync'[q].pc = "insert" => sync'[q] = sync[q]
    BY <2>1, SkippedChecks, <1>sync
  <2>9. \A q \in Publisher : sync'[q].pc = "insert" => Known(dirs', summary', Head(sync'[q].todo), sync'[q].result)
    <3> TAKE q \in Publisher
    <3> HAVE sync'[q].pc = "insert"
    <3>1. sync'[q] = sync[q]
      BY <2>8
    <3>2. Known(dirs, summary, Head(sync[q].todo), sync[q].result)
      BY <3>1 DEF KnownInv
    <3> QED
      BY <2>1, <3>1, <3>2 DEF Known
  <2> QED
    BY <2>1, <2>7, <2>9 DEF KnownInv, Known
<1>10. ASSUME NEW p \in Publisher, InsertRaises(p) \/ SyncFails(p) PROVE KnownInv'
  <2>1. sync' = [sync EXCEPT ![p] = Idle] /\ UNCHANGED <<dirs, summary, rows, lines>>
    BY <1>10 DEF InsertRaises, SyncFails
  <2>2. \A q \in Publisher : sync'[q].pc = "insert" => sync'[q] = sync[q]
    BY <2>1, <1>idle, <1>sync
  <2> QED
    BY <2>1, <2>2, <1>same, KnownKept
<1> QED
  BY <1>1, <1>2, <1>3, <1>4, <1>5, <1>6, <1>7, <1>8, <1>9, <1>10 DEF BoardNext

LEMMA InitKnown == BoardInit => KnownInv
<1>1. DOMAIN <<>> = {}
  OBVIOUS
<1> QED
  BY <1>1 DEF BoardInit, KnownInv, Idle

-----------------------------------------------------------------------------
(* Rows that can be shown: what the disk says of a run agrees with what the *)
(* row was made of.                                                         *)
Showable(s) ==
  /\ IsSeq(s)
  /\ \A x \in Entries(s) : x \in RowBy(clock) /\ (x.run \in Run => summary[x.run] \in {x.meta, NoResult})

LEMMA TakenShowable ==
  ASSUME NEW s, Showable(s), NEW t, TakenFrom(t, s)
  PROVE  Showable(t)
<1>1. IsSeq(t) /\ \A x : x \in Entries(t) => x \in Entries(s)
  BY TakenEntries DEF Showable
<1> QED
  BY <1>1 DEF Showable

LEMMA JoinedShowable ==
  ASSUME NEW s, Showable(s), NEW t, Showable(t)
  PROVE  Showable(s \o t)
<1>1. IsSeq(s \o t) /\ \A x : x \in Entries(s \o t) <=> x \in Entries(s) \/ x \in Entries(t)
  BY Joined DEF Showable
<1> QED
  BY <1>1 DEF Showable

LEMMA NoneShowable == Showable(<<>>)
<1>1. IsSeq(<<>>) /\ Entries(<<>>) = {}
  BY NoEntries DEF Dir
<1> QED
  BY <1>1 DEF Showable

(* Rows sorted by their returns, or by returns and Sharpe ratios.           *)
LEMMA ReturnOrder ==
  ASSUME NEW n \in Nat, NEW f \in [1..n -> Int], NEW g \in [1..n -> Int], NEW before,
         \A i, j \in 1..n : <<i, j>> \in before <=>
           \/ f[i] > f[j] \/ (f[i] = f[j] /\ g[i] > g[j]) \/ (f[i] = f[j] /\ g[i] = g[j] /\ i < j)
  PROVE  TotalOrder(1..n, before)
<1>0. \A i \in 1..n : i \in Int /\ f[i] \in Int /\ g[i] \in Int
  OBVIOUS
<1>1. ASSUME NEW i \in 1..n PROVE <<i, i>> \notin before
  <2>1. ~(f[i] > f[i]) /\ ~(g[i] > g[i]) /\ ~(i < i)
    BY <1>0
  <2> QED
    BY <2>1
<1>2. ASSUME NEW i \in 1..n, NEW j \in 1..n, i # j PROVE <<i, j>> \in before \/ <<j, i>> \in before
  <2>1. i < j \/ j < i
    BY <1>0, <1>2
  <2>2. f[i] > f[j] \/ f[j] > f[i] \/ f[i] = f[j]
    BY <1>0
  <2>3. g[i] > g[j] \/ g[j] > g[i] \/ g[i] = g[j]
    BY <1>0
  <2> QED
    BY <2>1, <2>2, <2>3
<1>3. ASSUME NEW i \in 1..n, NEW j \in 1..n, NEW k \in 1..n, <<i, j>> \in before, <<j, k>> \in before
      PROVE  <<i, k>> \in before
  <2>1. \/ f[i] > f[j] \/ (f[i] = f[j] /\ g[i] > g[j]) \/ (f[i] = f[j] /\ g[i] = g[j] /\ i < j)
    BY <1>3
  <2>2. \/ f[j] > f[k] \/ (f[j] = f[k] /\ g[j] > g[k]) \/ (f[j] = f[k] /\ g[j] = g[k] /\ j < k)
    BY <1>3
  <2>3. \/ f[i] > f[k] \/ (f[i] = f[k] /\ g[i] > g[k]) \/ (f[i] = f[k] /\ g[i] = g[k] /\ i < k)
    BY <2>1, <2>2
  <2> QED
    BY <2>3
<1> QED
  BY <1>1, <1>2, <1>3 DEF TotalOrder

LEMMA SortedByReturn ==
  ASSUME NEW s, IsSeq(s), \A x \in Entries(s) : x.ret \in Int
  PROVE  TakenFrom(Sorted(s, ByReturn), s)
<1> DEFINE before == {p \in Pairs(DOMAIN s) : \/ ByReturn(s[p[1]], s[p[2]])
                                              \/ p[1] < p[2] /\ ~ByReturn(s[p[2]], s[p[1]])}
           at == Ranking(DOMAIN s, before)
           n == Len(s)
           f == [i \in 1..n |-> s[i].ret]
           g == [i \in 1..n |-> 0]
<1>1. DOMAIN s = 1..n /\ n \in Nat
  BY SeqShape
<1>2. f \in [1..n -> Int] /\ g \in [1..n -> Int] /\ \A i, j \in 1..n : g[i] = 0 /\ g[j] = 0
  BY <1>1 DEF Entries
<1>3. \A i, j \in 1..n : ByReturn(s[i], s[j]) <=> f[i] > f[j]
  BY DEF ByReturn
<1>4. \A i, j \in 1..n : <<i, j>> \in before <=> (f[i] > f[j] \/ (i < j /\ ~(f[j] > f[i])))
  <2> HIDE DEF f, g, n
  <2> QED
    BY <1>1, <1>3 DEF Pairs
<1> HIDE DEF before, f, g, n
<1>5. TotalOrder(1..n, before)
  <2>1. ASSUME NEW i \in 1..n, NEW j \in 1..n
        PROVE  <<i, j>> \in before <=>
                 \/ f[i] > f[j] \/ (f[i] = f[j] /\ g[i] > g[j]) \/ (f[i] = f[j] /\ g[i] = g[j] /\ i < j)
    <3>1. f[i] \in Int /\ f[j] \in Int /\ g[i] = 0 /\ g[j] = 0
      BY <1>2
    <3> QED
      BY <1>4, <3>1
  <2> QED
    BY <1>1, <1>2, <2>1, ReturnOrder
<1>6. TakenFrom([k \in DOMAIN at |-> s[at[k]]], s)
  BY <1>1, <1>5, SortedTakes
<1>7. Sorted(s, ByReturn) = [k \in DOMAIN at |-> s[at[k]]]
  BY DEF Sorted, before
<1> QED
  BY <1>6, <1>7

LEMMA SortedBySharpe ==
  ASSUME NEW s, IsSeq(s), \A x \in Entries(s) : x.ret \in Int /\ x.sharpe \in Int
  PROVE  TakenFrom(Sorted(s, ByReturnThenSharpe), s)
<1> DEFINE before == {p \in Pairs(DOMAIN s) :
                        \/ ByReturnThenSharpe(s[p[1]], s[p[2]])
                        \/ p[1] < p[2] /\ ~ByReturnThenSharpe(s[p[2]], s[p[1]])}
           at == Ranking(DOMAIN s, before)
           n == Len(s)
           f == [i \in 1..n |-> s[i].ret]
           g == [i \in 1..n |-> s[i].sharpe]
           over(i, j) == f[i] > f[j] \/ (f[i] = f[j] /\ g[i] > g[j])
<1>1. DOMAIN s = 1..n /\ n \in Nat
  BY SeqShape
<1>2. f \in [1..n -> Int] /\ g \in [1..n -> Int]
  BY <1>1 DEF Entries
<1>3. \A i, j \in 1..n : ByReturnThenSharpe(s[i], s[j]) <=> over(i, j)
  BY DEF ByReturnThenSharpe
<1>4. \A i, j \in 1..n : <<i, j>> \in before <=> (over(i, j) \/ (i < j /\ ~over(j, i)))
  <2> HIDE DEF f, g, over, n
  <2> QED
    BY <1>1, <1>3 DEF Pairs
<1> HIDE DEF before, f, g, n
<1>5. TotalOrder(1..n, before)
  <2>1. ASSUME NEW i \in 1..n, NEW j \in 1..n
        PROVE  <<i, j>> \in before <=>
                 \/ f[i] > f[j] \/ (f[i] = f[j] /\ g[i] > g[j]) \/ (f[i] = f[j] /\ g[i] = g[j] /\ i < j)
    <3>1. f[i] \in Int /\ f[j] \in Int /\ g[i] \in Int /\ g[j] \in Int
      BY <1>2
    <3> QED
      BY <1>4, <3>1
  <2> QED
    BY <1>1, <1>2, <2>1, ReturnOrder
<1>6. TakenFrom([k \in DOMAIN at |-> s[at[k]]], s)
  BY <1>1, <1>5, SortedTakes
<1>7. Sorted(s, ByReturnThenSharpe) = [k \in DOMAIN at |-> s[at[k]]]
  BY DEF Sorted, before
<1> QED
  BY <1>6, <1>7

(* The sources of a page.                                                   *)
LEMMA RowsShowable == BoardInv /\ KnownInv => Showable(rows)
<1> SUFFICES ASSUME BoardInv, KnownInv PROVE Showable(rows)
  OBVIOUS
<1>1. IsSeq(rows) /\ \A i \in DOMAIN rows : rows[i] \in RowBy(clock)
  BY DEF BoardInv, OnceInv, TableOK
<1>2. \A i \in DOMAIN rows : rows[i].run \in Run => summary[rows[i].run] \in {rows[i].meta, NoResult}
  BY DEF KnownInv, Known
<1> QED
  BY <1>1, <1>2 DEF Showable, Entries

(* The more rows are read, the more are ranked, and no fewer.               *)
LEMMA PoolIs ==
  ASSUME NEW n \in Nat
  PROVE  Pool(n) \in Nat /\ Pool(n) >= n
<1>1. PoolPer \in Nat /\ PoolPer # 0 /\ PoolMin \in Nat
  BY LeaderboardConstants
<1>2. (PoolPer - 1) * n \in Nat /\ PoolPer * n = (PoolPer - 1) * n + n
  <2>1. \A x, y \in Nat : x * y \in Nat
    OBVIOUS
  <2>2. PoolPer - 1 \in Nat
    BY <1>1
  <2>3. (PoolPer - 1) * n \in Nat
    BY <2>1, <2>2
  <2>4. PoolPer * n = (PoolPer - 1) * n + n
    BY <1>1
  <2> QED
    BY <2>3, <2>4
<1> QED
  BY <1>1, <1>2 DEF Pool

LEMMA TableShowable ==
  ASSUME BoardInv, KnownInv, NEW providers, NEW n \in Nat
  PROVE  Showable(FromTable(providers, n))
<1> DEFINE at == {i \in DOMAIN rows : rows[i].provider \in providers}
           c == Chosen(rows, LAMBDA r : r.provider \in providers)
           newest == Newest(providers, n)
           ranked == Sorted(newest, ByReturn)
<1>1. c = Only(rows, at)
  BY DEF Chosen
<1>2. Showable(rows)
  BY RowsShowable
<1>3. at \in SUBSET (DOMAIN rows)
  OBVIOUS
<1> HIDE DEF at
<1>4. Showable(c)
  <2>1. TakenFrom(Only(rows, at), rows)
    BY <1>2, <1>3, OnlyTakes DEF Showable
  <2> HIDE DEF c
  <2> QED
    BY <1>1, <1>2, <2>1, TakenShowable
<1> HIDE DEF c
<1>5. Showable(Reversed(c))
  BY <1>4, ReversedTakes, TakenShowable DEF Showable
<1>6. Pool(n) \in Nat
  BY PoolIs
<1>7. Showable(newest)
  <2>1. newest = UpTo(Reversed(c), Pool(n))
    BY DEF Newest, c
  <2>2. TakenFrom(newest, Reversed(c))
    BY <1>5, <1>6, <2>1, UpToTakes DEF Showable
  <2> HIDE DEF newest
  <2> QED
    BY <1>5, <2>2, TakenShowable
<1> HIDE DEF newest
<1>8. Showable(ranked)
  <2>1. IsSeq(newest) /\ \A x \in Entries(newest) : x.ret \in Int
    BY <1>7 DEF Showable, RowBy
  <2>2. TakenFrom(ranked, newest)
    BY <2>1, SortedByReturn
  <2> HIDE DEF ranked
  <2> QED
    BY <1>7, <2>2, TakenShowable
<1> HIDE DEF ranked
<1>9. FromTable(providers, n) = UpTo(ranked, n)
  BY DEF FromTable, ranked, newest
<1>10. Showable(UpTo(ranked, n))
  <2>1. TakenFrom(UpTo(ranked, n), ranked)
    BY <1>8, UpToTakes DEF Showable
  <2> QED
    BY <1>8, <2>1, TakenShowable
<1> QED
  BY <1>9, <1>10

LEMMA DiskRowShowable ==
  ASSUME BoardInv, NEW r \in Run, summary[r] # NoResult
  PROVE  DiskRow(r) \in RowBy(clock) /\ DiskRow(r).run = r /\ DiskRow(r).meta = summary[r]
<1>1. summary[r] \in Result /\ clock \in Nat
  BY DEF BoardInv, DirsOK, TableOK
<1> QED
  BY <1>1, ResultColumns DEF DiskRow, Row, RowBy

(* There is one for every summary that can be read, and for no other.       *)
LEMMA DiskRows ==
  ASSUME BoardInv
  PROVE  /\ IsSeq(FromDisk) /\ Len(FromDisk) \in Nat /\ Len(FromDisk) <= Len(dirs)
         /\ \A x : x \in Entries(FromDisk) <=> \E r \in Run : summary[r] # NoResult /\ x = DiskRow(r)
<1> DEFINE at == {i \in DOMAIN ByName : summary[ByName[i]] # NoResult}
           c == Only(ByName, at)
           t == [i \in DOMAIN c |-> DiskRow(c[i])]
<1>1. FromDisk = t
  BY DEF FromDisk, Chosen
<1>2. IsSeq(ByName) /\ Len(ByName) = Len(dirs) /\ \A x : x \in Entries(ByName) <=> x \in Entries(dirs)
  BY NamesListed DEF BoardInv, DirsOK
<1>3. at \in SUBSET (DOMAIN ByName)
  OBVIOUS
<1>4. \A x : (\E i \in at : ByName[i] = x) <=> x \in Entries(ByName) /\ summary[x] # NoResult
  BY DEF Entries
<1> HIDE DEF at
<1>5. TakenFrom(c, ByName) /\ \A x : x \in Entries(c) <=> \E i \in at : ByName[i] = x
  BY <1>2, <1>3, OnlyTakes
<1> HIDE DEF c
<1>6. IsSeq(c) /\ Len(c) \in Nat /\ Len(c) <= Len(dirs) /\ DOMAIN c = 1..Len(c)
  BY <1>2, <1>5, TakenLen, SeqShape
<1>7. \A x : x \in Entries(c) <=> x \in Run /\ summary[x] # NoResult
  BY <1>2, <1>4, <1>5 DEF BoardInv, DirsOK
<1>8. IsSeq(t) /\ Len(t) = Len(c)
  <2>1. DOMAIN t = 1..Len(c) /\ t = [i \in 1..Len(c) |-> t[i]]
    BY <1>6
  <2> HIDE DEF t
  <2> QED
    BY <1>6, <2>1, SeqMade
<1>9. \A x : x \in Entries(t) <=> \E r \in Entries(c) : x = DiskRow(r)
  BY DEF Entries
<1> HIDE DEF t
<1> QED
  BY <1>1, <1>6, <1>7, <1>8, <1>9

LEMMA DiskShowable == BoardInv => Showable(FromDisk)
<1> SUFFICES ASSUME BoardInv PROVE Showable(FromDisk)
  OBVIOUS
<1>1. IsSeq(FromDisk) /\ \A x \in Entries(FromDisk) : \E r \in Run : summary[r] # NoResult /\ x = DiskRow(r)
  BY DiskRows
<1>2. \A x \in Entries(FromDisk) : x \in RowBy(clock) /\ (x.run \in Run => summary[x.run] \in {x.meta, NoResult})
  BY <1>1, DiskRowShowable
<1> QED
  BY <1>1, <1>2 DEF Showable

LEMMA LinesShowable == BoardInv /\ KnownInv => Showable(UpTo(lines, LineLimit))
<1> SUFFICES ASSUME BoardInv, KnownInv PROVE Showable(UpTo(lines, LineLimit))
  OBVIOUS
<1>1. Showable(lines)
  BY DEF BoardInv, KnownInv, LinesOK, Showable, Entries
<1>2. TakenFrom(UpTo(lines, LineLimit), lines)
  BY <1>1, LeaderboardConstants, UpToTakes DEF Showable
<1> QED
  BY <1>1, <1>2, TakenShowable

LEMMA GatheredShowable ==
  ASSUME BoardInv, KnownInv, NEW local \in BOOLEAN, NEW external \in BOOLEAN, NEW named, NEW n \in Nat
  PROVE  Showable(Gathered(local, external, named, n))
<1>1. Fetch * n \in Nat
  BY LeaderboardConstants
<1> DEFINE m == Fetch * n
           own == IF local THEN FromTable({"local"}, m) \o FromDisk \o UpTo(lines, LineLimit) ELSE <<>>
           c == Chosen(FromTable(Everyone, m), LAMBDA r : r.provider # "local")
           theirs == IF ~external THEN <<>> ELSE IF named = {} THEN c ELSE FromTable(named, m)
<1>2. Gathered(local, external, named, n) = own \o theirs
  BY DEF Gathered
<1> HIDE DEF m
<1>3. Showable(own)
  <2>1. Showable(FromTable({"local"}, m)) /\ Showable(FromDisk) /\ Showable(UpTo(lines, LineLimit))
    BY <1>1, TableShowable, DiskShowable, LinesShowable DEF m
  <2>2. Showable(FromTable({"local"}, m) \o FromDisk)
    BY <2>1, JoinedShowable
  <2>3. Showable((FromTable({"local"}, m) \o FromDisk) \o UpTo(lines, LineLimit))
    BY <2>1, <2>2, JoinedShowable
  <2> QED
    BY <2>3, NoneShowable
<1>4. Showable(c)
  <2> DEFINE t == FromTable(Everyone, m)
             at == {i \in DOMAIN t : t[i].provider # "local"}
  <2>1. Showable(t)
    BY <1>1, TableShowable DEF m
  <2>2. c = Only(t, at)
    BY DEF Chosen
  <2>3. at \in SUBSET (DOMAIN t)
    OBVIOUS
  <2> HIDE DEF t, at, c
  <2>4. TakenFrom(Only(t, at), t)
    BY <2>1, <2>3, OnlyTakes DEF Showable
  <2> QED
    BY <2>1, <2>2, <2>4, TakenShowable
<1>5. Showable(theirs)
  <2>1. Showable(FromTable(named, m))
    BY <1>1, TableShowable DEF m
  <2> HIDE DEF c
  <2> QED
    BY <1>4, <2>1, NoneShowable
<1> HIDE DEF own, theirs
<1> QED
  BY <1>2, <1>3, <1>5, JoinedShowable

-----------------------------------------------------------------------------
(* Columns that are filled in stay filled in.                               *)
Column == {"ret", "sharpe", "trades", "rest"}

LEMMA ResultRecord ==
  ASSUME NEW res \in Result \cup {NoResult}
  PROVE  /\ DOMAIN res = Column
         /\ res.ret \in Int /\ res.sharpe \in Int /\ res.trades \in Int /\ res.rest \in Int
BY LeaderboardConstants DEF NoResult, Blank, Unknown, Column

LEMMA FilledRow ==
  ASSUME NEW c \in Nat, NEW r \in RowBy(c), NEW res \in Result \cup {NoResult}
  PROVE  /\ Filled(r, res) \in RowBy(c)
         /\ Filled(r, res).run = r.run /\ Filled(r, res).meta = r.meta
         /\ Filled(r, res).source = r.source /\ Filled(r, res).provider = r.provider
         /\ Filled(r, res).ts = r.ts
         /\ \A col \in Column : Filled(r, res)[col] = IF r[col] = Unknown THEN res[col] ELSE r[col]
<1> DEFINE e == Filled(r, res)
           col(x) == IF r[x] = Unknown THEN res[x] ELSE r[x]
           u == [source |-> r.source, provider |-> r.provider, run |-> r.run, ts |-> r.ts,
                 ret |-> col("ret"), sharpe |-> col("sharpe"), trades |-> col("trades"),
                 rest |-> col("rest"), meta |-> r.meta]
<1>1. DOMAIN res = Column /\ res.ret \in Int /\ res.sharpe \in Int /\ res.trades \in Int /\ res.rest \in Int
  BY ResultRecord
<1>2. DOMAIN r = {"source", "provider", "run", "ts", "ret", "sharpe", "trades", "rest", "meta"}
  BY DEF RowBy
<1>3. e = [x \in DOMAIN r |-> IF x \in Column /\ r[x] = Unknown THEN res[x] ELSE r[x]]
  BY <1>1 DEF Filled
<1>4. e = u
  <2>1. DOMAIN e = DOMAIN u
    BY <1>2, <1>3
  <2>2. \A x \in DOMAIN r : e[x] = u[x]
    BY <1>2, <1>3 DEF Column
  <2> QED
    BY <1>2, <1>3, <2>1, <2>2
<1>5. u \in RowBy(c)
  BY <1>1 DEF RowBy
<1>6. /\ u.run = r.run /\ u.meta = r.meta /\ \A x \in Column : u[x] = col(x)
      /\ u.source = r.source /\ u.provider = r.provider /\ u.ts = r.ts
  BY DEF Column
<1> QED
  BY <1>4, <1>5, <1>6

LEMMA FilledAlready ==
  ASSUME NEW c \in Nat, NEW e \in RowBy(c), NEW res \in Result \cup {NoResult},
         \A col \in Column : e[col] = Unknown => res[col] = Unknown
  PROVE  Filled(e, res) = e
<1>1. DOMAIN res = Column
  BY ResultRecord
<1>2. Filled(e, res) = [x \in DOMAIN e |-> e[x]]
  BY <1>1 DEF Filled
<1>3. e = [x \in DOMAIN e |-> e[x]]
  BY DEF RowBy
<1> QED
  BY <1>2, <1>3

(* Rows to which their summaries add nothing.                               *)
Complete(s) ==
  /\ IsSeq(s)
  /\ \A x \in Entries(s) : x \in RowBy(clock) /\ (x.run \in Run => Filled(x, summary[x.run]) = x)

LEMMA TakenComplete ==
  ASSUME NEW s, Complete(s), NEW t, TakenFrom(t, s)
  PROVE  Complete(t)
<1>1. IsSeq(t) /\ \A x : x \in Entries(t) => x \in Entries(s)
  BY TakenEntries DEF Complete
<1> QED
  BY <1>1 DEF Complete

LEMMA EnrichedComplete ==
  ASSUME BoardInv, NEW s, Showable(s)
  PROVE  Complete(Enriched(s))
<1> DEFINE t == Enriched(s)
<1>1. Len(s) \in Nat /\ DOMAIN s = 1..Len(s)
  BY SeqShape DEF Showable
<1>2. DOMAIN t = 1..Len(s) /\ t = [i \in 1..Len(s) |-> t[i]] /\ \A i \in 1..Len(s) : t[i] = Filled(s[i], s[i].meta)
  BY <1>1 DEF Enriched
<1> HIDE DEF t
<1>3. IsSeq(t)
  BY <1>1, <1>2, SeqMade
<1>4. clock \in Nat
  BY DEF BoardInv, TableOK
<1>5. ASSUME NEW r \in Entries(s)
      PROVE  LET x == Filled(r, r.meta)
             IN  x \in RowBy(clock) /\ (x.run \in Run => Filled(x, summary[x.run]) = x)
  <2> DEFINE x == Filled(r, r.meta)
  <2>1. r \in RowBy(clock) /\ r.meta \in Result \cup {NoResult}
    BY <1>5 DEF Showable, RowBy
  <2>2. /\ x \in RowBy(clock) /\ x.run = r.run
        /\ \A col \in Column : x[col] = IF r[col] = Unknown THEN r.meta[col] ELSE r[col]
    BY <1>4, <2>1, FilledRow
  <2> HIDE DEF x
  <2>3. ASSUME x.run \in Run PROVE Filled(x, summary[x.run]) = x
    <3> DEFINE res == summary[x.run]
    <3>1. res = r.meta \/ res = NoResult
      BY <1>5, <2>2, <2>3 DEF Showable
    <3>2. res \in Result \cup {NoResult}
      BY <2>3 DEF BoardInv, DirsOK
    <3> HIDE DEF res
    <3>3. \A col \in Column : x[col] = Unknown => res[col] = Unknown
      <4>1. \A col \in Column : NoResult[col] = Unknown
        BY DEF NoResult, Blank, Column
      <4> QED
        BY <2>2, <3>1, <4>1
    <3>4. Filled(x, res) = x
      BY <1>4, <2>2, <3>2, <3>3, FilledAlready
    <3> QED
      BY <3>4 DEF res
  <2> QED
    BY <2>2, <2>3 DEF x
<1>6. \A x \in Entries(t) : \E r \in Entries(s) : x = Filled(r, r.meta)
  BY <1>1, <1>2 DEF Entries
<1>7. \A x \in Entries(t) : x \in RowBy(clock) /\ (x.run \in Run => Filled(x, summary[x.run]) = x)
  BY <1>5, <1>6
<1> QED
  BY <1>3, <1>7 DEF Complete, t

LEMMA OverlaidComplete ==
  ASSUME NEW s, Complete(s)
  PROVE  Overlaid(s) = s
<1>1. IsSeq(s)
  BY DEF Complete
<1>2. \A i \in DOMAIN s : s[i].run \in Run => Filled(s[i], summary[s[i].run]) = s[i]
  BY DEF Complete, Entries
<1>3. s = [i \in DOMAIN s |-> s[i]]
  BY <1>1 DEF IsSeq
<1> QED
  BY <1>2, <1>3 DEF Overlaid

(* No two rows of the same run of the same provider, or of one outcome.     *)
RunsOnce(s) ==
  \A i, j \in 1..Len(s) : i # j => s[i].run = NoRun \/ RunKey(s[i]) # RunKey(s[j])
OutcomesOnce(s) == \A i, j \in 1..Len(s) : i # j => Outcome(s[i]) # Outcome(s[j])

LEMMA TakenOnce ==
  ASSUME NEW s, NEW t, TakenFrom(t, s)
  PROVE  (RunsOnce(s) => RunsOnce(t)) /\ (OutcomesOnce(s) => OutcomesOnce(t))
<1>1. PICK h : Takes(t, s, h)
  BY DEF TakenFrom
<1>2. \A i \in 1..Len(t) : h[i] \in 1..Len(s) /\ t[i] = s[h[i]]
  BY <1>1 DEF Takes
<1>3. \A i, j \in 1..Len(t) : i # j => h[i] # h[j]
  BY <1>1 DEF Takes
<1>4. ASSUME RunsOnce(s) PROVE RunsOnce(t)
  <2> SUFFICES ASSUME NEW i \in 1..Len(t), NEW j \in 1..Len(t), i # j
               PROVE  t[i].run = NoRun \/ RunKey(t[i]) # RunKey(t[j])
    BY DEF RunsOnce
  <2>1. h[i] \in 1..Len(s) /\ h[j] \in 1..Len(s) /\ h[i] # h[j] /\ t[i] = s[h[i]] /\ t[j] = s[h[j]]
    BY <1>2, <1>3
  <2>2. s[h[i]].run = NoRun \/ RunKey(s[h[i]]) # RunKey(s[h[j]])
    BY <1>4, <2>1 DEF RunsOnce
  <2> QED
    BY <2>1, <2>2
<1>5. ASSUME OutcomesOnce(s) PROVE OutcomesOnce(t)
  <2> SUFFICES ASSUME NEW i \in 1..Len(t), NEW j \in 1..Len(t), i # j
               PROVE  Outcome(t[i]) # Outcome(t[j])
    BY DEF OutcomesOnce
  <2>1. h[i] \in 1..Len(s) /\ h[j] \in 1..Len(s) /\ h[i] # h[j] /\ t[i] = s[h[i]] /\ t[j] = s[h[j]]
    BY <1>2, <1>3
  <2>2. Outcome(s[h[i]]) # Outcome(s[h[j]])
    BY <1>5, <2>1 DEF OutcomesOnce
  <2> QED
    BY <2>1, <2>2
<1> QED
  BY <1>4, <1>5

LEMMA MergedRuns ==
  ASSUME NEW s, Complete(s)
  PROVE  /\ Complete(OneEachRun(s)) /\ RunsOnce(OneEachRun(s))
         /\ \A x \in Entries(OneEachRun(s)) : x \in Entries(s)
         /\ \A x \in Entries(s) : \E y \in Entries(OneEachRun(s)) : y = x \/ RunKey(y) = RunKey(x)
<1> DEFINE none == {i \in DOMAIN s : s[i].run = NoRun}
           some == {i \in DOMAIN s : s[i].run # NoRun}
           a == Only(s, none)
           b == Only(s, some)
           key == [i \in DOMAIN b |-> RunKey(b[i])]
           better == {p \in Pairs(DOMAIN b) : Richer(b[p[1]], b[p[2]])}
           at == Winners(key, better)
           t == [k \in DOMAIN at |-> b[at[k]]]
<1>1. OneEachRun(s) = a \o t
  BY DEF OneEachRun, OneEach, Chosen
<1>2. none \in SUBSET (DOMAIN s) /\ some \in SUBSET (DOMAIN s)
      /\ (\A i \in none : s[i].run = NoRun) /\ (\A i \in some : s[i].run # NoRun)
  OBVIOUS
<1> HIDE DEF none, some
<1>3. TakenFrom(a, s) /\ \A x : x \in Entries(a) <=> \E i \in none : s[i] = x
  BY <1>2, OnlyTakes DEF Complete
<1>4. TakenFrom(b, s) /\ \A x : x \in Entries(b) <=> \E i \in some : s[i] = x
  BY <1>2, OnlyTakes DEF Complete
<1> HIDE DEF a, b
<1>5. Complete(a) /\ Complete(b)
  BY <1>3, <1>4, TakenComplete
<1>6. (\A x \in Entries(a) : x.run = NoRun) /\ (\A x \in Entries(b) : x.run # NoRun)
  BY <1>2, <1>3, <1>4
<1>7. DOMAIN key = DOMAIN b /\ key = [i \in DOMAIN b |-> key[i]] /\ \A i \in DOMAIN b : key[i] = RunKey(b[i])
  OBVIOUS
<1> HIDE DEF key, better
<1>8. at = Winners(key, better)
  OBVIOUS
<1> HIDE DEF at
<1>9. Picked(t, b, at)
  BY DEF Picked
<1> HIDE DEF t
<1>10. PICK h : /\ Takes(t, b, h) /\ \A i, j \in 1..Len(t) : key[h[i]] = key[h[j]] => i = j
                /\ \A m \in 1..Len(b) : \E i \in 1..Len(t) : key[h[i]] = key[m]
  <2>1. IsSeq(b)
    BY <1>5 DEF Complete
  <2> QED
    <3>1. Best(t, b, key, better)
      BY <1>7, <1>8, <1>9, <2>1 DEF Best
    <3>2. OneOf(t, b, key)
      BY <3>1, OneOfEach, Zenon
    <3> QED
      BY <3>2, Zenon DEF OneOf
<1>11. Complete(t)
  BY <1>5, <1>10, TakenComplete DEF TakenFrom
<1>12. DOMAIN b = 1..Len(b)
  BY <1>5, SeqShape DEF Complete
<1>13. \A i \in 1..Len(t) : h[i] \in 1..Len(b) /\ t[i] = b[h[i]] /\ key[h[i]] = RunKey(t[i])
  BY <1>7, <1>10, <1>12 DEF Takes
<1>14. \A i, j \in 1..Len(t) : RunKey(t[i]) = RunKey(t[j]) => i = j
  BY <1>10, <1>13
<1>15. \A i \in 1..Len(t) : t[i].run # NoRun
  BY <1>6, <1>12, <1>13 DEF Entries
<1>16. \A i \in 1..Len(a) : a[i].run = NoRun
  <2>1. DOMAIN a = 1..Len(a)
    BY <1>5, SeqShape DEF Complete
  <2> QED
    BY <1>6, <2>1 DEF Entries
<1> DEFINE u == a \o t
<1>17. /\ IsSeq(u) /\ Len(a) \in Nat /\ Len(t) \in Nat /\ Len(u) = Len(a) + Len(t)
       /\ \A i \in 1..Len(a) : u[i] = a[i]
       /\ \A i \in 1..Len(t) : u[Len(a) + i] = t[i]
       /\ \A x : x \in Entries(u) <=> x \in Entries(a) \/ x \in Entries(t)
  BY <1>5, <1>11, Joined DEF Complete
<1> HIDE DEF u
<1>18. Complete(u)
  BY <1>5, <1>11, <1>17 DEF Complete
<1>19. \A i \in 1..Len(u) : u[i].run = NoRun \/ (i - Len(a) \in 1..Len(t) /\ u[i] = t[i - Len(a)])
  <2> TAKE i \in 1..Len(u)
  <2>1. CASE i \in 1..Len(a)
    BY <1>16, <1>17, <2>1
  <2>2. CASE i \notin 1..Len(a)
    <3>1. i - Len(a) \in 1..Len(t) /\ Len(a) + (i - Len(a)) = i
      BY <1>17, <2>2
    <3> QED
      BY <1>17, <3>1
  <2> QED
    BY <2>1, <2>2
<1>20. RunsOnce(u)
  <2> SUFFICES ASSUME NEW i \in 1..Len(u), NEW j \in 1..Len(u), i # j, u[i].run # NoRun,
                      RunKey(u[i]) = RunKey(u[j])
               PROVE  FALSE
    BY DEF RunsOnce
  <2>1. u[j].run = u[i].run
    BY DEF RunKey
  <2>2. /\ i - Len(a) \in 1..Len(t) /\ u[i] = t[i - Len(a)]
        /\ j - Len(a) \in 1..Len(t) /\ u[j] = t[j - Len(a)]
    BY <1>19, <2>1
  <2>3. i - Len(a) = j - Len(a)
    BY <1>14, <2>2
  <2> QED
    BY <1>17, <2>3
<1>21. \A x \in Entries(u) : x \in Entries(s)
  <2>1. TakenFrom(t, b)
    BY <1>10 DEF TakenFrom
  <2>2. \A x : x \in Entries(t) => x \in Entries(b)
    BY <1>5, <2>1, TakenEntries DEF Complete
  <2>3. \A x : x \in Entries(a) \/ x \in Entries(b) => x \in Entries(s)
    BY <1>3, <1>4, TakenEntries DEF Complete
  <2> QED
    BY <1>17, <2>2, <2>3
<1>22. \A x \in Entries(s) : \E y \in Entries(u) : y = x \/ RunKey(y) = RunKey(x)
  <2> SUFFICES ASSUME NEW x \in Entries(s) PROVE \E y \in Entries(u) : y = x \/ RunKey(y) = RunKey(x)
    OBVIOUS
  <2>1. PICK i \in DOMAIN s : s[i] = x
    BY DEF Entries
  <2>2. i \in none \/ i \in some
    BY DEF none, some
  <2>3. CASE i \in none
    BY <1>3, <1>17, <2>1, <2>3
  <2>4. CASE i \in some
    <3>1. x \in Entries(b)
      BY <1>4, <2>1, <2>4
    <3>2. PICK m \in 1..Len(b) : b[m] = x
      BY <1>12, <3>1 DEF Entries
    <3>3. PICK k \in 1..Len(t) : key[h[k]] = key[m]
      BY <1>10
    <3>4. RunKey(t[k]) = RunKey(x)
      BY <1>7, <1>12, <1>13, <3>2, <3>3
    <3>5. t[k] \in Entries(t)
      <4>1. DOMAIN t = 1..Len(t)
        BY <1>11, SeqShape DEF Complete
      <4> QED
        BY <4>1 DEF Entries
    <3> QED
      BY <1>17, <3>4, <3>5
  <2> QED
    BY <2>2, <2>3, <2>4
<1> QED
  BY <1>1, <1>18, <1>20, <1>21, <1>22 DEF u

LEMMA MergedOutcomes ==
  ASSUME NEW s, IsSeq(s)
  PROVE  /\ TakenFrom(OneEachOutcome(s), s) /\ OutcomesOnce(OneEachOutcome(s))
         /\ \A x \in Entries(s) : \E y \in Entries(OneEachOutcome(s)) : Outcome(y) = Outcome(x)
<1> DEFINE key == [i \in DOMAIN s |-> Outcome(s[i])]
           better == {p \in Pairs(DOMAIN s) : Preferred(s[p[1]], s[p[2]])}
           at == Winners(key, better)
           t == [k \in DOMAIN at |-> s[at[k]]]
<1>1. OneEachOutcome(s) = t
  BY DEF OneEachOutcome, OneEach
<1>2. DOMAIN key = DOMAIN s /\ key = [i \in DOMAIN s |-> key[i]] /\ \A i \in DOMAIN s : key[i] = Outcome(s[i])
  OBVIOUS
<1> HIDE DEF key, better
<1>3. at = Winners(key, better)
  OBVIOUS
<1> HIDE DEF at
<1>4. Picked(t, s, at)
  BY DEF Picked
<1> HIDE DEF t
<1>5. PICK h : /\ Takes(t, s, h) /\ \A i, j \in 1..Len(t) : key[h[i]] = key[h[j]] => i = j
               /\ \A m \in 1..Len(s) : \E i \in 1..Len(t) : key[h[i]] = key[m]
  <2>1. Best(t, s, key, better)
    BY <1>2, <1>3, <1>4 DEF Best
  <2>2. OneOf(t, s, key)
    BY <2>1, OneOfEach, Zenon
  <2> QED
    BY <2>2, Zenon DEF OneOf
<1>6. DOMAIN s = 1..Len(s)
  BY SeqShape
<1>7. \A i \in 1..Len(t) : key[h[i]] = Outcome(t[i])
  BY <1>2, <1>5, <1>6 DEF Takes
<1>8. OutcomesOnce(t)
  BY <1>5, <1>7 DEF OutcomesOnce
<1>9. \A x \in Entries(s) : \E y \in Entries(t) : Outcome(y) = Outcome(x)
  <2> SUFFICES ASSUME NEW x \in Entries(s) PROVE \E y \in Entries(t) : Outcome(y) = Outcome(x)
    OBVIOUS
  <2>1. PICK m \in 1..Len(s) : s[m] = x
    BY <1>6 DEF Entries
  <2>2. PICK k \in 1..Len(t) : key[h[k]] = key[m]
    BY <1>5
  <2>3. Outcome(t[k]) = Outcome(x)
    BY <1>2, <1>6, <1>7, <2>1, <2>2
  <2>4. DOMAIN t = 1..Len(t)
    BY <1>5, SeqShape DEF Takes
  <2> QED
    BY <2>3, <2>4 DEF Entries
<1> QED
  BY <1>1, <1>5, <1>8, <1>9 DEF TakenFrom

LEMMA PageOnce ==
  ASSUME BoardInv, KnownInv, NEW local \in BOOLEAN, NEW external \in BOOLEAN, NEW named, NEW n \in Nat
  PROVE  LET page == Page(local, external, named, n)
         IN  DOMAIN page = 1..Len(page) /\ RunsOnce(page) /\ OutcomesOnce(page)
<1> DEFINE s == Gathered(local, external, named, n)
           e == Enriched(s)
           r == OneEachRun(e)
           o == OneEachOutcome(r)
           at == {i \in DOMAIN o : ~Smoke(o[i])}
           c == Only(o, at)
           ranked == Sorted(c, ByReturnThenSharpe)
<1>1. Showable(s)
  BY GatheredShowable
<1>2. Chosen(o, LAMBDA x : ~Smoke(x)) = c
  BY DEF Chosen
<1>3. Page(local, external, named, n) = UpTo(Sorted(Overlaid(Chosen(o, LAMBDA x : ~Smoke(x))), ByReturnThenSharpe), n)
  BY DEF Page, Ranked
<1> HIDE DEF s
<1>4. Complete(e)
  BY <1>1, EnrichedComplete
<1> HIDE DEF e
<1>5. Complete(r) /\ RunsOnce(r)
  BY <1>4, MergedRuns
<1> HIDE DEF r
<1>6. TakenFrom(o, r) /\ OutcomesOnce(o)
  BY <1>5, MergedOutcomes DEF Complete
<1>7. Complete(o) /\ RunsOnce(o)
  BY <1>5, <1>6, TakenComplete, TakenOnce
<1>8. at \in SUBSET (DOMAIN o)
  OBVIOUS
<1> HIDE DEF o, at
<1>9. TakenFrom(c, o)
  BY <1>7, <1>8, OnlyTakes DEF Complete
<1> HIDE DEF c
<1>10. Complete(c) /\ RunsOnce(c) /\ OutcomesOnce(c)
  BY <1>6, <1>7, <1>9, TakenComplete, TakenOnce
<1>11. Overlaid(c) = c
  BY <1>10, OverlaidComplete
<1>12. TakenFrom(ranked, c)
  <2>1. IsSeq(c) /\ \A x \in Entries(c) : x.ret \in Int /\ x.sharpe \in Int
    BY <1>10 DEF Complete, RowBy
  <2> QED
    BY <2>1, SortedBySharpe
<1>13. Page(local, external, named, n) = UpTo(ranked, n)
  BY <1>2, <1>3, <1>11
<1> HIDE DEF ranked
<1>14. Complete(ranked) /\ RunsOnce(ranked) /\ OutcomesOnce(ranked)
  BY <1>10, <1>12, TakenComplete, TakenOnce
<1> DEFINE page == UpTo(ranked, n)
<1>15. TakenFrom(page, ranked)
  BY <1>14, UpToTakes DEF Complete
<1> HIDE DEF page
<1>16. Complete(page) /\ RunsOnce(page) /\ OutcomesOnce(page)
  BY <1>14, <1>15, TakenComplete, TakenOnce
<1>17. DOMAIN page = 1..Len(page)
  BY <1>16, SeqShape DEF Complete
<1> QED
  BY <1>13, <1>16, <1>17 DEF page

LEMMA OncePages == BoardInv /\ KnownInv => PagesShowOnce
<1> SUFFICES ASSUME BoardInv, KnownInv PROVE PagesShowOnce
  OBVIOUS
<1>1. All \in Nat
  <2>1. IsSeq(rows) /\ IsSeq(lines) /\ IsSeq(dirs)
    BY DEF BoardInv, OnceInv, LinesOK, DirsOK, Dir
  <2>2. Len(rows) \in Nat /\ Len(lines) \in Nat /\ Len(dirs) \in Nat
    BY <2>1, SeqShape
  <2> QED
    BY <2>2 DEF All
<1>2. ASSUME NEW local \in BOOLEAN, NEW external \in BOOLEAN, NEW named
      PROVE  LET page == Page(local, external, named, All) IN
             \A i, j \in DOMAIN page : i < j =>
               /\ Outcome(page[i]) # Outcome(page[j])
               /\ page[i].run = NoRun \/ RunKey(page[i]) # RunKey(page[j])
  <2> DEFINE page == Page(local, external, named, All)
  <2>1. DOMAIN page = 1..Len(page) /\ RunsOnce(page) /\ OutcomesOnce(page)
    BY <1>1, PageOnce
  <2> HIDE DEF page
  <2>2. \A i, j \in DOMAIN page : i < j => i # j
    <3>1. \A i \in DOMAIN page : i \in Int
      BY <2>1
    <3> QED
      BY <3>1
  <2>3. \A i, j \in DOMAIN page : i < j =>
          /\ Outcome(page[i]) # Outcome(page[j])
          /\ page[i].run = NoRun \/ RunKey(page[i]) # RunKey(page[j])
    BY <2>1, <2>2 DEF RunsOnce, OutcomesOnce
  <2> QED
    BY <2>3 DEF page
<1> DEFINE Asked == {<<TRUE, TRUE, {}>>, <<TRUE, FALSE, {}>>} \cup {<<FALSE, TRUE, {p}>> : p \in Provider}
<1>3. \A view \in Asked : view[1] \in BOOLEAN /\ view[2] \in BOOLEAN
  <2> SUFFICES ASSUME NEW view \in Asked PROVE view[1] \in BOOLEAN /\ view[2] \in BOOLEAN
    OBVIOUS
  <2>1. CASE view = <<TRUE, TRUE, {}>>
    BY <2>1
  <2>2. CASE view = <<TRUE, FALSE, {}>>
    BY <2>2
  <2>3. CASE \E p \in Provider : view = <<FALSE, TRUE, {p}>>
    BY <2>3
  <2> QED
    BY <2>1, <2>2, <2>3
<1> HIDE DEF Asked
<1>4. \A view \in Asked : LET page == Page(view[1], view[2], view[3], All) IN
        \A i, j \in DOMAIN page : i < j =>
          /\ Outcome(page[i]) # Outcome(page[j])
          /\ page[i].run = NoRun \/ RunKey(page[i]) # RunKey(page[j])
  BY <1>2, <1>3
<1> QED
  BY <1>4 DEF PagesShowOnce, Asked

(* Nothing counts twice: every page, of whatever rows the table, the disk   *)
(* and the file of passes hold, in whatever order they were written, has    *)
(* one row of each outcome and one of each run of a provider; and the table *)
(* has one row of a run, unless two publishers looked it up at once.        *)
THEOREM NothingCountsTwice == BoardSpec => []CountsOnce
<1>1. BoardInit => BoardInv /\ KnownInv
  BY InitBoard, InitKnown
<1>2. BoardInv /\ KnownInv /\ [BoardNext]_boardVars => (BoardInv /\ KnownInv)'
  BY BoardStep, KnownStep
<1>3. BoardInv /\ KnownInv => CountsOnce
  BY OncePages DEF BoardInv, CountsOnce, OnceInv, StoredOnce, LocalOnce
<1> QED
  BY <1>1, <1>2, <1>3, PTL DEF BoardSpec

-----------------------------------------------------------------------------
(* What is shown. The pages are described by operators on lists of rows,    *)
(* which do not mention places, and that are followed through lists built   *)
(* by appending one row after the other.                                    *)

(* Appending.                                                               *)
LEMMA AppendLast ==
  ASSUME NEW S, NEW s \in Seq(S), s # <<>>
  PROVE  \E f \in Seq(S), x \in S : s = Append(f, x) /\ Len(s) = Len(f) + 1
<1> DEFINE n == Len(s)
           f == [i \in 1..(n - 1) |-> s[i]]
<1>1. n \in Nat /\ n # 0 /\ s \in [1..n -> S]
  OBVIOUS
<1> HIDE DEF n
<1>2. f \in Seq(S) /\ Len(f) = n - 1
  <2>1. n - 1 \in Nat /\ f \in [1..(n - 1) -> S]
    BY <1>1
  <2>2. DOMAIN f = 1..(n - 1) /\ f = [i \in 1..(n - 1) |-> f[i]]
    OBVIOUS
  <2> HIDE DEF f
  <2> QED
    BY <2>1, <2>2, SeqMade
<1>3. s[n] \in S
  BY <1>1
<1>4. \A i \in 1..(n - 1) : f[i] = s[i]
  OBVIOUS
<1> HIDE DEF f
<1>5. s = Append(f, s[n])
  <2>1. Append(f, s[n]) \in Seq(S) /\ Len(Append(f, s[n])) = n
    BY <1>1, <1>2, <1>3
  <2>2. \A i \in 1..n : Append(f, s[n])[i] = s[i]
    BY <1>1, <1>2, <1>3, <1>4
  <2>3. Append(f, s[n]) \in [1..n -> S]
    <3> DEFINE g == Append(f, s[n])
    <3>1. g \in Seq(S) /\ Len(g) = n
      BY <2>1
    <3> HIDE DEF g
    <3>2. g \in [1..n -> S]
      BY <3>1
    <3> QED
      BY <3>2 DEF g
  <2> QED
    BY <1>1, <2>2, <2>3
<1>6. Len(s) = Len(f) + 1
  BY <1>1, <1>2 DEF n
<1> QED
  BY <1>2, <1>3, <1>5, <1>6, Zenon

(* What holds of the empty sequence, and after appending, of all.           *)
LEMMA ByAppending ==
  ASSUME NEW S, NEW Q, <<>> \in Q,
         \A s \in Seq(S), x \in S : s \in Q => Append(s, x) \in Q
  PROVE  Seq(S) \subseteq Q
<1> DEFINE N == {n \in Nat : \E s \in Seq(S) : Len(s) = n /\ s \notin Q}
<1>1. N = {}
  <2> SUFFICES ASSUME N # {} PROVE FALSE
    OBVIOUS
  <2>1. N \in SUBSET Nat
    OBVIOUS
  <2>2. PICK n \in N : \A k \in N : n <= k
    <3> HIDE DEF N
    <3> QED
      BY <2>1, LeastNumber
  <2>3. PICK s \in Seq(S) : Len(s) = n /\ s \notin Q
    OBVIOUS
  <2>4. s # <<>>
    BY <2>3
  <2>5. PICK f \in Seq(S), x \in S : s = Append(f, x) /\ Len(s) = Len(f) + 1
    BY <2>4, AppendLast
  <2>6. f \in Q
    <3>1. Len(f) \in Nat /\ Len(f) < n
      BY <2>3, <2>5
    <3>2. Len(f) \notin N
      <4> HIDE DEF N
      <4> QED
        BY <2>1, <2>2, <3>1
    <3> QED
      BY <3>1, <3>2
  <2> QED
    BY <2>3, <2>5, <2>6
<1> QED
  <2> SUFFICES ASSUME NEW s \in Seq(S) PROVE s \in Q
    OBVIOUS
  <2>1. Len(s) \in Nat /\ Len(s) \notin N
    BY <1>1
  <2> QED
    BY <2>1

LEMMA AppendedTo ==
  ASSUME NEW S, NEW s \in Seq(S), NEW x \in S
  PROVE  /\ Append(s, x) \in Seq(S) /\ Len(s) \in Nat /\ Len(Append(s, x)) = Len(s) + 1
         /\ DOMAIN Append(s, x) = 1..(Len(s) + 1)
         /\ Append(s, x)[Len(s) + 1] = x /\ \A i \in 1..Len(s) : Append(s, x)[i] = s[i]
OBVIOUS

LEMMA JoinedAppended ==
  ASSUME NEW S, NEW s \in Seq(S), NEW t \in Seq(S), NEW x \in S
  PROVE  s \o t \in Seq(S) /\ s \o Append(t, x) = Append(s \o t, x)
OBVIOUS

LEMMA JoinedNone ==
  ASSUME NEW S, NEW s \in Seq(S)
  PROVE  s \o <<>> = s /\ <<>> \o s = s
OBVIOUS

(* Choosing again: the members of s that are in P.                          *)
Sel(s, P) == Only(s, {i \in DOMAIN s : s[i] \in P})

(* Choosing from a list step by step, from two lists, and twice.            *)
LEMMA SelNone ==
  ASSUME NEW P
  PROVE  Sel(<<>>, P) = <<>>
<1> DEFINE at == {i \in DOMAIN <<>> : <<>>[i] \in P}
           e == <<>>
<1>1. Len(e) = 0 /\ Len(e) \in Nat
  OBVIOUS
<1>a. Sel(e, P) = Only(e, at)
  BY DEF Sel
<1> HIDE DEF at, e
<1>2. PICK u : IsUpto(u, e, at) /\ Only(e, at) = u[Len(e)]
  BY <1>1, OnlyIsUpto, Zenon
<1>3. u[0] = <<>>
  BY <1>1, <1>2 DEF IsUpto
<1> QED
  BY <1>1, <1>a, <1>2, <1>3 DEF e

LEMMA SelStep ==
  ASSUME NEW S, NEW s \in Seq(S), NEW x \in S, NEW P
  PROVE  Sel(Append(s, x), P) = IF x \in P THEN Append(Sel(s, P), x) ELSE Sel(s, P)
<1> DEFINE n == Len(s)
           t == Append(s, x)
           at == {i \in DOMAIN s : s[i] \in P}
           bt == {i \in DOMAIN t : t[i] \in P}
<1>1. n \in Nat /\ DOMAIN s = 1..n /\ Len(t) = n + 1 /\ DOMAIN t = 1..(n + 1) /\ t[n + 1] = x /\ \A i \in 1..n : t[i] = s[i]
  OBVIOUS
<1>a. Len(s) \in Nat /\ Len(t) \in Nat
  BY <1>1
<1>2. PICK u : IsUpto(u, s, at) /\ Only(s, at) = u[Len(s)]
  BY <1>a, OnlyIsUpto, Zenon
<1>3. PICK v : IsUpto(v, t, bt) /\ Only(t, bt) = v[Len(t)]
  BY <1>a, OnlyIsUpto, Zenon
<1>4. (\A i \in 1..n : i \in at <=> i \in bt) /\ (n + 1 \in bt <=> x \in P)
  <2>1. n + 1 \in 1..(n + 1) /\ \A i \in 1..n : i \in 1..(n + 1)
    BY <1>1
  <2> QED
    BY <1>1, <2>1
<1>5. Sel(s, P) = Only(s, at) /\ Sel(t, P) = Only(t, bt)
  BY DEF Sel
<1> HIDE DEF n, t, at, bt
<1>6. \A k \in 0..n : u[k] = IF k = 0 THEN <<>> ELSE IF k \in at THEN Append(u[k - 1], s[k]) ELSE u[k - 1]
  BY <1>1, <1>2 DEF IsUpto, n
<1>7. \A k \in 0..(n + 1) : v[k] = IF k = 0 THEN <<>> ELSE IF k \in bt THEN Append(v[k - 1], t[k]) ELSE v[k - 1]
  BY <1>1, <1>3 DEF IsUpto
<1> DEFINE N == {k \in Nat : k <= n /\ u[k] # v[k]}
<1>8. N = {}
  <2> SUFFICES ASSUME N # {} PROVE FALSE
    OBVIOUS
  <2>1. N \in SUBSET Nat
    OBVIOUS
  <2>2. PICK m \in N : \A k \in N : m <= k
    <3> HIDE DEF N
    <3> QED
      BY <2>1, LeastNumber
  <2>3. m \in 0..n /\ m \in 0..(n + 1) /\ u[m] # v[m]
    BY <1>1
  <2>4. m # 0
    BY <1>6, <1>7, <2>3
  <2>5. m \in 1..n /\ m - 1 \in Nat /\ m - 1 <= n /\ m - 1 < m
    BY <1>1, <2>3, <2>4
  <2>6. m - 1 \notin N
    <3> HIDE DEF N
    <3> QED
      BY <2>1, <2>2, <2>5
  <2>7. u[m - 1] = v[m - 1]
    BY <2>5, <2>6
  <2> QED
    BY <1>1, <1>4, <1>6, <1>7, <2>3, <2>4, <2>5, <2>7
<1>9. u[n] = v[n]
  <2>1. n \notin N /\ n <= n
    BY <1>1, <1>8
  <2> QED
    BY <1>1, <2>1
<1>10. v[n + 1] = IF n + 1 \in bt THEN Append(v[n], x) ELSE v[n]
  <2>1. n + 1 \in 0..(n + 1) /\ n + 1 # 0 /\ (n + 1) - 1 = n
    BY <1>1
  <2> QED
    BY <1>1, <1>7, <2>1
<1> QED
  BY <1>1, <1>2, <1>3, <1>4, <1>5, <1>9, <1>10 DEF n, t

LEMMA SelIn ==
  ASSUME NEW S, NEW P, NEW s \in Seq(S)
  PROVE  Sel(s, P) \in Seq(S \cap P) /\ Sel(s, P) \in Seq(S)
<1> DEFINE T == S \cap P
           Q == {t \in Seq(S) : Sel(t, P) \in Seq(T)}
<1>a. \A x : x \in T <=> x \in S /\ x \in P
  OBVIOUS
<1> HIDE DEF T
<1>1. <<>> \in Q
  <2>1. <<>> \in Seq(S) /\ <<>> \in Seq(T)
    OBVIOUS
  <2> QED
    BY <2>1, SelNone
<1>2. ASSUME NEW t \in Seq(S), NEW x \in S, t \in Q PROVE Append(t, x) \in Q
  <2>1. Append(t, x) \in Seq(S)
    OBVIOUS
  <2>2. Sel(t, P) \in Seq(T)
    BY <1>2
  <2>3. x \in P => Append(Sel(t, P), x) \in Seq(T)
    BY <1>a, <2>2
  <2>4. Sel(Append(t, x), P) = IF x \in P THEN Append(Sel(t, P), x) ELSE Sel(t, P)
    BY SelStep
  <2> QED
    BY <2>1, <2>2, <2>3, <2>4
<1>3. Seq(S) \subseteq Q
  <2> HIDE DEF Q
  <2> QED
    BY <1>1, <1>2, ByAppending
<1>4. Sel(s, P) \in Seq(T)
  BY <1>3
<1>5. Sel(s, P) \in Seq(S)
  BY <1>a, <1>4
<1> QED
  BY <1>4, <1>5 DEF T

LEMMA SelJoined ==
  ASSUME NEW S, NEW P, NEW s \in Seq(S), NEW t \in Seq(S)
  PROVE  Sel(s \o t, P) = Sel(s, P) \o Sel(t, P)
<1> DEFINE Q == {u \in Seq(S) : Sel(s \o u, P) = Sel(s, P) \o Sel(u, P)}
<1>1. <<>> \in Q
  <2>1. <<>> \in Seq(S) /\ s \o <<>> = s
    OBVIOUS
  <2>2. Sel(s, P) \in Seq(S)
    BY SelIn
  <2>3. Sel(s, P) \o <<>> = Sel(s, P)
    BY <2>2
  <2> QED
    BY <2>1, <2>3, SelNone
<1>2. ASSUME NEW u \in Seq(S), NEW x \in S, u \in Q PROVE Append(u, x) \in Q
  <2>1. s \o u \in Seq(S) /\ s \o Append(u, x) = Append(s \o u, x) /\ Append(u, x) \in Seq(S)
    OBVIOUS
  <2>2. Sel(s \o Append(u, x), P) = IF x \in P THEN Append(Sel(s \o u, P), x) ELSE Sel(s \o u, P)
    BY <2>1, SelStep
  <2>3. Sel(Append(u, x), P) = IF x \in P THEN Append(Sel(u, P), x) ELSE Sel(u, P)
    BY SelStep
  <2>4. Sel(s, P) \in Seq(S) /\ Sel(u, P) \in Seq(S)
    BY SelIn
  <2>5. Sel(s, P) \o Append(Sel(u, P), x) = Append(Sel(s, P) \o Sel(u, P), x)
    BY <2>4, JoinedAppended
  <2> QED
    BY <1>2, <2>1, <2>2, <2>3, <2>5
<1>3. Seq(S) \subseteq Q
  <2> HIDE DEF Q
  <2> QED
    BY <1>1, <1>2, ByAppending
<1> QED
  BY <1>3

LEMMA SelAll ==
  ASSUME NEW S, NEW P, S \subseteq P, NEW s \in Seq(S)
  PROVE  Sel(s, P) = s
<1> DEFINE Q == {t \in Seq(S) : Sel(t, P) = t}
<1>1. <<>> \in Q
  BY SelNone
<1>2. ASSUME NEW t \in Seq(S), NEW x \in S, t \in Q PROVE Append(t, x) \in Q
  BY <1>2, SelStep
<1>3. Seq(S) \subseteq Q
  <2> HIDE DEF Q
  <2> QED
    BY <1>1, <1>2, ByAppending
<1> QED
  BY <1>3

LEMMA SelNothing ==
  ASSUME NEW S, NEW P, S \cap P = {}, NEW s \in Seq(S)
  PROVE  Sel(s, P) = <<>>
<1> DEFINE Q == {t \in Seq(S) : Sel(t, P) = <<>>}
<1>1. <<>> \in Q
  BY SelNone
<1>2. ASSUME NEW t \in Seq(S), NEW x \in S, t \in Q PROVE Append(t, x) \in Q
  BY <1>2, SelStep
<1>3. Seq(S) \subseteq Q
  <2> HIDE DEF Q
  <2> QED
    BY <1>1, <1>2, ByAppending
<1> QED
  BY <1>3

LEMMA SelSel ==
  ASSUME NEW S, NEW P, NEW R, NEW s \in Seq(S)
  PROVE  Sel(Sel(s, P), R) = Sel(s, P \cap R)
<1> DEFINE Q == {t \in Seq(S) : Sel(Sel(t, P), R) = Sel(t, P \cap R)}
<1>1. <<>> \in Q
  BY SelNone
<1>2. ASSUME NEW t \in Seq(S), NEW x \in S, t \in Q PROVE Append(t, x) \in Q
  <2>1. Sel(t, P) \in Seq(S)
    BY SelIn
  <2>2. Sel(Append(t, x), P) = IF x \in P THEN Append(Sel(t, P), x) ELSE Sel(t, P)
    BY SelStep
  <2>3. Sel(Append(Sel(t, P), x), R) = IF x \in R THEN Append(Sel(Sel(t, P), R), x) ELSE Sel(Sel(t, P), R)
    BY <2>1, SelStep
  <2>4. Sel(Append(t, x), P \cap R) = IF x \in P \cap R THEN Append(Sel(t, P \cap R), x) ELSE Sel(t, P \cap R)
    BY SelStep, Zenon
  <2>5. x \in P \cap R <=> x \in P /\ x \in R
    OBVIOUS
  <2>6. Append(t, x) \in Seq(S) /\ Sel(Sel(t, P), R) = Sel(t, P \cap R)
    BY <1>2
  <2>7. Sel(Sel(Append(t, x), P), R) = Sel(Append(t, x), P \cap R)
    <3>1. CASE x \in P
      BY <2>2, <2>3, <2>4, <2>5, <2>6, <3>1, Zenon
    <3>2. CASE x \notin P
      BY <2>2, <2>4, <2>5, <2>6, <3>2, Zenon
    <3> QED
      BY <3>1, <3>2
  <2> QED
    BY <2>6, <2>7
<1>3. Seq(S) \subseteq Q
  <2> HIDE DEF Q
  <2> QED
    BY <1>1, <1>2, ByAppending
<1> QED
  BY <1>3

LEMMA SelSame ==
  ASSUME NEW S, NEW P, NEW R, S \cap P = S \cap R, NEW s \in Seq(S)
  PROVE  Sel(s, P) = Sel(s, R)
<1>1. \A i \in DOMAIN s : s[i] \in S
  OBVIOUS
<1>2. {i \in DOMAIN s : s[i] \in P} = {i \in DOMAIN s : s[i] \in R}
  BY <1>1
<1> QED
  BY <1>2 DEF Sel

-----------------------------------------------------------------------------
(* Merging rows instead of places: kf is the key of a row, bs the pairs of  *)
(* rows of which the first is better.                                       *)
KeysOf(s, kf) == [i \in DOMAIN s |-> kf[s[i]]]
BetterOf(s, bs) == {p \in Pairs(DOMAIN s) : <<s[p[1]], s[p[2]]>> \in bs}

(* Mrg is what OneEach makes of s.                                          *)
Mrg(s, kf, bs) == [k \in DOMAIN Winners(KeysOf(s, kf), BetterOf(s, bs)) |-> s[Winners(KeysOf(s, kf), BetterOf(s, bs))[k]]]

(* A row more: it comes last, or replaces the row of its key it is better   *)
(* than, if there is one.                                                   *)
HasKey(a, x, kf) == \E k \in DOMAIN a : kf[a[k]] = kf[x]
Or(y, x, kf, bs) == IF kf[y] = kf[x] /\ <<x, y>> \in bs THEN x ELSE y
Replaced(a, x, kf, bs) == [k \in DOMAIN a |-> Or(a[k], x, kf, bs)]
Added(a, x, kf, bs) == IF HasKey(a, x, kf) THEN Replaced(a, x, kf, bs) ELSE Append(a, x)

Shape(s, kf, bs) ==
  LET key == KeysOf(s, kf)
      better == BetterOf(s, bs)
  IN  /\ Len(key) = Len(s) /\ DOMAIN key = DOMAIN s /\ key = [i \in DOMAIN s |-> key[i]]
      /\ \A i \in 1..Len(s) : key[i] = kf[s[i]]
      /\ \A i, j \in 1..Len(s) : <<i, j>> \in better <=> <<s[i], s[j]>> \in bs

LEMMA KeysShape ==
  ASSUME NEW S, NEW s \in Seq(S), NEW kf, NEW bs
  PROVE  Shape(s, kf, bs)
<1> DEFINE key == KeysOf(s, kf)
<1>1. DOMAIN s = 1..Len(s) /\ Len(s) \in Nat
  OBVIOUS
<1>2. DOMAIN key = 1..Len(s) /\ key = [i \in 1..Len(s) |-> key[i]] /\ \A i \in 1..Len(s) : key[i] = kf[s[i]]
  BY <1>1 DEF KeysOf
<1> HIDE DEF key
<1>3. Len(key) = Len(s)
  BY <1>1, <1>2, SeqMade
<1>4. \A i, j \in 1..Len(s) : <<i, j>> \in BetterOf(s, bs) <=> <<s[i], s[j]>> \in bs
  BY <1>1 DEF BetterOf, Pairs
<1> QED
  BY <1>1, <1>2, <1>3, <1>4 DEF key, Shape

LEMMA MrgNone ==
  ASSUME NEW kf, NEW bs
  PROVE  Mrg(<<>>, kf, bs) = <<>>
<1> DEFINE e == <<>>
           key == KeysOf(e, kf)
           better == BetterOf(e, bs)
           at == Winners(key, better)
<1>1. e \in Seq({}) /\ Len(e) = 0
  OBVIOUS
<1> HIDE DEF e
<1>2. Len(key) = 0
  BY <1>1, KeysShape DEF Shape
<1> HIDE DEF key, better
<1>3. PICK w : IsKept(w, key, better) /\ Winners(key, better) = w[Len(key)]
  BY <1>2, WinnersAreKept
<1>4. w[0] = <<>>
  BY <1>2, <1>3 DEF IsKept
<1>5. at = <<>>
  BY <1>2, <1>3, <1>4
<1> HIDE DEF at
<1>6. [k \in DOMAIN at |-> e[at[k]]] = <<>>
  BY <1>5
<1>7. Mrg(e, kf, bs) = [k \in DOMAIN at |-> e[at[k]]]
  BY Zenon DEF Mrg, at, key, better
<1> QED
  BY <1>6, <1>7 DEF e

(* The places of the winners of a longer list.                              *)
LEMMA WinnersStep ==
  ASSUME NEW n \in Nat, NEW key, Len(key) = n, NEW more, Len(more) = n + 1, NEW better, NEW best,
         \A i \in 1..n : key[i] = more[i],
         \A i, j \in 1..n : <<i, j>> \in better <=> <<i, j>> \in best
  PROVE  Winners(more, best) = Merged(more, best, Winners(key, better), n + 1)
<1>1. PICK w : IsKept(w, key, better) /\ Winners(key, better) = w[n]
  BY WinnersAreKept
<1>2. PICK v : IsKept(v, more, best) /\ Winners(more, best) = v[n + 1]
  BY WinnersAreKept
<1>3. \A k \in 0..n : w[k] = IF k = 0 THEN <<>> ELSE Merged(key, better, w[k - 1], k)
  BY <1>1, Zenon DEF IsKept
<1>4. \A k \in 0..(n + 1) : v[k] = IF k = 0 THEN <<>> ELSE Merged(more, best, v[k - 1], k)
  BY <1>2, Zenon DEF IsKept
<1>5. \A k \in 0..n : OfEach(w[k], key, k)
  BY <1>1, KeptOnce
<1>6. ASSUME NEW k \in 0..(n - 1) PROVE Merged(key, better, w[k], k + 1) = Merged(more, best, w[k], k + 1)
  <2> DEFINE a == w[k]
  <2>1. \A i \in DOMAIN a : a[i] \in 1..n /\ k + 1 \in 1..n
    <3>1. k \in 0..n /\ k + 1 \in 1..n /\ \A i \in 1..k : i \in 1..n
      OBVIOUS
    <3>2. \A i \in DOMAIN a : a[i] \in 1..k
      BY <1>5, <3>1 DEF OfEach
    <3> QED
      BY <3>1, <3>2
  <2> HIDE DEF a
  <2>2. \A i \in DOMAIN a : (key[a[i]] = key[k + 1]) <=> (more[a[i]] = more[k + 1])
    BY <2>1
  <2>3. \A i \in DOMAIN a : (<<k + 1, a[i]>> \in better) <=> (<<k + 1, a[i]>> \in best)
    BY <2>1
  <2>4. {i \in DOMAIN a : key[a[i]] = key[k + 1]} = {i \in DOMAIN a : more[a[i]] = more[k + 1]}
    BY <2>2
  <2> DEFINE same == {i \in DOMAIN a : more[a[i]] = more[k + 1]}
  <2>5. Merged(key, better, a, k + 1) = IF same = {} THEN Append(a, k + 1)
          ELSE [i \in DOMAIN a |-> IF i \in same /\ <<k + 1, a[i]>> \in better THEN k + 1 ELSE a[i]]
    BY <2>4, Zenon DEF Merged
  <2>6. Merged(more, best, a, k + 1) = IF same = {} THEN Append(a, k + 1)
          ELSE [i \in DOMAIN a |-> IF i \in same /\ <<k + 1, a[i]>> \in best THEN k + 1 ELSE a[i]]
    BY Zenon DEF Merged
  <2> HIDE DEF same
  <2>7. [i \in DOMAIN a |-> IF i \in same /\ <<k + 1, a[i]>> \in better THEN k + 1 ELSE a[i]]
          = [i \in DOMAIN a |-> IF i \in same /\ <<k + 1, a[i]>> \in best THEN k + 1 ELSE a[i]]
    BY <2>3
  <2>8. Merged(key, better, a, k + 1) = Merged(more, best, a, k + 1)
    <3>1. CASE same = {}
      BY <2>5, <2>6, <3>1
    <3>2. CASE same # {}
      <4>1. Merged(key, better, a, k + 1)
              = [i \in DOMAIN a |-> IF i \in same /\ <<k + 1, a[i]>> \in better THEN k + 1 ELSE a[i]]
        BY <2>5, <3>2, Zenon
      <4>2. Merged(more, best, a, k + 1)
              = [i \in DOMAIN a |-> IF i \in same /\ <<k + 1, a[i]>> \in best THEN k + 1 ELSE a[i]]
        BY <2>6, <3>2, Zenon
      <4> QED
        BY <2>7, <4>1, <4>2, Zenon
    <3> QED
      BY <3>1, <3>2
  <2> QED
    BY <2>8 DEF a
<1> DEFINE N == {k \in Nat : k <= n /\ w[k] # v[k]}
<1>7. N = {}
  <2> SUFFICES ASSUME N # {} PROVE FALSE
    OBVIOUS
  <2>1. N \in SUBSET Nat
    OBVIOUS
  <2>2. PICK m \in N : \A k \in N : m <= k
    <3> HIDE DEF N
    <3> QED
      BY <2>1, LeastNumber
  <2>3. m \in 0..n /\ m \in 0..(n + 1) /\ w[m] # v[m]
    OBVIOUS
  <2>4. m # 0
    BY <1>3, <1>4, <2>3
  <2>5. m - 1 \in 0..(n - 1) /\ m - 1 \in Nat /\ m - 1 <= n /\ m - 1 < m /\ (m - 1) + 1 = m
    BY <2>3, <2>4
  <2>6. m - 1 \notin N
    <3> HIDE DEF N
    <3> QED
      BY <2>1, <2>2, <2>5
  <2>7. w[m - 1] = v[m - 1]
    BY <2>5, <2>6
  <2>8. w[m] = Merged(key, better, w[m - 1], m)
    BY <1>3, <2>3, <2>4
  <2>9. v[m] = Merged(more, best, v[m - 1], m)
    BY <1>4, <2>3, <2>4
  <2>10. Merged(key, better, w[m - 1], m) = Merged(more, best, w[m - 1], m)
    <3> DEFINE k == m - 1
    <3>1. k \in 0..(n - 1) /\ k + 1 = m
      BY <2>5
    <3> HIDE DEF k
    <3>2. Merged(key, better, w[k], k + 1) = Merged(more, best, w[k], k + 1)
      BY <1>6, <3>1
    <3> QED
      BY <3>1, <3>2 DEF k
  <2> QED
    BY <2>3, <2>7, <2>8, <2>9, <2>10
<1>8. w[n] = v[n]
  <2>1. n \notin N /\ n <= n
    BY <1>7
  <2> QED
    BY <2>1
<1>9. n + 1 \in 0..(n + 1) /\ n + 1 # 0 /\ (n + 1) - 1 = n
  OBVIOUS
<1>10. v[n + 1] = Merged(more, best, v[n], n + 1)
  BY <1>4, <1>9
<1> QED
  BY <1>1, <1>2, <1>8, <1>10

(* Merging, row by row.                                                     *)
LEMMA MrgStep ==
  ASSUME NEW S, NEW s \in Seq(S), NEW x \in S, NEW kf, NEW bs
  PROVE  Mrg(Append(s, x), kf, bs) = Added(Mrg(s, kf, bs), x, kf, bs)
<1> DEFINE n == Len(s)
           t == Append(s, x)
           key == KeysOf(s, kf)
           more == KeysOf(t, kf)
           better == BetterOf(s, bs)
           best == BetterOf(t, bs)
           at == Winners(key, better)
           a == Mrg(s, kf, bs)
<1>1. /\ t \in Seq(S) /\ n \in Nat /\ Len(t) = n + 1 /\ DOMAIN t = 1..(n + 1)
      /\ t[n + 1] = x /\ \A i \in 1..n : t[i] = s[i]
  BY AppendedTo
<1>2. Mrg(t, kf, bs) = [k \in DOMAIN Winners(more, best) |-> t[Winners(more, best)[k]]]
  BY Zenon DEF Mrg
<1>3. a = [k \in DOMAIN at |-> s[at[k]]]
  BY Zenon DEF Mrg
<1> HIDE DEF t, a
<1>4. /\ Len(key) = n /\ \A i \in 1..n : key[i] = kf[s[i]]
      /\ \A i, j \in 1..n : <<i, j>> \in better <=> <<s[i], s[j]>> \in bs
  BY KeysShape DEF Shape
<1>5. /\ Len(more) = n + 1 /\ \A i \in 1..(n + 1) : more[i] = kf[t[i]]
      /\ \A i, j \in 1..(n + 1) : <<i, j>> \in best <=> <<t[i], t[j]>> \in bs
  <2>1. Shape(t, kf, bs)
    BY <1>1, KeysShape
  <2>2. /\ Len(more) = Len(t) /\ \A i \in 1..Len(t) : more[i] = kf[t[i]]
        /\ \A i, j \in 1..Len(t) : <<i, j>> \in best <=> <<t[i], t[j]>> \in bs
    BY <2>1 DEF Shape
  <2> HIDE DEF more, best, n
  <2> QED
    BY <1>1, <2>2
<1> HIDE DEF key, more, better, best, n
<1>6. \A i \in 1..n : i \in 1..(n + 1)
  BY <1>1
<1>7. Winners(more, best) = Merged(more, best, at, n + 1)
  <2>1. \A i \in 1..n : key[i] = more[i]
    BY <1>1, <1>4, <1>5, <1>6
  <2>2. \A i, j \in 1..n : <<i, j>> \in better <=> <<i, j>> \in best
    BY <1>1, <1>4, <1>5, <1>6
  <2>3. n \in Nat /\ Len(key) = n /\ Len(more) = n + 1
    BY <1>1, <1>4, <1>5
  <2>4. Winners(more, best) = Merged(more, best, Winners(key, better), n + 1)
    BY <2>1, <2>2, <2>3, WinnersStep
  <2> QED
    BY <2>4
<1>8. OfEach(at, key, n)
  BY <1>1, <1>4, WinnersOnce
<1> HIDE DEF at
<1>9. IsSeq(at) /\ Len(at) \in Nat /\ DOMAIN at = 1..Len(at) /\ \A k \in DOMAIN at : at[k] \in 1..n
  <2>1. IsSeq(at) /\ \A k \in DOMAIN at : at[k] \in 1..n
    BY <1>8 DEF OfEach
  <2> QED
    BY <2>1, SeqShape
<1> DEFINE m == Len(at)
<1>10. DOMAIN a = 1..m /\ (\A k \in 1..m : a[k] = s[at[k]] /\ a[k] = t[at[k]]) /\ a = [k \in 1..m |-> a[k]]
  BY <1>1, <1>3, <1>9
<1>11. IsSeq(a) /\ Len(a) = m
  BY <1>9, <1>10, SeqMade
<1> DEFINE same == {k \in DOMAIN at : more[at[k]] = more[n + 1]}
<1>12. \A k \in 1..m : k \in same <=> kf[a[k]] = kf[x]
  <2> TAKE k \in 1..m
  <2>1. at[k] \in 1..(n + 1) /\ n + 1 \in 1..(n + 1)
    BY <1>1, <1>6, <1>9
  <2>2. more[at[k]] = kf[a[k]] /\ more[n + 1] = kf[x]
    BY <1>1, <1>5, <1>10, <2>1
  <2> QED
    BY <1>9, <2>2
<1>13. \A k \in 1..m : <<n + 1, at[k]>> \in best <=> <<x, a[k]>> \in bs
  <2> TAKE k \in 1..m
  <2>1. at[k] \in 1..(n + 1) /\ n + 1 \in 1..(n + 1)
    BY <1>1, <1>6, <1>9
  <2> QED
    BY <1>1, <1>5, <1>10, <2>1
<1>14. (same = {}) <=> ~HasKey(a, x, kf)
  BY <1>9, <1>10, <1>12 DEF HasKey
<1>15. CASE same = {}
  <2> DEFINE u == Append(at, n + 1)
  <2>1. Winners(more, best) = u
    BY <1>7, <1>15 DEF Merged
  <2>2. DOMAIN u = 1..(m + 1) /\ u[m + 1] = n + 1 /\ \A k \in 1..m : u[k] = at[k]
    <3>1. at \in Seq(Nat)
      <4>1. at \in Seq(Entries(at)) /\ \A y \in Entries(at) : y \in Nat
        BY <1>9, SeqShape DEF Entries
      <4> QED
        BY <4>1
    <3> QED
      BY <1>1, <3>1
  <2> DEFINE z == [k \in DOMAIN u |-> t[u[k]]]
  <2>3. Mrg(t, kf, bs) = z
    BY <1>2, <2>1
  <2> HIDE DEF u
  <2>4. DOMAIN z = 1..(m + 1) /\ z = [k \in 1..(m + 1) |-> z[k]] /\ z[m + 1] = x /\ \A k \in 1..m : z[k] = a[k]
    BY <1>1, <1>9, <1>10, <2>2
  <2> HIDE DEF z
  <2>5. IsSeq(z) /\ Len(z) = m + 1
    BY <1>9, <2>4, SeqMade
  <2>6. z = Append(a, x)
    <3> DEFINE T == Entries(a) \cup {x}
               b == Append(a, x)
    <3>1. a \in Seq(T) /\ x \in T
      BY <1>11, SeqShape
    <3> HIDE DEF T
    <3>2. b \in Seq(T) /\ Len(b) = m + 1 /\ b[m + 1] = x /\ \A k \in 1..m : b[k] = a[k]
      BY <1>11, <3>1
    <3>3. b = [k \in 1..(m + 1) |-> b[k]]
      <4> HIDE DEF b
      <4> QED
        BY <3>2
    <3> HIDE DEF b
    <3>4. \A k \in 1..(m + 1) : z[k] = b[k]
      <4> TAKE k \in 1..(m + 1)
      <4>1. k = m + 1 \/ k \in 1..m
        BY <1>9
      <4> QED
        BY <2>4, <3>2, <4>1
    <3> QED
      BY <2>4, <3>3, <3>4 DEF b
  <2> QED
    BY <1>14, <1>15, <2>3, <2>6 DEF Added, t, a
<1>16. CASE same # {}
  <2> DEFINE u == [k \in DOMAIN at |-> IF k \in same /\ <<n + 1, at[k]>> \in best THEN n + 1 ELSE at[k]]
             z == [k \in DOMAIN u |-> t[u[k]]]
  <2>1. Winners(more, best) = u
    BY <1>7, <1>16 DEF Merged
  <2>2. Mrg(t, kf, bs) = z
    BY <1>2, <2>1
  <2> HIDE DEF same
  <2>3. DOMAIN u = 1..m /\ \A k \in 1..m : u[k] = IF k \in same /\ <<n + 1, at[k]>> \in best THEN n + 1 ELSE at[k]
    BY <1>9
  <2> HIDE DEF u
  <2>4. DOMAIN z = 1..m /\ z = [k \in 1..m |-> z[k]] /\ \A k \in 1..m : z[k] = t[u[k]]
    BY <2>3
  <2>5. \A k \in 1..m : z[k] = Or(a[k], x, kf, bs)
    <3> TAKE k \in 1..m
    <3>1. CASE k \in same /\ <<n + 1, at[k]>> \in best
      BY <1>1, <1>12, <1>13, <2>3, <2>4, <3>1 DEF Or
    <3>2. CASE ~(k \in same /\ <<n + 1, at[k]>> \in best)
      BY <1>10, <1>12, <1>13, <2>3, <2>4, <3>2 DEF Or
    <3> QED
      BY <3>1, <3>2
  <2> HIDE DEF z
  <2>6. z = Replaced(a, x, kf, bs)
    BY <1>10, <2>4, <2>5 DEF Replaced
  <2> QED
    BY <1>14, <1>16, <2>2, <2>6 DEF Added, t, a, same
<1> QED
  BY <1>15, <1>16

-----------------------------------------------------------------------------
(* What merging keeps.                                                      *)
LEMMA AddedIn ==
  ASSUME NEW S, NEW a \in Seq(S), NEW x \in S, NEW kf, NEW bs
  PROVE  /\ Added(a, x, kf, bs) \in Seq(S) /\ Replaced(a, x, kf, bs) \in Seq(S)
         /\ Len(Replaced(a, x, kf, bs)) = Len(a)
<1> DEFINE z == Replaced(a, x, kf, bs)
<1>1. DOMAIN a = 1..Len(a) /\ Len(a) \in Nat /\ \A i \in 1..Len(a) : a[i] \in S
  OBVIOUS
<1>2. DOMAIN z = 1..Len(a) /\ z = [k \in 1..Len(a) |-> z[k]] /\ \A k \in 1..Len(a) : z[k] = Or(a[k], x, kf, bs)
  BY <1>1 DEF Replaced
<1> HIDE DEF z
<1>3. IsSeq(z) /\ Len(z) = Len(a)
  BY <1>1, <1>2, SeqMade
<1>4. \A k \in 1..Len(a) : z[k] \in S
  BY <1>1, <1>2 DEF Or
<1>5. z \in Seq(S)
  BY <1>1, <1>2, <1>4
<1>6. Append(a, x) \in Seq(S)
  OBVIOUS
<1> QED
  BY <1>3, <1>5, <1>6 DEF Added, z

LEMMA MrgIn ==
  ASSUME NEW S, NEW kf, NEW bs, NEW s \in Seq(S)
  PROVE  Mrg(s, kf, bs) \in Seq(S)
<1> DEFINE Q == {t \in Seq(S) : Mrg(t, kf, bs) \in Seq(S)}
<1>1. <<>> \in Q
  <2>1. <<>> \in Seq(S)
    OBVIOUS
  <2> QED
    BY <2>1, MrgNone
<1>2. ASSUME NEW t \in Seq(S), NEW x \in S, t \in Q PROVE Append(t, x) \in Q
  <2>1. Append(t, x) \in Seq(S) /\ Mrg(t, kf, bs) \in Seq(S)
    BY <1>2
  <2>2. Mrg(Append(t, x), kf, bs) = Added(Mrg(t, kf, bs), x, kf, bs)
    BY MrgStep
  <2>3. Added(Mrg(t, kf, bs), x, kf, bs) \in Seq(S)
    BY <2>1, AddedIn
  <2> QED
    BY <2>1, <2>2, <2>3
<1>3. Seq(S) \subseteq Q
  <2> HIDE DEF Q
  <2> QED
    BY <1>1, <1>2, ByAppending
<1> QED
  BY <1>3

(* Merging keeps rows only of the list, and one of every key of it.         *)
LEMMA MrgEntries ==
  ASSUME NEW S, NEW s \in Seq(S), NEW kf, NEW bs
  PROVE  /\ TakenFrom(Mrg(s, kf, bs), s)
         /\ \A x \in Entries(Mrg(s, kf, bs)) : x \in Entries(s)
         /\ \A x \in Entries(s) : HasKey(Mrg(s, kf, bs), x, kf)
<1> DEFINE key == KeysOf(s, kf)
           better == BetterOf(s, bs)
           at == Winners(key, better)
           t == Mrg(s, kf, bs)
<1>1. t = [k \in DOMAIN at |-> s[at[k]]]
  BY Zenon DEF Mrg
<1>2. IsSeq(s)
  BY DEF IsSeq
<1>3. /\ DOMAIN key = DOMAIN s /\ key = [i \in DOMAIN s |-> key[i]]
      /\ \A i \in 1..Len(s) : key[i] = kf[s[i]]
  BY KeysShape DEF Shape
<1> HIDE DEF key, better
<1>4. Picked(t, s, at)
  BY <1>1 DEF Picked
<1> HIDE DEF t
<1>5. Best(t, s, key, better)
  BY <1>2, <1>3, <1>4, Zenon DEF Best
<1>6. PICK h : /\ Takes(t, s, h) /\ \A i, j \in 1..Len(t) : key[h[i]] = key[h[j]] => i = j
               /\ \A m \in 1..Len(s) : \E i \in 1..Len(t) : key[h[i]] = key[m]
  <2>1. OneOf(t, s, key)
    BY <1>5, OneOfEach, Zenon
  <2> QED
    BY <2>1, Zenon DEF OneOf
<1>7. TakenFrom(t, s)
  BY <1>6 DEF TakenFrom
<1>8. DOMAIN s = 1..Len(s) /\ DOMAIN t = 1..Len(t)
  BY <1>2, <1>6, SeqShape DEF Takes
<1>9. ASSUME NEW x \in Entries(s) PROVE HasKey(t, x, kf)
  <2>1. PICK m \in 1..Len(s) : s[m] = x
    BY <1>8 DEF Entries
  <2>2. PICK i \in 1..Len(t) : key[h[i]] = key[m]
    BY <1>6
  <2>3. h[i] \in 1..Len(s) /\ t[i] = s[h[i]]
    BY <1>6 DEF Takes
  <2>4. kf[t[i]] = kf[x]
    BY <1>3, <2>1, <2>2, <2>3
  <2> QED
    BY <1>8, <2>4 DEF HasKey
<1>10. \A x : x \in Entries(t) => x \in Entries(s)
  BY <1>2, <1>7, TakenEntries
<1> QED
  BY <1>7, <1>9, <1>10 DEF t

(* A choice that asks for the key only.                                     *)
ByKey(P, S, kf) == \A y, z \in S : kf[y] = kf[z] => (y \in P <=> z \in P)

LEMMA SelEntries ==
  ASSUME NEW S, NEW s \in Seq(S), NEW P
  PROVE  \A x : x \in Entries(Sel(s, P)) <=> x \in Entries(s) /\ x \in P
<1> DEFINE at == {i \in DOMAIN s : s[i] \in P}
<1>1. IsSeq(s)
  BY DEF IsSeq
<1>2. \A x : (\E i \in at : s[i] = x) <=> x \in Entries(s) /\ x \in P
  BY DEF Entries
<1>3. at \in SUBSET (DOMAIN s)
  OBVIOUS
<1>4. Sel(s, P) = Only(s, at)
  BY DEF Sel
<1> HIDE DEF at
<1> QED
  BY <1>1, <1>2, <1>3, <1>4, OnlyTakes

LEMMA ReplacedStep ==
  ASSUME NEW S, NEW a \in Seq(S), NEW y \in S, NEW x \in S, NEW kf, NEW bs
  PROVE  Replaced(Append(a, y), x, kf, bs) = Append(Replaced(a, x, kf, bs), Or(y, x, kf, bs))
<1> DEFINE n == Len(a)
           b == Append(a, y)
           r == Replaced(a, x, kf, bs)
           q == Replaced(b, x, kf, bs)
           o == Or(y, x, kf, bs)
           c == Append(r, o)
<1>1. /\ b \in Seq(S) /\ n \in Nat /\ Len(b) = n + 1 /\ DOMAIN b = 1..(n + 1)
      /\ b[n + 1] = y /\ \A i \in 1..n : b[i] = a[i]
  BY AppendedTo
<1>2. r \in Seq(S) /\ Len(r) = n /\ q \in Seq(S) /\ Len(q) = n + 1
  <2>1. r \in Seq(S) /\ Len(r) = n
    BY AddedIn
  <2>2. b \in Seq(S) /\ Len(b) = n + 1
    BY <1>1
  <2> HIDE DEF b
  <2>3. q \in Seq(S) /\ Len(q) = Len(b)
    BY <2>2, AddedIn
  <2> QED
    BY <2>1, <2>2, <2>3
<1>3. \A i \in 1..n : r[i] = Or(a[i], x, kf, bs)
  BY DEF Replaced
<1>4. \A i \in 1..(n + 1) : q[i] = Or(b[i], x, kf, bs)
  BY <1>1 DEF Replaced
<1>5. o \in S
  BY DEF Or
<1> HIDE DEF b, r, q, o, n
<1>6. c \in Seq(S) /\ Len(c) = n + 1 /\ c[n + 1] = o /\ \A i \in 1..n : c[i] = r[i]
  BY <1>1, <1>2, <1>5
<1> HIDE DEF c
<1>7. \A i \in 1..(n + 1) : q[i] = c[i]
  <2> TAKE i \in 1..(n + 1)
  <2>1. i = n + 1 \/ i \in 1..n
    BY <1>1
  <2> QED
    BY <1>1, <1>3, <1>4, <1>6, <2>1 DEF o
<1>8. q = [i \in 1..(n + 1) |-> q[i]] /\ c = [i \in 1..(n + 1) |-> c[i]]
  BY <1>1, <1>2, <1>6
<1>9. q = c
  BY <1>7, <1>8, Zenon
<1> QED
  BY <1>9 DEF q, c, b, r, o

LEMMA SelReplaced ==
  ASSUME NEW S, NEW kf, NEW bs, NEW P, ByKey(P, S, kf), NEW x \in S, NEW a \in Seq(S)
  PROVE  Sel(Replaced(a, x, kf, bs), P) = IF x \in P THEN Replaced(Sel(a, P), x, kf, bs) ELSE Sel(a, P)
<1> DEFINE R(t) == Replaced(t, x, kf, bs)
           Q == {t \in Seq(S) : Sel(R(t), P) = IF x \in P THEN R(Sel(t, P)) ELSE Sel(t, P)}
<1>1. <<>> \in Q
  <2>1. <<>> \in Seq(S) /\ Sel(<<>>, P) = <<>>
    BY SelNone
  <2>2. R(<<>>) = <<>>
    BY DEF Replaced
  <2> QED
    BY <2>1, <2>2
<1>2. ASSUME NEW t \in Seq(S), NEW y \in S, t \in Q PROVE Append(t, y) \in Q
  <2> DEFINE o == Or(y, x, kf, bs)
  <2>1. Append(t, y) \in Seq(S) /\ o \in S
    BY DEF Or
  <2>2. R(Append(t, y)) = Append(R(t), o) /\ R(t) \in Seq(S)
    <3>1. R(Append(t, y)) = Append(R(t), o)
      BY ReplacedStep
    <3>2. R(t) \in Seq(S)
      BY AddedIn
    <3> QED
      BY <3>1, <3>2
  <2>3. Sel(Append(R(t), o), P) = IF o \in P THEN Append(Sel(R(t), P), o) ELSE Sel(R(t), P)
    BY <2>1, <2>2, SelStep
  <2>4. Sel(Append(t, y), P) = IF y \in P THEN Append(Sel(t, P), y) ELSE Sel(t, P)
    BY SelStep
  <2>5. o \in P <=> y \in P
    BY DEF Or, ByKey
  <2>6. x \notin P /\ y \in P => o = y
    BY DEF Or, ByKey
  <2>7. R(Append(Sel(t, P), y)) = Append(R(Sel(t, P)), o)
    <3>1. Sel(t, P) \in Seq(S)
      BY SelIn
    <3> QED
      BY <3>1, ReplacedStep
  <2>8. Sel(R(t), P) = IF x \in P THEN R(Sel(t, P)) ELSE Sel(t, P)
    BY <1>2
  <2> HIDE DEF R, o
  <2>9. Sel(R(Append(t, y)), P) = IF x \in P THEN R(Sel(Append(t, y), P)) ELSE Sel(Append(t, y), P)
    <3>1. CASE y \in P
      BY <2>2, <2>3, <2>4, <2>5, <2>6, <2>7, <2>8, <3>1
    <3>2. CASE y \notin P
      BY <2>2, <2>3, <2>4, <2>5, <2>8, <3>2
    <3> QED
      BY <3>1, <3>2
  <2> QED
    BY <2>1, <2>9
<1>3. Seq(S) \subseteq Q
  <2> HIDE DEF Q
  <2> QED
    BY <1>1, <1>2, ByAppending
<1>4. a \in Q
  <2> HIDE DEF Q
  <2> QED
    BY <1>3
<1> QED
  BY <1>4

(* Choosing by key before merging is choosing after it.                     *)
LEMMA MrgSel ==
  ASSUME NEW S, NEW kf, NEW bs, NEW P, ByKey(P, S, kf), NEW s \in Seq(S)
  PROVE  Sel(Mrg(s, kf, bs), P) = Mrg(Sel(s, P), kf, bs)
<1> DEFINE M(t) == Mrg(t, kf, bs)
           Q == {t \in Seq(S) : Sel(M(t), P) = M(Sel(t, P))}
<1>1. <<>> \in Q
  <2>1. <<>> \in Seq(S) /\ Sel(<<>>, P) = <<>> /\ M(<<>>) = <<>>
    BY SelNone, MrgNone
  <2> QED
    BY <2>1
<1>2. ASSUME NEW t \in Seq(S), NEW x \in S, t \in Q PROVE Append(t, x) \in Q
  <2> DEFINE m == M(t)
             c == Sel(t, P)
  <2>1. Append(t, x) \in Seq(S) /\ m \in Seq(S) /\ c \in Seq(S) /\ Sel(m, P) = M(c) /\ M(c) \in Seq(S)
    <3>1. Append(t, x) \in Seq(S) /\ Sel(m, P) = M(c)
      BY <1>2
    <3>2. m \in Seq(S) /\ c \in Seq(S)
      BY MrgIn, SelIn
    <3> HIDE DEF c, m
    <3>3. M(c) \in Seq(S)
      BY <3>2, MrgIn
    <3> QED
      BY <3>1, <3>2, <3>3
  <2>2. M(Append(t, x)) = Added(m, x, kf, bs)
    BY MrgStep
  <2>3. Sel(Append(t, x), P) = IF x \in P THEN Append(c, x) ELSE c
    BY SelStep
  <2>4. M(Append(c, x)) = Added(M(c), x, kf, bs)
    BY <2>1, MrgStep
  <2>5. Sel(Append(m, x), P) = IF x \in P THEN Append(Sel(m, P), x) ELSE Sel(m, P)
    <3> HIDE DEF m
    <3> QED
      BY <2>1, SelStep
  <2>6. Sel(Replaced(m, x, kf, bs), P) = IF x \in P THEN Replaced(Sel(m, P), x, kf, bs) ELSE Sel(m, P)
    BY <2>1, SelReplaced
  <2>7. x \in P => (HasKey(Sel(m, P), x, kf) <=> HasKey(m, x, kf))
    <3> SUFFICES ASSUME x \in P PROVE HasKey(Sel(m, P), x, kf) <=> HasKey(m, x, kf)
      OBVIOUS
    <3>1. HasKey(m, x, kf) <=> \E y \in Entries(m) : kf[y] = kf[x]
      BY DEF HasKey, Entries
    <3>2. HasKey(Sel(m, P), x, kf) <=> \E y \in Entries(Sel(m, P)) : kf[y] = kf[x]
      BY DEF HasKey, Entries
    <3>3. \A y : y \in Entries(Sel(m, P)) <=> y \in Entries(m) /\ y \in P
      BY <2>1, SelEntries
    <3>4. \A y \in Entries(m) : y \in S
      BY <2>1 DEF Entries
    <3>5. \A y \in Entries(m) : kf[y] = kf[x] => y \in P
      BY <3>4 DEF ByKey
    <3> QED
      BY <3>1, <3>2, <3>3, <3>5
  <2> HIDE DEF M, m, c
  <2>8. Sel(Added(m, x, kf, bs), P) = IF x \in P THEN Added(Sel(m, P), x, kf, bs) ELSE Sel(m, P)
    <3>1. CASE HasKey(m, x, kf)
      BY <2>6, <2>7, <3>1 DEF Added
    <3>2. CASE ~HasKey(m, x, kf)
      BY <2>5, <2>7, <3>2 DEF Added
    <3> QED
      BY <3>1, <3>2
  <2>9. Sel(M(Append(t, x)), P) = M(Sel(Append(t, x), P))
    <3>1. CASE x \in P
      BY <2>1, <2>2, <2>3, <2>4, <2>8, <3>1
    <3>2. CASE x \notin P
      BY <2>1, <2>2, <2>3, <2>8, <3>2
    <3> QED
      BY <3>1, <3>2
  <2> QED
    BY <2>1, <2>9
<1>3. Seq(S) \subseteq Q
  <2> HIDE DEF Q
  <2> QED
    BY <1>1, <1>2, ByAppending
<1> QED
  BY <1>3

-----------------------------------------------------------------------------
(* Sorting by pairs of rows of which the first is better.                   *)
BeforeOf(s, bs) == {p \in Pairs(DOMAIN s) : \/ <<s[p[1]], s[p[2]]>> \in bs
                                            \/ p[1] < p[2] /\ <<s[p[2]], s[p[1]]>> \notin bs}
SortOf(s, bs) == [k \in DOMAIN Ranking(DOMAIN s, BeforeOf(s, bs)) |-> s[Ranking(DOMAIN s, BeforeOf(s, bs))[k]]]

(* An order of rows by one column, and then another.                        *)
OrderOf(bs, S) ==
  \E f \in [S -> Int], g \in [S -> Int] :
    \A x, y \in S : <<x, y>> \in bs <=> f[x] > f[y] \/ (f[x] = f[y] /\ g[x] > g[y])

LEMMA BeforePlaces ==
  ASSUME NEW S, NEW s \in Seq(S), NEW bs
  PROVE  \A i, j \in 1..Len(s) : <<i, j>> \in BeforeOf(s, bs) <=>
           (<<s[i], s[j]>> \in bs \/ (i < j /\ <<s[j], s[i]>> \notin bs))
<1>1. DOMAIN s = 1..Len(s)
  OBVIOUS
<1> QED
  BY <1>1 DEF BeforeOf, Pairs

LEMMA OrderTotal ==
  ASSUME NEW S, NEW s \in Seq(S), NEW bs, OrderOf(bs, S)
  PROVE  TotalOrder(DOMAIN s, BeforeOf(s, bs))
<1> DEFINE n == Len(s)
           before == BeforeOf(s, bs)
<1>1. PICK f \in [S -> Int], g \in [S -> Int] :
        \A x, y \in S : <<x, y>> \in bs <=> f[x] > f[y] \/ (f[x] = f[y] /\ g[x] > g[y])
  BY Zenon DEF OrderOf
<1>2. DOMAIN s = 1..n /\ n \in Nat /\ \A i \in 1..n : s[i] \in S
  OBVIOUS
<1>3. \A i, j \in 1..n : <<i, j>> \in before <=> (<<s[i], s[j]>> \in bs \/ (i < j /\ <<s[j], s[i]>> \notin bs))
  BY BeforePlaces
<1> HIDE DEF n, before
<1> DEFINE F == [i \in 1..n |-> f[s[i]]]
           G == [i \in 1..n |-> g[s[i]]]
<1>4. F \in [1..n -> Int] /\ G \in [1..n -> Int] /\ \A i \in 1..n : F[i] = f[s[i]] /\ G[i] = g[s[i]]
  BY <1>2
<1> HIDE DEF F, G
<1>5. ASSUME NEW i \in 1..n, NEW j \in 1..n
      PROVE  <<i, j>> \in before <=>
               \/ F[i] > F[j] \/ (F[i] = F[j] /\ G[i] > G[j]) \/ (F[i] = F[j] /\ G[i] = G[j] /\ i < j)
  <2>1. F[i] \in Int /\ F[j] \in Int /\ G[i] \in Int /\ G[j] \in Int
    BY <1>4
  <2>2. <<s[i], s[j]>> \in bs <=> F[i] > F[j] \/ (F[i] = F[j] /\ G[i] > G[j])
    BY <1>1, <1>2, <1>4
  <2>3. <<s[j], s[i]>> \in bs <=> F[j] > F[i] \/ (F[j] = F[i] /\ G[j] > G[i])
    BY <1>1, <1>2, <1>4
  <2>4. <<i, j>> \in before <=> (<<s[i], s[j]>> \in bs \/ (i < j /\ <<s[j], s[i]>> \notin bs))
    BY <1>3
  <2> QED
    BY <2>1, <2>2, <2>3, <2>4
<1>6. TotalOrder(1..n, before)
  BY <1>2, <1>4, <1>5, ReturnOrder
<1> QED
  BY <1>2, <1>6 DEF before

(* Sorting keeps every row.                                                 *)
LEMMA SortedAll ==
  ASSUME NEW S, NEW s \in Seq(S), NEW bs, OrderOf(bs, S)
  PROVE  LET t == SortOf(s, bs)
             at == Ranking(DOMAIN s, BeforeOf(s, bs))
         IN  /\ t \in Seq(S) /\ Len(t) = Len(s)
             /\ \A x : x \in Entries(t) <=> x \in Entries(s)
             /\ \A i \in 1..Len(s) : /\ at[i] \in 1..Len(s) /\ t[i] = s[at[i]]
                                     /\ Cardinality(Preceding(1..Len(s), BeforeOf(s, bs), at[i])) = i - 1
             /\ \A i, j \in 1..Len(s) : at[i] = at[j] => i = j
             /\ \A x, y \in 1..Len(s) : Cardinality(Preceding(1..Len(s), BeforeOf(s, bs), x))
                                          = Cardinality(Preceding(1..Len(s), BeforeOf(s, bs), y)) => x = y
<1> DEFINE n == Len(s)
           before == BeforeOf(s, bs)
           at == Ranking(DOMAIN s, before)
           t == SortOf(s, bs)
<1>1. DOMAIN s = 1..n /\ n \in Nat /\ \A i \in 1..n : s[i] \in S
  OBVIOUS
<1>2. IsFiniteSet(1..n) /\ Cardinality(1..n) = n
  <2> HIDE DEF n
  <2> QED
    BY <1>1, FS_Interval
<1>3. TotalOrder(1..n, before)
  BY <1>1, OrderTotal
<1>4. at = Ranking(1..n, before)
  BY <1>1
<1>5. t = [k \in DOMAIN at |-> s[at[k]]]
  BY Zenon DEF SortOf
<1> HIDE DEF n, before, t, at
<1>6. /\ at \in [1..n -> 1..n] /\ (\A i, j \in 1..n : at[i] = at[j] => i = j)
      /\ \A x \in 1..n : \E i \in 1..n : at[i] = x
      /\ \A i \in 1..n : Cardinality(Preceding(1..n, before, at[i])) = i - 1
      /\ \A x, y \in 1..n : Cardinality(Preceding(1..n, before, x)) = Cardinality(Preceding(1..n, before, y)) => x = y
  <2> DEFINE T == 1..n
             r == Ranking(T, before)
             k == Cardinality(T)
  <2> HIDE DEF T
  <2>1. IsFiniteSet(T) /\ TotalOrder(T, before)
    BY <1>2, <1>3 DEF T
  <2>2. r \in [1..k -> T] /\ (\A i, j \in 1..k : r[i] = r[j] => i = j) /\ \A x \in T : \E i \in 1..k : r[i] = x
    BY <2>1, RankingLists
  <2>3. \A i \in 1..k : Cardinality(Preceding(T, before, r[i])) = i - 1
    BY <2>1, RankingLists
  <2>4. \A x, y \in T : Cardinality(Preceding(T, before, x)) = Cardinality(Preceding(T, before, y)) => x = y
    BY <2>1, RankingLists
  <2>5. r = at /\ k = n
    BY <1>2, <1>4 DEF T
  <2> HIDE DEF r, k
  <2> QED
    BY <2>2, <2>3, <2>4, <2>5 DEF T
<1>7. DOMAIN t = 1..n /\ t = [k \in 1..n |-> t[k]] /\ \A i \in 1..n : t[i] = s[at[i]]
  BY <1>5, <1>6
<1>8. IsSeq(t) /\ Len(t) = n
  BY <1>1, <1>7, SeqMade
<1>9. t \in Seq(S)
  <2>1. \A k \in 1..n : t[k] \in S
    BY <1>1, <1>6, <1>7
  <2> QED
    BY <1>1, <1>7, <2>1
<1>10. \A x : x \in Entries(t) <=> x \in Entries(s)
  BY <1>1, <1>6, <1>7 DEF Entries
<1>11. \A i \in 1..n : at[i] \in 1..n
  BY <1>6
<1> QED
  BY <1>6, <1>7, <1>8, <1>9, <1>10, <1>11 DEF n, before, t, at

(* A part of a list that is better than the rest is at the top of it.       *)
LEMMA SortedTop ==
  ASSUME NEW S, NEW s \in Seq(S), NEW bs, OrderOf(bs, S), NEW P,
         \A y, z \in S : z \in P /\ (<<y, z>> \in bs \/ <<z, y>> \notin bs) => y \in P
  PROVE  LET h == Sel(s, P)
         IN  Len(h) <= Len(s) /\ \A i \in 1..Len(h) : SortOf(s, bs)[i] = SortOf(h, bs)[i]
<1> DEFINE n == Len(s)
           h == Sel(s, P)
           m == Len(h)
           here == {i \in DOMAIN s : s[i] \in P}
           b == BeforeOf(s, bs)
           c == BeforeOf(h, bs)
           at == Ranking(DOMAIN s, b)
           bt == Ranking(DOMAIN h, c)
           Below(x) == Preceding(1..n, b, x)
           Under(x) == Preceding(1..m, c, x)
<1>1. DOMAIN s = 1..n /\ n \in Nat /\ \A i \in 1..n : s[i] \in S
  OBVIOUS
<1>2. h \in Seq(S)
  BY SelIn
<1>3. PICK g : Drawn(h, s, here, g)
  <2>1. IsSeq(s) /\ here \in SUBSET (DOMAIN s)
    BY DEF IsSeq
  <2>2. h = Only(s, here)
    BY DEF Sel
  <2> HIDE DEF h, here
  <2> QED
    BY <2>1, <2>2, OnlyDraws
<1>4. m \in Nat
  <2> HIDE DEF h
  <2> QED
    BY <1>2
<1>5. \A i \in 1..n : i \in here <=> s[i] \in P
  BY <1>1
<1>6. \A i, j \in 1..n : <<i, j>> \in b <=> (<<s[i], s[j]>> \in bs \/ (i < j /\ <<s[j], s[i]>> \notin bs))
  BY BeforePlaces
<1>7. \A i, j \in 1..m : <<i, j>> \in c <=> (<<h[i], h[j]>> \in bs \/ (i < j /\ <<h[j], h[i]>> \notin bs))
  <2> HIDE DEF h
  <2> QED
    BY <1>2, BeforePlaces
<1>8. /\ \A i \in 1..n : at[i] \in 1..n /\ SortOf(s, bs)[i] = s[at[i]] /\ Cardinality(Below(at[i])) = i - 1
      /\ \A x, z \in 1..n : Cardinality(Below(x)) = Cardinality(Below(z)) => x = z
  <2> DEFINE q == s
  <2>1. q \in Seq(S)
    OBVIOUS
  <2> HIDE DEF q
  <2>2. /\ \A i \in 1..Len(q) : /\ Ranking(DOMAIN q, BeforeOf(q, bs))[i] \in 1..Len(q)
                                 /\ SortOf(q, bs)[i] = q[Ranking(DOMAIN q, BeforeOf(q, bs))[i]]
                                 /\ Cardinality(Preceding(1..Len(q), BeforeOf(q, bs), Ranking(DOMAIN q, BeforeOf(q, bs))[i])) = i - 1
        /\ \A x, y \in 1..Len(q) : Cardinality(Preceding(1..Len(q), BeforeOf(q, bs), x))
                                    = Cardinality(Preceding(1..Len(q), BeforeOf(q, bs), y)) => x = y
    BY <2>1, SortedAll
  <2>3. q = s
    BY DEF q
  <2> QED
    BY <2>2, <2>3, Zenon
<1>9. \A i \in 1..m : bt[i] \in 1..m /\ SortOf(h, bs)[i] = h[bt[i]] /\ Cardinality(Under(bt[i])) = i - 1
  <2> HIDE DEF h
  <2> QED
    BY <1>2, SortedAll
<1>10. here \in SUBSET (1..n)
  BY <1>1
<1> HIDE DEF n, h, m, here, b, c, at, bt
<1>11. /\ g \in [1..m -> here] /\ (\A i, j \in 1..m : i < j => g[i] < g[j])
       /\ (\A a \in here : \E i \in 1..m : g[i] = a) /\ \A i \in 1..m : h[i] = s[g[i]]
  BY <1>3 DEF Drawn, m
<1>12. \A i \in 1..m : g[i] \in 1..n /\ g[i] \in Nat /\ s[g[i]] \in P
  <2> TAKE i \in 1..m
  <2>1. g[i] \in here
    BY <1>11
  <2>2. g[i] \in 1..n
    BY <1>10, <2>1
  <2> QED
    BY <1>1, <1>5, <2>1, <2>2
<1>13. \A i, j \in 1..m : (i < j <=> g[i] < g[j]) /\ (g[i] = g[j] => i = j)
  <2> TAKE i \in 1..m, j \in 1..m
  <2>1. (i < j => g[i] < g[j]) /\ (j < i => g[j] < g[i])
    BY <1>11
  <2>2. g[i] \in Nat /\ g[j] \in Nat
    BY <1>12
  <2> QED
    BY <1>4, <2>1, <2>2
<1>14. \A i, j \in 1..m : <<i, j>> \in c <=> <<g[i], g[j]>> \in b
  <2> TAKE i \in 1..m, j \in 1..m
  <2>1. g[i] \in 1..n /\ g[j] \in 1..n /\ h[i] = s[g[i]] /\ h[j] = s[g[j]] /\ (i < j <=> g[i] < g[j])
    BY <1>11, <1>12, <1>13
  <2>2. <<i, j>> \in c <=> (<<h[i], h[j]>> \in bs \/ (i < j /\ <<h[j], h[i]>> \notin bs))
    BY <1>7
  <2>3. <<g[i], g[j]>> \in b <=> (<<s[g[i]], s[g[j]]>> \in bs \/ (g[i] < g[j] /\ <<s[g[j]], s[g[i]]>> \notin bs))
    BY <1>6, <2>1
  <2> QED
    BY <2>1, <2>2, <2>3
<1>15. ASSUME NEW j \in 1..m, NEW y \in 1..n, <<y, g[j]>> \in b PROVE \E i \in 1..m : g[i] = y
  <2>1. <<s[y], s[g[j]]>> \in bs \/ <<s[g[j]], s[y]>> \notin bs
    BY <1>6, <1>12, <1>15
  <2>2. s[y] \in P
    BY <1>1, <1>12, <2>1
  <2> QED
    BY <1>5, <1>11, <2>2
<1>16. ASSUME NEW j \in 1..m PROVE Cardinality(Below(g[j])) = Cardinality(Under(j))
  <2> DEFINE f == [i \in Under(j) |-> g[i]]
  <2>1. f \in Bijection(Under(j), Below(g[j]))
    <3>1. f \in [Under(j) -> Below(g[j])]
      BY <1>12, <1>14 DEF Preceding
    <3>2. \A x, z \in Under(j) : f[x] = f[z] => x = z
      BY <1>13 DEF Preceding
    <3>3. \A y \in Below(g[j]) : \E x \in Under(j) : f[x] = y
      <4> TAKE y \in Below(g[j])
      <4>1. PICK i \in 1..m : g[i] = y
        BY <1>15 DEF Preceding
      <4>2. i \in Under(j)
        BY <1>14, <4>1 DEF Preceding
      <4> QED
        BY <4>1, <4>2
    <3> HIDE DEF f, Below, Under
    <3> QED
      BY <3>1, <3>2, <3>3 DEF Bijection, Injection, Surjection, IsInjective
  <2>2. IsFiniteSet(Under(j))
    <3>1. IsFiniteSet(1..m)
      BY <1>4, FS_Interval
    <3> QED
      BY <3>1, FS_Subset DEF Preceding
  <2>3. ExistsBijection(Under(j), Below(g[j]))
    BY <2>1 DEF ExistsBijection
  <2> HIDE DEF Below, Under, f
  <2> QED
    BY <2>2, <2>3, FS_Bijection
<1> HIDE DEF Below, Under
<1>17. m <= n
  <2>1. IsFiniteSet(1..m) /\ Cardinality(1..m) = m /\ IsFiniteSet(1..n) /\ Cardinality(1..n) = n
    BY <1>1, <1>4, FS_Interval
  <2>2. g \in Injection(1..m, 1..n)
    <3>1. g \in [1..m -> 1..n]
      BY <1>11, <1>12
    <3>2. \A x, z \in 1..m : g[x] = g[z] => x = z
      BY <1>13
    <3> QED
      BY <3>1, <3>2 DEF Injection, IsInjective
  <2> QED
    BY <2>1, <2>2, FS_Injection
<1>18. ASSUME NEW i \in 1..m PROVE SortOf(s, bs)[i] = SortOf(h, bs)[i]
  <2>1. i \in 1..n
    BY <1>1, <1>4, <1>17
  <2>2. bt[i] \in 1..m /\ SortOf(h, bs)[i] = h[bt[i]] /\ Cardinality(Under(bt[i])) = i - 1
    BY <1>9
  <2>3. at[i] \in 1..n /\ SortOf(s, bs)[i] = s[at[i]] /\ Cardinality(Below(at[i])) = i - 1
    BY <1>8, <2>1
  <2>4. g[bt[i]] \in 1..n /\ Cardinality(Below(g[bt[i]])) = i - 1
    BY <1>12, <1>16, <2>2
  <2>5. at[i] = g[bt[i]]
    BY <1>8, <2>3, <2>4
  <2> QED
    BY <1>11, <2>2, <2>3, <2>5
<1> QED
  BY <1>17, <1>18 DEF m, n, h

-----------------------------------------------------------------------------
(* Results of one run agree: a row of the table is posted by a provider, or *)
(* made of the summary of a local run, which all rows of that run, and all  *)
(* that are still to be inserted, were made of.                             *)
TableRow(r) ==
  /\ r.source = "external" /\ r.run # NoRun
  /\ r.run \in Run => /\ r.provider = "local" /\ r.rest = Unknown
                      /\ r.ret = r.meta.ret /\ r.sharpe = r.meta.sharpe /\ r.trades = r.meta.trades
  /\ r.run \notin Run => r.provider # "local" /\ r.meta = NoResult

AgreeInv ==
  /\ \A i \in DOMAIN rows : TableRow(rows[i])
  /\ \A i, j \in DOMAIN rows : rows[i].run \in Run /\ rows[j].run = rows[i].run => rows[j].meta = rows[i].meta
  /\ \A p \in Publisher, r \in Run : Inserts(p, r) =>
       /\ \A i \in DOMAIN rows : rows[i].run = r => rows[i].meta = sync[p].result
       /\ \A q \in Publisher : Inserts(q, r) => sync[q].result = sync[p].result

LEMMA AgreeKept ==
  ASSUME AgreeInv, rows' = rows,
         \A p \in Publisher : sync'[p].pc = "insert" => sync'[p] = sync[p]
  PROVE  AgreeInv'
<1>1. \A p \in Publisher, r \in Run : Inserts(p, r)' => Inserts(p, r) /\ sync'[p] = sync[p]
  BY DEF Inserts
<1>2. \A i \in DOMAIN rows : TableRow(rows[i])
  BY DEF AgreeInv
<1>3. \A i, j \in DOMAIN rows : rows[i].run \in Run /\ rows[j].run = rows[i].run => rows[j].meta = rows[i].meta
  BY DEF AgreeInv
<1>4. \A p \in Publisher, r \in Run : Inserts(p, r)' =>
        /\ \A i \in DOMAIN rows' : rows'[i].run = r => rows'[i].meta = sync'[p].result
        /\ \A q \in Publisher : Inserts(q, r)' => sync'[q].result = sync'[p].result
  BY <1>1 DEF AgreeInv
<1> QED
  BY <1>2, <1>3, <1>4 DEF AgreeInv, TableRow

(* Every step keeps them agreeing: a run that is published again has the    *)
(* summary it had, and no name is used again while a row has it.            *)
LEMMA AgreeStep == BoardInv /\ KnownInv /\ AgreeInv /\ [BoardNext]_boardVars => AgreeInv'
<1> SUFFICES ASSUME BoardInv, KnownInv, AgreeInv, [BoardNext]_boardVars PROVE AgreeInv'
  OBVIOUS
<1>0. OnceInv /\ DirsOK /\ TableOK /\ SyncsOK
  BY DEF BoardInv
<1>sync. ASSUME NEW p \in Publisher, NEW next, next.pc # "insert", sync' = [sync EXCEPT ![p] = next]
         PROVE  \A q \in Publisher : sync'[q].pc = "insert" => sync'[q] = sync[q]
  BY <1>0, <1>sync DEF OnceInv, SyncOK
<1>idle. Idle.pc = "idle"
  BY DEF Idle
<1>1. ASSUME rows' = rows, sync' = sync PROVE AgreeInv'
  BY <1>1, AgreeKept
<1>2. ASSUME NEW r \in Run, PublishRun(r) PROVE AgreeInv'
  <2> DEFINE next == [Idle EXCEPT !.pc = "check", !.todo = <<r>>]
  <2>1. sync' = [sync EXCEPT !["operator"] = next] /\ rows' = rows
    BY <1>2 DEF PublishRun
  <2>2. next.pc # "insert"
    BY DEF Idle
  <2> HIDE DEF next
  <2>3. \A q \in Publisher : sync'[q].pc = "insert" => sync'[q] = sync[q]
    BY <2>1, <2>2, <1>sync DEF Publisher
  <2> QED
    BY <2>1, <2>3, AgreeKept
<1>3. ASSUME NEW p \in Provider, NEW run \in PostRun, NEW res \in PostResult, Post(p, run, res) PROVE AgreeInv'
  <2> DEFINE row == Row("external", p, run, clock + 1, res, NoResult)
  <2>1. rows' = Append(rows, row) /\ sync' = sync
    BY <1>3 DEF Post, Insert
  <2>2. row.run \notin Run /\ TableRow(row)
    BY LeaderboardConstants DEF Row, TableRow, Id
  <2> HIDE DEF row
  <2>3. /\ Len(rows) \in Nat /\ DOMAIN rows = 1..Len(rows) /\ DOMAIN rows' = 1..(Len(rows) + 1)
        /\ rows'[Len(rows) + 1] = row /\ \A i \in 1..Len(rows) : rows'[i] = rows[i]
    BY <1>0, <2>1, AppendedRow DEF OnceInv
  <2>4. \A i \in DOMAIN rows' : rows'[i] = row \/ (i \in DOMAIN rows /\ rows'[i] = rows[i])
    BY <2>3
  <2>5. \A i \in DOMAIN rows' : TableRow(rows'[i])
    BY <2>2, <2>4 DEF AgreeInv
  <2>6. \A i \in DOMAIN rows' : rows'[i].run \in Run => i \in DOMAIN rows /\ rows'[i] = rows[i]
    BY <2>2, <2>4
  <2>7. \A i, j \in DOMAIN rows' : rows'[i].run \in Run /\ rows'[j].run = rows'[i].run => rows'[j].meta = rows'[i].meta
    BY <2>6 DEF AgreeInv
  <2>8. \A q \in Publisher, r \in Run : Inserts(q, r)' =>
          /\ \A i \in DOMAIN rows' : rows'[i].run = r => rows'[i].meta = sync'[q].result
          /\ \A o \in Publisher : Inserts(o, r)' => sync'[o].result = sync'[q].result
    BY <2>1, <2>6 DEF AgreeInv, Inserts
  <2> QED
    BY <2>5, <2>7, <2>8 DEF AgreeInv, TableRow
<1>4. CASE StartSync
  <2> DEFINE next == [Idle EXCEPT !.pc = "check", !.todo = Lists]
  <2>1. sync' = [sync EXCEPT !["worker"] = next] /\ rows' = rows
    BY <1>4 DEF StartSync
  <2>2. next.pc # "insert"
    BY DEF Idle
  <2> HIDE DEF next
  <2>3. \A q \in Publisher : sync'[q].pc = "insert" => sync'[q] = sync[q]
    BY <2>1, <2>2, <1>sync DEF Publisher
  <2> QED
    BY <2>1, <2>3, AgreeKept
<1>5. ASSUME NEW p \in Publisher, LookUp(p) PROVE AgreeInv'
  <2> DEFINE r == Head(sync[p].todo)
             skips == summary[r] = NoResult \/ Stored(r)
             looked == [sync[p] EXCEPT !.pc = "insert", !.result = summary[r]]
  <2>1. sync' = [sync EXCEPT ![p] = IF skips THEN Skipped(sync[p].todo) ELSE looked] /\ rows' = rows
    BY <1>5 DEF LookUp
  <2>2. CASE skips
    <3>1. \A q \in Publisher : sync'[q].pc = "insert" => sync'[q] = sync[q]
      BY <2>1, <2>2, SkippedChecks, <1>sync
    <3> QED
      BY <2>1, <3>1, AgreeKept
  <2>3. CASE ~skips
    <3>1. looked.todo = sync[p].todo /\ looked.result = summary[r] /\ looked.pc = "insert"
      BY <1>0 DEF OnceInv, SyncOK
    <3>2. \A i \in DOMAIN rows : rows[i].run = r => rows[i].run \notin Run
      BY <2>3 DEF AgreeInv, TableRow, Stored
    <3>3. \A q \in Publisher : Inserts(q, r) => sync[q].result = summary[r]
      BY <2>3 DEF KnownInv, Known, Inserts
    <3> HIDE DEF looked, r
    <3>4. \A q \in Publisher : sync'[q] = IF q = p THEN looked ELSE sync[q]
      BY <1>0, <2>1, <2>3 DEF OnceInv, SyncOK
    <3>5. \A q \in Publisher, x \in Run : Inserts(q, x)' =>
            /\ \A i \in DOMAIN rows' : rows'[i].run = x => rows'[i].meta = sync'[q].result
            /\ \A o \in Publisher : Inserts(o, x)' => sync'[o].result = sync'[q].result
      <4> SUFFICES ASSUME NEW q \in Publisher, NEW x \in Run, Inserts(q, x)'
                   PROVE  /\ \A i \in DOMAIN rows' : rows'[i].run = x => rows'[i].meta = sync'[q].result
                          /\ \A o \in Publisher : Inserts(o, x)' => sync'[o].result = sync'[q].result
        OBVIOUS
      <4>1. CASE x = r
        <5>1. \A o \in Publisher : Inserts(o, x)' => sync'[o].result = summary[r]
          BY <3>1, <3>3, <3>4, <4>1 DEF Inserts
        <5>2. \A i \in DOMAIN rows' : rows'[i].run # x
          BY <2>1, <3>2, <4>1
        <5> QED
          BY <5>1, <5>2
      <4>2. CASE x # r
        <5>1. \A o \in Publisher : Inserts(o, x)' => Inserts(o, x) /\ sync'[o] = sync[o]
          BY <3>1, <3>4, <4>2 DEF Inserts, r
        <5> QED
          BY <2>1, <5>1 DEF AgreeInv
      <4> QED
        BY <4>1, <4>2
    <3> QED
      BY <2>1, <3>5 DEF AgreeInv, TableRow
  <2> QED
    BY <2>2, <2>3
<1>6. ASSUME NEW p \in Publisher, InsertLocal(p) PROVE AgreeInv'
  <2> DEFINE res == sync[p].result
             r == Head(sync[p].todo)
             row == Row("external", "local", r, clock + 1, [res EXCEPT !.rest = Unknown], res)
  <2>1. /\ rows' = Append(rows, row) /\ sync[p].pc = "insert"
        /\ sync' = [sync EXCEPT ![p] = Skipped(sync[p].todo)]
    BY <1>6 DEF InsertLocal, Insert
  <2>2. r \in Run
    <3>1. sync[p].todo \in Seq(Run) /\ sync[p].todo # <<>>
      BY <1>0, <2>1 DEF SyncsOK, PublisherOK
    <3> QED
      BY <3>1
  <2>3. res \in Result \cup {NoResult}
    BY <1>0 DEF SyncsOK, PublisherOK
  <2>4. row.run = r /\ row.meta = res /\ TableRow(row)
    <3>1. DOMAIN res = Column
      BY <2>3, ResultRecord
    <3>2. r # NoRun
      BY <2>2, ResultColumns
    <3> HIDE DEF res, r
    <3> QED
      BY <2>2, <3>1, <3>2 DEF Row, TableRow, Column
  <2>5. Inserts(p, r)
    BY <2>1 DEF Inserts
  <2> HIDE DEF row, r
  <2>6. /\ Len(rows) \in Nat /\ DOMAIN rows = 1..Len(rows) /\ DOMAIN rows' = 1..(Len(rows) + 1)
        /\ rows'[Len(rows) + 1] = row /\ \A i \in 1..Len(rows) : rows'[i] = rows[i]
    BY <1>0, <2>1, AppendedRow DEF OnceInv
  <2>7. \A i \in DOMAIN rows' : rows'[i] = row \/ (i \in DOMAIN rows /\ rows'[i] = rows[i])
    BY <2>6
  <2>8. \A i \in DOMAIN rows' : TableRow(rows'[i])
    BY <2>4, <2>7 DEF AgreeInv
  <2>9. \A i \in DOMAIN rows : rows[i].run = r => rows[i].meta = res
    BY <2>2, <2>5 DEF AgreeInv
  <2>10. \A i, j \in DOMAIN rows' : rows'[i].run \in Run /\ rows'[j].run = rows'[i].run => rows'[j].meta = rows'[i].meta
    <3> SUFFICES ASSUME NEW i \in DOMAIN rows', NEW j \in DOMAIN rows', rows'[i].run \in Run, rows'[j].run = rows'[i].run
                 PROVE  rows'[j].meta = rows'[i].meta
      OBVIOUS
    <3>1. CASE rows'[i].run = r
      BY <2>4, <2>7, <2>9, <3>1
    <3>2. CASE rows'[i].run # r
      <4>1. i \in DOMAIN rows /\ rows'[i] = rows[i] /\ j \in DOMAIN rows /\ rows'[j] = rows[j]
        BY <2>4, <2>7, <3>2
      <4> QED
        BY <4>1 DEF AgreeInv
    <3> QED
      BY <3>1, <3>2
  <2>11. \A q \in Publisher : sync'[q].pc = "insert" => sync'[q] = sync[q]
    BY <2>1, SkippedChecks, <1>sync
  <2>12. \A q \in Publisher, x \in Run : Inserts(q, x)' => Inserts(q, x) /\ sync'[q] = sync[q]
    BY <2>11 DEF Inserts
  <2>13. \A q \in Publisher, x \in Run : Inserts(q, x)' =>
            /\ \A i \in DOMAIN rows' : rows'[i].run = x => rows'[i].meta = sync'[q].result
            /\ \A o \in Publisher : Inserts(o, x)' => sync'[o].result = sync'[q].result
    <3> SUFFICES ASSUME NEW q \in Publisher, NEW x \in Run, Inserts(q, x)'
                 PROVE  /\ \A i \in DOMAIN rows' : rows'[i].run = x => rows'[i].meta = sync'[q].result
                        /\ \A o \in Publisher : Inserts(o, x)' => sync'[o].result = sync'[q].result
      OBVIOUS
    <3>1. Inserts(q, x) /\ sync'[q] = sync[q]
      BY <2>12
    <3>2. \A o \in Publisher : Inserts(o, x)' => sync'[o].result = sync'[q].result
      BY <2>12, <3>1 DEF AgreeInv
    <3>3. \A i \in DOMAIN rows : rows[i].run = x => rows[i].meta = sync'[q].result
      BY <3>1 DEF AgreeInv
    <3>4. row.run = x => row.meta = sync'[q].result
      BY <2>4, <2>5, <3>1 DEF AgreeInv
    <3>5. \A i \in DOMAIN rows' : rows'[i].run = x => rows'[i].meta = sync'[q].result
      BY <2>7, <3>3, <3>4
    <3> QED
      BY <3>2, <3>5
  <2> QED
    BY <2>8, <2>10, <2>13 DEF AgreeInv, TableRow
<1>7. ASSUME NEW p \in Publisher, InsertRaises(p) \/ SyncFails(p) PROVE AgreeInv'
  <2>1. sync' = [sync EXCEPT ![p] = Idle] /\ rows' = rows
    BY <1>7 DEF InsertRaises, SyncFails
  <2>2. \A q \in Publisher : sync'[q].pc = "insert" => sync'[q] = sync[q]
    BY <2>1, <1>idle, <1>sync
  <2> QED
    BY <2>1, <2>2, AgreeKept
<1>8. CASE UNCHANGED boardVars
  BY <1>1, <1>8 DEF boardVars
<1>9. ASSUME NEW r \in Run, StartRun(r) \/ \E res \in RunResult[r] : FinishRun(r, res) PROVE AgreeInv'
  BY <1>1, <1>9 DEF StartRun, FinishRun
<1>10. ASSUME NEW run \in PassRun, NEW ret \in PassReturn, NEW submits \in Submits, PassEnds(run, ret, submits)
       PROVE  AgreeInv'
  BY <1>1, <1>10 DEF PassEnds
<1> QED
  BY <1>2, <1>3, <1>4, <1>5, <1>6, <1>7, <1>8, <1>9, <1>10 DEF BoardNext

LEMMA InitAgree == BoardInit => AgreeInv
<1>1. DOMAIN <<>> = {}
  OBVIOUS
<1> QED
  BY <1>1 DEF BoardInit, AgreeInv, Inserts, Idle

-----------------------------------------------------------------------------
(* The page in these terms.                                                 *)
Rows == RowBy(clock)
NoRuns == {x \in Rows : x.run = NoRun}
WithRun == {x \in Rows : x.run # NoRun}
NotSmoke == {x \in Rows : ~Smoke(x)}
KeyOfRun == [x \in Rows |-> RunKey(x)]
KeyOfOutcome == [x \in Rows |-> Outcome(x)]
RicherPairs == {p \in Pairs(Rows) : Richer(p[1], p[2])}
PreferredPairs == {p \in Pairs(Rows) : Preferred(p[1], p[2])}
ReturnPairs == {p \in Pairs(Rows) : ByReturn(p[1], p[2])}
SharpePairs == {p \in Pairs(Rows) : ByReturnThenSharpe(p[1], p[2])}
TimePairs == {p \in Pairs(Rows) : ByTime(p[1], p[2])}

EachRun(s) == Sel(s, NoRuns) \o Mrg(Sel(s, WithRun), KeyOfRun, RicherPairs)
EachOutcome(s) == Mrg(s, KeyOfOutcome, PreferredPairs)
ToRank(s) == Sel(EachOutcome(EachRun(s)), NotSmoke)

LEMMA InRows ==
  ASSUME NEW s \in Seq(Rows)
  PROVE  Len(s) \in Nat /\ DOMAIN s = 1..Len(s) /\ \A i \in 1..Len(s) : s[i] \in Rows
OBVIOUS

(* The same choice, said in another way.                                    *)
LEMMA OnlySel ==
  ASSUME NEW s, NEW P, NEW at, at = {i \in DOMAIN s : s[i] \in P}
  PROVE  Only(s, at) = Sel(s, P)
BY DEF Sel

LEMMA EachRunIs ==
  ASSUME NEW s \in Seq(Rows)
  PROVE  OneEachRun(s) = EachRun(s)
<1> DEFINE none == {i \in DOMAIN s : s[i].run = NoRun}
           some == {i \in DOMAIN s : s[i].run # NoRun}
           b == Only(s, some)
           key == [i \in DOMAIN b |-> RunKey(b[i])]
           better == {p \in Pairs(DOMAIN b) : Richer(b[p[1]], b[p[2]])}
           at == Winners(key, better)
           t == [k \in DOMAIN at |-> b[at[k]]]
<1>1. OneEachRun(s) = Only(s, none) \o t
  BY DEF OneEachRun, OneEach, Chosen
<1>2. none = {i \in DOMAIN s : s[i] \in NoRuns} /\ some = {i \in DOMAIN s : s[i] \in WithRun}
  BY InRows DEF NoRuns, WithRun
<1> HIDE DEF none, some
<1>3. Only(s, none) = Sel(s, NoRuns) /\ Only(s, some) = Sel(s, WithRun)
  BY <1>2, OnlySel
<1>4. b \in Seq(Rows)
  BY <1>3, SelIn
<1> HIDE DEF b
<1>5. /\ DOMAIN b = 1..Len(b) /\ \A i \in DOMAIN b : b[i] \in Rows
  BY <1>4, InRows
<1>6. key = KeysOf(b, KeyOfRun)
  BY <1>5 DEF KeysOf, KeyOfRun
<1>7. better = BetterOf(b, RicherPairs)
  BY <1>5 DEF BetterOf, RicherPairs, Pairs
<1> HIDE DEF key, better
<1>8. t = Mrg(b, KeyOfRun, RicherPairs)
  BY <1>6, <1>7 DEF Mrg
<1> HIDE DEF t
<1> QED
  BY <1>1, <1>3, <1>8 DEF EachRun, b

LEMMA EachOutcomeIs ==
  ASSUME NEW s \in Seq(Rows)
  PROVE  OneEachOutcome(s) = EachOutcome(s)
<1> DEFINE key == [i \in DOMAIN s |-> Outcome(s[i])]
           better == {p \in Pairs(DOMAIN s) : Preferred(s[p[1]], s[p[2]])}
<1>1. OneEachOutcome(s) = [k \in DOMAIN Winners(key, better) |-> s[Winners(key, better)[k]]]
  BY DEF OneEachOutcome, OneEach
<1>2. /\ DOMAIN s = 1..Len(s) /\ \A i \in DOMAIN s : s[i] \in Rows
  BY InRows
<1>3. key = KeysOf(s, KeyOfOutcome)
  BY <1>2 DEF KeysOf, KeyOfOutcome
<1>4. better = BetterOf(s, PreferredPairs)
  BY <1>2 DEF BetterOf, PreferredPairs, Pairs
<1> HIDE DEF key, better
<1> QED
  BY <1>1, <1>3, <1>4 DEF EachOutcome, Mrg

LEMMA EachIn ==
  ASSUME NEW s \in Seq(Rows)
  PROVE  /\ EachRun(s) \in Seq(Rows) /\ EachOutcome(s) \in Seq(Rows)
         /\ EachOutcome(EachRun(s)) \in Seq(Rows) /\ ToRank(s) \in Seq(Rows)
<1>1. EachOutcome(s) \in Seq(Rows)
  BY MrgIn DEF EachOutcome
<1>2. Sel(s, NoRuns) \in Seq(Rows) /\ Sel(s, WithRun) \in Seq(Rows)
  BY SelIn
<1>3. Mrg(Sel(s, WithRun), KeyOfRun, RicherPairs) \in Seq(Rows)
  BY <1>2, MrgIn
<1>4. EachRun(s) \in Seq(Rows)
  <2> DEFINE a == Sel(s, NoRuns)
             b == Mrg(Sel(s, WithRun), KeyOfRun, RicherPairs)
  <2>1. a \in Seq(Rows) /\ b \in Seq(Rows)
    BY <1>2, <1>3
  <2> HIDE DEF a, b
  <2>2. a \o b \in Seq(Rows)
    BY <2>1
  <2> QED
    BY <2>2 DEF EachRun, a, b
<1>5. EachOutcome(EachRun(s)) \in Seq(Rows)
  BY <1>4, MrgIn DEF EachOutcome
<1> QED
  BY <1>1, <1>4, <1>5, SelIn DEF ToRank

(* The orders.                                                              *)
LEMMA RowOrders == clock \in Nat =>
  OrderOf(ReturnPairs, Rows) /\ OrderOf(SharpePairs, Rows) /\ OrderOf(TimePairs, Rows)
<1> SUFFICES ASSUME clock \in Nat
             PROVE  OrderOf(ReturnPairs, Rows) /\ OrderOf(SharpePairs, Rows) /\ OrderOf(TimePairs, Rows)
  OBVIOUS
<1> DEFINE ret == [x \in Rows |-> x.ret]
           sharpe == [x \in Rows |-> x.sharpe]
           ts == [x \in Rows |-> x.ts]
           zero == [x \in Rows |-> 0]
<1>1. ret \in [Rows -> Int] /\ sharpe \in [Rows -> Int] /\ ts \in [Rows -> Int] /\ zero \in [Rows -> Int]
  BY DEF Rows, RowBy
<1>2. \A x \in Rows : ret[x] = x.ret /\ sharpe[x] = x.sharpe /\ ts[x] = x.ts /\ zero[x] = 0
  OBVIOUS
<1> HIDE DEF ret, sharpe, ts, zero
<1>3. \A x, y \in Rows : <<x, y>> \in ReturnPairs <=> ret[x] > ret[y] \/ (ret[x] = ret[y] /\ zero[x] > zero[y])
  <2> SUFFICES ASSUME NEW x \in Rows, NEW y \in Rows
               PROVE  <<x, y>> \in ReturnPairs <=> ret[x] > ret[y] \/ (ret[x] = ret[y] /\ zero[x] > zero[y])
    OBVIOUS
  <2>1. <<x, y>> \in ReturnPairs <=> ret[x] > ret[y]
    BY <1>2 DEF ReturnPairs, ByReturn, Pairs
  <2> QED
    BY <1>2, <2>1
<1>4. \A x, y \in Rows : <<x, y>> \in SharpePairs <=> ret[x] > ret[y] \/ (ret[x] = ret[y] /\ sharpe[x] > sharpe[y])
  BY <1>2 DEF SharpePairs, ByReturnThenSharpe, Pairs
<1>5. \A x, y \in Rows : <<x, y>> \in TimePairs <=> ts[x] > ts[y] \/ (ts[x] = ts[y] /\ zero[x] > zero[y])
  <2> SUFFICES ASSUME NEW x \in Rows, NEW y \in Rows
               PROVE  <<x, y>> \in TimePairs <=> ts[x] > ts[y] \/ (ts[x] = ts[y] /\ zero[x] > zero[y])
    OBVIOUS
  <2>1. <<x, y>> \in TimePairs <=> ts[x] > ts[y]
    BY <1>2 DEF TimePairs, ByTime, Pairs
  <2> QED
    BY <1>2, <2>1
<1>6. OrderOf(ReturnPairs, Rows)
  BY <1>1, <1>3, Zenon DEF OrderOf
<1>7. OrderOf(SharpePairs, Rows)
  BY <1>1, <1>4, Zenon DEF OrderOf
<1>8. OrderOf(TimePairs, Rows)
  BY <1>1, <1>5, Zenon DEF OrderOf
<1> QED
  BY <1>6, <1>7, <1>8

LEMMA SortedIs ==
  ASSUME NEW s \in Seq(Rows)
  PROVE  /\ Sorted(s, ByReturn) = SortOf(s, ReturnPairs)
         /\ Sorted(s, ByReturnThenSharpe) = SortOf(s, SharpePairs)
         /\ Sorted(s, ByTime) = SortOf(s, TimePairs)
<1>1. \A p \in Pairs(DOMAIN s) : s[p[1]] \in Rows /\ s[p[2]] \in Rows
  BY InRows DEF Pairs
<1>3. BeforeOf(s, ReturnPairs) = {p \in Pairs(DOMAIN s) : \/ ByReturn(s[p[1]], s[p[2]])
                                                          \/ p[1] < p[2] /\ ~ByReturn(s[p[2]], s[p[1]])}
  <2>1. \A p \in Pairs(DOMAIN s) : /\ <<s[p[1]], s[p[2]]>> \in ReturnPairs <=> ByReturn(s[p[1]], s[p[2]])
                                   /\ <<s[p[2]], s[p[1]]>> \in ReturnPairs <=> ByReturn(s[p[2]], s[p[1]])
    BY <1>1 DEF ReturnPairs, Pairs
  <2> QED
    BY <2>1 DEF BeforeOf
<1>4. BeforeOf(s, SharpePairs) = {p \in Pairs(DOMAIN s) :
                                    \/ ByReturnThenSharpe(s[p[1]], s[p[2]])
                                    \/ p[1] < p[2] /\ ~ByReturnThenSharpe(s[p[2]], s[p[1]])}
  <2>1. \A p \in Pairs(DOMAIN s) :
          /\ <<s[p[1]], s[p[2]]>> \in SharpePairs <=> ByReturnThenSharpe(s[p[1]], s[p[2]])
          /\ <<s[p[2]], s[p[1]]>> \in SharpePairs <=> ByReturnThenSharpe(s[p[2]], s[p[1]])
    BY <1>1 DEF SharpePairs, Pairs
  <2> QED
    BY <2>1 DEF BeforeOf
<1>5. BeforeOf(s, TimePairs) = {p \in Pairs(DOMAIN s) : \/ ByTime(s[p[1]], s[p[2]])
                                                        \/ p[1] < p[2] /\ ~ByTime(s[p[2]], s[p[1]])}
  <2>1. \A p \in Pairs(DOMAIN s) : /\ <<s[p[1]], s[p[2]]>> \in TimePairs <=> ByTime(s[p[1]], s[p[2]])
                                   /\ <<s[p[2]], s[p[1]]>> \in TimePairs <=> ByTime(s[p[2]], s[p[1]])
    BY <1>1 DEF TimePairs, Pairs
  <2> QED
    BY <2>1 DEF BeforeOf
<1>6. Sorted(s, ByReturn) = SortOf(s, ReturnPairs)
  <2> DEFINE before == {p \in Pairs(DOMAIN s) : \/ ByReturn(s[p[1]], s[p[2]])
                                                \/ p[1] < p[2] /\ ~ByReturn(s[p[2]], s[p[1]])}
  <2>1. Sorted(s, ByReturn) = [k \in DOMAIN Ranking(DOMAIN s, before) |-> s[Ranking(DOMAIN s, before)[k]]]
    BY DEF Sorted
  <2>2. BeforeOf(s, ReturnPairs) = before
    BY <1>3
  <2> HIDE DEF before
  <2> QED
    BY <2>1, <2>2, Zenon DEF SortOf
<1>7. Sorted(s, ByReturnThenSharpe) = SortOf(s, SharpePairs)
  <2> DEFINE before == {p \in Pairs(DOMAIN s) : \/ ByReturnThenSharpe(s[p[1]], s[p[2]])
                                                \/ p[1] < p[2] /\ ~ByReturnThenSharpe(s[p[2]], s[p[1]])}
  <2>1. Sorted(s, ByReturnThenSharpe) = [k \in DOMAIN Ranking(DOMAIN s, before) |-> s[Ranking(DOMAIN s, before)[k]]]
    BY DEF Sorted
  <2>2. BeforeOf(s, SharpePairs) = before
    BY <1>4
  <2> HIDE DEF before
  <2> QED
    BY <2>1, <2>2, Zenon DEF SortOf
<1>8. Sorted(s, ByTime) = SortOf(s, TimePairs)
  <2> DEFINE before == {p \in Pairs(DOMAIN s) : \/ ByTime(s[p[1]], s[p[2]])
                                                \/ p[1] < p[2] /\ ~ByTime(s[p[2]], s[p[1]])}
  <2>1. Sorted(s, ByTime) = [k \in DOMAIN Ranking(DOMAIN s, before) |-> s[Ranking(DOMAIN s, before)[k]]]
    BY DEF Sorted
  <2>2. BeforeOf(s, TimePairs) = before
    BY <1>5
  <2> HIDE DEF before
  <2> QED
    BY <2>1, <2>2, Zenon DEF SortOf
<1> QED
  BY <1>6, <1>7, <1>8

-----------------------------------------------------------------------------
(* What is read for a page: of the table, the disk and the lines, and of    *)
(* providers.                                                               *)
ReadOf(a, d, l, b) == ((a \o d) \o l) \o b

LEMMA EntriesIn ==
  ASSUME NEW S, NEW s \in Seq(S)
  PROVE  /\ s \in Seq(Entries(s)) /\ IsSeq(s) /\ DOMAIN s = 1..Len(s) /\ Len(s) \in Nat
         /\ \A x \in Entries(s) : x \in S
         /\ \A x : x \in Entries(s) <=> \E i \in 1..Len(s) : s[i] = x
<1>1. IsSeq(s)
  BY DEF IsSeq
<1>2. Len(s) \in Nat /\ DOMAIN s = 1..Len(s) /\ s \in Seq(Entries(s))
      /\ \A x : x \in Entries(s) <=> \E i \in 1..Len(s) : s[i] = x
  BY <1>1, SeqShape
<1>3. \A i \in 1..Len(s) : s[i] \in S
  OBVIOUS
<1> QED
  BY <1>1, <1>2, <1>3

LEMMA SelHere ==
  ASSUME NEW S, NEW s \in Seq(S), NEW P, NEW R,
         \A x \in Entries(s) : x \in P <=> x \in R
  PROVE  Sel(s, P) = Sel(s, R)
<1>1. s \in Seq(Entries(s))
  BY EntriesIn
<1>2. Entries(s) \cap P = Entries(s) \cap R
  OBVIOUS
<1> QED
  BY <1>1, <1>2, SelSame

LEMMA SelGone ==
  ASSUME NEW S, NEW s \in Seq(S), NEW P, \A x \in Entries(s) : x \notin P
  PROVE  Sel(s, P) = <<>>
<1>1. s \in Seq(Entries(s)) /\ Entries(s) \cap P = {}
  BY EntriesIn
<1> QED
  BY <1>1, SelNothing

LEMMA JoinedIn ==
  ASSUME NEW S, NEW s \in Seq(S), NEW t \in Seq(S)
  PROVE  s \o t \in Seq(S) /\ \A x : x \in Entries(s \o t) <=> x \in Entries(s) \/ x \in Entries(t)
<1>1. IsSeq(s) /\ IsSeq(t)
  BY EntriesIn
<1>2. \A x : x \in Entries(s \o t) <=> x \in Entries(s) \/ x \in Entries(t)
  BY <1>1, Joined
<1> QED
  BY <1>2

LEMMA ReadIn ==
  ASSUME NEW S, NEW a \in Seq(S), NEW d \in Seq(S), NEW l \in Seq(S), NEW b \in Seq(S)
  PROVE  /\ ReadOf(a, d, l, b) \in Seq(S)
         /\ \A x : x \in Entries(ReadOf(a, d, l, b)) <=>
                     x \in Entries(a) \/ x \in Entries(d) \/ x \in Entries(l) \/ x \in Entries(b)
<1>1. a \o d \in Seq(S) /\ \A x : x \in Entries(a \o d) <=> x \in Entries(a) \/ x \in Entries(d)
  BY JoinedIn
<1> DEFINE ad == a \o d
<1>2. ad \in Seq(S) /\ \A x : x \in Entries(ad) <=> x \in Entries(a) \/ x \in Entries(d)
  BY <1>1
<1> HIDE DEF ad
<1>3. ad \o l \in Seq(S) /\ \A x : x \in Entries(ad \o l) <=> x \in Entries(ad) \/ x \in Entries(l)
  BY <1>2, JoinedIn
<1> DEFINE adl == ad \o l
<1>4. adl \in Seq(S) /\ \A x : x \in Entries(adl) <=> x \in Entries(ad) \/ x \in Entries(l)
  BY <1>3
<1> HIDE DEF adl
<1>5. adl \o b \in Seq(S) /\ \A x : x \in Entries(adl \o b) <=> x \in Entries(adl) \/ x \in Entries(b)
  BY <1>4, JoinedIn
<1>6. ReadOf(a, d, l, b) = adl \o b
  BY DEF ReadOf, ad, adl
<1> QED
  BY <1>2, <1>4, <1>5, <1>6

LEMMA ReadSel ==
  ASSUME NEW S, NEW a \in Seq(S), NEW d \in Seq(S), NEW l \in Seq(S), NEW b \in Seq(S), NEW P
  PROVE  Sel(ReadOf(a, d, l, b), P) = ReadOf(Sel(a, P), Sel(d, P), Sel(l, P), Sel(b, P))
<1>1. Sel(a \o d, P) = Sel(a, P) \o Sel(d, P) /\ a \o d \in Seq(S)
  BY SelJoined, JoinedIn
<1>2. Sel((a \o d) \o l, P) = Sel(a \o d, P) \o Sel(l, P) /\ (a \o d) \o l \in Seq(S)
  <2> DEFINE ad == a \o d
  <2>1. ad \in Seq(S)
    BY <1>1
  <2> HIDE DEF ad
  <2>2. Sel(ad \o l, P) = Sel(ad, P) \o Sel(l, P) /\ ad \o l \in Seq(S)
    BY <2>1, SelJoined, JoinedIn
  <2> QED
    BY <2>2 DEF ad
<1>3. Sel(((a \o d) \o l) \o b, P) = Sel((a \o d) \o l, P) \o Sel(b, P)
  <2> DEFINE adl == (a \o d) \o l
  <2>1. adl \in Seq(S)
    BY <1>2
  <2> HIDE DEF adl
  <2>2. Sel(adl \o b, P) = Sel(adl, P) \o Sel(b, P)
    BY <2>1, SelJoined
  <2> QED
    BY <2>2 DEF adl
<1> QED
  BY <1>1, <1>2, <1>3 DEF ReadOf

LEMMA UpToIs ==
  ASSUME NEW s, IsSeq(s), NEW n \in Nat
  PROVE  /\ n <= Len(s) => UpTo(s, n) = [i \in 1..n |-> s[i]]
         /\ n >= Len(s) => UpTo(s, n) = s
<1>1. PICK S : s \in Seq(S)
  BY DEF IsSeq
<1>2. Len(s) \in Nat /\ DOMAIN s = 1..Len(s) /\ s = [i \in 1..Len(s) |-> s[i]]
  BY <1>1
<1>3. SubSeq(s, 1, n) = [i \in 1..n |-> s[i]] /\ SubSeq(s, 1, Len(s)) = [i \in 1..Len(s) |-> s[i]]
  BY <1>1
<1>4. CASE n < Len(s)
  BY <1>2, <1>3, <1>4 DEF UpTo
<1>5. CASE n = Len(s)
  <2>1. UpTo(s, n) = SubSeq(s, 1, Len(s))
    BY <1>5 DEF UpTo
  <2> QED
    BY <1>2, <1>3, <1>5, <2>1
<1>6. CASE n > Len(s)
  <2>1. UpTo(s, n) = SubSeq(s, 1, Len(s))
    BY <1>2, <1>6 DEF UpTo
  <2> QED
    BY <1>2, <1>3, <1>6, <2>1
<1> QED
  BY <1>2, <1>4, <1>5, <1>6

-----------------------------------------------------------------------------
(* Rows with their columns filled in.                                       *)
LEMMA RowsState ==
  ASSUME BoardInv
  PROVE  /\ clock \in Nat /\ rows \in Seq(Rows) /\ lines \in Seq(Rows)
         /\ Len(rows) \in Nat /\ Len(lines) \in Nat /\ Len(dirs) \in Nat
<1>1. /\ clock \in Nat /\ IsSeq(rows) /\ IsSeq(lines) /\ IsSeq(dirs)
      /\ \A i \in DOMAIN rows : rows[i] \in Rows
      /\ \A i \in DOMAIN lines : lines[i] \in Rows
  BY DEF BoardInv, OnceInv, TableOK, LinesOK, DirsOK, Dir, Rows
<1>2. (\A x \in Entries(rows) : x \in Rows) /\ (\A x \in Entries(lines) : x \in Rows)
  BY <1>1 DEF Entries
<1> QED
  BY <1>1, <1>2, SeqIn, SeqShape

LEMMA EnrichedIs ==
  ASSUME clock \in Nat, NEW s \in Seq(Rows)
  PROVE  /\ Enriched(s) \in Seq(Rows) /\ Len(Enriched(s)) = Len(s)
         /\ \A i \in 1..Len(s) : Enriched(s)[i] = Filled(s[i], s[i].meta)
         /\ \A x : x \in Entries(Enriched(s)) <=> \E y \in Entries(s) : x = Filled(y, y.meta)
<1> DEFINE t == Enriched(s)
           n == Len(s)
<1>1. n \in Nat /\ DOMAIN s = 1..n /\ \A i \in 1..n : s[i] \in Rows
  BY InRows
<1>2. DOMAIN t = 1..n /\ t = [i \in 1..n |-> t[i]] /\ \A i \in 1..n : t[i] = Filled(s[i], s[i].meta)
  BY <1>1 DEF Enriched
<1>3. \A x \in Rows : Filled(x, x.meta) \in Rows
  <2> SUFFICES ASSUME NEW x \in Rows PROVE Filled(x, x.meta) \in Rows
    OBVIOUS
  <2>1. x \in RowBy(clock) /\ x.meta \in Result \cup {NoResult}
    BY DEF Rows, RowBy
  <2> QED
    BY <2>1, FilledRow DEF Rows
<1> HIDE DEF t, n
<1>4. \A i \in 1..n : t[i] \in Rows
  BY <1>1, <1>2, <1>3
<1>5. t \in Seq(Rows) /\ Len(t) = n
  <2>1. IsSeq(t) /\ Len(t) = n
    BY <1>1, <1>2, SeqMade
  <2>2. \A x \in Entries(t) : x \in Rows
    BY <1>2, <1>4 DEF Entries
  <2> QED
    BY <2>1, <2>2, SeqIn
<1>6. ASSUME NEW x PROVE x \in Entries(t) <=> \E y \in Entries(s) : x = Filled(y, y.meta)
  BY <1>1, <1>2 DEF Entries
<1> QED
  BY <1>2, <1>5, <1>6 DEF t, n

LEMMA EnrichedJoined ==
  ASSUME clock \in Nat, NEW s \in Seq(Rows), NEW t \in Seq(Rows)
  PROVE  Enriched(s \o t) = Enriched(s) \o Enriched(t)
<1> DEFINE Q == {u \in Seq(Rows) : Enriched(s \o u) = Enriched(s) \o Enriched(u)}
           E(u) == Enriched(u)
<1>1. \A u \in Seq(Rows) : E(u) \in Seq(Rows)
  BY EnrichedIs
<1>2. <<>> \in Q
  <2>1. s \o <<>> = s
    BY JoinedNone
  <2>2. Enriched(<<>>) = <<>>
    BY DEF Enriched
  <2>3. Enriched(s) \o <<>> = Enriched(s)
    BY <1>1, JoinedNone
  <2>4. <<>> \in Seq(Rows)
    OBVIOUS
  <2> QED
    BY <2>1, <2>2, <2>3, <2>4
<1>3. ASSUME NEW u \in Seq(Rows), NEW x \in Rows
      PROVE  Enriched(Append(u, x)) = Append(Enriched(u), Filled(x, x.meta))
  <2> DEFINE v == Append(u, x)
             n == Len(u)
             e == Enriched(u)
             y == Filled(x, x.meta)
             w == Append(e, y)
             f == Enriched(v)
  <2>1. /\ v \in Seq(Rows) /\ n \in Nat /\ Len(v) = n + 1
        /\ v[n + 1] = x /\ \A i \in 1..n : v[i] = u[i]
    BY AppendedTo
  <2>2. e \in Seq(Rows) /\ Len(e) = n /\ \A i \in 1..n : e[i] = Filled(u[i], u[i].meta)
    BY EnrichedIs
  <2>3. y \in Rows
    <3>1. x \in RowBy(clock) /\ x.meta \in Result \cup {NoResult}
      BY DEF Rows, RowBy
    <3> QED
      BY <3>1, FilledRow DEF Rows
  <2> HIDE DEF v, e, n
  <2>4. f \in Seq(Rows) /\ Len(f) = n + 1 /\ \A i \in 1..(n + 1) : f[i] = Filled(v[i], v[i].meta)
    BY <2>1, EnrichedIs
  <2> HIDE DEF y, f
  <2>5. /\ w \in Seq(Rows) /\ Len(w) = n + 1 /\ w[n + 1] = y /\ \A i \in 1..n : w[i] = e[i]
    BY <2>2, <2>3, AppendedTo
  <2> HIDE DEF w
  <2>6. \A i \in 1..(n + 1) : f[i] = w[i]
    <3>1. \A i \in 1..(n + 1) : i = n + 1 \/ i \in 1..n
      BY <2>1
    <3>2. f[n + 1] = w[n + 1]
      <4>1. n + 1 \in 1..(n + 1)
        BY <2>1
      <4> QED
        BY <2>1, <2>4, <2>5, <4>1 DEF y
    <3>3. \A i \in 1..n : f[i] = w[i]
      <4>1. \A i \in 1..n : i \in 1..(n + 1)
        BY <2>1
      <4> QED
        BY <2>1, <2>2, <2>4, <2>5, <4>1
    <3> QED
      BY <3>1, <3>2, <3>3
  <2>7. f = [i \in 1..(n + 1) |-> f[i]] /\ w = [i \in 1..(n + 1) |-> w[i]]
    BY <2>4, <2>5
  <2>8. f = w
    BY <2>6, <2>7, Zenon
  <2> QED
    BY <2>8 DEF f, w, v, e, y
<1>4. ASSUME NEW u \in Seq(Rows), NEW x \in Rows, u \in Q
      PROVE  Append(u, x) \in Q
  <2> DEFINE y == Filled(x, x.meta)
             su == s \o u
             es == Enriched(s)
             eu == Enriched(u)
  <2>1. su \in Seq(Rows) /\ s \o Append(u, x) = Append(su, x)
    BY JoinedAppended
  <2>2. es \in Seq(Rows) /\ eu \in Seq(Rows)
    BY <1>1
  <2>3. y \in Rows
    <3>1. x \in RowBy(clock) /\ x.meta \in Result \cup {NoResult}
      BY DEF Rows, RowBy
    <3> QED
      BY <3>1, FilledRow DEF Rows
  <2>4. Enriched(su) = es \o eu
    BY <1>4
  <2>5. Enriched(Append(u, x)) = Append(eu, y)
    BY <1>3
  <2> HIDE DEF su, es, eu, y
  <2>6. Enriched(Append(su, x)) = Append(Enriched(su), y)
    BY <1>3, <2>1 DEF y
  <2>7. es \o Append(eu, y) = Append(es \o eu, y)
    BY <2>2, <2>3, JoinedAppended
  <2>8. Enriched(s \o Append(u, x)) = es \o Enriched(Append(u, x))
    BY <2>1, <2>4, <2>5, <2>6, <2>7
  <2>9. Append(u, x) \in Seq(Rows)
    BY AppendedTo
  <2> QED
    BY <2>8, <2>9 DEF es
<1> HIDE DEF Q
<1>5. Seq(Rows) \subseteq Q
  BY <1>2, <1>4, ByAppending
<1> QED
  BY <1>5 DEF Q

LEMMA ShownIn ==
  ASSUME NEW s, Showable(s)
  PROVE  s \in Seq(Rows)
<1>1. IsSeq(s) /\ \A x \in Entries(s) : x \in Rows
  BY DEF Showable, Rows
<1> QED
  BY <1>1, SeqIn

(* Nothing that is ranked is there twice.                                   *)
LEMMA TwoKinds ==
  ASSUME NEW s \in Seq(Rows)
  PROVE  Len(Sel(s, NoRuns)) + Len(Sel(s, WithRun)) = Len(s)
<1> DEFINE Q == {u \in Seq(Rows) : Len(Sel(u, NoRuns)) + Len(Sel(u, WithRun)) = Len(u)}
<1>1. <<>> \in Q
  <2>1. Sel(<<>>, NoRuns) = <<>> /\ Sel(<<>>, WithRun) = <<>>
    BY SelNone
  <2>2. Len(<<>>) = 0 /\ <<>> \in Seq(Rows)
    OBVIOUS
  <2> QED
    BY <2>1, <2>2
<1>2. ASSUME NEW u \in Seq(Rows), NEW x \in Rows, u \in Q
      PROVE  Append(u, x) \in Q
  <2> DEFINE a == Sel(u, NoRuns)
             b == Sel(u, WithRun)
  <2>1. a \in Seq(Rows) /\ b \in Seq(Rows)
    BY SelIn
  <2>2. Len(a) + Len(b) = Len(u)
    BY <1>2
  <2>3. /\ Sel(Append(u, x), NoRuns) = (IF x \in NoRuns THEN Append(a, x) ELSE a)
        /\ Sel(Append(u, x), WithRun) = (IF x \in WithRun THEN Append(b, x) ELSE b)
    BY SelStep
  <2>4. x \in NoRuns <=> x \notin WithRun
    BY DEF NoRuns, WithRun
  <2> HIDE DEF a, b
  <2>5. /\ Len(Append(a, x)) = Len(a) + 1 /\ Len(Append(b, x)) = Len(b) + 1
        /\ Len(Append(u, x)) = Len(u) + 1 /\ Append(u, x) \in Seq(Rows)
        /\ Len(a) \in Nat /\ Len(b) \in Nat /\ Len(u) \in Nat
    BY <2>1, AppendedTo
  <2>6. Len(Sel(Append(u, x), NoRuns)) + Len(Sel(Append(u, x), WithRun)) = Len(Append(u, x))
    <3>1. CASE x \in NoRuns
      <4>1. Sel(Append(u, x), NoRuns) = Append(a, x) /\ Sel(Append(u, x), WithRun) = b
        BY <2>3, <2>4, <3>1
      <4> QED
        BY <2>2, <2>5, <4>1
    <3>2. CASE x \in WithRun
      <4>1. Sel(Append(u, x), NoRuns) = a /\ Sel(Append(u, x), WithRun) = Append(b, x)
        BY <2>3, <2>4, <3>2
      <4> QED
        BY <2>2, <2>5, <4>1
    <3> QED
      BY <2>4, <3>1, <3>2
  <2> QED
    BY <2>5, <2>6
<1> HIDE DEF Q
<1>3. Seq(Rows) \subseteq Q
  BY <1>1, <1>2, ByAppending
<1> QED
  BY <1>3 DEF Q

LEMMA FewerToRank ==
  ASSUME NEW s \in Seq(Rows)
  PROVE  Len(ToRank(s)) <= Len(s) /\ Len(ToRank(s)) \in Nat
<1> DEFINE a == Sel(s, NoRuns)
           b == Sel(s, WithRun)
           m == Mrg(b, KeyOfRun, RicherPairs)
           e == EachRun(s)
           o == EachOutcome(e)
<1>1. a \in Seq(Rows) /\ b \in Seq(Rows) /\ Len(a) + Len(b) = Len(s)
  BY SelIn, TwoKinds
<1>2. e = a \o m
  BY DEF EachRun
<1>3. ToRank(s) = Sel(o, NotSmoke)
  BY DEF ToRank
<1>4. e \in Seq(Rows) /\ o \in Seq(Rows)
  BY EachIn
<1> HIDE DEF a, b, e
<1>5. m \in Seq(Rows) /\ TakenFrom(m, b)
  BY <1>1, MrgIn, MrgEntries
<1>6. TakenFrom(o, e)
  BY <1>4, MrgEntries DEF EachOutcome
<1> HIDE DEF m, o
<1>7. Len(m) <= Len(b) /\ Len(m) \in Nat /\ Len(b) \in Nat
  <2>1. IsSeq(b)
    BY <1>1 DEF IsSeq
  <2> QED
    BY <1>5, <2>1, TakenLen
<1>8. Len(o) <= Len(e) /\ Len(o) \in Nat /\ Len(e) \in Nat
  <2>1. IsSeq(e)
    BY <1>4 DEF IsSeq
  <2> QED
    BY <1>6, <2>1, TakenLen
<1>9. Len(e) = Len(a) + Len(m)
  <2>1. IsSeq(a) /\ IsSeq(m)
    BY <1>1, <1>5 DEF IsSeq
  <2> QED
    BY <1>2, <2>1, Joined
<1>10. Len(Sel(o, NotSmoke)) <= Len(o) /\ Len(Sel(o, NotSmoke)) \in Nat
  <2>1. IsSeq(o)
    BY <1>4 DEF IsSeq
  <2> DEFINE at == {i \in DOMAIN o : o[i] \in NotSmoke}
             t == Sel(o, NotSmoke)
  <2>2. t = Only(o, at) /\ at \in SUBSET (DOMAIN o)
    BY DEF Sel
  <2> HIDE DEF at, t
  <2>3. TakenFrom(t, o)
    BY <2>1, <2>2, OnlyTakes
  <2>4. Len(t) <= Len(o) /\ Len(t) \in Nat
    BY <2>1, <2>3, TakenLen
  <2> QED
    BY <2>4 DEF t
<1>11. Len(a) \in Nat /\ Len(s) \in Nat
  BY <1>1, InRows
<1> QED
  BY <1>1, <1>3, <1>7, <1>8, <1>9, <1>10, <1>11

(* What is ranked, and that summaries on the disk add nothing to it.        *)
LEMMA RankedIs ==
  ASSUME BoardInv, NEW s, Showable(s)
  PROVE  LET c == ToRank(Enriched(s))
         IN  /\ s \in Seq(Rows) /\ Enriched(s) \in Seq(Rows) /\ c \in Seq(Rows)
             /\ Ranked(s) = SortOf(c, SharpePairs)
             /\ Ranked(s) \in Seq(Rows) /\ Len(Ranked(s)) \in Nat /\ Len(Ranked(s)) <= Len(s)
             /\ \A x : x \in Entries(Ranked(s)) <=> x \in Entries(c)
<1> DEFINE e == Enriched(s)
           r == OneEachRun(e)
           o == OneEachOutcome(r)
           at == {i \in DOMAIN o : ~Smoke(o[i])}
           c == Only(o, at)
<1>1. clock \in Nat /\ s \in Seq(Rows)
  BY RowsState, ShownIn
<1>2. Ranked(s) = Sorted(Overlaid(c), ByReturnThenSharpe)
  BY DEF Ranked, Chosen
<1>3. Complete(e) /\ e \in Seq(Rows) /\ Len(e) = Len(s)
  BY <1>1, EnrichedComplete, EnrichedIs
<1> HIDE DEF e
<1>4. Complete(r) /\ r = EachRun(e) /\ r \in Seq(Rows)
  BY <1>3, MergedRuns, EachRunIs, EachIn
<1> HIDE DEF r
<1>5. Complete(o) /\ o = EachOutcome(r) /\ o \in Seq(Rows)
  <2>1. TakenFrom(o, r)
    BY <1>4, MergedOutcomes DEF Complete
  <2> QED
    BY <1>4, <2>1, TakenComplete, EachOutcomeIs, EachIn
<1> HIDE DEF o
<1>6. at = {i \in DOMAIN o : o[i] \in NotSmoke}
  BY <1>5, InRows DEF NotSmoke
<1>7. c = Sel(o, NotSmoke) /\ at \in SUBSET (DOMAIN o)
  BY <1>6, OnlySel
<1> HIDE DEF at
<1>8. TakenFrom(c, o)
  BY <1>5, <1>7, OnlyTakes DEF Complete
<1>9. c = ToRank(e)
  BY <1>4, <1>5, <1>7 DEF ToRank
<1> HIDE DEF c
<1>10. Overlaid(c) = c
  BY <1>5, <1>8, TakenComplete, OverlaidComplete
<1>11. c \in Seq(Rows)
  BY <1>3, <1>9, EachIn
<1>12. Ranked(s) = SortOf(c, SharpePairs)
  BY <1>2, <1>10, <1>11, SortedIs
<1>13. OrderOf(SharpePairs, Rows)
  BY <1>1, RowOrders
<1>14. /\ SortOf(c, SharpePairs) \in Seq(Rows) /\ Len(SortOf(c, SharpePairs)) = Len(c)
       /\ \A x : x \in Entries(SortOf(c, SharpePairs)) <=> x \in Entries(c)
  BY <1>11, <1>13, SortedAll
<1>15. Len(c) <= Len(s) /\ Len(c) \in Nat
  BY <1>3, <1>9, FewerToRank
<1> QED
  BY <1>1, <1>3, <1>9, <1>11, <1>12, <1>14, <1>15 DEF e

-----------------------------------------------------------------------------
(* The sources of a page again.                                             *)
By(providers) == {x \in Rows : x.provider \in providers}
Theirs == {x \in Rows : x.provider # "local"}
After(s, n) == SubSeq(s, n + 1, Len(s))

(* What is fetched and what is not.                                         *)
LEMMA CutAndPast ==
  ASSUME NEW S, NEW s \in Seq(S), NEW n \in Nat
  PROVE  /\ UpTo(s, n) \in Seq(S) /\ After(s, n) \in Seq(S) /\ UpTo(s, n) \o After(s, n) = s
         /\ \A x : x \in Entries(After(s, n)) <=> \E i \in (n + 1)..Len(s) : s[i] = x
         /\ \A x \in Entries(UpTo(s, n)) : x \in Entries(s)
<1>1. Len(s) \in Nat /\ IsSeq(s) /\ DOMAIN s = 1..Len(s) /\ s = [i \in 1..Len(s) |-> s[i]]
      /\ \A i \in 1..Len(s) : s[i] \in S
  BY EntriesIn
<1>2. CASE n < Len(s)
  <2> DEFINE u == [i \in 1..n |-> s[i]]
             k == Len(s) - n
             v == [i \in 1..k |-> s[n + i]]
  <2>1. UpTo(s, n) = u
    <3>1. n <= Len(s)
      BY <1>1, <1>2
    <3> QED
      BY <1>1, <3>1, UpToIs
  <2>2. k \in Nat /\ k > 0 /\ n + k = Len(s) /\ \A i \in 1..k : n + i \in 1..Len(s)
    BY <1>1, <1>2
  <2>3. After(s, n) = v
    BY <1>1, <1>2 DEF After
  <2>4. u \in Seq(S) /\ Len(u) = n
    BY <1>1, <1>2
  <2> HIDE DEF k
  <2>5. v \in Seq(S) /\ Len(v) = k /\ DOMAIN v = 1..k
    BY <1>1, <2>2
  <2>6. u \o v = s
    <3> DEFINE w == u \o v
    <3>1. w \in Seq(S) /\ Len(w) = n + k
      BY <2>2, <2>4, <2>5
    <3>2. ASSUME NEW i \in 1..Len(s) PROVE w[i] = s[i]
      <4>1. CASE i \in 1..n
        BY <2>2, <2>4, <2>5, <4>1
      <4>2. CASE i \notin 1..n
        <5>1. i - n \in 1..k /\ n + (i - n) = i /\ i > n
          BY <1>1, <2>2, <4>2
        <5>2. w[i] = v[i - n]
          BY <1>1, <2>2, <2>4, <2>5, <5>1
        <5> QED
          BY <5>1, <5>2
      <4> QED
        BY <4>1, <4>2
    <3>3. w = [i \in 1..Len(s) |-> w[i]]
      BY <2>2, <3>1
    <3> HIDE DEF w
    <3> QED
      BY <1>1, <3>2, <3>3, Zenon DEF w
  <2>7. \A x : x \in Entries(v) <=> \E i \in (n + 1)..Len(s) : s[i] = x
    <3> SUFFICES ASSUME NEW x PROVE x \in Entries(v) <=> \E i \in (n + 1)..Len(s) : s[i] = x
      OBVIOUS
    <3>1. x \in Entries(v) <=> \E i \in 1..k : s[n + i] = x
      BY <2>5 DEF Entries
    <3>2. \A i \in 1..k : n + i \in (n + 1)..Len(s)
      BY <1>1, <2>2
    <3>3. \A i \in (n + 1)..Len(s) : i - n \in 1..k /\ n + (i - n) = i
      BY <1>1, <2>2
    <3> QED
      BY <3>1, <3>2, <3>3
  <2>8. \A x \in Entries(u) : x \in Entries(s)
    BY <1>1, <1>2 DEF Entries
  <2> HIDE DEF u, v
  <2> QED
    BY <2>1, <2>3, <2>4, <2>5, <2>6, <2>7, <2>8
<1>3. CASE n >= Len(s)
  <2>1. UpTo(s, n) = s
    BY <1>1, <1>3, UpToIs
  <2>2. After(s, n) = <<>>
    BY <1>1, <1>3 DEF After
  <2>3. s \o <<>> = s
    BY JoinedNone
  <2>4. \A i \in (n + 1)..Len(s) : FALSE
    BY <1>1, <1>3
  <2>5. Entries(<<>>) = {} /\ <<>> \in Seq(S)
    BY NoEntries
  <2> QED
    BY <2>1, <2>2, <2>3, <2>4, <2>5
<1>4. n < Len(s) \/ n >= Len(s)
  BY <1>1
<1> QED
  BY <1>2, <1>3, <1>4, Zenon

LEMMA TheirsIs ==
  ASSUME NEW s \in Seq(Rows)
  PROVE  Chosen(s, LAMBDA r : r.provider # "local") = Sel(s, Theirs)
<1>1. {i \in DOMAIN s : s[i].provider # "local"} = {i \in DOMAIN s : s[i] \in Theirs}
  BY InRows DEF Theirs
<1> QED
  BY <1>1 DEF Sel, Chosen

-----------------------------------------------------------------------------
(* What rows say of their runs before and after they are filled in.         *)
Whole(x) == Filled(x, x.meta)

LEMMA FilledIn ==
  ASSUME clock \in Nat, NEW x \in Rows
  PROVE  /\ Whole(x) \in Rows /\ Whole(x).run = x.run /\ Whole(x).meta = x.meta
         /\ Whole(x).source = x.source /\ Whole(x).provider = x.provider /\ Whole(x).ts = x.ts
         /\ \A col \in Column : Whole(x)[col] = IF x[col] = Unknown THEN x.meta[col] ELSE x[col]
         /\ RunKey(Whole(x)) = RunKey(x)
<1>1. x \in RowBy(clock) /\ x.meta \in Result \cup {NoResult}
  BY DEF Rows, RowBy
<1>2. /\ Whole(x) \in Rows /\ Whole(x).run = x.run /\ Whole(x).meta = x.meta
      /\ Whole(x).source = x.source /\ Whole(x).provider = x.provider /\ Whole(x).ts = x.ts
      /\ \A col \in Column : Whole(x)[col] = IF x[col] = Unknown THEN x.meta[col] ELSE x[col]
  BY <1>1, FilledRow DEF Rows, Whole
<1> QED
  BY <1>2 DEF RunKey

(* Returns of rows of the table and the disk are never filled in.           *)
LEMMA TableFilled ==
  ASSUME BoardInv, AgreeInv, NEW x \in Entries(rows)
  PROVE  /\ x \in Rows /\ x.run # NoRun /\ x.source = "external"
         /\ x.run \in Run => x.provider = "local" /\ x.ret = x.meta.ret
         /\ x.run \notin Run => x.provider # "local" /\ Whole(x) = x
         /\ Whole(x).ret = x.ret
<1>1. clock \in Nat /\ rows \in Seq(Rows)
  BY RowsState
<1>2. x \in Rows /\ TableRow(x)
  BY <1>1, EntriesIn DEF AgreeInv, Entries
<1>3. x \in RowBy(clock) /\ x.meta \in Result \cup {NoResult}
  BY <1>2 DEF Rows, RowBy
<1>4. \A col \in Column : NoResult[col] = Unknown
  BY DEF NoResult, Blank, Column
<1>5. x.run \notin Run => Whole(x) = x
  BY <1>1, <1>2, <1>3, <1>4, FilledAlready DEF TableRow, Whole
<1>6. Whole(x).ret = IF x.ret = Unknown THEN x.meta.ret ELSE x.ret
  BY <1>1, <1>2, FilledIn DEF Column
<1>7. Whole(x).ret = x.ret
  BY <1>2, <1>5, <1>6 DEF TableRow
<1> QED
  BY <1>2, <1>5, <1>7 DEF TableRow

LEMMA DiskFilled ==
  ASSUME BoardInv, NEW x \in Entries(FromDisk)
  PROVE  /\ x \in Rows /\ x.run \in Run /\ x.provider = "local" /\ x.source = "local"
         /\ summary[x.run] # NoResult /\ x.meta = summary[x.run]
         /\ x.ret = x.meta.ret /\ Whole(x).ret = x.ret
<1>1. PICK r \in Run : summary[r] # NoResult /\ x = DiskRow(r)
  BY DiskRows
<1>2. x \in Rows /\ x.run = r /\ x.meta = summary[r]
  BY <1>1, DiskRowShowable DEF Rows
<1>3. x.provider = "local" /\ x.source = "local" /\ x.ret = summary[r].ret
  BY <1>1 DEF DiskRow, Row
<1>4. Whole(x).ret = IF x.ret = Unknown THEN x.meta.ret ELSE x.ret
  BY <1>2, RowsState, FilledIn DEF Column
<1> QED
  BY <1>1, <1>2, <1>3, <1>4

LEMMA LineFilled ==
  ASSUME BoardInv, KnownInv, NEW x \in Entries(UpTo(lines, LineLimit))
  PROVE  x \in Rows /\ x.run \notin Run /\ x.provider = "local"
<1>1. lines \in Seq(Rows) /\ LineLimit \in Nat
  BY RowsState, LeaderboardConstants
<1>2. x \in Entries(lines) /\ x \in Rows
  BY <1>1, CutAndPast, EntriesIn
<1> QED
  BY <1>2 DEF Entries, KnownInv, BoardInv, LinesOK

(* Rows of one local run have one return, wherever they are stored.         *)
LEMMA LocalAgrees ==
  ASSUME BoardInv, KnownInv, AgreeInv, NEW u \in Entries(rows),
         NEW x, x \in Entries(rows) \/ x \in Entries(FromDisk) \/ x \in Entries(UpTo(lines, LineLimit)),
         x.provider = "local", RunKey(x) = RunKey(u)
  PROVE  x.ret = u.ret /\ u.run \in Run
<1>1. u.provider = "local" /\ x.run = u.run
  BY DEF RunKey
<1>2. u.run \in Run /\ u.ret = u.meta.ret
  BY <1>1, TableFilled
<1>3. CASE x \in Entries(rows)
  <2>1. x.ret = x.meta.ret
    BY <1>1, <1>2, <1>3, TableFilled
  <2>2. PICK i \in DOMAIN rows : rows[i] = x
    BY <1>3 DEF Entries
  <2>3. PICK j \in DOMAIN rows : rows[j] = u
    BY DEF Entries
  <2>4. x.meta = u.meta
    BY <1>1, <1>2, <2>2, <2>3 DEF AgreeInv
  <2> QED
    BY <1>2, <2>1, <2>4
<1>4. CASE x \in Entries(FromDisk)
  <2>1. x.ret = x.meta.ret /\ x.meta = summary[u.run] /\ summary[u.run] # NoResult
    BY <1>1, <1>4, DiskFilled
  <2>2. PICK j \in DOMAIN rows : rows[j] = u
    BY DEF Entries
  <2>3. Known(dirs, summary, u.run, u.meta)
    BY <1>2, <2>2 DEF KnownInv
  <2> QED
    BY <1>2, <2>1, <2>3 DEF Known
<1>5. CASE x \in Entries(UpTo(lines, LineLimit))
  BY <1>1, <1>2, <1>5, LineFilled
<1> QED
  BY <1>2, <1>3, <1>4, <1>5

LEMMA EnrichedRead ==
  ASSUME clock \in Nat, NEW a \in Seq(Rows), NEW d \in Seq(Rows), NEW l \in Seq(Rows), NEW b \in Seq(Rows)
  PROVE  Enriched(ReadOf(a, d, l, b)) = ReadOf(Enriched(a), Enriched(d), Enriched(l), Enriched(b))
<1> DEFINE ad == a \o d
           adl == ad \o l
<1>1. ad \in Seq(Rows) /\ Enriched(ad) = Enriched(a) \o Enriched(d)
  BY JoinedIn, EnrichedJoined
<1> HIDE DEF ad
<1>2. adl \in Seq(Rows) /\ Enriched(adl) = Enriched(ad) \o Enriched(l)
  BY <1>1, JoinedIn, EnrichedJoined
<1> HIDE DEF adl
<1>3. Enriched(adl \o b) = Enriched(adl) \o Enriched(b)
  BY <1>2, EnrichedJoined
<1> QED
  BY <1>1, <1>2, <1>3 DEF ReadOf, ad, adl

-----------------------------------------------------------------------------
(* Lists: the reverse of one, the one that is in an order, a choice of a    *)
(* sorted one, and rows that may be left out when runs are merged.          *)
LEMMA ReversedAll ==
  ASSUME NEW S, NEW s \in Seq(S)
  PROVE  /\ Reversed(s) \in Seq(S) /\ Len(Reversed(s)) = Len(s)
         /\ \A i \in 1..Len(s) : Reversed(s)[i] = s[Len(s) - i + 1]
         /\ \A x : x \in Entries(Reversed(s)) <=> x \in Entries(s)
<1>1. Len(s) \in Nat /\ DOMAIN s = 1..Len(s) /\ \A i \in 1..Len(s) : s[i] \in S
  BY EntriesIn
<1>2. \A i \in 1..Len(s) : Len(s) - i + 1 \in 1..Len(s) /\ Len(s) - (Len(s) - i + 1) + 1 = i
  BY <1>1
<1> DEFINE t == [i \in 1..Len(s) |-> s[Len(s) - i + 1]]
<1>3. Reversed(s) = t
  BY <1>1 DEF Reversed
<1>4. t \in Seq(S) /\ Len(t) = Len(s) /\ DOMAIN t = 1..Len(s)
  BY <1>1, <1>2
<1>5. \A i \in 1..Len(s) : t[i] = s[Len(s) - i + 1]
  OBVIOUS
<1> HIDE DEF t
<1>6. ASSUME NEW x PROVE x \in Entries(t) <=> x \in Entries(s)
  <2>1. x \in Entries(t) <=> \E i \in 1..Len(s) : t[i] = x
    BY <1>4 DEF Entries
  <2>2. x \in Entries(s) <=> \E i \in 1..Len(s) : s[i] = x
    BY <1>1 DEF Entries
  <2>3. ASSUME NEW i \in 1..Len(s), s[i] = x PROVE x \in Entries(t)
    <3>1. t[Len(s) - i + 1] = x
      BY <1>2, <1>5, <2>3
    <3> QED
      BY <1>2, <2>1, <3>1
  <2>4. ASSUME NEW i \in 1..Len(s), t[i] = x PROVE x \in Entries(s)
    BY <1>2, <1>5, <2>2, <2>4
  <2> QED
    BY <2>1, <2>2, <2>3, <2>4
<1> QED
  BY <1>3, <1>4, <1>5, <1>6

(* Members of J listed in the order b.                                      *)
ListedBy(x, m, J, b) ==
  /\ x \in [1..m -> J] /\ \A a \in J : \E i \in 1..m : x[i] = a
  /\ \A i, j \in 1..m : i < j => <<x[i], x[j]>> \in b

(* There is one such list.                                                  *)
LEMMA ListedOnce ==
  ASSUME NEW J, NEW b, NEW m \in Nat, NEW k \in Nat, NEW x, NEW y,
         ListedBy(x, m, J, b), ListedBy(y, k, J, b),
         \A p, q \in J : <<p, q>> \in b => <<q, p>> \notin b
  PROVE  m = k /\ x = y
<1>1. /\ x \in [1..m -> J] /\ (\A a \in J : \E i \in 1..m : x[i] = a)
      /\ \A i, j \in 1..m : i < j => <<x[i], x[j]>> \in b
  BY DEF ListedBy
<1>2. /\ y \in [1..k -> J] /\ (\A a \in J : \E i \in 1..k : y[i] = a)
      /\ \A i, j \in 1..k : i < j => <<y[i], y[j]>> \in b
  BY DEF ListedBy
<1>3. (\A i \in 1..m : x[i] \in J) /\ \A i \in 1..k : y[i] \in J
  BY <1>1, <1>2
<1>4. \A p \in J : <<p, p>> \notin b
  OBVIOUS
<1> DEFINE N == {i \in Nat : i \in 1..m /\ i \in 1..k /\ x[i] # y[i]}
<1>5. N = {}
  <2> SUFFICES ASSUME N # {} PROVE FALSE
    OBVIOUS
  <2>1. N \in SUBSET Nat
    OBVIOUS
  <2>2. PICK i \in N : \A j \in N : i <= j
    <3> HIDE DEF N
    <3> QED
      BY <2>1, LeastNumber
  <2>3. i \in Nat /\ i \in 1..m /\ i \in 1..k /\ x[i] # y[i]
    OBVIOUS
  <2>4. \A j \in Nat : j < i => x[j] = y[j] \/ j = 0
    <3> TAKE j \in Nat
    <3>1. j \notin N \/ ~(j < i)
      <4> HIDE DEF N
      <4> QED
        BY <2>2, <2>3
    <3> QED
      BY <2>3, <3>1
  <2> HIDE DEF N
  <2>5. PICK j \in 1..k : y[j] = x[i]
    BY <1>2, <1>3, <2>3
  <2>6. PICK l \in 1..m : x[l] = y[i]
    BY <1>1, <1>3, <2>3
  <2>7. i < j
    <3>1. j # i
      BY <2>3, <2>5
    <3>2. ASSUME j < i PROVE FALSE
      <4>1. j \in Nat /\ j # 0 /\ j \in 1..m
        BY <2>3, <2>5, <3>2
      <4>2. x[j] = x[i]
        BY <2>4, <2>5, <3>2, <4>1
      <4>3. <<x[j], x[i]>> \in b
        BY <1>1, <2>3, <3>2, <4>1
      <4> QED
        BY <1>3, <1>4, <2>3, <4>2, <4>3
    <3> QED
      BY <2>3, <2>5, <3>1, <3>2
  <2>8. i < l
    <3>1. l # i
      BY <2>3, <2>6
    <3>2. ASSUME l < i PROVE FALSE
      <4>1. l \in Nat /\ l # 0 /\ l \in 1..k
        BY <2>3, <2>6, <3>2
      <4>2. y[l] = y[i]
        BY <2>4, <2>6, <3>2, <4>1
      <4>3. <<y[l], y[i]>> \in b
        BY <1>2, <2>3, <3>2, <4>1
      <4> QED
        BY <1>3, <1>4, <2>3, <4>2, <4>3
    <3> QED
      BY <2>3, <2>6, <3>1, <3>2
  <2>9. <<y[i], y[j]>> \in b /\ <<x[i], x[l]>> \in b
    BY <1>1, <1>2, <2>3, <2>5, <2>6, <2>7, <2>8
  <2>10. <<y[i], x[i]>> \in b /\ <<x[i], y[i]>> \in b
    BY <2>5, <2>6, <2>9
  <2> QED
    BY <1>3, <2>3, <2>10
<1>6. \A i \in Nat : i \in 1..m /\ i \in 1..k => x[i] = y[i]
  BY <1>5
<1> HIDE DEF N
<1>7. ~(m < k)
  <2> SUFFICES ASSUME m < k PROVE FALSE
    OBVIOUS
  <2>1. m + 1 \in 1..k
    OBVIOUS
  <2>2. PICK i \in 1..m : x[i] = y[m + 1]
    BY <1>1, <1>3, <2>1
  <2>3. i \in Nat /\ i \in 1..k /\ i < m + 1
    OBVIOUS
  <2>4. y[i] = y[m + 1]
    BY <1>6, <2>2, <2>3
  <2>5. <<y[i], y[m + 1]>> \in b
    BY <1>2, <2>1, <2>3
  <2> QED
    BY <1>3, <1>4, <2>1, <2>4, <2>5
<1>8. ~(k < m)
  <2> SUFFICES ASSUME k < m PROVE FALSE
    OBVIOUS
  <2>1. k + 1 \in 1..m
    OBVIOUS
  <2>2. PICK i \in 1..k : y[i] = x[k + 1]
    BY <1>2, <1>3, <2>1
  <2>3. i \in Nat /\ i \in 1..m /\ i < k + 1
    OBVIOUS
  <2>4. x[i] = x[k + 1]
    BY <1>6, <2>2, <2>3
  <2>5. <<x[i], x[k + 1]>> \in b
    BY <1>1, <2>1, <2>3
  <2> QED
    BY <1>3, <1>4, <2>1, <2>4, <2>5
<1>9. m = k
  BY <1>7, <1>8
<1>10. \A i \in 1..m : x[i] = y[i]
  BY <1>6, <1>9
<1> QED
  BY <1>1, <1>2, <1>9, <1>10

(* A sorted list is one.                                                    *)
LEMMA SortedLists ==
  ASSUME NEW S, NEW s \in Seq(S), NEW bs, OrderOf(bs, S)
  PROVE  LET n == Len(s)
             b == BeforeOf(s, bs)
             at == Ranking(DOMAIN s, b)
         IN  /\ ListedBy(at, n, 1..n, b) /\ \A p, q \in 1..n : <<p, q>> \in b => <<q, p>> \notin b
             /\ SortOf(s, bs) = [i \in 1..n |-> s[at[i]]]
<1> DEFINE n == Len(s)
           b == BeforeOf(s, bs)
           at == Ranking(DOMAIN s, b)
           T == 1..n
<1>1. DOMAIN s = T /\ n \in Nat
  OBVIOUS
<1>2. TotalOrder(T, b)
  BY <1>1, OrderTotal
<1>a. SortOf(s, bs) = [k \in DOMAIN at |-> s[at[k]]]
  BY Zenon DEF SortOf
<1>3. at = Ranking(T, b)
  BY <1>1
<1> HIDE DEF n, b, at
<1>4. IsFiniteSet(T) /\ Cardinality(T) = n
  BY <1>1, FS_Interval
<1> HIDE DEF T
<1>5. /\ at \in [1..n -> T] /\ (\A i, j \in 1..n : at[i] = at[j] => i = j)
      /\ (\A x \in T : \E i \in 1..n : at[i] = x)
      /\ \A i \in 1..n : Cardinality(Preceding(T, b, at[i])) = i - 1
  BY <1>2, <1>3, <1>4, RankingLists
<1>6. ASSUME NEW i \in 1..n, NEW j \in 1..n, i < j PROVE <<at[i], at[j]>> \in b
  <2>1. at[i] \in T /\ at[j] \in T /\ at[i] # at[j]
    BY <1>1, <1>5, <1>6
  <2>2. ASSUME <<at[j], at[i]>> \in b PROVE FALSE
    <3>1. Preceding(T, b, at[j]) \in SUBSET Preceding(T, b, at[i])
      BY <1>2, <2>1, <2>2 DEF Preceding, TotalOrder
    <3>2. IsFiniteSet(Preceding(T, b, at[i]))
      BY <1>4, FS_Subset DEF Preceding
    <3>3. Cardinality(Preceding(T, b, at[j])) <= Cardinality(Preceding(T, b, at[i]))
      BY <3>1, <3>2, FS_Subset
    <3>4. Cardinality(Preceding(T, b, at[j])) = j - 1 /\ Cardinality(Preceding(T, b, at[i])) = i - 1
      BY <1>5
    <3> QED
      BY <1>1, <1>6, <3>3, <3>4
  <2> QED
    BY <1>2, <2>1, <2>2 DEF TotalOrder
<1>7. \A p, q \in T : <<p, q>> \in b => <<q, p>> \notin b
  BY <1>2 DEF TotalOrder
<1>8. ListedBy(at, n, T, b)
  BY <1>5, <1>6 DEF ListedBy
<1>9. SortOf(s, bs) = [i \in 1..n |-> s[at[i]]]
  BY <1>a, <1>5
<1> QED
  BY <1>7, <1>8, <1>9 DEF T, at, b, n

(* Choosing from a sorted list is sorting what was chosen.                  *)
LEMMA SelSort ==
  ASSUME NEW S, NEW s \in Seq(S), NEW bs, OrderOf(bs, S), NEW P
  PROVE  Sel(SortOf(s, bs), P) = SortOf(Sel(s, P), bs)
<1> DEFINE n == Len(s)
           t == SortOf(s, bs)
           h == Sel(s, P)
           m == Len(h)
           v == SortOf(h, bs)
           w == Sel(t, P)
           k == Len(w)
           J == {i \in DOMAIN s : s[i] \in P}
           K == {i \in DOMAIN t : t[i] \in P}
           b == BeforeOf(s, bs)
           c == BeforeOf(h, bs)
           at == Ranking(DOMAIN s, b)
           bt == Ranking(DOMAIN h, c)
<1>1. DOMAIN s = 1..n /\ n \in Nat /\ \A i \in 1..n : s[i] \in S
  OBVIOUS
<1>2. h \in Seq(S)
  BY SelIn
<1>3. m \in Nat
  <2> HIDE DEF h
  <2> QED
    BY <1>2
<1>4. t \in Seq(S) /\ Len(t) = n
  BY SortedAll
<1>5. PICK g : Drawn(h, s, J, g)
  <2>1. IsSeq(s) /\ J \in SUBSET (DOMAIN s)
    BY DEF IsSeq
  <2>2. h = Only(s, J)
    BY DEF Sel
  <2> HIDE DEF h, J
  <2> QED
    BY <2>1, <2>2, OnlyDraws
<1>6. PICK f : Drawn(w, t, K, f)
  <2>1. IsSeq(t) /\ K \in SUBSET (DOMAIN t)
    BY <1>4 DEF IsSeq
  <2>2. w = Only(t, K)
    BY DEF Sel
  <2> HIDE DEF w, K, t
  <2> QED
    BY <2>1, <2>2, OnlyDraws
<1>7. k \in Nat
  <2> HIDE DEF t
  <2>1. w \in Seq(S)
    BY <1>4, SelIn
  <2> HIDE DEF w
  <2> QED
    BY <2>1
<1>8. \A i, j \in 1..n : <<i, j>> \in b <=> (<<s[i], s[j]>> \in bs \/ (i < j /\ <<s[j], s[i]>> \notin bs))
  BY BeforePlaces
<1>9. \A i, j \in 1..m : <<i, j>> \in c <=> (<<h[i], h[j]>> \in bs \/ (i < j /\ <<h[j], h[i]>> \notin bs))
  <2> HIDE DEF h
  <2> QED
    BY <1>2, BeforePlaces
<1>10. /\ ListedBy(at, n, 1..n, b) /\ \A p, q \in 1..n : <<p, q>> \in b => <<q, p>> \notin b
       /\ t = [i \in 1..n |-> s[at[i]]]
  BY SortedLists
<1>11. ListedBy(bt, m, 1..m, c) /\ v = [i \in 1..m |-> h[bt[i]]]
  <2> HIDE DEF h
  <2> QED
    BY <1>2, SortedLists
<1>12. \A i : i \in J <=> i \in 1..n /\ s[i] \in P
  BY <1>1
<1>13. DOMAIN t = 1..n
  BY <1>10
<1>14. \A i : i \in K <=> i \in 1..n /\ t[i] \in P
  BY <1>13
<1>15. w = [i \in 1..k |-> w[i]] /\ v = [i \in 1..m |-> v[i]]
  <2>1. IsSeq(w)
    BY <1>6 DEF Drawn
  <2>2. w \in Seq(Entries(w))
    BY <2>1, SeqShape
  <2> HIDE DEF w, v
  <2> QED
    BY <1>11, <2>2
<1> HIDE DEF n, t, h, m, v, w, k, J, K, b, c, at, bt
<1>16. /\ g \in [1..m -> J] /\ (\A i, j \in 1..m : i < j => g[i] < g[j])
       /\ (\A a \in J : \E i \in 1..m : g[i] = a) /\ \A i \in 1..m : h[i] = s[g[i]]
  BY <1>5 DEF Drawn, m
<1>17. /\ f \in [1..k -> K] /\ (\A i, j \in 1..k : i < j => f[i] < f[j])
       /\ (\A a \in K : \E i \in 1..k : f[i] = a) /\ \A i \in 1..k : w[i] = t[f[i]]
  BY <1>6 DEF Drawn, k
<1>18. /\ at \in [1..n -> 1..n] /\ (\A a \in 1..n : \E i \in 1..n : at[i] = a)
       /\ \A i, j \in 1..n : i < j => <<at[i], at[j]>> \in b
  BY <1>10 DEF ListedBy
<1>19. /\ bt \in [1..m -> 1..m] /\ (\A a \in 1..m : \E i \in 1..m : bt[i] = a)
       /\ \A i, j \in 1..m : i < j => <<bt[i], bt[j]>> \in c
  BY <1>11 DEF ListedBy
<1>20. \A i \in 1..n : t[i] = s[at[i]] /\ at[i] \in 1..n /\ (i \in K <=> at[i] \in J)
  BY <1>10, <1>12, <1>14, <1>18
<1> DEFINE x == [i \in 1..k |-> at[f[i]]]
           y == [i \in 1..m |-> g[bt[i]]]
<1>21. \A i \in 1..k : f[i] \in 1..n /\ x[i] = at[f[i]] /\ x[i] \in J /\ w[i] = s[x[i]]
  BY <1>14, <1>17, <1>20
<1>22. \A i \in 1..m : y[i] = g[bt[i]] /\ y[i] \in J /\ v[i] = s[y[i]]
  BY <1>11, <1>16, <1>19
<1>23. ListedBy(x, k, J, b)
  <2>1. x \in [1..k -> J]
    BY <1>21
  <2>2. ASSUME NEW a \in J PROVE \E i \in 1..k : x[i] = a
    <3>1. PICK j \in 1..n : at[j] = a
      BY <1>12, <1>18
    <3>2. j \in K
      BY <1>20, <3>1
    <3>3. PICK i \in 1..k : f[i] = j
      BY <1>17, <3>2
    <3> QED
      BY <1>21, <3>1, <3>3
  <2>3. \A i, j \in 1..k : i < j => <<x[i], x[j]>> \in b
    BY <1>17, <1>18, <1>21
  <2> HIDE DEF x
  <2> QED
    BY <2>1, <2>2, <2>3 DEF ListedBy
<1>24. \A i, j \in 1..m : <<i, j>> \in c => <<g[i], g[j]>> \in b
  <2> TAKE i \in 1..m, j \in 1..m
  <2>1. g[i] \in 1..n /\ g[j] \in 1..n /\ h[i] = s[g[i]] /\ h[j] = s[g[j]] /\ (i < j => g[i] < g[j])
    BY <1>12, <1>16
  <2> QED
    BY <1>8, <1>9, <2>1
<1>25. ListedBy(y, m, J, b)
  <2>1. y \in [1..m -> J]
    BY <1>22
  <2>2. ASSUME NEW a \in J PROVE \E i \in 1..m : y[i] = a
    <3>1. PICK j \in 1..m : g[j] = a
      BY <1>16
    <3>2. PICK i \in 1..m : bt[i] = j
      BY <1>19
    <3> QED
      BY <1>22, <3>1, <3>2
  <2>3. \A i, j \in 1..m : i < j => <<y[i], y[j]>> \in b
    BY <1>19, <1>22, <1>24
  <2> HIDE DEF y
  <2> QED
    BY <2>1, <2>2, <2>3 DEF ListedBy
<1>26. \A p, q \in J : <<p, q>> \in b => <<q, p>> \notin b
  BY <1>10, <1>12
<1> HIDE DEF x, y
<1>27. k = m /\ x = y
  BY <1>3, <1>7, <1>23, <1>25, <1>26, ListedOnce
<1>28. \A i \in 1..k : w[i] = v[i]
  BY <1>21, <1>22, <1>27
<1>29. w = v
  BY <1>15, <1>27, <1>28, Zenon
<1> QED
  BY <1>29 DEF w, v, t, h

(* No row twice.                                                            *)
NoTwice(s) == \A i, j \in 1..Len(s) : s[i] = s[j] => i = j

(* Nor in what is taken of it.                                              *)
LEMMA TakenTwice ==
  ASSUME NEW s, NEW t, TakenFrom(t, s), NoTwice(s)
  PROVE  NoTwice(t)
<1>1. PICK h : Takes(t, s, h)
  BY DEF TakenFrom
<1>2. /\ h \in [1..Len(t) -> 1..Len(s)] /\ (\A i, j \in 1..Len(t) : h[i] = h[j] => i = j)
      /\ \A i \in 1..Len(t) : t[i] = s[h[i]]
  BY <1>1 DEF Takes
<1>3. \A i \in 1..Len(t) : h[i] \in 1..Len(s)
  BY <1>2
<1> QED
  BY <1>2, <1>3 DEF NoTwice

(* What a list begins with is chosen from it, if no row is there twice.     *)
LEMMA CutSel ==
  ASSUME NEW S, NEW s \in Seq(S), NoTwice(s), NEW n \in Nat
  PROVE  Sel(s, Entries(UpTo(s, n))) = UpTo(s, n)
<1> DEFINE u == UpTo(s, n)
           v == After(s, n)
           C == Entries(u)
<1>1. u \in Seq(S) /\ v \in Seq(S) /\ s = u \o v
  BY CutAndPast
<1> HIDE DEF u, v
<1>2. /\ Len(u) \in Nat /\ Len(v) \in Nat /\ Len(s) = Len(u) + Len(v)
      /\ (\A i \in 1..Len(u) : s[i] = u[i]) /\ \A i \in 1..Len(v) : s[Len(u) + i] = v[i]
  BY <1>1
<1>3. \A x \in Entries(v) : x \notin C
  <2> SUFFICES ASSUME NEW x \in Entries(v), x \in C PROVE FALSE
    OBVIOUS
  <2>1. PICK i \in 1..Len(v) : v[i] = x
    BY <1>1, EntriesIn
  <2>2. PICK j \in 1..Len(u) : u[j] = x
    BY <1>1, EntriesIn
  <2>3. s[Len(u) + i] = s[j] /\ Len(u) + i \in 1..Len(s) /\ j \in 1..Len(s) /\ Len(u) + i # j
    BY <1>2, <2>1, <2>2
  <2> QED
    BY <2>3 DEF NoTwice
<1>4. u \in Seq(C)
  BY <1>1, EntriesIn
<1> HIDE DEF C
<1>5. Sel(u, C) = u
  BY <1>4, SelAll
<1>6. Sel(v, C) = <<>>
  BY <1>1, <1>3, SelGone
<1>7. Sel(u \o v, C) = Sel(u, C) \o Sel(v, C)
  BY <1>1, SelJoined
<1>8. u \o <<>> = u
  BY <1>1, JoinedNone
<1> QED
  BY <1>1, <1>5, <1>6, <1>7, <1>8 DEF u, C

(* Nothing is better than what comes before it.                             *)
Descends(s, bs) == \A i, j \in 1..Len(s) : i < j => <<s[j], s[i]>> \notin bs

LEMMA SortedDescends ==
  ASSUME NEW S, NEW s \in Seq(S), NEW bs, OrderOf(bs, S)
  PROVE  Descends(SortOf(s, bs), bs)
<1> DEFINE n == Len(s)
           b == BeforeOf(s, bs)
           at == Ranking(DOMAIN s, b)
           t == SortOf(s, bs)
<1>1. n \in Nat /\ \A i \in 1..n : s[i] \in S
  OBVIOUS
<1>2. ListedBy(at, n, 1..n, b) /\ t = [i \in 1..n |-> s[at[i]]]
  BY SortedLists
<1>3. Len(t) = n
  BY SortedAll
<1>4. \A i, j \in 1..n : <<i, j>> \in b <=> (<<s[i], s[j]>> \in bs \/ (i < j /\ <<s[j], s[i]>> \notin bs))
  BY BeforePlaces
<1> HIDE DEF n, b, at, t
<1>5. (\A i \in 1..n : at[i] \in 1..n) /\ \A i, j \in 1..n : i < j => <<at[i], at[j]>> \in b
  BY <1>2 DEF ListedBy
<1>6. \A x, y \in S : <<x, y>> \in bs => <<y, x>> \notin bs
  <2>1. PICK f \in [S -> Int], g \in [S -> Int] :
          \A x, y \in S : <<x, y>> \in bs <=> f[x] > f[y] \/ (f[x] = f[y] /\ g[x] > g[y])
    BY Zenon DEF OrderOf
  <2>2. ASSUME NEW x \in S, NEW y \in S, <<x, y>> \in bs, <<y, x>> \in bs PROVE FALSE
    <3>1. f[x] \in Int /\ f[y] \in Int /\ g[x] \in Int /\ g[y] \in Int
      OBVIOUS
    <3>2. /\ f[x] > f[y] \/ (f[x] = f[y] /\ g[x] > g[y])
          /\ f[y] > f[x] \/ (f[y] = f[x] /\ g[y] > g[x])
      BY <2>1, <2>2
    <3> QED
      BY <3>1, <3>2
  <2> QED
    BY <2>2
<1>7. ASSUME NEW i \in 1..n, NEW j \in 1..n, i < j PROVE <<t[j], t[i]>> \notin bs
  <2>1. t[i] = s[at[i]] /\ t[j] = s[at[j]] /\ at[i] \in 1..n /\ at[j] \in 1..n /\ s[at[i]] \in S /\ s[at[j]] \in S
    BY <1>1, <1>2, <1>5
  <2>2. <<s[at[i]], s[at[j]]>> \in bs \/ <<s[at[j]], s[at[i]]>> \notin bs
    BY <1>4, <1>5, <1>7, <2>1
  <2> QED
    BY <1>6, <2>1, <2>2
<1> QED
  BY <1>3, <1>7 DEF Descends, t

(* So it is in a choice of it.                                              *)
LEMMA SelDescends ==
  ASSUME NEW S, NEW s \in Seq(S), NEW bs, Descends(s, bs), NEW P
  PROVE  Descends(Sel(s, P), bs)
<1> DEFINE J == {i \in DOMAIN s : s[i] \in P}
           h == Sel(s, P)
<1>1. IsSeq(s) /\ DOMAIN s = 1..Len(s) /\ J \in SUBSET (DOMAIN s)
  BY DEF IsSeq
<1>2. h = Only(s, J)
  BY DEF Sel
<1> HIDE DEF h, J
<1>3. PICK g : Drawn(h, s, J, g)
  BY <1>1, <1>2, OnlyDraws
<1>4. /\ \A i \in 1..Len(h) : g[i] \in 1..Len(s) /\ h[i] = s[g[i]]
      /\ \A i, j \in 1..Len(h) : i < j => g[i] < g[j]
  BY <1>1, <1>3 DEF Drawn
<1> QED
  BY <1>4 DEF Descends, h

(* The members that are all before the others.                              *)
LEMMA SplitAt ==
  ASSUME NEW S, NEW P, NEW s \in Seq(S),
         \A i, j \in 1..Len(s) : i < j /\ s[j] \in P => s[i] \in P
  PROVE  s = Sel(s, P) \o Sel(s, S \ P)
<1> DEFINE First(u) == \A i, j \in 1..Len(u) : i < j /\ u[j] \in P => u[i] \in P
           R == S \ P
           Q == {u \in Seq(S) : First(u) => u = Sel(u, P) \o Sel(u, R)}
<1>1. <<>> \in Q
  <2>1. <<>> \in Seq(S) /\ Sel(<<>>, P) = <<>> /\ Sel(<<>>, R) = <<>> /\ <<>> \o <<>> = <<>>
    BY SelNone
  <2> QED
    BY <2>1
<1>2. ASSUME NEW u \in Seq(S), NEW x \in S, u \in Q PROVE Append(u, x) \in Q
  <2>1. /\ Append(u, x) \in Seq(S) /\ Len(u) \in Nat /\ Len(Append(u, x)) = Len(u) + 1
        /\ Append(u, x)[Len(u) + 1] = x /\ \A i \in 1..Len(u) : Append(u, x)[i] = u[i]
    BY AppendedTo
  <2>2. ASSUME First(Append(u, x)) PROVE Append(u, x) = Sel(Append(u, x), P) \o Sel(Append(u, x), R)
    <3> DEFINE v == Append(u, x)
    <3>0. /\ v \in Seq(S) /\ Len(u) \in Nat /\ Len(v) = Len(u) + 1 /\ First(v)
          /\ v[Len(u) + 1] = x /\ \A i \in 1..Len(u) : v[i] = u[i]
      BY <2>1, <2>2
    <3> HIDE DEF v
    <3>1. First(u)
      BY <3>0
    <3>2. x \in P => \A i \in 1..Len(u) : u[i] \in P
      BY <3>0
    <3>3. u = Sel(u, P) \o Sel(u, R)
      BY <1>2, <3>1
    <3>4. /\ Sel(v, P) = IF x \in P THEN Append(Sel(u, P), x) ELSE Sel(u, P)
          /\ Sel(v, R) = IF x \in R THEN Append(Sel(u, R), x) ELSE Sel(u, R)
      BY SelStep DEF v
    <3>5. Sel(u, P) \in Seq(S) /\ Sel(u, R) \in Seq(S)
      BY SelIn
    <3>6. CASE x \in P
      <4>0. \A y \in Entries(u) : \E i \in 1..Len(u) : u[i] = y
        BY EntriesIn
      <4>1. \A y \in Entries(u) : y \in P
        BY <3>2, <3>6, <4>0, Zenon
      <4>2. Sel(u, R) = <<>>
        BY <4>1, SelGone
      <4>3. Sel(u, P) \o <<>> = Sel(u, P) /\ Append(Sel(u, P), x) \o <<>> = Append(Sel(u, P), x)
        BY <3>5
      <4> QED
        BY <3>3, <3>4, <3>6, <4>2, <4>3 DEF v
    <3>7. CASE x \notin P
      <4>1. Sel(u, P) \o Append(Sel(u, R), x) = Append(Sel(u, P) \o Sel(u, R), x)
        BY <3>5, JoinedAppended
      <4> QED
        BY <3>3, <3>4, <3>7, <4>1 DEF v
    <3> QED
      BY <3>6, <3>7 DEF v
  <2> QED
    BY <2>1, <2>2
<1> HIDE DEF Q
<1>3. Seq(S) \subseteq Q
  BY <1>1, <1>2, ByAppending
<1> QED
  BY <1>3 DEF Q

(* Rows whose keys have come up, and that are not better than those of them *)
(* that are kept, may be left out of the rest of a list.                    *)
Needless(t, p, C, kf, bs) ==
  \A x \in Entries(t) : x \notin C =>
    /\ \E y \in Entries(p) : kf[y] = kf[x]
    /\ \A y \in Entries(p) \cup (Entries(t) \cap C) : kf[y] = kf[x] => <<x, y>> \notin bs

LEMMA MrgSkip ==
  ASSUME NEW S, NEW kf, NEW bs, NEW p \in Seq(S), NEW t \in Seq(S), NEW C,
         Needless(t, p, C, kf, bs)
  PROVE  Mrg(p \o t, kf, bs) = Mrg(p \o Sel(t, C), kf, bs)
<1> DEFINE T == Entries(t)
<1>0. /\ T \in SUBSET S /\ t \in Seq(T)
      /\ \A x \in T : x \notin C =>
            /\ \E y \in Entries(p) : kf[y] = kf[x]
            /\ \A y \in Entries(p) \cup (T \cap C) : kf[y] = kf[x] => <<x, y>> \notin bs
  BY EntriesIn DEF Needless
<1> HIDE DEF T
<1> DEFINE Q == {u \in Seq(T) : Mrg(p \o u, kf, bs) = Mrg(p \o Sel(u, C), kf, bs)}
<1>1. <<>> \in Q
  <2>1. <<>> \in Seq(T)
    OBVIOUS
  <2>2. Sel(<<>>, C) = <<>>
    BY SelNone
  <2> QED
    BY <2>1, <2>2
<1>2. ASSUME NEW u \in Seq(T), NEW x \in T, u \in Q PROVE Append(u, x) \in Q
  <2> DEFINE w == Sel(u, C)
             a == p \o u
             e == p \o w
             m == Mrg(e, kf, bs)
  <2>1. u \in Seq(S) /\ x \in S /\ Append(u, x) \in Seq(T)
    BY <1>0
  <2>2. w \in Seq(T) /\ \A y \in Entries(w) : y \in T /\ y \in C
    <3>1. w \in Seq(T)
      BY SelIn
    <3>2. \A y \in Entries(w) : y \in Entries(u) /\ y \in C
      BY SelEntries
    <3>3. \A y \in Entries(u) : y \in T
      BY EntriesIn
    <3> QED
      BY <3>1, <3>2, <3>3
  <2> HIDE DEF w
  <2>3. w \in Seq(S)
    BY <1>0, <2>2
  <2>4. a \in Seq(S) /\ p \o Append(u, x) = Append(a, x)
    BY <2>1, JoinedAppended
  <2>5. e \in Seq(S) /\ p \o Append(w, x) = Append(e, x) /\ \A y \in Entries(e) : y \in Entries(p) \/ (y \in T /\ y \in C)
    <3>1. e \in Seq(S) /\ p \o Append(w, x) = Append(e, x)
      BY <2>1, <2>3, JoinedAppended
    <3>2. \A y : y \in Entries(e) <=> y \in Entries(p) \/ y \in Entries(w)
      BY <2>3, JoinedIn
    <3> QED
      BY <2>2, <3>1, <3>2
  <2>6. \A y \in Entries(p) : y \in Entries(e)
    BY <2>3, JoinedIn
  <2>7. Mrg(a, kf, bs) = m
    BY <1>2 DEF w
  <2> HIDE DEF a, e
  <2>8. Mrg(Append(a, x), kf, bs) = Added(m, x, kf, bs) /\ Mrg(Append(e, x), kf, bs) = Added(m, x, kf, bs)
    <3>1. Mrg(Append(a, x), kf, bs) = Added(Mrg(a, kf, bs), x, kf, bs)
      BY <2>1, <2>4, MrgStep
    <3>2. Mrg(Append(e, x), kf, bs) = Added(Mrg(e, kf, bs), x, kf, bs)
      BY <2>1, <2>5, MrgStep
    <3> QED
      BY <2>7, <3>1, <3>2
  <2>9. Sel(Append(u, x), C) = IF x \in C THEN Append(w, x) ELSE w
    BY SelStep DEF w
  <2>10. CASE x \in C
    BY <2>1, <2>4, <2>5, <2>8, <2>9, <2>10
  <2>11. CASE x \notin C
    <3>1. m \in Seq(S) /\ (\A y \in Entries(m) : y \in Entries(e)) /\ \A y \in Entries(e) : HasKey(m, y, kf)
      BY <2>5, MrgIn, MrgEntries
    <3>2. PICK z \in Entries(p) : kf[z] = kf[x]
      BY <1>0, <2>11
    <3>3. HasKey(m, x, kf)
      <4>1. HasKey(m, z, kf)
        BY <2>6, <3>1, <3>2
      <4> HIDE DEF m
      <4> QED
        BY <3>2, <4>1 DEF HasKey
    <3>4. Replaced(m, x, kf, bs) = m
      <4> HIDE DEF m
      <4>1. \A k \in DOMAIN m : m[k] \in Entries(e)
        BY <3>1 DEF Entries
      <4>2. ASSUME NEW k \in DOMAIN m PROVE Or(m[k], x, kf, bs) = m[k]
        <5>1. m[k] \in Entries(p) \/ (m[k] \in T /\ m[k] \in C)
          BY <2>5, <4>1
        <5>2. kf[m[k]] = kf[x] => <<x, m[k]>> \notin bs
          BY <1>0, <2>11, <5>1
        <5> QED
          BY <5>2 DEF Or
      <4>3. m = [k \in DOMAIN m |-> m[k]]
        BY <3>1
      <4> QED
        BY <4>2, <4>3 DEF Replaced
    <3> HIDE DEF m
    <3>5. Added(m, x, kf, bs) = m
      BY <3>3, <3>4 DEF Added
    <3> QED
      BY <2>1, <2>4, <2>8, <2>9, <2>11, <3>5 DEF m, e
  <2> QED
    BY <2>10, <2>11
<1> HIDE DEF Q
<1>3. Seq(T) \subseteq Q
  BY <1>1, <1>2, ByAppending
<1> QED
  BY <1>0, <1>3 DEF Q

(* Choosing from rows that are filled in.                                   *)
LEMMA EnrichedSel ==
  ASSUME clock \in Nat, NEW C, NEW D, NEW s \in Seq(Rows),
         \A y \in Entries(s) : y \in C <=> Whole(y) \in D
  PROVE  Enriched(Sel(s, C)) = Sel(Enriched(s), D)
<1> DEFINE Z == Entries(s)
           Q == {u \in Seq(Z) : Enriched(Sel(u, C)) = Sel(Enriched(u), D)}
<1>1. s \in Seq(Z) /\ \A y \in Z : y \in Rows
  BY EntriesIn
<1>2. <<>> \in Q
  <2>1. Enriched(<<>>) = <<>> /\ <<>> \in Seq(Z)
    BY DEF Enriched
  <2> QED
    BY <2>1, SelNone
<1> HIDE DEF Z
<1>3. \A u \in Seq(Z) : u \in Seq(Rows)
  BY <1>1
<1>4. ASSUME NEW u \in Seq(Rows), NEW x \in Rows
      PROVE  Enriched(Append(u, x)) = Append(Enriched(u), Whole(x))
  <2>1. <<x>> \in Seq(Rows) /\ u \o <<x>> = Append(u, x)
    OBVIOUS
  <2>2. Enriched(u \o <<x>>) = Enriched(u) \o Enriched(<<x>>)
    BY <2>1, EnrichedJoined
  <2>3. Enriched(<<x>>) = <<Whole(x)>>
    BY DEF Enriched, Whole
  <2>4. Enriched(u) \in Seq(Rows) /\ Whole(x) \in Rows
    BY EnrichedIs, FilledIn
  <2>5. Enriched(u) \o <<Whole(x)>> = Append(Enriched(u), Whole(x))
    BY <2>4
  <2> QED
    BY <2>1, <2>2, <2>3, <2>5
<1>5. ASSUME NEW u \in Seq(Z), NEW x \in Z, u \in Q PROVE Append(u, x) \in Q
  <2>1. Append(u, x) \in Seq(Z) /\ u \in Seq(Rows) /\ x \in Rows
    BY <1>1, <1>3
  <2>2. Sel(Append(u, x), C) = IF x \in C THEN Append(Sel(u, C), x) ELSE Sel(u, C)
    BY SelStep
  <2>3. Sel(u, C) \in Seq(Rows)
    BY <2>1, SelIn
  <2>4. Enriched(Append(Sel(u, C), x)) = Append(Enriched(Sel(u, C)), Whole(x))
    BY <1>4, <2>1, <2>3
  <2>5. Enriched(Append(u, x)) = Append(Enriched(u), Whole(x))
    BY <1>4, <2>1
  <2>6. Enriched(u) \in Seq(Rows) /\ Whole(x) \in Rows
    BY <2>1, EnrichedIs, FilledIn
  <2>7. Sel(Append(Enriched(u), Whole(x)), D)
          = IF Whole(x) \in D THEN Append(Sel(Enriched(u), D), Whole(x)) ELSE Sel(Enriched(u), D)
    BY <2>6, SelStep
  <2>8. x \in C <=> Whole(x) \in D
    BY DEF Z
  <2>9. Enriched(Sel(u, C)) = Sel(Enriched(u), D)
    BY <1>5
  <2> QED
    BY <2>1, <2>2, <2>4, <2>5, <2>7, <2>8, <2>9
<1> HIDE DEF Q
<1>6. Seq(Z) \subseteq Q
  BY <1>2, <1>5, ByAppending
<1> QED
  BY <1>1, <1>6 DEF Q

-----------------------------------------------------------------------------
(* What a page reads of the table, and the rows that are over the rest.     *)
(* A better return is not rounded to a worse one.                           *)
LEMMA RoundedAt ==
  ASSUME NEW x \in Int
  PROVE  \E p \in Int, q \in Int :
           /\ Grain * p \in Int /\ 0 <= q /\ q < Grain /\ x = Grain * p + q
           /\ Rounded(x) = IF 2 * q > Grain \/ (2 * q = Grain /\ p % 2 = 1) THEN p + 1 ELSE p
<1> DEFINE p == x \div Grain
           q == x % Grain
<1>1. Grain \in Nat \ {0}
  BY LeaderboardConstants
<1>2. p \in Int /\ q \in Int /\ Grain * p \in Int /\ 0 <= q /\ q < Grain /\ x = Grain * p + q
  BY <1>1
<1>3. Rounded(x) = IF 2 * q > Grain \/ (2 * q = Grain /\ p % 2 = 1) THEN p + 1 ELSE p
  BY DEF Rounded
<1> HIDE DEF p, q
<1> QED
  BY <1>2, <1>3

LEMMA RoundedIs ==
  /\ \A x \in Int : Rounded(x) \in Int
  /\ \A x, y \in Int : x >= y => Rounded(x) >= Rounded(y)
<1>1. Grain \in Nat \ {0}
  BY LeaderboardConstants
<1>2. ASSUME NEW x \in Int PROVE Rounded(x) \in Int
  BY RoundedAt
<1>3. ASSUME NEW x \in Int, NEW y \in Int, x >= y PROVE Rounded(x) >= Rounded(y)
  <2>1. PICK p \in Int, q \in Int :
           /\ Grain * p \in Int /\ 0 <= q /\ q < Grain /\ x = Grain * p + q
           /\ Rounded(x) = IF 2 * q > Grain \/ (2 * q = Grain /\ p % 2 = 1) THEN p + 1 ELSE p
    BY RoundedAt
  <2>2. PICK k \in Int, r \in Int :
           /\ Grain * k \in Int /\ 0 <= r /\ r < Grain /\ y = Grain * k + r
           /\ Rounded(y) = IF 2 * r > Grain \/ (2 * r = Grain /\ k % 2 = 1) THEN k + 1 ELSE k
    BY RoundedAt
  <2>3. ASSUME p < k PROVE FALSE
    <3>1. k - p - 1 \in Nat
      BY <2>3
    <3>2. \A i, j \in Nat : i * j \in Nat
      OBVIOUS
    <3>3. Grain * (k - p - 1) \in Nat
      BY <1>1, <3>1, <3>2
    <3>4. Grain * k = Grain * p + Grain + Grain * (k - p - 1)
      BY <1>1
    <3> QED
      BY <1>1, <1>3, <2>1, <2>2, <3>3, <3>4
  <2>4. CASE p > k
    BY <2>1, <2>2, <2>4
  <2>5. CASE p = k
    <3>1. q >= r
      BY <1>3, <2>1, <2>2, <2>5
    <3>2. 2 * r > Grain \/ (2 * r = Grain /\ k % 2 = 1) => 2 * q > Grain \/ (2 * q = Grain /\ p % 2 = 1)
      BY <1>1, <2>5, <3>1
    <3> QED
      BY <2>1, <2>2, <2>5, <3>2
  <2> QED
    BY <2>3, <2>4, <2>5
<1> QED
  BY <1>2, <1>3

(* The table's rows of these providers, the newest first, and the best.     *)
NewestOf(providers) == Reversed(Sel(rows, By(providers)))
TableOf(providers) == SortOf(NewestOf(providers), ReturnPairs)

LEMMA TableIs ==
  ASSUME BoardInv, NEW providers
  PROVE  /\ NewestOf(providers) \in Seq(Rows) /\ NoTwice(NewestOf(providers))
         /\ TableOf(providers) \in Seq(Rows) /\ Len(TableOf(providers)) = Len(NewestOf(providers))
         /\ Len(TableOf(providers)) \in Nat /\ Len(TableOf(providers)) <= Len(rows)
         /\ Descends(TableOf(providers), ReturnPairs)
         /\ \A x : x \in Entries(TableOf(providers)) <=> x \in Entries(rows) /\ x.provider \in providers
         /\ \A n \in Nat : FromTable(providers, n) = UpTo(SortOf(UpTo(NewestOf(providers), Pool(n)), ReturnPairs), n)
<1> DEFINE c == Sel(rows, By(providers))
           v == Reversed(c)
           t == SortOf(v, ReturnPairs)
<1>1. clock \in Nat /\ rows \in Seq(Rows) /\ IsSeq(rows) /\ Len(rows) \in Nat /\ DOMAIN rows = 1..Len(rows)
  BY RowsState, EntriesIn
<1>2. Chosen(rows, LAMBDA r : r.provider \in providers) = c
  <2>1. {i \in DOMAIN rows : rows[i].provider \in providers} = {i \in DOMAIN rows : rows[i] \in By(providers)}
    BY <1>1, InRows DEF By
  <2> QED
    BY <2>1 DEF Sel, Chosen
<1>3. c \in Seq(Rows) /\ IsSeq(c) /\ TakenFrom(c, rows)
      /\ \A x : x \in Entries(c) <=> x \in Entries(rows) /\ x.provider \in providers
  <2>1. c \in Seq(Rows) /\ \A x : x \in Entries(c) <=> x \in Entries(rows) /\ x \in By(providers)
    BY <1>1, SelIn, SelEntries
  <2> DEFINE at == {i \in DOMAIN rows : rows[i] \in By(providers)}
  <2>2. c = Only(rows, at) /\ at \in SUBSET (DOMAIN rows)
    BY DEF Sel
  <2>a. \A x \in Entries(rows) : x \in Rows
    BY <1>1, EntriesIn
  <2> HIDE DEF at, c
  <2>3. TakenFrom(c, rows)
    BY <1>1, <2>2, OnlyTakes
  <2> QED
    BY <2>1, <2>3, <2>a DEF IsSeq, By
<1>4. NoTwice(rows)
  <2> SUFFICES ASSUME NEW i \in 1..Len(rows), NEW j \in 1..Len(rows), rows[i] = rows[j] PROVE i = j
    BY DEF NoTwice
  <2>1. rows[i].ts \in Nat /\ (i < j => rows[i].ts < rows[j].ts) /\ (j < i => rows[j].ts < rows[i].ts)
    <3>1. rows[i] \in RowBy(clock) /\ clock \in Nat
      BY <1>1 DEF BoardInv, TableOK
    <3>2. rows[i].ts \in Nat
      BY <3>1 DEF RowBy
    <3>3. (i < j => rows[i].ts < rows[j].ts) /\ (j < i => rows[j].ts < rows[i].ts)
      BY <1>1 DEF BoardInv, TableOK
    <3> QED
      BY <3>2, <3>3
  <2> QED
    BY <1>1, <2>1
<1>5. NoTwice(c)
  BY <1>3, <1>4, TakenTwice
<1> HIDE DEF c
<1>6. /\ v \in Seq(Rows) /\ Len(v) = Len(c) /\ TakenFrom(v, c)
      /\ \A x : x \in Entries(v) <=> x \in Entries(c)
  BY <1>3, ReversedAll, ReversedTakes
<1>7. NoTwice(v)
  BY <1>5, <1>6, TakenTwice
<1>8. Len(c) \in Nat /\ Len(c) <= Len(rows)
  BY <1>1, <1>3, TakenLen
<1>9. OrderOf(ReturnPairs, Rows)
  BY <1>1, RowOrders
<1>10. NewestOf(providers) = v /\ TableOf(providers) = t
  BY DEF NewestOf, TableOf, c
<1> HIDE DEF v
<1>11. t \in Seq(Rows) /\ Len(t) = Len(v) /\ \A x : x \in Entries(t) <=> x \in Entries(v)
  BY <1>6, <1>9, SortedAll
<1>12. Descends(t, ReturnPairs)
  BY <1>6, <1>9, SortedDescends
<1>13. ASSUME NEW n \in Nat PROVE FromTable(providers, n) = UpTo(SortOf(UpTo(v, Pool(n)), ReturnPairs), n)
  <2> DEFINE w == UpTo(v, Pool(n))
  <2>1. FromTable(providers, n) = UpTo(Sorted(w, ByReturn), n)
    BY <1>2 DEF FromTable, Newest, v
  <2>2. w \in Seq(Rows)
    BY <1>6, PoolIs, CutAndPast
  <2> HIDE DEF w
  <2>3. Sorted(w, ByReturn) = SortOf(w, ReturnPairs)
    BY <2>2, SortedIs
  <2> QED
    BY <2>1, <2>3 DEF w
<1> HIDE DEF t
<1> QED
  BY <1>3, <1>6, <1>7, <1>8, <1>10, <1>11, <1>12, <1>13

(* What is read of it for a page of n.                                      *)
LEMMA TableRead ==
  ASSUME BoardInv, NEW providers, NEW n \in Nat
  PROVE  LET f == FromTable(providers, n)
         IN  /\ f \in Seq(Rows) /\ f = Sel(TableOf(providers), Entries(f))
             /\ \A x \in Entries(f) : x \in Entries(TableOf(providers))
             /\ n >= Len(rows) => f = TableOf(providers)
<1> DEFINE v == NewestOf(providers)
           k == Pool(n)
           c == UpTo(v, k)
           t == SortOf(c, ReturnPairs)
           f == UpTo(t, n)
           all == SortOf(v, ReturnPairs)
           C == Entries(f)
           D == Entries(c)
<1>1. /\ v \in Seq(Rows) /\ NoTwice(v) /\ Len(v) \in Nat /\ Len(v) <= Len(rows) /\ TableOf(providers) = all
      /\ FromTable(providers, n) = f
  <2>1. TableOf(providers) = all
    BY DEF TableOf
  <2> QED
    BY <2>1, TableIs
<1>2. OrderOf(ReturnPairs, Rows) /\ Len(rows) \in Nat
  BY RowOrders, RowsState
<1>3. k \in Nat /\ k >= n
  BY PoolIs
<1> HIDE DEF v, k
<1>4. c \in Seq(Rows) /\ TakenFrom(c, v) /\ IsSeq(v)
  BY <1>1, <1>3, CutAndPast, UpToTakes, EntriesIn
<1>5. NoTwice(c) /\ Sel(v, D) = c
  BY <1>1, <1>3, <1>4, TakenTwice, CutSel
<1> HIDE DEF c
<1>6. t \in Seq(Rows) /\ Len(t) = Len(c) /\ \A x : x \in Entries(t) <=> x \in D
  BY <1>2, <1>4, SortedAll
<1>7. NoTwice(t)
  <2> DEFINE at == Ranking(DOMAIN c, BeforeOf(c, ReturnPairs))
  <2>1. IsSeq(c) /\ TotalOrder(DOMAIN c, BeforeOf(c, ReturnPairs))
    BY <1>2, <1>4, OrderTotal, EntriesIn
  <2>2. TakenFrom([i \in DOMAIN at |-> c[at[i]]], c)
    BY <2>1, SortedTakes
  <2>3. TakenFrom(t, c)
    BY <2>2 DEF SortOf
  <2> QED
    BY <1>5, <2>3, TakenTwice
<1>8. Sel(all, D) = t
  <2>1. Sel(SortOf(v, ReturnPairs), D) = SortOf(Sel(v, D), ReturnPairs)
    BY <1>1, <1>2, SelSort
  <2> QED
    BY <1>5, <2>1
<1>9. all \in Seq(Rows) /\ Len(all) = Len(v) /\ \A x : x \in Entries(all) <=> x \in Entries(v)
  BY <1>1, <1>2, SortedAll
<1> HIDE DEF t, all
<1>10. f \in Seq(Rows) /\ Sel(t, C) = f /\ \A x \in C : x \in Entries(t)
  BY <1>6, <1>7, CutAndPast, CutSel
<1> HIDE DEF f
<1>11. Sel(Sel(all, D), C) = Sel(all, D \cap C)
  BY <1>9, SelSel
<1>12. D \cap C = C
  BY <1>6, <1>10
<1>13. f = Sel(all, C)
  BY <1>8, <1>10, <1>11, <1>12
<1>14. \A x \in C : x \in Entries(all)
  BY <1>9, <1>13, SelEntries
<1>15. ASSUME n >= Len(rows) PROVE f = all
  <2>1. k >= Len(v) /\ n >= Len(v)
    BY <1>1, <1>2, <1>3, <1>15
  <2>2. c = v
    BY <1>3, <1>4, <2>1, UpToIs DEF c
  <2>3. t = all
    BY <2>2 DEF t, all
  <2>4. f = t
    <3>1. IsSeq(t) /\ n >= Len(t)
      BY <1>6, <2>1, <2>2, EntriesIn
    <3> QED
      BY <3>1, UpToIs DEF f
  <2> QED
    BY <2>3, <2>4
<1> QED
  BY <1>1, <1>10, <1>13, <1>14, <1>15

-----------------------------------------------------------------------------
(* The rows that have a better return, to the hundredth, than all of those  *)
(* that were not read.                                                      *)
Over(unread) == {x \in Rows : \A u \in unread : Rounded(u.ret) < Rounded(x.ret)}

(* What is known of the rows of a page and of those that are not read: all  *)
(* of the disk and of the lines is read; the others are of runs, of local   *)
(* ones all rows have one return, and of no run of a provider a row that is *)
(* read is poorer than one that is not.                                     *)
Left(t, d, l, b, read) ==
  LET all == Entries(ReadOf(t, d, l, b))
  IN  /\ \A x \in Entries(t) : x.provider = "local"
      /\ \A x \in Entries(d) \cup Entries(l) : x.provider = "local" /\ x \in read
      /\ \A x \in Entries(b) : x.provider # "local"
      /\ Descends(b, ReturnPairs)
      /\ \A u \in all \ read : u.run # NoRun
      /\ \A u \in all \ read, x \in all : x.provider = "local" /\ RunKey(x) = RunKey(u) => x.ret = u.ret
      /\ \A u \in Entries(b) \ read, x \in Entries(b) \cap read : RunKey(u) = RunKey(x) => ~Richer(u, x)

(* Of the rows with a better return than all that were not read, the same   *)
(* are left of what was read and of all that could be, after runs are       *)
(* merged.                                                                  *)
SameOver(s, read) ==
  LET high == Over(Entries(s) \ read) IN Sel(EachRun(s), high) = Sel(EachRun(Sel(s, read)), high)

(* Rows of one run are merged as one kind of row.                           *)
LEMMA KeyedRuns == ByKey(WithRun, Rows, KeyOfRun)
  BY DEF ByKey, WithRun, KeyOfRun, RunKey

(* Rows of runs over the unread ones: of local ones all were read, and of   *)
(* providers' the ones that were not come later and are no better.          *)
LEMMA RunsOfMore ==
  ASSUME NEW t \in Seq(Rows), NEW d \in Seq(Rows), NEW l \in Seq(Rows), NEW b \in Seq(Rows),
         NEW read, Left(t, d, l, b, read)
  PROVE  SameOver(ReadOf(t, d, l, b), read)
<1> DEFINE s == ReadOf(t, d, l, b)
           r == Sel(s, read)
           unread == Entries(s) \ read
           high == Over(unread)
           G == {x \in Rows : \E y \in Entries(r) : y \in high /\ RunKey(y) = RunKey(x)}
           W == WithRun \cap G
           M(v) == Mrg(v, KeyOfRun, RicherPairs)
           a == (t \o d) \o l
           bh == Sel(b, high)
           bl == Sel(b, Rows \ high)
           aw == Sel(a, W)
           bw == Sel(bh, W)
           p == aw \o bw
           q == Sel(bl, W)
<1>1. /\ s \in Seq(Rows)
      /\ \A x : x \in Entries(s) <=> x \in Entries(t) \/ x \in Entries(d) \/ x \in Entries(l) \/ x \in Entries(b)
  BY ReadIn
<1>2. a \in Seq(Rows) /\ \A x : x \in Entries(a) <=> x \in Entries(t) \/ x \in Entries(d) \/ x \in Entries(l)
  <2> DEFINE e == t \o d
  <2>1. e \in Seq(Rows) /\ \A x : x \in Entries(e) <=> x \in Entries(t) \/ x \in Entries(d)
    BY JoinedIn
  <2> HIDE DEF e
  <2>2. e \o l \in Seq(Rows) /\ \A x : x \in Entries(e \o l) <=> x \in Entries(e) \/ x \in Entries(l)
    BY <2>1, JoinedIn
  <2> QED
    BY <2>1, <2>2 DEF e
<1>3. s = a \o b
  BY DEF ReadOf
<1>4. /\ \A x \in Entries(a) : x.provider = "local"
      /\ \A x \in Entries(b) : x.provider # "local"
      /\ Descends(b, ReturnPairs)
      /\ \A x \in unread : x.run # NoRun
      /\ \A u \in unread, x \in Entries(s) : x.provider = "local" /\ RunKey(x) = RunKey(u) => x.ret = u.ret
      /\ \A u \in Entries(b) \ read, x \in Entries(b) \cap read : RunKey(u) = RunKey(x) => ~Richer(u, x)
  BY <1>2 DEF Left
<1>5. (\A x \in Rows : x.ret \in Int) /\ \A x \in Entries(s) : x \in Rows
  BY <1>1, EntriesIn DEF Rows, RowBy
<1> HIDE DEF s, a
<1>6. r \in Seq(Rows) /\ \A x : x \in Entries(r) <=> x \in Entries(s) /\ x \in read
  BY <1>1, SelIn, SelEntries
<1> HIDE DEF r
(* What is over the unread rows was read.                                   *)
<1>7. \A x \in high : x \in Rows /\ \A u \in unread : Rounded(u.ret) < Rounded(x.ret)
  BY DEF Over
<1>8. \A x \in Entries(s) : x \in high => x \in read
  <2> SUFFICES ASSUME NEW x \in Entries(s), x \in high, x \notin read PROVE FALSE
    OBVIOUS
  <2>1. x \in unread
    OBVIOUS
  <2>2. Rounded(x.ret) < Rounded(x.ret) /\ Rounded(x.ret) \in Int
    BY <1>5, <1>7, <2>1, RoundedIs
  <2> QED
    BY <2>2
(* Rows without a run are all read.                                         *)
<1>9. Sel(s, NoRuns) = Sel(r, NoRuns)
  <2>1. Sel(r, NoRuns) = Sel(s, read \cap NoRuns)
    BY <1>1, SelSel DEF r
  <2>2. \A x \in Entries(s) : x \in NoRuns <=> x \in read \cap NoRuns
    BY <1>4 DEF NoRuns
  <2> HIDE DEF unread
  <2>3. Sel(s, NoRuns) = Sel(s, read \cap NoRuns)
    BY <1>1, <2>2, SelHere
  <2> QED
    BY <2>1, <2>3
(* The runs that have a row over the unread ones.                           *)
<1>10. ByKey(G, Rows, KeyOfRun)
  <2> SUFFICES ASSUME NEW y \in Rows, NEW z \in Rows, KeyOfRun[y] = KeyOfRun[z] PROVE y \in G <=> z \in G
    BY DEF ByKey
  <2>1. RunKey(y) = RunKey(z)
    BY DEF KeyOfRun
  <2> QED
    BY <2>1
<1>11. ASSUME NEW x \in Entries(s), x \in G, x \in Entries(a) PROVE x \in read
  <2> SUFFICES ASSUME x \notin read PROVE FALSE
    OBVIOUS
  <2>1. PICK y \in Entries(r) : y \in high /\ RunKey(y) = RunKey(x)
    BY <1>11
  <2>2. y \in Entries(s) /\ y.provider = "local" /\ x \in unread
    BY <1>4, <1>6, <1>11, <2>1 DEF RunKey
  <2>3. y.ret = x.ret
    BY <1>4, <2>1, <2>2
  <2>4. Rounded(x.ret) < Rounded(y.ret) /\ Rounded(x.ret) \in Int
    BY <1>5, <1>7, <2>1, <2>2, RoundedIs
  <2> QED
    BY <2>3, <2>4
<1>12. \A x \in Entries(s) : x \in high => x \in G
  <2> SUFFICES ASSUME NEW x \in Entries(s), x \in high PROVE x \in G
    OBVIOUS
  <2>1. x \in Entries(r) /\ x \in Rows
    BY <1>5, <1>6, <1>8
  <2> QED
    BY <2>1
<1>13. \A x \in Rows : x \in W <=> x \in WithRun /\ x \in G
  OBVIOUS
<1>14. ByKey(W, Rows, KeyOfRun)
  <2> HIDE DEF G
  <2> QED
    BY <1>10, KeyedRuns DEF ByKey
<1>15. \A x \in G : \E y \in Entries(r) : y \in high /\ RunKey(y) = RunKey(x)
  OBVIOUS
<1> HIDE DEF unread, high, G, W
(* The rows of providers, those over the unread ones first.                 *)
<1>16. b = bh \o bl /\ bh \in Seq(Rows) /\ bl \in Seq(Rows)
  <2>1. bh \in Seq(Rows) /\ bl \in Seq(Rows)
    BY SelIn
  <2>2. ASSUME NEW i \in 1..Len(b), NEW j \in 1..Len(b), i < j, b[j] \in high PROVE b[i] \in high
    <3>1. b[i] \in Rows /\ b[j] \in Rows
      BY InRows
    <3>2. <<b[j], b[i]>> \notin ReturnPairs
      BY <1>4, <2>2 DEF Descends
    <3>3. b[i].ret \in Int /\ b[j].ret \in Int /\ b[i].ret >= b[j].ret
      BY <1>5, <3>1, <3>2 DEF ReturnPairs, ByReturn, Pairs
    <3>4. Rounded(b[i].ret) \in Int /\ Rounded(b[j].ret) \in Int /\ Rounded(b[i].ret) >= Rounded(b[j].ret)
      BY <3>3, RoundedIs
    <3>5. \A u \in unread : Rounded(u.ret) < Rounded(b[i].ret)
      <4> SUFFICES ASSUME NEW u \in unread PROVE Rounded(u.ret) < Rounded(b[i].ret)
        OBVIOUS
      <4>1. u \in Rows
        BY <1>5 DEF unread
      <4>2. Rounded(u.ret) \in Int /\ Rounded(u.ret) < Rounded(b[j].ret)
        BY <1>5, <1>7, <2>2, <4>1, RoundedIs
      <4> QED
        BY <3>4, <4>2
    <3> QED
      BY <3>1, <3>5 DEF high, Over
  <2>3. b = bh \o bl
    BY <2>2, SplitAt
  <2> QED
    BY <2>1, <2>3
<1>17. /\ \A x : x \in Entries(bh) <=> x \in Entries(b) /\ x \in high
       /\ \A x : x \in Entries(bl) <=> x \in Entries(b) /\ x \in Rows \ high
  BY SelEntries
<1> HIDE DEF bh, bl
<1>18. /\ aw \in Seq(Rows) /\ bw \in Seq(Rows) /\ q \in Seq(Rows)
       /\ \A x : x \in Entries(aw) <=> x \in Entries(a) /\ x \in W
       /\ \A x : x \in Entries(bw) <=> x \in Entries(bh) /\ x \in W
       /\ \A x : x \in Entries(q) <=> x \in Entries(bl) /\ x \in W
  BY <1>2, <1>16, SelIn, SelEntries
<1>19. Sel(s, W) = p \o q
  <2>1. Sel(a \o b, W) = Sel(a, W) \o Sel(b, W)
    BY <1>2, SelJoined
  <2>2. Sel(bh \o bl, W) = Sel(bh, W) \o Sel(bl, W)
    BY <1>16, SelJoined
  <2>3. Sel(s, W) = aw \o (bw \o q)
    BY <1>3, <1>16, <2>1, <2>2
  <2> HIDE DEF aw, bw, q
  <2>4. aw \o (bw \o q) = (aw \o bw) \o q
    BY <1>18
  <2> QED
    BY <2>3, <2>4
<1> HIDE DEF aw, bw, q
<1>20. p \in Seq(Rows) /\ \A x : x \in Entries(p) <=> x \in Entries(aw) \/ x \in Entries(bw)
  BY <1>18, JoinedIn
<1> HIDE DEF p
<1>21. \A x \in Entries(p) : x \in read /\ (x.provider # "local" => x \in Entries(b))
  <2> SUFFICES ASSUME NEW x \in Entries(p) PROVE x \in read /\ (x.provider # "local" => x \in Entries(b))
    OBVIOUS
  <2>1. x \in Entries(s)
    BY <1>1, <1>2, <1>17, <1>18, <1>20
  <2>2. x \in Entries(aw) => x \in Entries(a) /\ x \in G
    BY <1>5, <1>13, <1>18, <2>1
  <2>3. x \in Entries(bw) => x \in Entries(b) /\ x \in high
    BY <1>17, <1>18
  <2> QED
    BY <1>4, <1>8, <1>11, <1>20, <2>1, <2>2, <2>3
<1>22. Sel(r, W) = p \o Sel(q, read)
  <2>1. Sel(r, W) = Sel(s, read \cap W) /\ Sel(Sel(s, W), read) = Sel(s, W \cap read)
    BY <1>1, SelSel DEF r
  <2>2. read \cap W = W \cap read
    OBVIOUS
  <2>3. Sel(p \o q, read) = Sel(p, read) \o Sel(q, read)
    BY <1>18, <1>20, SelJoined
  <2>4. Sel(p, read) = p
    <3>1. p \in Seq(Entries(p)) /\ Entries(p) \subseteq read
      BY <1>20, <1>21, EntriesIn
    <3> QED
      BY <3>1, SelAll
  <2> QED
    BY <1>19, <2>1, <2>2, <2>3, <2>4
<1>23. M(p \o q) = M(p \o Sel(q, read))
  <2> DEFINE T == Entries(q)
  <2>1. q \in Seq(T) /\ \A x \in T : x \in Rows
    BY <1>18, EntriesIn
  <2>2. \A x \in T : x \in Entries(b) /\ x \in W /\ x \in G /\ x \in WithRun
    BY <1>13, <1>17, <1>18, <2>1
  <2>3. ASSUME NEW x \in T, x \notin read
        PROVE  /\ \E y \in Entries(p) : KeyOfRun[y] = KeyOfRun[x]
               /\ \A y \in Entries(p) \cup (T \cap read) : KeyOfRun[y] = KeyOfRun[x] => <<x, y>> \notin RicherPairs
    <3>1. x \in Rows /\ x \in Entries(b) /\ x \in W /\ x \in G /\ x.provider # "local"
      BY <1>4, <2>1, <2>2
    <3>2. PICK y \in Entries(r) : y \in high /\ RunKey(y) = RunKey(x)
      BY <1>15, <3>1
    <3>3. y \in Entries(s) /\ y \in Rows /\ KeyOfRun[y] = KeyOfRun[x] /\ y.provider # "local"
      BY <1>5, <1>6, <3>1, <3>2 DEF KeyOfRun, RunKey
    <3>4. y \in W
      BY <1>14, <3>1, <3>3 DEF ByKey
    <3>5. y \in Entries(b)
      BY <1>1, <1>2, <1>4, <3>3
    <3>6. y \in Entries(p)
      BY <1>17, <1>18, <1>20, <3>2, <3>4, <3>5
    <3>7. ASSUME NEW z \in Rows, z \in Entries(p) \/ (z \in T /\ z \in read), KeyOfRun[z] = KeyOfRun[x]
          PROVE  <<x, z>> \notin RicherPairs
      <4>1. RunKey(z) = RunKey(x)
        BY <3>1, <3>7 DEF KeyOfRun
      <4>2. z.provider # "local"
        BY <3>1, <4>1 DEF RunKey
      <4>3. z \in Entries(b) /\ z \in read
        BY <1>21, <2>2, <3>7, <4>2
      <4>4. ~Richer(x, z)
        BY <1>4, <2>3, <3>1, <4>1, <4>3
      <4> QED
        BY <4>4 DEF RicherPairs
    <3>8. (\A z \in Entries(p) : z \in Rows) /\ \A z \in T : z \in Rows
      BY <1>20, <2>1, EntriesIn
    <3> QED
      BY <3>3, <3>6, <3>7, <3>8
  <2>4. Needless(q, p, read, KeyOfRun, RicherPairs)
    BY <2>3 DEF Needless
  <2> HIDE DEF T
  <2>5. q \in Seq(Rows) /\ p \in Seq(Rows)
    BY <1>18, <1>20
  <2>6. Mrg(p \o q, KeyOfRun, RicherPairs) = Mrg(p \o Sel(q, read), KeyOfRun, RicherPairs)
    BY <2>4, <2>5, MrgSkip
  <2> QED
    BY <2>6
<1>24. M(Sel(s, W)) = M(Sel(r, W))
  BY <1>19, <1>22, <1>23
<1>25. ASSUME NEW v \in Seq(Rows), \A x \in Entries(v) : x \in Entries(s)
       PROVE  Sel(M(Sel(v, WithRun)), high) = Sel(M(Sel(v, W)), high)
  <2> DEFINE w == Sel(v, WithRun)
             m == M(w)
  <2>1. w \in Seq(Rows) /\ \A x \in Entries(w) : x \in Entries(v)
    BY SelIn, SelEntries
  <2>2. Sel(w, G) = Sel(v, W)
    BY SelSel DEF W
  <2> HIDE DEF w
  <2>3. m \in Seq(Rows) /\ \A x \in Entries(m) : x \in Entries(w)
    BY <2>1, MrgIn, MrgEntries
  <2>4. Sel(m, G) = M(Sel(w, G))
    BY <1>10, <2>1, MrgSel
  <2> HIDE DEF m, M
  <2>5. Sel(Sel(m, G), high) = Sel(m, G \cap high)
    BY <2>3, SelSel
  <2>6. \A x \in Entries(m) : x \in G \cap high <=> x \in high
    BY <1>12, <1>25, <2>1, <2>3
  <2>7. Sel(m, G \cap high) = Sel(m, high)
    BY <2>3, <2>6, SelHere
  <2> QED
    BY <2>2, <2>4, <2>5, <2>7 DEF m, w
<1>26. Sel(M(Sel(s, WithRun)), high) = Sel(M(Sel(r, WithRun)), high)
  <2>1. Sel(M(Sel(s, WithRun)), high) = Sel(M(Sel(s, W)), high)
    <3> HIDE DEF M
    <3> QED
      BY <1>1, <1>25
  <2>2. Sel(M(Sel(r, WithRun)), high) = Sel(M(Sel(r, W)), high)
    <3> HIDE DEF M
    <3> QED
      BY <1>6, <1>25
  <2> QED
    BY <1>24, <2>1, <2>2
<1>27. ASSUME NEW v \in Seq(Rows)
       PROVE  Sel(EachRun(v), high) = Sel(Sel(v, NoRuns), high) \o Sel(M(Sel(v, WithRun)), high)
  <2> DEFINE n == Sel(v, NoRuns)
             w == Sel(v, WithRun)
             m == M(w)
  <2>1. n \in Seq(Rows) /\ w \in Seq(Rows)
    BY SelIn
  <2>2. EachRun(v) = n \o m
    BY DEF EachRun
  <2> HIDE DEF n, w
  <2>3. m \in Seq(Rows)
    BY <2>1, MrgIn
  <2> HIDE DEF m
  <2>4. Sel(n \o m, high) = Sel(n, high) \o Sel(m, high)
    BY <2>1, <2>3, SelJoined
  <2> QED
    BY <2>2, <2>4 DEF n, m, w
<1>28. Sel(EachRun(s), high) = Sel(EachRun(r), high)
  <2> HIDE DEF M
  <2> QED
    BY <1>1, <1>6, <1>9, <1>26, <1>27
<1> QED
  BY <1>28 DEF s, r, SameOver, high, unread

(* Rows of one outcome are all over the unread rows, or none is; and so is  *)
(* what is ranked before a row that is.                                     *)
LEMMA OverOutcomes ==
  ASSUME NEW unread
  PROVE  /\ ByKey(Over(unread), Rows, KeyOfOutcome)
         /\ (\A u \in unread : u \in Rows) =>
              \A y, z \in Rows : z \in Over(unread) /\ (<<y, z>> \in SharpePairs \/ <<z, y>> \notin SharpePairs)
                                   => y \in Over(unread)
<1>1. ByKey(Over(unread), Rows, KeyOfOutcome)
  <2> SUFFICES ASSUME NEW y \in Rows, NEW z \in Rows, KeyOfOutcome[y] = KeyOfOutcome[z]
               PROVE  y \in Over(unread) <=> z \in Over(unread)
    BY DEF ByKey
  <2>1. Outcome(y) = Outcome(z)
    BY DEF KeyOfOutcome
  <2>2. Rounded(y.ret) = Rounded(z.ret)
    BY <2>1 DEF Outcome, RetKey
  <2> QED
    BY <2>2 DEF Over
<1>2. ASSUME \A u \in unread : u \in Rows, NEW y \in Rows, NEW z \in Rows, z \in Over(unread),
             <<y, z>> \in SharpePairs \/ <<z, y>> \notin SharpePairs
      PROVE  y \in Over(unread)
  <2>1. y.ret \in Int /\ z.ret \in Int /\ \A u \in unread : u.ret \in Int
    BY <1>2 DEF Rows, RowBy
  <2>2. y.ret >= z.ret
    BY <1>2, <2>1 DEF SharpePairs, ByReturnThenSharpe, Pairs
  <2>3. Rounded(y.ret) \in Int /\ Rounded(z.ret) \in Int /\ Rounded(y.ret) >= Rounded(z.ret)
    BY <2>1, <2>2, RoundedIs
  <2>4. \A u \in unread : Rounded(u.ret) \in Int /\ Rounded(u.ret) < Rounded(z.ret)
    BY <1>2, <2>1, RoundedIs DEF Over
  <2>5. \A u \in unread : Rounded(u.ret) < Rounded(y.ret)
    BY <2>3, <2>4
  <2> QED
    BY <1>2, <2>5 DEF Over
<1> QED
  BY <1>1, <1>2

(* What is left to rank after the rows that are not over are taken out.     *)
LEMMA RankedOver ==
  ASSUME NEW s \in Seq(Rows), NEW unread
  PROVE  Sel(ToRank(s), Over(unread))
           = Sel(Mrg(Sel(EachRun(s), Over(unread)), KeyOfOutcome, PreferredPairs), NotSmoke)
<1> DEFINE high == Over(unread)
           e == EachRun(s)
           o == EachOutcome(e)
<1>1. e \in Seq(Rows)
  BY EachIn
<1>2. ByKey(high, Rows, KeyOfOutcome)
  BY OverOutcomes
<1> HIDE DEF e, high
<1>3. o \in Seq(Rows)
  BY <1>1, EachIn
<1>4. Sel(o, high) = Mrg(Sel(e, high), KeyOfOutcome, PreferredPairs)
  BY <1>1, <1>2, MrgSel DEF EachOutcome
<1>5. ToRank(s) = Sel(o, NotSmoke)
  BY DEF ToRank, e
<1> HIDE DEF o
<1>6. Sel(Sel(o, NotSmoke), high) = Sel(o, NotSmoke \cap high) /\ Sel(Sel(o, high), NotSmoke) = Sel(o, high \cap NotSmoke)
  BY <1>3, SelSel
<1>7. NotSmoke \cap high = high \cap NotSmoke
  OBVIOUS
<1> QED
  BY <1>4, <1>5, <1>6, <1>7 DEF e, high

(* So many rows of the sorted list are over the unread ones at most.        *)
LEMMA SureRows ==
  ASSUME NEW c \in Seq(Rows), clock \in Nat, NEW unread
  PROVE  LET ranked == SortOf(c, SharpePairs)
             sure == {i \in DOMAIN ranked : \A u \in unread : Rounded(u.ret) < Rounded(ranked[i].ret)}
         IN  Cardinality(sure) \in Nat /\ Cardinality(sure) <= Len(Sel(c, Over(unread)))
<1> DEFINE ranked == SortOf(c, SharpePairs)
           sure == {i \in DOMAIN ranked : \A u \in unread : Rounded(u.ret) < Rounded(ranked[i].ret)}
           at == Ranking(DOMAIN c, BeforeOf(c, SharpePairs))
           J == {j \in DOMAIN c : c[j] \in Over(unread)}
           h == Sel(c, Over(unread))
<1>1. OrderOf(SharpePairs, Rows)
  BY RowOrders
<1>2. /\ ranked \in Seq(Rows) /\ Len(ranked) = Len(c)
      /\ \A i \in 1..Len(c) : at[i] \in 1..Len(c) /\ ranked[i] = c[at[i]]
      /\ \A i, j \in 1..Len(c) : at[i] = at[j] => i = j
  BY <1>1, SortedAll
<1>3. DOMAIN c = 1..Len(c) /\ DOMAIN ranked = 1..Len(c) /\ Len(c) \in Nat /\ IsSeq(c)
  BY <1>2, InRows DEF IsSeq
<1>4. h = Only(c, J) /\ J \in SUBSET (DOMAIN c)
  BY DEF Sel
<1> HIDE DEF ranked, at
<1>5. \A i \in sure : i \in 1..Len(c) /\ at[i] \in J
  <2> SUFFICES ASSUME NEW i \in sure PROVE i \in 1..Len(c) /\ at[i] \in J
    OBVIOUS
  <2>1. i \in 1..Len(c) /\ at[i] \in 1..Len(c) /\ ranked[i] = c[at[i]] /\ ranked[i] \in Rows
    BY <1>2, <1>3
  <2> QED
    BY <1>3, <2>1 DEF Over
<1> HIDE DEF J, h, sure
<1>6. PICK g : Drawn(h, c, J, g)
  BY <1>3, <1>4, OnlyDraws
<1>7. IsSeq(h) /\ \A a \in J : \E k \in 1..Len(h) : g[k] = a
  BY <1>6 DEF Drawn
<1>8. Len(h) \in Nat
  BY <1>7, SeqShape
<1> DEFINE f == [i \in sure |-> CHOOSE k \in 1..Len(h) : g[k] = at[i]]
<1>9. \A i \in sure : f[i] \in 1..Len(h) /\ g[f[i]] = at[i]
  BY <1>5, <1>7
<1> HIDE DEF f
<1>10. \A i, j \in sure : f[i] = f[j] => i = j
  BY <1>2, <1>5, <1>9
<1>11. Cardinality(sure) \in Nat /\ Cardinality(sure) <= Len(h)
  BY <1>8, <1>9, <1>10, FewerPlaces
<1> QED
  BY <1>11 DEF h, sure, ranked

(* The top of what was read is the top of all, for as far as it is over     *)
(* what was not.                                                            *)
SameTop(t, d, l, b, read, n) ==
  LET unread == Entries(ReadOf(t, d, l, b)) \ read
      ranked == SortOf(ToRank(Sel(ReadOf(t, d, l, b), read)), SharpePairs)
      all == SortOf(ToRank(ReadOf(t, d, l, b)), SharpePairs)
      sure == {i \in DOMAIN ranked : \A u \in unread : Rounded(u.ret) < Rounded(ranked[i].ret)}
  IN  n <= Cardinality(sure) => UpTo(ranked, n) = UpTo(all, n)

LEMMA TopOfMore ==
  ASSUME clock \in Nat,
         NEW t \in Seq(Rows), NEW d \in Seq(Rows), NEW l \in Seq(Rows), NEW b \in Seq(Rows),
         NEW read, Left(t, d, l, b, read), NEW n \in Nat
  PROVE  SameTop(t, d, l, b, read, n)
<1> DEFINE s == ReadOf(t, d, l, b)
           r == Sel(s, read)
           unread == Entries(s) \ read
           high == Over(unread)
           cr == ToRank(r)
           cs == ToRank(s)
           ranked == SortOf(cr, SharpePairs)
           all == SortOf(cs, SharpePairs)
           sure == {i \in DOMAIN ranked : \A u \in unread : Rounded(u.ret) < Rounded(ranked[i].ret)}
<1>1. r \in Seq(Rows) /\ s \in Seq(Rows)
  BY ReadIn, SelIn
<1>2. Sel(EachRun(s), high) = Sel(EachRun(r), high)
  <2>1. SameOver(s, read)
    BY RunsOfMore
  <2> QED
    BY <2>1 DEF SameOver
<1>3. \A u \in unread : u \in Rows
  BY <1>1, EntriesIn
<1>4. OrderOf(SharpePairs, Rows)
  BY RowOrders
<1> HIDE DEF r, s, unread
<1>5. Sel(cs, high) = Sel(cr, high)
  BY <1>1, <1>2, RankedOver
<1>6. cr \in Seq(Rows) /\ cs \in Seq(Rows)
  BY <1>1, EachIn
<1>7. \A y, z \in Rows : z \in high /\ (<<y, z>> \in SharpePairs \/ <<z, y>> \notin SharpePairs) => y \in high
  BY <1>3, OverOutcomes
<1> HIDE DEF cr, cs
<1> DEFINE k == Len(Sel(cr, high))
<1>8. Cardinality(sure) \in Nat /\ Cardinality(sure) <= k
  BY <1>6, SureRows
<1> HIDE DEF high
<1>9. k <= Len(cr) /\ \A i \in 1..k : ranked[i] = SortOf(Sel(cr, high), SharpePairs)[i]
  BY <1>4, <1>6, <1>7, SortedTop
<1>10. k <= Len(cs) /\ \A i \in 1..k : all[i] = SortOf(Sel(cr, high), SharpePairs)[i]
  <2>1. LET q == Sel(cs, high)
        IN  Len(q) <= Len(cs) /\ \A i \in 1..Len(q) : all[i] = SortOf(q, SharpePairs)[i]
    BY <1>4, <1>6, <1>7, SortedTop
  <2> QED
    BY <1>5, <2>1
<1>11. ranked \in Seq(Rows) /\ Len(ranked) = Len(cr) /\ all \in Seq(Rows) /\ Len(all) = Len(cs)
  BY <1>4, <1>6, SortedAll
<1>12. k \in Nat
  <2>1. Sel(cr, high) \in Seq(Rows)
    BY <1>6, SelIn
  <2> QED
    BY <2>1, InRows
<1> HIDE DEF ranked, all, sure, k
<1>13. ASSUME n <= Cardinality(sure) PROVE UpTo(ranked, n) = UpTo(all, n)
  <2>1. n <= k /\ n <= Len(ranked) /\ n <= Len(all) /\ IsSeq(ranked) /\ IsSeq(all)
    <3>1. Len(ranked) \in Nat /\ Len(all) \in Nat /\ Len(cr) \in Nat /\ Len(cs) \in Nat
      BY <1>11, <1>6, InRows
    <3> QED
      BY <1>8, <1>9, <1>10, <1>11, <1>12, <1>13, <3>1 DEF IsSeq
  <2>2. UpTo(ranked, n) = [i \in 1..n |-> ranked[i]] /\ UpTo(all, n) = [i \in 1..n |-> all[i]]
    BY <2>1, UpToIs
  <2>3. \A i \in 1..n : ranked[i] = all[i]
    <3>1. \A i \in 1..n : i \in 1..k
      BY <1>12, <2>1
    <3> QED
      BY <1>9, <1>10, <3>1
  <2> QED
    BY <2>2, <2>3
<1> QED
  BY <1>13 DEF SameTop, ranked, all, sure, r, s, cr, cs, unread

-----------------------------------------------------------------------------
(* The rows of the table that are local, and those of providers, in the     *)
(* order a page has them in, and the lines that are read.                   *)
OwnRows == TableOf({"local"})
TheirRows == Sel(TableOf(Everyone), Theirs)
Passes == UpTo(lines, LineLimit)
FullRows == ReadOf(OwnRows, FromDisk, Passes, TheirRows)

(* No row is of two of these kinds.                                         *)
LEMMA FullIs ==
  ASSUME BoardInv, KnownInv, AgreeInv
  PROVE  /\ OwnRows \in Seq(Rows) /\ FromDisk \in Seq(Rows) /\ Passes \in Seq(Rows) /\ TheirRows \in Seq(Rows)
         /\ FullRows \in Seq(Rows)
         /\ \A x : x \in Entries(FullRows) <=>
              \/ x \in Entries(OwnRows) \/ x \in Entries(FromDisk)
              \/ x \in Entries(Passes) \/ x \in Entries(TheirRows)
         /\ \A x : x \in Entries(OwnRows) <=> x \in Entries(rows) /\ x.provider = "local"
         /\ \A x : x \in Entries(TheirRows) <=> x \in Entries(rows) /\ x.provider # "local"
         /\ \A x \in Entries(OwnRows) : x.source = "external" /\ x.run \in Run
         /\ \A x \in Entries(FromDisk) : x.source = "local" /\ x.provider = "local"
         /\ \A x \in Entries(Passes) : x.run \notin Run /\ x.provider = "local"
<1> DEFINE t == TableOf(Everyone)
           p == Passes
<1>1. /\ OwnRows \in Seq(Rows) /\ t \in Seq(Rows)
      /\ \A x : x \in Entries(OwnRows) <=> x \in Entries(rows) /\ x.provider \in {"local"}
      /\ \A x : x \in Entries(t) <=> x \in Entries(rows) /\ x.provider \in Everyone
  BY TableIs DEF OwnRows
<1>2. FromDisk \in Seq(Rows) /\ p \in Seq(Rows)
  BY DiskShowable, LinesShowable, ShownIn DEF Passes
<1>3. TheirRows = Sel(t, Theirs)
  BY DEF TheirRows
<1> HIDE DEF t
<1>4. TheirRows \in Seq(Rows) /\ \A x : x \in Entries(TheirRows) <=> x \in Entries(t) /\ x \in Theirs
  BY <1>1, <1>3, SelIn, SelEntries
<1>5. \A x \in Entries(rows) : x \in Rows /\ x.provider \in Everyone
  <2>1. \A x \in Entries(rows) : x \in Rows
    BY RowsState, EntriesIn
  <2>2. \A x \in Rows : x.provider \in Everyone
    BY DEF Rows, RowBy, Everyone
  <2> QED
    BY <2>1, <2>2
<1>6. \A x : x \in Entries(TheirRows) <=> x \in Entries(rows) /\ x.provider # "local"
  BY <1>1, <1>4, <1>5 DEF Theirs
<1>7. \A x \in Entries(OwnRows) : x.source = "external" /\ x.run \in Run
  <2> SUFFICES ASSUME NEW x \in Entries(OwnRows) PROVE x.source = "external" /\ x.run \in Run
    OBVIOUS
  <2>1. x \in Entries(rows) /\ x.provider = "local"
    BY <1>1
  <2> QED
    BY <2>1, TableFilled
<1>8. \A x \in Entries(FromDisk) : x.source = "local" /\ x.provider = "local"
  BY DiskFilled
<1>9. \A x \in Entries(p) : x.run \notin Run /\ x.provider = "local"
  BY LineFilled DEF Passes
<1> HIDE DEF p
<1>10. /\ FullRows \in Seq(Rows)
       /\ \A x : x \in Entries(FullRows) <=>
            \/ x \in Entries(OwnRows) \/ x \in Entries(FromDisk)
            \/ x \in Entries(p) \/ x \in Entries(TheirRows)
  BY <1>1, <1>2, <1>4, ReadIn DEF FullRows, p
<1> QED
  BY <1>1, <1>2, <1>4, <1>6, <1>7, <1>8, <1>9, <1>10 DEF p

(* What is read for a page of n is a choice of these, in their order; for   *)
(* the full page it is all of them.                                         *)
LEMMA GatheredIs ==
  ASSUME BoardInv, KnownInv, AgreeInv, NEW n \in Nat
  PROVE  LET read == Gathered(TRUE, TRUE, {}, n)
         IN  /\ read \in Seq(Rows) /\ read = Sel(FullRows, Entries(read))
             /\ \A x \in Entries(read) : x \in Entries(FullRows)
             /\ \A x \in Entries(FromDisk) \cup Entries(Passes) : x \in Entries(read)
             /\ n >= Len(rows) => /\ read = FullRows
                                  /\ Gathered(TRUE, FALSE, {}, n) = ReadOf(OwnRows, FromDisk, Passes, <<>>)
<1> DEFINE m == Fetch * n
           d == FromDisk
           l == Passes
           t == OwnRows
           u == TableOf(Everyone)
           f == FromTable({"local"}, m)
           g == FromTable(Everyone, m)
           b == TheirRows
           h == Sel(g, Theirs)
           read == Gathered(TRUE, TRUE, {}, n)
           C == Entries(read)
<1>1. m \in Nat /\ m >= n
  <2>1. Fetch \in Nat /\ Fetch # 0
    BY LeaderboardConstants
  <2>2. \A x, y \in Nat : x * y \in Nat
    OBVIOUS
  <2>3. (Fetch - 1) * n \in Nat
    <3>1. Fetch - 1 \in Nat
      BY <2>1
    <3> QED
      BY <2>2, <3>1
  <2>4. Fetch * n = (Fetch - 1) * n + n
    BY <2>1
  <2> QED
    BY <2>3, <2>4
<1> HIDE DEF m
<1>2. /\ f \in Seq(Rows) /\ f = Sel(t, Entries(f)) /\ (\A x \in Entries(f) : x \in Entries(t))
      /\ m >= Len(rows) => f = t
  BY <1>1, TableRead DEF OwnRows
<1>3. /\ g \in Seq(Rows) /\ g = Sel(u, Entries(g)) /\ (\A x \in Entries(g) : x \in Entries(u))
      /\ m >= Len(rows) => g = u
  BY <1>1, TableRead
<1>4. b = Sel(u, Theirs) /\ u \in Seq(Rows)
  BY TableIs DEF TheirRows
<1>5. Gathered(TRUE, TRUE, {}, n) = ReadOf(f, d, l, Chosen(g, LAMBDA r : r.provider # "local"))
  BY DEF Gathered, ReadOf, Passes, m
<1>6. Gathered(TRUE, FALSE, {}, n) = ReadOf(f, d, l, <<>>)
  BY DEF Gathered, ReadOf, Passes, m
<1>7. Chosen(g, LAMBDA r : r.provider # "local") = h
  BY <1>3, TheirsIs
<1>8. read = ReadOf(f, d, l, h)
  BY <1>5, <1>7
<1>9. /\ t \in Seq(Rows) /\ d \in Seq(Rows) /\ l \in Seq(Rows) /\ b \in Seq(Rows)
      /\ \A x \in Entries(t) : x.source = "external" /\ x.run \in Run /\ x.provider = "local"
      /\ \A x \in Entries(d) : x.source = "local" /\ x.provider = "local"
      /\ \A x \in Entries(l) : x.run \notin Run /\ x.provider = "local"
      /\ \A x \in Entries(b) : x.provider # "local"
      /\ \A x : x \in Entries(FullRows) <=>
           x \in Entries(t) \/ x \in Entries(d) \/ x \in Entries(l) \/ x \in Entries(b)
  BY FullIs
<1> HIDE DEF d, l, t, u, f, g, b
<1>10. h \in Seq(Rows) /\ \A x : x \in Entries(h) <=> x \in Entries(g) /\ x \in Theirs
  BY <1>3, SelIn, SelEntries
<1> HIDE DEF h, read
<1>11. /\ read \in Seq(Rows)
       /\ \A x : x \in C <=> x \in Entries(f) \/ x \in Entries(d) \/ x \in Entries(l) \/ x \in Entries(h)
  BY <1>2, <1>8, <1>9, <1>10, ReadIn
<1> HIDE DEF C
<1>12. \A x \in Entries(h) : x \in Entries(b) /\ x.provider # "local"
  <2>1. \A x : x \in Entries(b) <=> x \in Entries(u) /\ x \in Theirs
    BY <1>4, SelEntries
  <2>2. \A x \in Entries(h) : x \in Entries(b)
    BY <1>3, <1>10, <2>1
  <2> QED
    BY <1>9, <2>2
<1>13. Sel(t, C) = f
  <2>1. \A x \in Entries(t) : x \in C <=> x \in Entries(f)
    BY <1>9, <1>11, <1>12
  <2>2. Sel(t, C) = Sel(t, Entries(f))
    BY <1>9, <2>1, SelHere
  <2> QED
    BY <1>2, <2>2
<1>14. Sel(d, C) = d /\ Sel(l, C) = l
  <2>1. d \in Seq(Entries(d)) /\ l \in Seq(Entries(l))
    BY <1>9, EntriesIn
  <2>2. Entries(d) \subseteq C /\ Entries(l) \subseteq C
    BY <1>11
  <2> QED
    BY <2>1, <2>2, SelAll
<1>15. Sel(b, C) = h
  <2>1. \A x \in Entries(b) : x \in C <=> x \in Entries(g)
    <3> SUFFICES ASSUME NEW x \in Entries(b) PROVE x \in C <=> x \in Entries(g)
      OBVIOUS
    <3>1. x \in Theirs
      BY <1>4, SelEntries
    <3>2. x \notin Entries(f) /\ x \notin Entries(d) /\ x \notin Entries(l)
      BY <1>2, <1>9
    <3> QED
      BY <1>10, <1>11, <3>1, <3>2
  <2>2. Sel(b, C) = Sel(b, Entries(g))
    BY <1>9, <2>1, SelHere
  <2>3. Sel(b, Entries(g)) = Sel(u, Theirs \cap Entries(g)) /\ Sel(Sel(u, Entries(g)), Theirs) = Sel(u, Entries(g) \cap Theirs)
    BY <1>4, SelSel
  <2>4. Theirs \cap Entries(g) = Entries(g) \cap Theirs
    OBVIOUS
  <2>5. Sel(Sel(u, Entries(g)), Theirs) = Sel(g, Theirs)
    BY <1>3
  <2> QED
    BY <2>2, <2>3, <2>4, <2>5 DEF h
<1>16. FullRows = ReadOf(t, d, l, b)
  BY DEF FullRows, t, d, l, b
<1>17. Sel(FullRows, C) = read
  <2>1. Sel(ReadOf(t, d, l, b), C) = ReadOf(Sel(t, C), Sel(d, C), Sel(l, C), Sel(b, C))
    BY <1>9, ReadSel
  <2> QED
    BY <1>8, <1>13, <1>14, <1>15, <1>16, <2>1
<1>18. \A x \in C : x \in Entries(FullRows)
  BY <1>2, <1>9, <1>11, <1>12
<1>19. ASSUME n >= Len(rows) PROVE read = FullRows /\ Gathered(TRUE, FALSE, {}, n) = ReadOf(t, d, l, <<>>)
  <2>1. m >= Len(rows)
    BY <1>1, <1>19, RowsState
  <2>2. f = t /\ g = u
    BY <1>2, <1>3, <2>1
  <2>3. h = b
    BY <1>4, <2>2 DEF h
  <2> QED
    BY <1>6, <1>8, <1>16, <2>2, <2>3
<1>20. \A x \in Entries(d) \cup Entries(l) : x \in C
  BY <1>11
<1> QED
  BY <1>11, <1>17, <1>18, <1>19, <1>20 DEF read, C, t, d, l

(* No row of the table has another's time.                                  *)
LEMMA RowsTimed ==
  ASSUME BoardInv, NEW x \in Entries(rows), NEW y \in Entries(rows), x.ts = y.ts
  PROVE  x = y
<1>1. PICK i \in DOMAIN rows : rows[i] = x
  BY DEF Entries
<1>2. PICK j \in DOMAIN rows : rows[j] = y
  BY DEF Entries
<1>3. /\ DOMAIN rows = 1..Len(rows) /\ Len(rows) \in Nat
      /\ \A k \in DOMAIN rows : rows[k].ts \in Nat
      /\ \A k, m \in DOMAIN rows : k < m => rows[k].ts < rows[m].ts
  <2>1. /\ \A k \in DOMAIN rows : rows[k] \in RowBy(clock)
        /\ \A k, m \in DOMAIN rows : k < m => rows[k].ts < rows[m].ts
    BY DEF BoardInv, OnceInv, TableOK
  <2>2. \A k \in DOMAIN rows : rows[k].ts \in Nat
    BY <2>1, RowsState DEF RowBy
  <2> QED
    BY <2>1, <2>2, RowsState, EntriesIn
<1>4. ~(i < j) /\ ~(j < i)
  BY <1>1, <1>2, <1>3
<1> QED
  BY <1>1, <1>2, <1>3, <1>4

(* What is filled in of a row tells whether it was read.                    *)
LEMMA WholeRead ==
  ASSUME BoardInv, KnownInv, AgreeInv, NEW n \in Nat,
         NEW y \in Entries(FullRows), NEW z \in Entries(Gathered(TRUE, TRUE, {}, n)), Whole(y) = Whole(z)
  PROVE  y \in Entries(Gathered(TRUE, TRUE, {}, n))
<1>1. y \in Entries(FromDisk) \/ y \in Entries(Passes) \/ y \in Entries(rows)
  BY FullIs
<1>2. CASE y \in Entries(FromDisk) \/ y \in Entries(Passes)
  BY <1>2, GatheredIs
<1>3. CASE y \in Entries(rows)
  <2>1. clock \in Nat /\ y \in Rows /\ z \in Rows
    <3>1. z \in Entries(FullRows) /\ FullRows \in Seq(Rows)
      BY GatheredIs, FullIs
    <3> QED
      BY <3>1, RowsState, EntriesIn
  <2>2. y.source = z.source /\ y.run = z.run /\ y.provider = z.provider /\ y.ts = z.ts
    BY <2>1, FilledIn
  <2>3. y.source = "external" /\ (y.run \notin Run => y.provider # "local")
    BY <1>3, TableFilled
  <2>4. z \in Entries(FromDisk) \/ z \in Entries(Passes) \/ z \in Entries(rows)
    BY GatheredIs, FullIs
  <2>5. z \notin Entries(FromDisk) /\ z \notin Entries(Passes)
    BY <2>2, <2>3, FullIs
  <2>6. y = z
    BY <1>3, <2>2, <2>4, <2>5, RowsTimed
  <2> QED
    BY <2>6
<1> QED
  BY <1>1, <1>2, <1>3

(* What is read for a page, with its columns filled in.                     *)
FullWhole == ReadOf(Enriched(OwnRows), Enriched(FromDisk), Enriched(Passes), Enriched(TheirRows))
WholeOf(n) == Entries(Enriched(Gathered(TRUE, TRUE, {}, n)))

LEMMA WholeIs ==
  ASSUME BoardInv, KnownInv, AgreeInv, NEW n \in Nat
  PROVE  LET read == Gathered(TRUE, TRUE, {}, n)
         IN  /\ Enriched(FullRows) = FullWhole /\ FullWhole \in Seq(Rows)
             /\ Enriched(read) = Sel(FullWhole, WholeOf(n))
             /\ \A x : x \in Entries(FullWhole) <=> \E y \in Entries(FullRows) : x = Whole(y)
             /\ \A x : x \in WholeOf(n) <=> \E y \in Entries(read) : x = Whole(y)
             /\ \A y \in Entries(FullRows) : Whole(y) \in WholeOf(n) <=> y \in Entries(read)
<1> DEFINE read == Gathered(TRUE, TRUE, {}, n)
<1>1. clock \in Nat
  BY RowsState
<1>2. /\ OwnRows \in Seq(Rows) /\ FromDisk \in Seq(Rows) /\ Passes \in Seq(Rows) /\ TheirRows \in Seq(Rows)
      /\ FullRows \in Seq(Rows)
  BY FullIs
<1>3. Enriched(FullRows) = FullWhole
  BY <1>1, <1>2, EnrichedRead DEF FullRows, FullWhole
<1>4. /\ Enriched(FullRows) \in Seq(Rows)
      /\ \A x : x \in Entries(Enriched(FullRows)) <=> \E y \in Entries(FullRows) : x = Whole(y)
  BY <1>1, <1>2, EnrichedIs DEF Whole
<1>5. read \in Seq(Rows) /\ read = Sel(FullRows, Entries(read)) /\ \A x \in Entries(read) : x \in Entries(FullRows)
  BY GatheredIs
<1>6. \A y \in Entries(FullRows), z \in Entries(read) : Whole(y) = Whole(z) => y \in Entries(read)
  BY WholeRead
<1> HIDE DEF read
<1>7. \A x : x \in Entries(Enriched(read)) <=> \E y \in Entries(read) : x = Whole(y)
  BY <1>1, <1>5, EnrichedIs DEF Whole
<1>8. WholeOf(n) = Entries(Enriched(read))
  BY DEF WholeOf, read
<1>9. \A y \in Entries(FullRows) : y \in Entries(read) <=> Whole(y) \in WholeOf(n)
  BY <1>6, <1>7, <1>8
<1>10. Enriched(Sel(FullRows, Entries(read))) = Sel(Enriched(FullRows), WholeOf(n))
  BY <1>1, <1>2, <1>9, EnrichedSel
<1>11. Enriched(read) = Sel(FullWhole, WholeOf(n))
  BY <1>3, <1>5, <1>10
<1> QED
  BY <1>3, <1>4, <1>7, <1>8, <1>9, <1>11 DEF read

(* Rows that are not read are what Left says of them.                       *)
LEMMA LeftUnread ==
  ASSUME BoardInv, KnownInv, AgreeInv, NEW n \in Nat,
         \A u \in Unread(n), x \in Entries(Gathered(TRUE, TRUE, {}, n)) :
           RunKey(u) = RunKey(x) => ~(Completeness(u) > Completeness(x))
  PROVE  /\ Left(Enriched(OwnRows), Enriched(FromDisk), Enriched(Passes), Enriched(TheirRows), WholeOf(n))
         /\ \A x : x \in Entries(FullWhole) \ WholeOf(n) <=> \E y \in Unread(n) : x = Whole(y)
         /\ \A y \in Unread(n) : y \in Entries(rows)
<1> DEFINE read == Entries(Gathered(TRUE, TRUE, {}, n))
           got == WholeOf(n)
           t == Enriched(OwnRows)
           d == Enriched(FromDisk)
           l == Enriched(Passes)
           b == Enriched(TheirRows)
           w == FullWhole
<1>1. /\ clock \in Nat
      /\ OwnRows \in Seq(Rows) /\ FromDisk \in Seq(Rows) /\ Passes \in Seq(Rows) /\ TheirRows \in Seq(Rows)
      /\ \A x : x \in Entries(FullRows) <=>
           \/ x \in Entries(OwnRows) \/ x \in Entries(FromDisk)
           \/ x \in Entries(Passes) \/ x \in Entries(TheirRows)
      /\ \A x : x \in Entries(OwnRows) <=> x \in Entries(rows) /\ x.provider = "local"
      /\ \A x : x \in Entries(TheirRows) <=> x \in Entries(rows) /\ x.provider # "local"
      /\ \A x \in Entries(FromDisk) : x.provider = "local"
      /\ \A x \in Entries(Passes) : x.provider = "local"
  BY FullIs, RowsState
<1>2. \A x \in Entries(FromDisk) \cup Entries(Passes) : x \in read
  BY GatheredIs
<1>3. /\ \A x : x \in Entries(t) <=> \E y \in Entries(OwnRows) : x = Whole(y)
      /\ \A x : x \in Entries(d) <=> \E y \in Entries(FromDisk) : x = Whole(y)
      /\ \A x : x \in Entries(l) <=> \E y \in Entries(Passes) : x = Whole(y)
      /\ \A x : x \in Entries(b) <=> \E y \in Entries(TheirRows) : x = Whole(y)
  BY <1>1, EnrichedIs DEF Whole
<1>4. /\ \A x : x \in Entries(w) <=> \E y \in Entries(FullRows) : x = Whole(y)
      /\ \A x : x \in got <=> \E y \in read : x = Whole(y)
      /\ \A y \in Entries(FullRows) : Whole(y) \in got <=> y \in read
  BY WholeIs
<1>5. \A y \in Entries(FullRows) : Whole(y).provider = y.provider /\ Whole(y).run = y.run /\ RunKey(Whole(y)) = RunKey(y)
  <2>1. \A y \in Entries(FullRows) : y \in Rows
    BY FullIs, EntriesIn
  <2> QED
    BY <1>1, <2>1, FilledIn
<1>6. \A y : y \in Unread(n) <=> y \in Entries(FullRows) /\ y \notin read
  <2>1. \A y : y \in Unread(n) <=> y \in Entries(rows) /\ y \notin read
    BY DEF Unread
  <2> HIDE DEF read
  <2> QED
    BY <1>1, <1>2, <2>1
<1>7. \A y \in Unread(n) : y \in Entries(rows)
  BY DEF Unread
<1>8. \A u \in Unread(n), x \in read : RunKey(u) = RunKey(x) => ~(Completeness(u) > Completeness(x))
  OBVIOUS
<1> HIDE DEF read, got, t, d, l, w
<1>9. \A x : x \in Entries(w) \ got <=> \E y \in Unread(n) : x = Whole(y)
  BY <1>4, <1>6
<1>10. b = TheirRows
  <2>1. Len(b) = Len(TheirRows) /\ b \in Seq(Rows) /\ \A i \in 1..Len(TheirRows) : b[i] = Whole(TheirRows[i])
    BY <1>1, EnrichedIs DEF Whole
  <2>2. \A i \in 1..Len(TheirRows) : TheirRows[i] \in Entries(TheirRows)
    BY <1>1, EntriesIn
  <2>3. \A y \in Entries(TheirRows) : Whole(y) = y
    BY <1>1, TableFilled
  <2> HIDE DEF b
  <2>4. \A i \in 1..Len(TheirRows) : b[i] = TheirRows[i]
    BY <2>1, <2>2, <2>3
  <2>5. b = [i \in 1..Len(TheirRows) |-> b[i]] /\ TheirRows = [i \in 1..Len(TheirRows) |-> TheirRows[i]]
    BY <1>1, <2>1
  <2> QED
    BY <2>4, <2>5
<1> HIDE DEF b
<1>11. Descends(b, ReturnPairs)
  <2>1. TableOf(Everyone) \in Seq(Rows) /\ Descends(TableOf(Everyone), ReturnPairs)
    BY TableIs
  <2>2. Descends(Sel(TableOf(Everyone), Theirs), ReturnPairs)
    BY <2>1, SelDescends
  <2> QED
    BY <1>10, <2>2 DEF TheirRows
<1>12. \A x \in Entries(t) : x.provider = "local"
  BY <1>1, <1>3, <1>5
<1>13. \A x \in Entries(d) \cup Entries(l) : x.provider = "local" /\ x \in got
  <2> SUFFICES ASSUME NEW x \in Entries(d) \cup Entries(l) PROVE x.provider = "local" /\ x \in got
    OBVIOUS
  <2>1. PICK y \in Entries(FromDisk) \cup Entries(Passes) : x = Whole(y)
    BY <1>3
  <2>2. y \in Entries(FullRows) /\ y \in read /\ y.provider = "local"
    BY <1>1, <1>2
  <2> QED
    BY <1>4, <1>5, <2>1, <2>2
<1>14. \A x \in Entries(b) : x.provider # "local"
  BY <1>1, <1>10
<1>15. \A u \in Entries(w) \ got : u.run # NoRun
  <2> SUFFICES ASSUME NEW u \in Entries(w) \ got PROVE u.run # NoRun
    OBVIOUS
  <2>1. PICK y \in Unread(n) : u = Whole(y)
    BY <1>9
  <2>2. y.run # NoRun
    BY <1>7, TableFilled
  <2> QED
    BY <1>5, <1>6, <2>1, <2>2
<1>16. ASSUME NEW u \in Entries(w) \ got, NEW x \in Entries(w), x.provider = "local", RunKey(x) = RunKey(u)
       PROVE  x.ret = u.ret
  <2>1. PICK v \in Unread(n) : u = Whole(v)
    BY <1>9
  <2>2. PICK y \in Entries(FullRows) : x = Whole(y)
    BY <1>4
  <2>3. v \in Entries(rows) /\ v \in Entries(FullRows)
    BY <1>6, <1>7
  <2>4. y \in Entries(rows) \/ y \in Entries(FromDisk) \/ y \in Entries(Passes)
    BY <1>1
  <2>5. y.provider = "local" /\ RunKey(y) = RunKey(v)
    BY <1>5, <1>16, <2>1, <2>2, <2>3
  <2>6. y.ret = v.ret /\ v.run \in Run
    BY <2>3, <2>4, <2>5, LocalAgrees DEF Passes
  <2>7. y \in Entries(rows) \cup Entries(FromDisk)
    BY <2>4, <2>5, <2>6, FullIs DEF RunKey
  <2>8. Whole(v).ret = v.ret /\ Whole(y).ret = y.ret
    BY <2>3, <2>7, TableFilled, DiskFilled
  <2> QED
    BY <2>1, <2>2, <2>6, <2>8
<1>17. ASSUME NEW u \in Entries(b) \ got, NEW x \in Entries(b) \cap got, RunKey(u) = RunKey(x)
       PROVE  ~Richer(u, x)
  <2>1. /\ u \in Entries(rows) /\ u \in Entries(FullRows) /\ Whole(u) = u
        /\ x \in Entries(rows) /\ x \in Entries(FullRows) /\ Whole(x) = x
    BY <1>1, <1>10, TableFilled
  <2>2. u \in Unread(n) /\ x \in read
    BY <1>4, <1>6, <2>1
  <2>3. u.source = "external"
    BY <2>1, TableFilled
  <2>4. ~(Completeness(u) > Completeness(x))
    BY <1>8, <1>17, <2>2
  <2> QED
    BY <2>3, <2>4 DEF Richer
<1>18. w = ReadOf(t, d, l, b)
  BY DEF FullWhole, w, t, d, l, b
<1>19. Left(t, d, l, b, got)
  <2> DEFINE all == Entries(ReadOf(t, d, l, b))
  <2>1. all = Entries(w)
    BY <1>18
  <2> HIDE DEF all
  <2>2. (\A u \in all \ got : u.run # NoRun)
        /\ \A u \in all \ got, x \in all : x.provider = "local" /\ RunKey(x) = RunKey(u) => x.ret = u.ret
    BY <1>15, <1>16, <2>1
  <2>3. \A u \in Entries(b) \ got, x \in Entries(b) \cap got : RunKey(u) = RunKey(x) => ~Richer(u, x)
    BY <1>17
  <2> QED
    BY <1>11, <1>12, <1>13, <1>14, <2>2, <2>3 DEF Left, all
<1> QED
  BY <1>7, <1>9, <1>19 DEF t, d, l, b, got, w

(* How many rows the full page can have.                                    *)
LEMMA FullLen ==
  ASSUME BoardInv, KnownInv, AgreeInv
  PROVE  /\ Len(FullRows) <= All /\ Len(ReadOf(OwnRows, FromDisk, Passes, <<>>)) <= All
         /\ All \in Nat /\ All >= Len(rows)
<1> DEFINE t == OwnRows
           u == TableOf(Everyone)
           l == Passes
           b == TheirRows
<1>1. /\ rows \in Seq(Rows) /\ lines \in Seq(Rows)
      /\ Len(rows) \in Nat /\ Len(lines) \in Nat /\ Len(dirs) \in Nat
  BY RowsState
<1>2. t \in Seq(Rows) /\ FromDisk \in Seq(Rows) /\ l \in Seq(Rows) /\ b \in Seq(Rows)
  BY FullIs
<1>3. /\ Len(t) \in Nat /\ Len(t) <= Len(rows)
      /\ u \in Seq(Rows) /\ Len(u) \in Nat /\ Len(u) <= Len(rows)
  BY TableIs DEF OwnRows
<1>4. Len(l) \in Nat /\ Len(l) <= Len(lines)
  <2>1. IsSeq(lines)
    BY <1>1 DEF IsSeq
  <2>2. TakenFrom(l, lines)
    BY <2>1, UpToTakes, LeaderboardConstants DEF Passes
  <2> HIDE DEF l
  <2> QED
    BY <2>1, <2>2, TakenLen
<1>5. Len(FromDisk) \in Nat /\ Len(FromDisk) <= Len(dirs)
  BY DiskRows
<1>6. Len(b) \in Nat /\ Len(b) <= Len(u)
  <2> DEFINE at == {i \in DOMAIN u : u[i] \in Theirs}
  <2>1. IsSeq(u)
    BY <1>3 DEF IsSeq
  <2>2. b = Only(u, at) /\ at \in SUBSET (DOMAIN u)
    BY DEF TheirRows, Sel
  <2> HIDE DEF at, b, u
  <2>3. TakenFrom(b, u)
    BY <2>1, <2>2, OnlyTakes
  <2> QED
    BY <2>1, <2>3, TakenLen
<1>7. FullRows = ReadOf(t, FromDisk, l, b)
  BY DEF FullRows
<1> HIDE DEF t, u, l, b
<1>9. ASSUME NEW c \in Seq(Rows)
      PROVE  Len(ReadOf(t, FromDisk, l, c)) = Len(t) + Len(FromDisk) + Len(l) + Len(c)
  <2> DEFINE td == t \o FromDisk
             tdl == td \o l
  <2>0. IsSeq(t) /\ IsSeq(FromDisk) /\ IsSeq(l) /\ IsSeq(c)
    BY <1>2 DEF IsSeq
  <2>1. IsSeq(td) /\ Len(td) = Len(t) + Len(FromDisk)
    BY <2>0, Joined
  <2> HIDE DEF td
  <2>2. IsSeq(tdl) /\ Len(tdl) = Len(td) + Len(l)
    BY <2>0, <2>1, Joined
  <2> HIDE DEF tdl
  <2>3. Len(tdl \o c) = Len(tdl) + Len(c)
    BY <2>0, <2>2, Joined
  <2> QED
    BY <2>1, <2>2, <2>3 DEF ReadOf, td, tdl
<1>10. Len(ReadOf(t, FromDisk, l, b)) = Len(t) + Len(FromDisk) + Len(l) + Len(b)
  BY <1>2, <1>9
<1>11. Len(ReadOf(t, FromDisk, l, <<>>)) = Len(t) + Len(FromDisk) + Len(l) + 0
  <2> DEFINE none == <<>>
  <2>1. Len(none) = 0 /\ none \in Seq(Rows)
    OBVIOUS
  <2> HIDE DEF none
  <2>2. Len(ReadOf(t, FromDisk, l, none)) = Len(t) + Len(FromDisk) + Len(l) + Len(none)
    BY <1>9, <2>1
  <2> QED
    BY <2>1, <2>2 DEF none
<1>12. \A x1, x2, x3, x4, x5, y1, y2, y3 \in Nat :
         x1 <= y1 /\ x2 <= y3 /\ x3 <= y2 /\ x4 <= x5 /\ x5 <= y1 => x1 + x2 + x3 + x4 <= 2 * y1 + y2 + y3
  OBVIOUS
<1>13. /\ Len(t) + Len(FromDisk) + Len(l) + Len(b) <= 2 * Len(rows) + Len(lines) + Len(dirs)
       /\ Len(t) + Len(FromDisk) + Len(l) + 0 <= 2 * Len(rows) + Len(lines) + Len(dirs)
  BY <1>1, <1>3, <1>4, <1>5, <1>6, <1>12
<1>14. All \in Nat /\ All >= Len(rows)
  BY <1>1 DEF All
<1> QED
  BY <1>7, <1>10, <1>11, <1>13, <1>14 DEF All, t, l

(* There is room on the full page for all that is ranked.                   *)
LEMMA FullPage ==
  ASSUME BoardInv, KnownInv, AgreeInv, NEW external \in BOOLEAN
  PROVE  LET all == Gathered(TRUE, external, {}, All)
         IN  Page(TRUE, external, {}, All) = Ranked(all) /\ Showable(all)
<1> DEFINE all == Gathered(TRUE, external, {}, All)
<1>1. All \in Nat /\ Len(all) <= All
  <2>1. All \in Nat /\ All >= Len(rows) /\ Len(FullRows) <= All /\ Len(ReadOf(OwnRows, FromDisk, Passes, <<>>)) <= All
    BY FullLen
  <2>2. Gathered(TRUE, TRUE, {}, All) = FullRows /\ Gathered(TRUE, FALSE, {}, All) = ReadOf(OwnRows, FromDisk, Passes, <<>>)
    BY <2>1, GatheredIs
  <2> HIDE DEF all
  <2>3. external = TRUE \/ external = FALSE
    OBVIOUS
  <2> QED
    BY <2>1, <2>2, <2>3 DEF all
<1>2. Showable(all)
  BY <1>1, GatheredShowable
<1>3. Page(TRUE, external, {}, All) = UpTo(Ranked(all), All)
  BY DEF Page
<1> HIDE DEF all
<1>4. Ranked(all) \in Seq(Rows) /\ Len(Ranked(all)) \in Nat /\ Len(Ranked(all)) <= Len(all) /\ all \in Seq(Rows)
  BY <1>2, RankedIs
<1>5. Len(all) \in Nat
  BY <1>4, InRows
<1>6. IsSeq(Ranked(all)) /\ All >= Len(Ranked(all))
  BY <1>1, <1>4, <1>5 DEF IsSeq
<1>7. UpTo(Ranked(all), All) = Ranked(all)
  BY <1>1, <1>6, UpToIs
<1> QED
  BY <1>2, <1>3, <1>7 DEF all

(* A page of n is the top of the full page when n of its rows return more   *)
(* than every row that was not fetched, and none of those is a more         *)
(* complete result of a fetched run: the part of BestIsShown about the      *)
(* limit of the query.                                                      *)
LEMMA BestPages == BoardInv /\ KnownInv /\ AgreeInv => PageIsBest
<1> SUFFICES ASSUME BoardInv, KnownInv, AgreeInv, NEW n \in 1..2
             PROVE  LET full == Page(TRUE, TRUE, {}, All)
                        read == Gathered(TRUE, TRUE, {}, n)
                        ranked == Ranked(read)
                        unread == Unread(n)
                        sure == {i \in DOMAIN ranked : \A u \in unread : Rounded(u.ret) < Rounded(ranked[i].ret)}
                    IN  \/ unread # {} /\ Cardinality(sure) < n
                        \/ \E u \in unread, r \in Entries(read) :
                             RunKey(u) = RunKey(r) /\ Completeness(u) > Completeness(r)
                        \/ Page(TRUE, TRUE, {}, n) = UpTo(full, n)
  BY DEF PageIsBest
<1> DEFINE read == Gathered(TRUE, TRUE, {}, n)
           unread == Unread(n)
           ranked == Ranked(read)
           sure == {i \in DOMAIN ranked : \A u \in unread : Rounded(u.ret) < Rounded(ranked[i].ret)}
<1>1. n \in Nat /\ clock \in Nat /\ All \in Nat /\ All >= Len(rows)
  BY RowsState, FullLen
<1>2. /\ read \in Seq(Rows) /\ read = Sel(FullRows, Entries(read))
      /\ \A x \in Entries(FromDisk) \cup Entries(Passes) : x \in Entries(read)
  BY <1>1, GatheredIs
<1>3. Gathered(TRUE, TRUE, {}, All) = FullRows
  BY <1>1, GatheredIs
<1>4. Page(TRUE, TRUE, {}, All) = Ranked(FullRows) /\ Showable(FullRows)
  BY <1>3, FullPage
<1>5. Page(TRUE, TRUE, {}, n) = UpTo(ranked, n)
  BY DEF Page
<1>6. Showable(read)
  BY <1>1, GatheredShowable
<1>7. CASE \E x \in unread, r \in Entries(read) : RunKey(x) = RunKey(r) /\ Completeness(x) > Completeness(r)
  BY <1>7
<1>8. CASE unread = {}
  <2>1. \A x \in Entries(rows) : x \in Entries(read)
    BY <1>8 DEF Unread
  <2> HIDE DEF read
  <2>2. \A x \in Entries(FullRows) : x \in Entries(read)
    BY <1>2, <2>1, FullIs
  <2>3. FullRows \in Seq(Entries(FullRows))
    BY FullIs, EntriesIn
  <2>4. Sel(FullRows, Entries(read)) = FullRows
    BY <2>2, <2>3, SelAll
  <2>5. read = FullRows
    BY <1>2, <2>4
  <2> QED
    BY <1>4, <1>5, <2>5
<1>9. CASE /\ ~(Cardinality(sure) < n)
           /\ ~\E x \in unread, r \in Entries(read) : RunKey(x) = RunKey(r) /\ Completeness(x) > Completeness(r)
  <2> DEFINE t == Enriched(OwnRows)
             d == Enriched(FromDisk)
             l == Enriched(Passes)
             b == Enriched(TheirRows)
             got == WholeOf(n)
             w == FullWhole
             left == Entries(w) \ got
             esure == {i \in DOMAIN ranked : \A u \in left : Rounded(u.ret) < Rounded(ranked[i].ret)}
  <2>1. t \in Seq(Rows) /\ d \in Seq(Rows) /\ l \in Seq(Rows) /\ b \in Seq(Rows)
    BY <1>1, FullIs, EnrichedIs
  <2>2. /\ Left(t, d, l, b, got)
        /\ \A x : x \in left <=> \E y \in unread : x = Whole(y)
        /\ \A y \in unread : y \in Entries(rows)
    <3>1. \A u \in Unread(n), x \in Entries(read) : RunKey(u) = RunKey(x) => ~(Completeness(u) > Completeness(x))
      BY <1>9
    <3> QED
      BY <1>1, <3>1, LeftUnread
  <2>3. w = ReadOf(t, d, l, b) /\ Enriched(FullRows) = w /\ Enriched(read) = Sel(w, got) /\ w \in Seq(Rows)
    <3>1. w = ReadOf(t, d, l, b)
      BY DEF FullWhole
    <3>2. Enriched(FullRows) = w /\ Enriched(read) = Sel(w, got) /\ w \in Seq(Rows)
      BY <1>1, WholeIs
    <3> QED
      BY <3>1, <3>2
  <2> HIDE DEF t, d, l, b, got, w, unread, read
  <2>4. ranked = SortOf(ToRank(Sel(w, got)), SharpePairs) /\ Ranked(FullRows) = SortOf(ToRank(w), SharpePairs)
    <3>1. ranked = SortOf(ToRank(Enriched(read)), SharpePairs)
      BY <1>6, RankedIs
    <3>2. Ranked(FullRows) = SortOf(ToRank(Enriched(FullRows)), SharpePairs)
      BY <1>4, RankedIs
    <3> QED
      BY <2>3, <3>1, <3>2
  <2>5. \A y \in unread : Whole(y).ret = y.ret
    BY <2>2, TableFilled
  <2> HIDE DEF ranked, left
  <2>6. sure = esure
    <3>1. \A k : (\A u \in unread : Rounded(u.ret) < k) <=> (\A u \in left : Rounded(u.ret) < k)
      BY <2>2, <2>5
    <3> QED
      BY <3>1
  <2>7. Cardinality(esure) \in Nat
    <3> DEFINE c == ToRank(Sel(w, got))
    <3>1. c \in Seq(Rows)
      <4>1. Sel(w, got) \in Seq(Rows)
        BY <2>3, SelIn
      <4> QED
        BY <4>1, EachIn
    <3>2. ranked = SortOf(c, SharpePairs)
      BY <2>4
    <3> HIDE DEF c
    <3>3. LET r == SortOf(c, SharpePairs)
          IN  Cardinality({i \in DOMAIN r : \A u \in left : Rounded(u.ret) < Rounded(r[i].ret)}) \in Nat
      BY <1>1, <3>1, SureRows
    <3> QED
      BY <3>2, <3>3
  <2>8. n <= Cardinality(esure)
    <3>1. ~(Cardinality(sure) < n)
      BY <1>9
    <3> HIDE DEF sure, esure
    <3> QED
      BY <1>1, <2>6, <2>7, <3>1
  <2>9. SameTop(t, d, l, b, got, n)
    BY <1>1, <2>1, <2>2, TopOfMore
  <2>10. UpTo(ranked, n) = UpTo(Ranked(FullRows), n)
    <3>1. LET k == Cardinality({i \in DOMAIN ranked : \A u \in left : Rounded(u.ret) < Rounded(ranked[i].ret)})
          IN  n <= k => UpTo(ranked, n) = UpTo(Ranked(FullRows), n)
      BY <2>3, <2>4, <2>9 DEF SameTop, left
    <3> QED
      BY <2>8, <3>1
  <2> QED
    BY <1>4, <1>5, <2>10 DEF ranked
<1> QED
  BY <1>7, <1>8, <1>9

-----------------------------------------------------------------------------
(* What is stored, and may be read, is what is gathered for the full page.  *)
LEMMA StoredIs ==
  ASSUME BoardInv, KnownInv, AgreeInv
  PROVE  Entries(Enriched(rows \o FromDisk \o UpTo(lines, LineLimit)))
           = Entries(Enriched(Gathered(TRUE, TRUE, {}, All)))
<1> DEFINE stored == ReadOf(rows, FromDisk, Passes, <<>>)
           all == Gathered(TRUE, TRUE, {}, All)
<1>1. rows \o FromDisk \o UpTo(lines, LineLimit) = stored
  <2> DEFINE e == (rows \o FromDisk) \o Passes
  <2>1. e \in Seq(Rows)
    <3>1. rows \o FromDisk \in Seq(Rows)
      BY FullIs, RowsState, JoinedIn
    <3> QED
      BY <3>1, FullIs, JoinedIn
  <2> HIDE DEF e
  <2>2. e \o <<>> = e
    BY <2>1, JoinedNone
  <2> QED
    BY <2>2 DEF e, ReadOf, Passes
<1>2. clock \in Nat /\ all = FullRows /\ FullRows \in Seq(Rows)
  BY FullLen, GatheredIs, FullIs, RowsState
<1>3. stored \in Seq(Rows) /\ \A x : x \in Entries(stored) <=> x \in Entries(FullRows)
  <2> DEFINE none == <<>>
  <2>1. none \in Seq(Rows) /\ Entries(none) = {}
    BY NoEntries
  <2> HIDE DEF none
  <2>2. /\ ReadOf(rows, FromDisk, Passes, none) \in Seq(Rows)
        /\ \A x : x \in Entries(ReadOf(rows, FromDisk, Passes, none)) <=>
             x \in Entries(rows) \/ x \in Entries(FromDisk) \/ x \in Entries(Passes) \/ x \in Entries(none)
    BY <2>1, FullIs, RowsState, ReadIn
  <2>3. \A x : x \in Entries(FullRows) <=> x \in Entries(rows) \/ x \in Entries(FromDisk) \/ x \in Entries(Passes)
    BY FullIs
  <2> QED
    BY <2>1, <2>2, <2>3 DEF none
<1> HIDE DEF stored, all
<1>4. /\ \A x : x \in Entries(Enriched(stored)) <=> \E y \in Entries(stored) : x = Whole(y)
      /\ \A x : x \in Entries(Enriched(FullRows)) <=> \E y \in Entries(FullRows) : x = Whole(y)
  BY <1>2, <1>3, EnrichedIs DEF Whole
<1>5. Entries(Enriched(stored)) = Entries(Enriched(FullRows))
  BY <1>3, <1>4
<1> QED
  BY <1>1, <1>2, <1>5 DEF all

(* An outcome that is stored and not on the full page lost it to a smoke    *)
(* test, or its run has a row with another outcome: the part of BestIsShown *)
(* about merging.                                                           *)
LEMMA HiddenRows == BoardInv /\ KnownInv /\ AgreeInv => HiddenForCause
<1> SUFFICES ASSUME BoardInv, KnownInv, AgreeInv PROVE HiddenForCause
  OBVIOUS
<1> DEFINE shown == {Outcome(x) : x \in Entries(Page(TRUE, TRUE, {}, All))}
           all == Gathered(TRUE, TRUE, {}, All)
           e == Enriched(all)
           runs == OneEachRun(e)
           outcomes == OneEachOutcome(runs)
<1>1. Page(TRUE, TRUE, {}, All) = Ranked(all) /\ Showable(all)
  BY FullPage
<1> HIDE DEF all
<1>2. /\ e \in Seq(Rows) /\ Complete(e)
      /\ \A x : x \in Entries(Ranked(all)) <=> x \in Entries(ToRank(e))
  BY <1>1, RankedIs, EnrichedComplete
<1> HIDE DEF e
<1>3. runs = EachRun(e) /\ runs \in Seq(Rows)
  BY <1>2, EachRunIs, EachIn
<1>4. /\ \A x \in Entries(runs) : x \in Entries(e)
      /\ \A x \in Entries(e) : \E y \in Entries(runs) : y = x \/ RunKey(y) = RunKey(x)
  BY <1>2, MergedRuns
<1> HIDE DEF runs
<1>5. outcomes = EachOutcome(runs) /\ outcomes \in Seq(Rows)
  BY <1>3, EachOutcomeIs, EachIn
<1>6. /\ \A x \in Entries(outcomes) : x \in Entries(runs)
      /\ \A x \in Entries(runs) : \E y \in Entries(outcomes) : Outcome(y) = Outcome(x)
  <2>1. IsSeq(runs)
    BY <1>3, EntriesIn
  <2> QED
    BY <2>1, MergedOutcomes, TakenEntries
<1> HIDE DEF outcomes
<1>7. \A x \in Entries(outcomes) : x \in Rows /\ (~Smoke(x) => x \in Entries(ToRank(e)))
  <2>1. ToRank(e) = Sel(outcomes, NotSmoke)
    BY <1>3, <1>5 DEF ToRank
  <2>2. \A x : x \in Entries(Sel(outcomes, NotSmoke)) <=> x \in Entries(outcomes) /\ x \in NotSmoke
    BY <1>5, SelEntries
  <2>3. \A x \in Entries(outcomes) : x \in Rows
    BY <1>5, EntriesIn
  <2> QED
    BY <2>1, <2>2, <2>3 DEF NotSmoke
<1>8. ASSUME NEW x \in Entries(e)
      PROVE  \/ Outcome(x) \in shown
             \/ \E y \in Entries(e) : Smoke(y) /\ Outcome(y) = Outcome(x)
             \/ \E y \in Entries(e) : RunKey(y) = RunKey(x) /\ Outcome(y) # Outcome(x)
  <2>1. PICK w \in Entries(runs) : w = x \/ RunKey(w) = RunKey(x)
    BY <1>4
  <2>2. CASE Outcome(w) # Outcome(x)
    BY <1>4, <2>1, <2>2
  <2>3. CASE Outcome(w) = Outcome(x)
    <3>1. PICK v \in Entries(outcomes) : Outcome(v) = Outcome(w)
      BY <1>6
    <3>2. CASE Smoke(v)
      BY <1>4, <1>6, <2>3, <3>1, <3>2
    <3>3. CASE ~Smoke(v)
      <4>1. v \in Entries(Page(TRUE, TRUE, {}, All))
        BY <1>1, <1>2, <1>7, <3>3
      <4> QED
        BY <2>3, <3>1, <4>1
    <3> QED
      BY <3>2, <3>3
  <2> QED
    BY <2>2, <2>3
<1>9. Entries(Enriched(rows \o FromDisk \o UpTo(lines, LineLimit))) = Entries(e)
  BY StoredIs DEF e, all
<1> HIDE DEF shown
<1> QED
  BY <1>8, <1>9, Zenon DEF HiddenForCause, shown

-----------------------------------------------------------------------------
(* The history: one row of each run of the table and the disk.              *)
KeyOfName == [x \in Rows |-> x.run]
EachName(s) == Mrg(s, KeyOfName, Pairs(Rows))

LEMMA EachNameIs ==
  ASSUME NEW s \in Seq(Rows)
  PROVE  OneEach(s, LAMBDA r : r.run, LAMBDA r, q : TRUE) = EachName(s)
<1> DEFINE key == [i \in DOMAIN s |-> s[i].run]
           better == {p \in Pairs(DOMAIN s) : TRUE}
<1>1. OneEach(s, LAMBDA r : r.run, LAMBDA r, q : TRUE)
        = [k \in DOMAIN Winners(key, better) |-> s[Winners(key, better)[k]]]
  BY DEF OneEach
<1>2. /\ DOMAIN s = 1..Len(s) /\ \A i \in DOMAIN s : s[i] \in Rows
  BY InRows
<1>3. key = KeysOf(s, KeyOfName)
  BY <1>2 DEF KeysOf, KeyOfName
<1>4. better = BetterOf(s, Pairs(Rows))
  BY <1>2 DEF BetterOf, Pairs
<1> HIDE DEF key, better
<1> QED
  BY <1>1, <1>3, <1>4 DEF EachName, Mrg

(* It has a row of each run of the table's local rows and of the disk.      *)
LEMMA HistoryHas ==
  ASSUME BoardInv, KnownInv, NEW q,
         (q \in Entries(rows) /\ q.provider = "local") \/ q \in Entries(FromDisk)
  PROVE  \E z \in Entries(History(All)) :
           /\ z.run = q.run
           /\ (z \in Entries(rows) /\ z.provider = "local") \/ z \in Entries(FromDisk)
<1> DEFINE own == Chosen(rows, LAMBDA r : r.provider = "local")
           c == Sel(rows, By({"local"}))
           v == Reversed(own)
           d == FromDisk
           s == v \o d
           m == EachName(s)
           h == SortOf(m, TimePairs)
<1>1. /\ rows \in Seq(Rows) /\ Len(rows) \in Nat /\ Len(lines) \in Nat /\ Len(dirs) \in Nat /\ clock \in Nat
      /\ IsSeq(rows)
  BY RowsState, EntriesIn
<1>2. own = c
  <2>1. {i \in DOMAIN rows : rows[i].provider = "local"} = {i \in DOMAIN rows : rows[i] \in By({"local"})}
    BY <1>1, InRows DEF By
  <2> QED
    BY <2>1 DEF Sel, Chosen
<1>3. /\ c \in Seq(Rows) /\ Len(c) \in Nat /\ Len(c) <= Len(rows)
      /\ \A x : x \in Entries(c) <=> x \in Entries(rows) /\ x \in By({"local"})
  <2>1. c \in Seq(Rows) /\ \A x : x \in Entries(c) <=> x \in Entries(rows) /\ x \in By({"local"})
    BY <1>1, SelIn, SelEntries
  <2> DEFINE at == {i \in DOMAIN rows : rows[i] \in By({"local"})}
  <2>2. c = Only(rows, at) /\ at \in SUBSET (DOMAIN rows)
    BY DEF Sel
  <2> HIDE DEF at, c
  <2>3. TakenFrom(c, rows)
    BY <1>1, <2>2, OnlyTakes
  <2> QED
    BY <1>1, <2>1, <2>3, TakenLen
<1> HIDE DEF own, c
<1>4. v \in Seq(Rows) /\ Len(v) = Len(c) /\ \A x : x \in Entries(v) <=> x \in Entries(c)
  BY <1>2, <1>3, ReversedAll
<1>5. d \in Seq(Rows) /\ Len(d) \in Nat /\ Len(d) <= Len(dirs)
  BY DiskRows, DiskShowable, ShownIn
<1> HIDE DEF v, d
<1>6. IsSeq(v) /\ IsSeq(d)
  BY <1>4, <1>5, EntriesIn
<1>7. s \in Seq(Rows) /\ Len(s) = Len(v) + Len(d) /\ \A x : x \in Entries(s) <=> x \in Entries(v) \/ x \in Entries(d)
  BY <1>4, <1>5, <1>6, JoinedIn, Joined
<1> HIDE DEF s
<1>8. IsSeq(s)
  BY <1>7, EntriesIn
<1>9. /\ m \in Seq(Rows) /\ Len(m) \in Nat /\ Len(m) <= Len(s)
      /\ \A x \in Entries(m) : x \in Entries(s)
      /\ \A x \in Entries(s) : HasKey(m, x, KeyOfName)
  <2>1. m \in Seq(Rows)
    BY <1>7, MrgIn DEF EachName
  <2>2. /\ TakenFrom(m, s) /\ \A x \in Entries(m) : x \in Entries(s)
        /\ \A x \in Entries(s) : HasKey(m, x, KeyOfName)
    BY <1>7, MrgEntries DEF EachName
  <2> HIDE DEF m
  <2>3. Len(m) \in Nat /\ Len(m) <= Len(s)
    BY <1>8, <2>2, TakenLen
  <2> QED
    BY <2>1, <2>2, <2>3
<1>10. OneEach(s, LAMBDA r : r.run, LAMBDA r, p : TRUE) = m
  BY <1>7, EachNameIs
<1> HIDE DEF m
<1>11. Sorted(m, ByTime) = h
  BY <1>9, SortedIs
<1>12. h \in Seq(Rows) /\ Len(h) = Len(m) /\ \A x : x \in Entries(h) <=> x \in Entries(m)
  <2>1. OrderOf(TimePairs, Rows)
    BY <1>1, RowOrders
  <2> QED
    BY <1>9, <2>1, SortedAll
<1> HIDE DEF h
<1>13. All \in Nat /\ All >= Len(v) /\ All >= Len(d) /\ All >= Len(h)
  BY <1>1, <1>3, <1>4, <1>5, <1>7, <1>9, <1>12 DEF All
<1>14. UpTo(v, All) = v /\ UpTo(d, All) = d /\ UpTo(h, All) = h
  <2>1. IsSeq(h)
    BY <1>12, EntriesIn
  <2> QED
    BY <1>6, <1>13, <2>1, UpToIs
<1>15. History(All) = UpTo(Sorted(OneEach(UpTo(v, All) \o UpTo(d, All), LAMBDA r : r.run, LAMBDA r, p : TRUE), ByTime), All)
  BY DEF History, v, own, d
<1>16. History(All) = h
  BY <1>10, <1>11, <1>14, <1>15 DEF s
<1>17. q \in Rows /\ q \in Entries(s)
  <2>1. \A x \in Entries(rows) : x \in Rows
    BY <1>1, EntriesIn
  <2>2. \A x \in Entries(s) : x \in Rows
    BY <1>7, EntriesIn
  <2>3. q \in Entries(s)
    BY <1>3, <1>4, <1>7, <2>1 DEF By, d
  <2> QED
    BY <2>2, <2>3
<1>18. PICK k \in DOMAIN m : KeyOfName[m[k]] = KeyOfName[q]
  BY <1>9, <1>17 DEF HasKey
<1>19. m[k] \in Rows /\ m[k] \in Entries(m)
  BY <1>9, EntriesIn, InRows
<1>20. m[k].run = q.run
  BY <1>17, <1>18, <1>19 DEF KeyOfName
<1>21. (m[k] \in Entries(rows) /\ m[k].provider = "local") \/ m[k] \in Entries(FromDisk)
  <2>1. m[k] \in Entries(c) \/ m[k] \in Entries(d)
    BY <1>4, <1>7, <1>9, <1>19
  <2> QED
    BY <1>3, <2>1 DEF By, d
<1> QED
  BY <1>12, <1>16, <1>19, <1>20, <1>21

(* A run of the local page is one of them.                                  *)
LEMMA LocalPage ==
  ASSUME BoardInv, KnownInv, AgreeInv, NEW r \in Entries(Page(TRUE, FALSE, {}, All)), r.run \in Run
  PROVE  \E q : /\ (q \in Entries(rows) /\ q.provider = "local") \/ q \in Entries(FromDisk)
                /\ q.run = r.run /\ q.ret = r.ret
<1> DEFINE all == Gathered(TRUE, FALSE, {}, All)
           e == Enriched(all)
           t == OwnRows
           l == Passes
           d == FromDisk
<1>1. Page(TRUE, FALSE, {}, All) = Ranked(all) /\ Showable(all)
  BY FullPage
<1>2. clock \in Nat
  BY RowsState
<1>3. all = ReadOf(t, d, l, <<>>) /\ d \in Seq(Rows) /\ l \in Seq(Rows)
  BY FullLen, GatheredIs, FullIs
<1> HIDE DEF all
<1>4. all \in Seq(Rows) /\ e \in Seq(Rows) /\ \A x : x \in Entries(Ranked(all)) <=> x \in Entries(ToRank(e))
  BY <1>1, RankedIs
<1>5. \A x : x \in Entries(e) <=> \E y \in Entries(all) : x = Whole(y)
  BY <1>2, <1>4, EnrichedIs DEF Whole
<1> HIDE DEF e
<1>6. \A x \in Entries(ToRank(e)) : x \in Entries(e)
  <2>1. EachRun(e) \in Seq(Rows) /\ EachOutcome(EachRun(e)) \in Seq(Rows)
    BY <1>4, EachIn
  <2>2. \A x \in Entries(ToRank(e)) : x \in Entries(EachOutcome(EachRun(e)))
    BY <2>1, SelEntries DEF ToRank
  <2>3. \A x \in Entries(EachOutcome(EachRun(e))) : x \in Entries(EachRun(e))
    BY <2>1, MrgEntries DEF EachOutcome
  <2>4. \A x \in Entries(EachRun(e)) : x \in Entries(e)
    <3> DEFINE a == Sel(e, NoRuns)
               b == Sel(e, WithRun)
               c == Mrg(b, KeyOfRun, RicherPairs)
    <3>1. a \in Seq(Rows) /\ b \in Seq(Rows)
      BY <1>4, SelIn
    <3>2. (\A x \in Entries(a) : x \in Entries(e)) /\ (\A x \in Entries(b) : x \in Entries(e))
      BY <1>4, SelEntries
    <3> HIDE DEF a, b
    <3>3. c \in Seq(Rows) /\ \A x \in Entries(c) : x \in Entries(b)
      BY <3>1, MrgIn, MrgEntries
    <3> HIDE DEF c
    <3>4. \A x : x \in Entries(a \o c) <=> x \in Entries(a) \/ x \in Entries(c)
      BY <3>1, <3>3, JoinedIn
    <3> QED
      BY <3>2, <3>3, <3>4 DEF EachRun, a, b, c
  <2> QED
    BY <2>2, <2>3, <2>4
<1>7. PICK q \in Entries(all) : r = Whole(q)
  BY <1>1, <1>4, <1>5, <1>6
<1>8. q \in Entries(t) \/ q \in Entries(d) \/ q \in Entries(l)
  <2>1. t \in Seq(Rows) /\ <<>> \in Seq(Rows) /\ Entries(<<>>) = {}
    BY FullIs, NoEntries
  <2> DEFINE none == <<>>
  <2>2. all = ReadOf(t, d, l, none) /\ none \in Seq(Rows) /\ Entries(none) = {}
    BY <1>3, <2>1
  <2> HIDE DEF t, d, l, none
  <2>3. \A x : x \in Entries(ReadOf(t, d, l, none)) <=>
                x \in Entries(t) \/ x \in Entries(d) \/ x \in Entries(l) \/ x \in Entries(none)
    BY <1>3, <2>1, <2>2, ReadIn
  <2> QED
    BY <1>7, <2>2, <2>3
<1>9. q \in Rows /\ q.run = r.run
  <2>1. q \in Rows
    BY <1>4, <1>7, EntriesIn
  <2> QED
    BY <1>2, <1>7, <2>1, FilledIn
<1>10. CASE q \in Entries(t)
  <2>1. q \in Entries(rows) /\ q.provider = "local"
    BY <1>10, FullIs
  <2>2. r.ret = q.ret
    BY <1>7, <2>1, TableFilled
  <2> QED
    BY <1>9, <2>1, <2>2
<1>11. CASE q \in Entries(d)
  <2>1. r.ret = q.ret
    BY <1>7, <1>11, DiskFilled
  <2> QED
    BY <1>9, <1>11, <2>1
<1>12. CASE q \in Entries(l)
  BY <1>9, <1>12, FullIs
<1> QED
  BY <1>8, <1>10, <1>11, <1>12

(* A run of the local page is in the local history with the return it has   *)
(* on the page: the part of BestIsShown about the two views.                *)
LEMMA HistoryAgrees == BoardInv /\ KnownInv /\ AgreeInv => HistoryHasThePage
<1> SUFFICES ASSUME BoardInv, KnownInv, AgreeInv,
                    NEW r \in Entries(Page(TRUE, FALSE, {}, All)), r.run \in Run
             PROVE  <<r.run, r.ret>> \in {<<x.run, x.ret>> : x \in Entries(History(All))}
  BY DEF HistoryHasThePage
<1>1. PICK q : /\ (q \in Entries(rows) /\ q.provider = "local") \/ q \in Entries(FromDisk)
               /\ q.run = r.run /\ q.ret = r.ret
  BY LocalPage
<1>2. PICK z \in Entries(History(All)) :
        /\ z.run = q.run
        /\ (z \in Entries(rows) /\ z.provider = "local") \/ z \in Entries(FromDisk)
  BY <1>1, HistoryHas
<1>3. q.provider = "local" /\ z.provider = "local" /\ RunKey(z) = RunKey(q)
  <2>1. \A x \in Entries(FromDisk) : x.provider = "local"
    BY DiskFilled
  <2>2. q.provider = "local" /\ z.provider = "local"
    BY <1>1, <1>2, <2>1
  <2> QED
    BY <1>2, <2>2 DEF RunKey
<1>4. z.ret = q.ret
  <2>1. CASE q \in Entries(rows)
    BY <1>2, <1>3, <2>1, LocalAgrees
  <2>2. CASE z \in Entries(rows)
    BY <1>1, <1>3, <2>2, LocalAgrees
  <2>3. CASE q \in Entries(FromDisk) /\ z \in Entries(FromDisk)
    BY <1>2, <2>3, DiskFilled
  <2> QED
    BY <1>1, <1>2, <2>1, <2>2, <2>3
<1> QED
  BY <1>1, <1>2, <1>4

(* What is stored is what is shown, however many backtests, providers and   *)
(* results there are, and in whatever order they were published, posted and *)
(* deleted: the pages of get_leaderboard drop an outcome only for a cause,  *)
(* are the best rows as far as the query's limit lets them know, and agree  *)
(* with the history of get_provider_rows.                                   *)
THEOREM StoredIsShown == BoardSpec => []BestIsShown
<1>1. BoardInit => BoardInv /\ KnownInv /\ AgreeInv
  BY InitBoard, InitKnown, InitAgree
<1>2. BoardInv /\ KnownInv /\ AgreeInv /\ [BoardNext]_boardVars => BoardInv' /\ KnownInv' /\ AgreeInv'
  BY BoardStep, KnownStep, AgreeStep
<1>3. BoardInv /\ KnownInv /\ AgreeInv => BestIsShown
  BY HiddenRows, BestPages, HistoryAgrees DEF BestIsShown
<1> QED
  BY <1>1, <1>2, <1>3, PTL DEF BoardSpec

=============================================================================
