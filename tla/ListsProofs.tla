----------------------------- MODULE ListsProofs -----------------------------
(***************************************************************************)
(* What Lists leaves of a list, for every list.  The library's induction   *)
(* theorems take an operator; here induction is over the set of the numbers*)
(* a statement holds for.                                                  *)
(***************************************************************************)
EXTENDS Lists, WellFoundedInduction, TLAPS

\* A set of numbers that is not empty has a least one.
LEMMA LeastExists ==
  ASSUME NEW S \in SUBSET Nat, S # {}
  PROVE  \E i \in S : \A j \in S : i <= j
<1>1. PICK i \in S : \A j \in S : ~ (<<j, i>> \in OpToRel(<, Nat))
  BY NatLessThanWellFounded, WFMin
<1>2. \A j \in S : ~ (j < i)
  BY <1>1 DEF OpToRel
<1>. QED  BY <1>2

\* Induction up to a bound.
LEMMA InductionUpTo ==
  ASSUME NEW n \in Nat, NEW S, 0 \in S,
         \A i \in 0 .. n - 1 : i \in S => i + 1 \in S
  PROVE  \A i \in 0 .. n : i \in S
<1>. SUFFICES ASSUME NEW k \in 0 .. n, k \notin S PROVE FALSE
  OBVIOUS
<1>. DEFINE T == {i \in 0 .. n : i \notin S}
<1>1. T \in SUBSET Nat /\ T # {}
  OBVIOUS
<1>2. PICK x \in T : \A j \in T : x <= j
  BY <1>1, LeastExists
<1>3. x - 1 \in 0 .. n - 1 /\ x - 1 \in S
  BY <1>2
<1>. QED  BY <1>2, <1>3

\* u is what repeating the steps from a makes.
Repeats(u, n, a, step) == u[0] = a /\ \A i \in 1 .. n : u[i] = step[i][u[i - 1]]

\* A recursion over the numbers up to a bound has a solution.
LEMMA RecursionExists ==
  ASSUME NEW A, NEW n \in Nat, NEW a \in A, NEW step \in [1 .. n -> [A -> A]]
  PROVE  \E u \in [0 .. n -> A] : Repeats(u, n, a, step)
<1>. USE DEF Repeats
<1>. DEFINE Solves(u, m) == Repeats(u, m, a, step)
            T == {m \in 0 .. n : \E u \in [0 .. m -> A] : Solves(u, m)}
<1>1. 0 \in T
  <2>1. [i \in 0 .. 0 |-> a] \in [0 .. 0 -> A] /\ Solves([i \in 0 .. 0 |-> a], 0)
    OBVIOUS
  <2>. HIDE DEF Solves, Repeats
  <2>2. \E u \in [0 .. 0 -> A] : Solves(u, 0)
    BY <2>1
  <2>. QED  BY <2>2
<1>2. ASSUME NEW m \in 0 .. n - 1, m \in T PROVE m + 1 \in T
  <2>1. PICK u \in [0 .. m -> A] : Solves(u, m)
    BY <1>2
  <2>. DEFINE v == [i \in 0 .. m + 1 |-> IF i = m + 1 THEN step[m + 1][u[m]] ELSE u[i]]
  <2>2. v \in [0 .. m + 1 -> A]
    <3>1. step[m + 1][u[m]] \in A
      OBVIOUS
    <3>. QED  BY <3>1
  <2>3. ASSUME NEW i \in 1 .. m + 1 PROVE v[i] = step[i][v[i - 1]]
    <3>1. CASE i = m + 1
      BY <3>1
    <3>2. CASE i # m + 1
      BY <2>1, <3>2
    <3>. QED  BY <3>1, <3>2
  <2>4. Solves(v, m + 1)
    <3>1. v[0] = a
      BY <2>1
    <3>. HIDE DEF v
    <3>. QED  BY <2>3, <3>1
  <2>. HIDE DEF v, Solves, Repeats
  <2>. QED  BY <2>2, <2>4
<1>3. \A m \in 0 .. n : m \in T
  <2>. HIDE DEF T
  <2>. QED  BY <1>1, <1>2, InductionUpTo
<1>. QED  BY <1>3

\* u is what the filter has kept after each element.
Filters(u, s, S) ==
  /\ u[0] = <<>>
  /\ \A i \in 1 .. Len(s) : u[i] = IF s[i] \in S THEN Append(u[i - 1], s[i]) ELSE u[i - 1]
  /\ Kept(s, S) = u[Len(s)]

\* The recursion of Kept, unfolded.
LEMMA KeptRecursion ==
  ASSUME NEW X, NEW s \in Seq(X), NEW S
  PROVE  \E u \in [0 .. Len(s) -> Seq(X)] : Filters(u, s, S)
<1>. DEFINE N == Len(s)
            Step(l, i) == IF s[i] \in S THEN Append(l, s[i]) ELSE l
            step == [i \in 1 .. N |-> [l \in Seq(X) |-> Step(l, i)]]
            f == CHOOSE g : g = [i \in 0 .. N |-> IF i = 0 THEN <<>> ELSE Step(g[i - 1], i)]
<1>1. N \in Nat /\ \A i \in 1 .. N : s[i] \in X
  OBVIOUS
<1>2. \A i \in 1 .. N, l \in Seq(X) : Step(l, i) \in Seq(X)
  BY <1>1
<1>3. Kept(s, S) = f[N]
  BY DEF Kept
<1>4. <<>> \in Seq(X)
  OBVIOUS
<1>. HIDE DEF N, Step
<1>5. step \in [1 .. N -> [Seq(X) -> Seq(X)]]
  BY <1>2
<1>6. \E u \in [0 .. N -> Seq(X)] : u[0] = <<>> /\ \A i \in 1 .. N : u[i] = step[i][u[i - 1]]
  <2>. DEFINE L == Seq(X)
              nil == <<>>
  <2>1. N \in Nat
    BY <1>1
  <2>3. nil \in L
    BY <1>4
  <2>4. step \in [1 .. N -> [L -> L]]
    BY <1>5
  <2>. HIDE DEF step, L, nil, f
  <2>2. \E u \in [0 .. N -> L] : Repeats(u, N, nil, step)
    BY <2>1, <2>3, <2>4, RecursionExists
  <2>. QED  BY <2>2 DEF L, nil, Repeats
<1>7. PICK u \in [0 .. N -> Seq(X)] : u[0] = <<>> /\ \A i \in 1 .. N : u[i] = step[i][u[i - 1]]
  BY <1>6
<1>8. ASSUME NEW i \in 1 .. N PROVE u[i] = Step(u[i - 1], i)
  <2>1. u[i - 1] \in Seq(X)
    BY <1>1, <1>7
  <2>. QED  BY <2>1, <1>7
<1>. HIDE DEF step
<1>9. u = [i \in 0 .. N |-> IF i = 0 THEN <<>> ELSE Step(u[i - 1], i)]
  <2>1. \A i \in 0 .. N : i = 0 \/ i \in 1 .. N
    BY <1>1
  <2>. QED  BY <1>7, <1>8, <2>1
<1>10. f = [i \in 0 .. N |-> IF i = 0 THEN <<>> ELSE Step(f[i - 1], i)]
  BY <1>9
<1>. HIDE DEF f
<1>11. f = u
  <2>. DEFINE E == {i \in 0 .. N : f[i] = u[i]}
  <2>1. 0 \in E
    BY <1>1, <1>7, <1>10
  <2>2. ASSUME NEW i \in 0 .. N - 1, i \in E PROVE i + 1 \in E
    <3>1. i + 1 \in 1 .. N /\ (i + 1) - 1 = i /\ i + 1 # 0 /\ i + 1 \in 0 .. N
      BY <1>1
    <3>2. f[i + 1] = Step(f[i], i + 1)
      BY <1>10, <3>1
    <3>3. u[i + 1] = Step(u[i], i + 1)
      BY <1>8, <3>1
    <3>. QED  BY <2>2, <3>1, <3>2, <3>3
  <2>3. \A i \in 0 .. N : i \in E
    <3>. HIDE DEF E
    <3>. QED  BY <1>1, <2>1, <2>2, InductionUpTo
  <2>. QED  BY <2>3, <1>10, <1>7
<1>. QED  BY <1>3, <1>7, <1>8, <1>11 DEF N, Step, Filters

LEMMA AppendElements ==
  ASSUME NEW X, NEW l \in Seq(X), NEW x \in X
  PROVE  /\ Append(l, x) \in Seq(X)
         /\ Len(Append(l, x)) = Len(l) + 1
         /\ Elements(Append(l, x)) = Elements(l) \cup {x}
         /\ NoDuplicates(l) /\ x \notin Elements(l) => NoDuplicates(Append(l, x))
<1>. DEFINE a == Append(l, x)
<1>1. /\ a \in Seq(X) /\ Len(a) = Len(l) + 1 /\ Len(l) \in Nat
      /\ DOMAIN l = 1 .. Len(l) /\ DOMAIN a = 1 .. Len(l) + 1
      /\ \A i \in 1 .. Len(l) : a[i] = l[i]
      /\ a[Len(l) + 1] = x
  OBVIOUS
<1>. HIDE DEF a
<1>2. Elements(a) = Elements(l) \cup {x}
  <2>1. \A i \in DOMAIN a : a[i] \in Elements(l) \cup {x}
    BY <1>1 DEF Elements
  <2>2. \A i \in DOMAIN l : i \in DOMAIN a /\ a[i] = l[i]
    BY <1>1
  <2>3. Len(l) + 1 \in DOMAIN a
    BY <1>1
  <2>. QED  BY <1>1, <2>1, <2>2, <2>3 DEF Elements
<1>3. ASSUME NoDuplicates(l), x \notin Elements(l) PROVE NoDuplicates(a)
  <2>1. \A i \in 1 .. Len(l) : l[i] # x
    BY <1>1, <1>3 DEF Elements
  <2>. QED  BY <1>1, <1>3, <2>1 DEF NoDuplicates
<1>. QED  BY <1>1, <1>2, <1>3 DEF a

\* What Kept leaves: the elements in question, each as often as before.
LEMMA KeptProperties ==
  ASSUME NEW X, NEW s \in Seq(X), NEW S
  PROVE  /\ Kept(s, S) \in Seq(X)
         /\ Len(Kept(s, S)) <= Len(s)
         /\ Elements(Kept(s, S)) = Elements(s) \cap S
         /\ NoDuplicates(s) => NoDuplicates(Kept(s, S))
<1>. DEFINE N == Len(s)
            Before(i) == {s[j] : j \in 1 .. i}
<1>0. PICK u \in [0 .. N -> Seq(X)] : Filters(u, s, S)
  BY KeptRecursion
<1>1. /\ u \in [0 .. N -> Seq(X)] /\ u[0] = <<>>
      /\ \A i \in 1 .. N : u[i] = IF s[i] \in S THEN Append(u[i - 1], s[i]) ELSE u[i - 1]
      /\ Kept(s, S) = u[N]
  BY <1>0 DEF Filters
<1>2. N \in Nat /\ DOMAIN s = 1 .. N /\ \A i \in 1 .. N : s[i] \in X
  OBVIOUS
<1>. HIDE DEF N
<1>. DEFINE P(i) == /\ Len(u[i]) <= i
                    /\ Elements(u[i]) = Before(i) \cap S
                    /\ NoDuplicates(s) => NoDuplicates(u[i])
            T == {i \in 0 .. N : P(i)}
<1>3. 0 \in T
  <2>1. Len(u[0]) = 0 /\ Elements(u[0]) = {} /\ Before(0) = {} /\ NoDuplicates(u[0])
    BY <1>1 DEF Elements, NoDuplicates
  <2>. QED  BY <1>2, <2>1
<1>4. ASSUME NEW i \in 0 .. N - 1, i \in T PROVE i + 1 \in T
  <2>1. /\ i + 1 \in 1 .. N /\ (i + 1) - 1 = i /\ i \in 0 .. N /\ i \in Nat
        /\ s[i + 1] \in X /\ u[i] \in Seq(X)
    BY <1>1, <1>2
  <2>2. u[i + 1] = IF s[i + 1] \in S THEN Append(u[i], s[i + 1]) ELSE u[i]
    BY <1>1, <2>1
  <2>3. Before(i + 1) = Before(i) \cup {s[i + 1]}
    <3>1. 1 .. i + 1 = 1 .. i \cup {i + 1}
      BY <2>1
    <3>. QED  BY <3>1
  <2>4. NoDuplicates(s) => s[i + 1] \notin Before(i)
    <3>1. ASSUME NEW j \in 1 .. i PROVE j \in DOMAIN s /\ i + 1 \in DOMAIN s /\ j # i + 1
      BY <1>2, <2>1
    <3>. QED  BY <3>1 DEF NoDuplicates
  <2>. HIDE DEF Before
  <2>5. CASE s[i + 1] \in S
    <3>1. /\ Len(u[i + 1]) = Len(u[i]) + 1
          /\ Elements(u[i + 1]) = Elements(u[i]) \cup {s[i + 1]}
          /\ NoDuplicates(u[i]) /\ s[i + 1] \notin Elements(u[i]) => NoDuplicates(u[i + 1])
      BY <2>1, <2>2, <2>5, AppendElements
    <3>2. Len(u[i]) \in Nat
      BY <2>1
    <3>3. Len(u[i + 1]) <= i + 1
      BY <1>4, <2>1, <3>1, <3>2
    <3>. QED  BY <1>4, <2>1, <2>3, <2>4, <2>5, <3>1, <3>3
  <2>6. CASE s[i + 1] \notin S
    <3>1. u[i + 1] = u[i] /\ Len(u[i]) \in Nat
      BY <2>1, <2>2, <2>6
    <3>2. Len(u[i + 1]) <= i + 1
      BY <1>4, <2>1, <3>1
    <3>. QED  BY <1>4, <2>1, <2>3, <2>6, <3>1, <3>2
  <2>. QED  BY <2>5, <2>6
<1>5. N \in T
  <2>1. N \in Nat /\ N \in 0 .. N
    BY <1>2
  <2>. HIDE DEF T
  <2>2. \A i \in 0 .. N : i \in T
    BY <2>1, <1>3, <1>4, InductionUpTo
  <2>. QED  BY <2>1, <2>2
<1>6. Before(N) = Elements(s)
  BY <1>2 DEF Elements
<1>. QED  BY <1>1, <1>2, <1>5, <1>6 DEF N

\* The same of what is left when some elements are dropped.
LEMMA DroppedProperties ==
  ASSUME NEW X, NEW s \in Seq(X), NEW S
  PROVE  /\ Dropped(s, S) \in Seq(X)
         /\ Len(Dropped(s, S)) <= Len(s)
         /\ Elements(Dropped(s, S)) = Elements(s) \ S
         /\ NoDuplicates(s) => NoDuplicates(Dropped(s, S))
BY KeptProperties DEF Dropped

LEMMA ConcatElements ==
  ASSUME NEW X, NEW s \in Seq(X), NEW t \in Seq(X)
  PROVE  /\ s \o t \in Seq(X)
         /\ Elements(s \o t) = Elements(s) \cup Elements(t)
         /\ NoDuplicates(s) /\ NoDuplicates(t) /\ Elements(s) \cap Elements(t) = {}
              => NoDuplicates(s \o t)
<1>. DEFINE c == s \o t
            n == Len(s)
            m == Len(t)
<1>1. /\ c \in Seq(X) /\ n \in Nat /\ m \in Nat
      /\ DOMAIN c = 1 .. n + m /\ DOMAIN s = 1 .. n /\ DOMAIN t = 1 .. m
      /\ \A i \in 1 .. n : c[i] = s[i]
      /\ \A i \in 1 .. n + m : i > n => c[i] = t[i - n]
  OBVIOUS
<1>. HIDE DEF c, n, m
<1>2. \A i \in 1 .. n + m : i \in 1 .. n \/ (i > n /\ i - n \in 1 .. m)
  BY <1>1
<1>3. \A j \in 1 .. m : n + j \in 1 .. n + m /\ n + j > n /\ (n + j) - n = j
  BY <1>1
<1>4. \A i \in 1 .. n : i \in 1 .. n + m
  BY <1>1
<1>5. Elements(c) = Elements(s) \cup Elements(t)
  <2>1. ASSUME NEW i \in DOMAIN c PROVE c[i] \in Elements(s) \cup Elements(t)
    BY <1>1, <1>2 DEF Elements
  <2>2. ASSUME NEW i \in DOMAIN s PROVE s[i] \in Elements(c)
    BY <1>1, <1>4 DEF Elements
  <2>3. ASSUME NEW j \in DOMAIN t PROVE t[j] \in Elements(c)
    <3>1. c[n + j] = t[j] /\ n + j \in DOMAIN c
      BY <1>1, <1>3
    <3>. QED  BY <3>1 DEF Elements
  <2>. QED  BY <2>1, <2>2, <2>3 DEF Elements
<1>6. ASSUME NoDuplicates(s), NoDuplicates(t), Elements(s) \cap Elements(t) = {},
             NEW i \in DOMAIN c, NEW j \in DOMAIN c, c[i] = c[j]
      PROVE  i = j
  <2>1. CASE i \in 1 .. n /\ j \in 1 .. n
    BY <1>1, <1>6, <2>1 DEF NoDuplicates
  <2>2. CASE i > n /\ j > n
    <3>1. i - n \in 1 .. m /\ j - n \in 1 .. m /\ c[i] = t[i - n] /\ c[j] = t[j - n]
      BY <1>1, <1>2, <2>2
    <3>2. i - n = j - n
      BY <1>1, <1>6, <3>1 DEF NoDuplicates
    <3>. QED  BY <1>1, <3>2
  <2>3. ASSUME NEW a \in DOMAIN c, NEW b \in DOMAIN c, a \in 1 .. n, b > n PROVE c[a] # c[b]
    <3>1. c[a] = s[a] /\ c[b] = t[b - n] /\ b - n \in 1 .. m
      BY <1>1, <1>2, <2>3
    <3>2. c[a] \in Elements(s) /\ c[b] \in Elements(t)
      BY <1>1, <2>3, <3>1 DEF Elements
    <3>. QED  BY <1>6, <3>2
  <2>. QED  BY <1>1, <1>2, <1>6, <2>1, <2>2, <2>3
<1>. QED  BY <1>1, <1>5, <1>6 DEF c, NoDuplicates

\* What is kept is told by the elements that are to be kept.
LEMMA KeptSame ==
  ASSUME NEW X, NEW s \in Seq(X), NEW S, NEW T, Elements(s) \cap S = Elements(s) \cap T
  PROVE  Kept(s, S) = Kept(s, T)
<1>. DEFINE N == Len(s)
<1>1. PICK u \in [0 .. N -> Seq(X)] : Filters(u, s, S)
  BY KeptRecursion
<1>2. PICK v \in [0 .. N -> Seq(X)] : Filters(v, s, T)
  BY KeptRecursion
<1>3. N \in Nat /\ \A i \in 1 .. N : s[i] \in S <=> s[i] \in T
  BY DEF Elements
<1>. DEFINE E == {i \in 0 .. N : u[i] = v[i]}
<1>4. 0 \in E
  BY <1>1, <1>2, <1>3 DEF Filters
<1>5. ASSUME NEW i \in 0 .. N - 1, i \in E PROVE i + 1 \in E
  <2>1. i + 1 \in 1 .. N /\ (i + 1) - 1 = i /\ i + 1 \in 0 .. N
    BY <1>3
  <2>2. u[i + 1] = IF s[i + 1] \in S THEN Append(u[i], s[i + 1]) ELSE u[i]
    BY <1>1, <2>1 DEF Filters
  <2>3. v[i + 1] = IF s[i + 1] \in T THEN Append(v[i], s[i + 1]) ELSE v[i]
    BY <1>2, <2>1 DEF Filters
  <2>. QED  BY <1>3, <1>5, <2>1, <2>2, <2>3
<1>6. \A i \in 0 .. N : i \in E
  <2>. HIDE DEF E, N
  <2>. QED  BY <1>3, <1>4, <1>5, InductionUpTo
<1>. QED  BY <1>1, <1>2, <1>3, <1>6 DEF Filters

\* A list with more at its end: what is kept of the old part comes first.
LEMMA KeptConcat ==
  ASSUME NEW X, NEW s \in Seq(X), NEW t \in Seq(X), NEW S, Elements(t) \cap S = {}
  PROVE  Kept(s \o t, S) = Kept(s, S)
<1>. DEFINE c == s \o t
            n == Len(s)
            N == Len(c)
<1>0. n \in Nat /\ N \in Nat /\ n <= N
  OBVIOUS
<1>1. /\ c \in Seq(X)
      /\ \A i \in 1 .. n : c[i] = s[i]
      /\ \A i \in 1 .. N : i > n => c[i] \notin S
  BY DEF Elements
<1>2. PICK u \in [0 .. N -> Seq(X)] : Filters(u, c, S)
  BY <1>1, KeptRecursion
<1>3. PICK v \in [0 .. n -> Seq(X)] : Filters(v, s, S)
  BY KeptRecursion
<1>. HIDE DEF c, n, N
<1>. DEFINE E == {i \in 0 .. N : u[i] = v[IF i <= n THEN i ELSE n]}
<1>4. 0 \in E
  BY <1>0, <1>2, <1>3 DEF Filters
<1>5. ASSUME NEW i \in 0 .. N - 1, i \in E PROVE i + 1 \in E
  <2>1. i + 1 \in 1 .. N /\ (i + 1) - 1 = i /\ i + 1 \in 0 .. N /\ i \in Nat
    BY <1>0
  <2>2. u[i + 1] = IF c[i + 1] \in S THEN Append(u[i], c[i + 1]) ELSE u[i]
    BY <1>2, <2>1 DEF Filters, N
  <2>3. CASE i + 1 <= n
    <3>1. i + 1 \in 1 .. n /\ i <= n
      BY <1>0, <2>1, <2>3
    <3>2. v[i + 1] = IF s[i + 1] \in S THEN Append(v[i], s[i + 1]) ELSE v[i]
      BY <1>3, <2>1, <3>1 DEF Filters, n
    <3>. QED  BY <1>1, <1>5, <2>1, <2>2, <2>3, <3>1, <3>2
  <2>4. CASE ~(i + 1 <= n)
    <3>1. i + 1 > n /\ c[i + 1] \notin S /\ (IF i <= n THEN i ELSE n) = n
      BY <1>0, <1>1, <2>1, <2>4
    <3>. QED  BY <1>5, <2>1, <2>2, <2>4, <3>1
  <2>. QED  BY <2>3, <2>4
<1>6. \A i \in 0 .. N : i \in E
  <2>. HIDE DEF E
  <2>. QED  BY <1>0, <1>4, <1>5, InductionUpTo
<1>7. u[N] = v[n]
  <2>1. N \in E
    BY <1>0, <1>6
  <2>2. (IF N <= n THEN N ELSE n) = n
    BY <1>0
  <2>. QED  BY <2>1, <2>2
<1>. QED  BY <1>2, <1>3, <1>7 DEF Filters, c, n, N

LEMMA KeptAppend ==
  ASSUME NEW X, NEW s \in Seq(X), NEW x \in X, NEW S
  PROVE  Kept(Append(s, x), S) = IF x \in S THEN Append(Kept(s, S), x) ELSE Kept(s, S)
<1>. DEFINE c == Append(s, x)
            n == Len(s)
            N == Len(c)
<1>0. n \in Nat /\ N = n + 1
  OBVIOUS
<1>1. /\ c \in Seq(X)
      /\ \A i \in 1 .. n : c[i] = s[i]
      /\ c[n + 1] = x
  OBVIOUS
<1>2. PICK u \in [0 .. N -> Seq(X)] : Filters(u, c, S)
  BY <1>1, KeptRecursion
<1>3. PICK v \in [0 .. n -> Seq(X)] : Filters(v, s, S)
  BY KeptRecursion
<1>. HIDE DEF c, n, N
<1>. DEFINE E == {i \in 0 .. n : u[i] = v[i]}
<1>4. 0 \in E
  BY <1>0, <1>2, <1>3 DEF Filters
<1>5. ASSUME NEW i \in 0 .. n - 1, i \in E PROVE i + 1 \in E
  <2>1. i + 1 \in 1 .. N /\ (i + 1) - 1 = i /\ i + 1 \in 0 .. n /\ i + 1 \in 1 .. n
    BY <1>0
  <2>2. u[i + 1] = IF c[i + 1] \in S THEN Append(u[i], c[i + 1]) ELSE u[i]
    BY <1>2, <2>1 DEF Filters, N
  <2>3. v[i + 1] = IF s[i + 1] \in S THEN Append(v[i], s[i + 1]) ELSE v[i]
    BY <1>3, <2>1 DEF Filters, n
  <2>. QED  BY <1>1, <1>5, <2>1, <2>2, <2>3
<1>6. u[n] = v[n]
  <2>. HIDE DEF E
  <2>1. \A i \in 0 .. n : i \in E
    BY <1>0, <1>4, <1>5, InductionUpTo
  <2>. QED  BY <1>0, <2>1 DEF E
<1>7. u[N] = IF x \in S THEN Append(u[n], x) ELSE u[n]
  <2>1. N \in 1 .. N /\ N - 1 = n /\ N = n + 1
    BY <1>0
  <2>2. u[N] = IF c[N] \in S THEN Append(u[N - 1], c[N]) ELSE u[N - 1]
    BY <1>2, <2>1 DEF Filters, N
  <2>. QED  BY <1>1, <2>1, <2>2
<1>. QED  BY <1>2, <1>3, <1>6, <1>7 DEF Filters, c, n, N

\* To keep some of what was kept.
LEMMA KeptKept ==
  ASSUME NEW X, NEW s \in Seq(X), NEW S, NEW T
  PROVE  Kept(Kept(s, S), T) = Kept(s, S \cap T)
<1>. DEFINE N == Len(s)
<1>1. PICK u \in [0 .. N -> Seq(X)] : Filters(u, s, S)
  BY KeptRecursion
<1>2. PICK v \in [0 .. N -> Seq(X)] : Filters(v, s, S \cap T)
  BY KeptRecursion
<1>3. N \in Nat /\ \A i \in 1 .. N : s[i] \in X
  OBVIOUS
<1>. DEFINE E == {i \in 0 .. N : Kept(u[i], T) = v[i]}
<1>4. 0 \in E
  <2>. DEFINE nil == <<>>
  <2>1. u[0] = nil /\ v[0] = nil /\ nil \in Seq(X)
    BY <1>1, <1>2 DEF Filters
  <2>2. PICK w \in [0 .. Len(nil) -> Seq(X)] : Filters(w, nil, T)
    <3>. HIDE DEF nil
    <3>. QED  BY <2>1, KeptRecursion
  <2>3. Kept(nil, T) = nil
    BY <2>2 DEF Filters
  <2>. QED  BY <1>3, <2>1, <2>3
<1>5. ASSUME NEW i \in 0 .. N - 1, i \in E PROVE i + 1 \in E
  <2>1. i + 1 \in 1 .. N /\ (i + 1) - 1 = i /\ i + 1 \in 0 .. N
    BY <1>3
  <2>2. u[i + 1] = IF s[i + 1] \in S THEN Append(u[i], s[i + 1]) ELSE u[i]
    BY <1>1, <2>1 DEF Filters
  <2>3. v[i + 1] = IF s[i + 1] \in S \cap T THEN Append(v[i], s[i + 1]) ELSE v[i]
    BY <1>2, <2>1 DEF Filters
  <2>4. u[i] \in Seq(X) /\ s[i + 1] \in X
    BY <1>1, <1>3, <2>1
  <2>5. Kept(Append(u[i], s[i + 1]), T)
          = IF s[i + 1] \in T THEN Append(Kept(u[i], T), s[i + 1]) ELSE Kept(u[i], T)
    <3>. DEFINE l == u[i]
                x == s[i + 1]
    <3>1. l \in Seq(X) /\ x \in X
      BY <2>4
    <3>. HIDE DEF l, x
    <3>2. Kept(Append(l, x), T) = IF x \in T THEN Append(Kept(l, T), x) ELSE Kept(l, T)
      BY <3>1, KeptAppend
    <3>. QED  BY <3>2 DEF l, x
  <2>. QED  BY <1>5, <2>1, <2>2, <2>3, <2>5
<1>6. \A i \in 0 .. N : i \in E
  <2>. HIDE DEF E, N
  <2>. QED  BY <1>3, <1>4, <1>5, InductionUpTo
<1>. QED  BY <1>1, <1>2, <1>3, <1>6 DEF Filters

LEMMA DropNone == ASSUME NEW X, NEW x \in X PROVE Dropped(<<x>>, {}) = <<x>>
<1>. DEFINE nil == <<>>
            one == <<x>>
<1>1. nil \in Seq(X) /\ Len(nil) = 0 /\ one = Append(nil, x)
  OBVIOUS
<1>2. Elements(one) = {x}
  BY DEF Elements
<1>3. PICK u \in [0 .. Len(nil) -> Seq(X)] : Filters(u, nil, {x})
  <2>. HIDE DEF nil
  <2>. QED  BY <1>1, KeptRecursion
<1>4. Kept(nil, {x}) = nil
  BY <1>1, <1>3 DEF Filters
<1>5. Kept(Append(nil, x), {x}) = Append(Kept(nil, {x}), x)
  <2>. HIDE DEF nil
  <2>. QED  BY <1>1, KeptAppend
<1>6. {x} \ {} = {x}
  OBVIOUS
<1>7. Dropped(one, {}) = Kept(one, {x})
  BY <1>2, <1>6 DEF Dropped
<1>. HIDE DEF nil
<1>8. Dropped(one, {}) = one
  BY <1>1, <1>4, <1>5, <1>7
<1>. QED  BY <1>8

\* An x comes before a y.
Precedes(s, x, y) == \E i, j \in DOMAIN s : i < j /\ s[i] = x /\ s[j] = y

LEMMA AppendPrecedes ==
  ASSUME NEW X, NEW l \in Seq(X), NEW z \in X, NEW x, NEW y
  PROVE  Precedes(Append(l, z), x, y) <=> Precedes(l, x, y) \/ (x \in Elements(l) /\ y = z)
<1>. DEFINE a == Append(l, z)
<1>1. /\ Len(l) \in Nat /\ DOMAIN l = 1 .. Len(l) /\ DOMAIN a = 1 .. Len(l) + 1
      /\ \A i \in 1 .. Len(l) : a[i] = l[i]
      /\ a[Len(l) + 1] = z
  OBVIOUS
<1>. HIDE DEF a
<1>2. ASSUME NEW i \in DOMAIN a, NEW j \in DOMAIN a, i < j, a[i] = x, a[j] = y
      PROVE  Precedes(l, x, y) \/ (x \in Elements(l) /\ y = z)
  <2>1. CASE j = Len(l) + 1
    BY <1>1, <1>2, <2>1 DEF Elements
  <2>2. CASE j # Len(l) + 1
    BY <1>1, <1>2, <2>2 DEF Precedes
  <2>. QED  BY <2>1, <2>2
<1>3. ASSUME Precedes(l, x, y) PROVE Precedes(a, x, y)
  BY <1>1, <1>3 DEF Precedes
<1>4. ASSUME x \in Elements(l), y = z PROVE Precedes(a, x, y)
  <2>1. PICK i \in 1 .. Len(l) : l[i] = x
    BY <1>1, <1>4 DEF Elements
  <2>2. i \in DOMAIN a /\ Len(l) + 1 \in DOMAIN a /\ i < Len(l) + 1 /\ a[i] = x
    BY <1>1, <2>1
  <2>. QED  BY <1>1, <1>4, <2>2 DEF Precedes
<1>. QED  BY <1>2, <1>3, <1>4 DEF Precedes, a

\* What Kept leaves is in the order it was in.
LEMMA KeptInOrder ==
  ASSUME NEW X, NEW s \in Seq(X), NEW S, NEW x, NEW y, Precedes(Kept(s, S), x, y)
  PROVE  Precedes(s, x, y)
<1>. DEFINE N == Len(s)
            Upto(i) == {s[j] : j \in 1 .. i}
            Within(i) == \E j, k \in 1 .. i : j < k /\ s[j] = x /\ s[k] = y
<1>0. PICK u \in [0 .. N -> Seq(X)] : Filters(u, s, S)
  BY KeptRecursion
<1>1. /\ u \in [0 .. N -> Seq(X)] /\ u[0] = <<>>
      /\ \A i \in 1 .. N : u[i] = IF s[i] \in S THEN Append(u[i - 1], s[i]) ELSE u[i - 1]
      /\ Kept(s, S) = u[N]
  BY <1>0 DEF Filters
<1>2. N \in Nat /\ DOMAIN s = 1 .. N /\ \A i \in 1 .. N : s[i] \in X
  OBVIOUS
<1>. HIDE DEF N
<1>. DEFINE P(i) == Elements(u[i]) \subseteq Upto(i) /\ (Precedes(u[i], x, y) => Within(i))
            T == {i \in 0 .. N : P(i)}
<1>3. 0 \in T
  <2>1. Elements(u[0]) = {} /\ ~Precedes(u[0], x, y)
    BY <1>1 DEF Elements, Precedes
  <2>. QED  BY <1>2, <2>1
<1>4. ASSUME NEW i \in 0 .. N - 1, i \in T PROVE i + 1 \in T
  <2>1. /\ i + 1 \in 1 .. N /\ (i + 1) - 1 = i /\ i \in 0 .. N /\ i \in Nat
        /\ s[i + 1] \in X /\ u[i] \in Seq(X)
    BY <1>1, <1>2
  <2>2. u[i + 1] = IF s[i + 1] \in S THEN Append(u[i], s[i + 1]) ELSE u[i]
    BY <1>1, <2>1
  <2>3. Upto(i) \subseteq Upto(i + 1) /\ s[i + 1] \in Upto(i + 1)
    BY <2>1
  <2>4. Within(i) => Within(i + 1)
    BY <2>1
  <2>5. x \in Upto(i) /\ y = s[i + 1] => Within(i + 1)
    BY <2>1
  <2>. HIDE DEF Upto, Within
  <2>6. CASE s[i + 1] \in S
    <3>1. /\ Elements(u[i + 1]) = Elements(u[i]) \cup {s[i + 1]}
          /\ Precedes(u[i + 1], x, y)
               <=> Precedes(u[i], x, y) \/ (x \in Elements(u[i]) /\ y = s[i + 1])
      BY <2>1, <2>2, <2>6, AppendElements, AppendPrecedes
    <3>. QED  BY <1>4, <2>1, <2>3, <2>4, <2>5, <3>1
  <2>7. CASE s[i + 1] \notin S
    BY <1>4, <2>1, <2>2, <2>3, <2>4, <2>7
  <2>. QED  BY <2>6, <2>7
<1>5. N \in T
  <2>1. N \in Nat /\ N \in 0 .. N
    BY <1>2
  <2>. HIDE DEF T
  <2>2. \A i \in 0 .. N : i \in T
    BY <2>1, <1>3, <1>4, InductionUpTo
  <2>. QED  BY <2>1, <2>2
<1>6. Within(N) => Precedes(s, x, y)
  BY <1>2 DEF Precedes
<1>. QED  BY <1>1, <1>5, <1>6
=============================================================================
