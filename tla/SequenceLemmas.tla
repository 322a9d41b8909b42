--------------------------- MODULE SequenceLemmas ---------------------------
(***************************************************************************)
(* Facts about recursive functions, and about FlattenSeq for every         *)
(* sequence of sequences.  That a function defined by recursion exists,    *)
(* and what it is, is proved by induction in the form of a least           *)
(* counterexample.                                                         *)
(***************************************************************************)
EXTENDS SequencesExt, Integers, WellFoundedInduction, SequenceTheorems,
        FiniteSetTheorems, TLAPS

\* A set of natural numbers has a least element.
LEMMA LeastElement ==
    ASSUME NEW T, T \subseteq Nat, T # {}
    PROVE  \E n \in T : \A k \in T : n <= k
<1>1. \E n \in T : \A k \in T : ~(<<k, n>> \in OpToRel(<, Nat))
  BY NatLessThanWellFounded, WFMin, Zenon
<1>2. OpToRel(<, Nat) = {ss \in Nat \X Nat : ss[1] < ss[2]}
  BY Zenon DEF OpToRel
<1>3. PICK n \in T : \A k \in T : ~(<<k, n>> \in {ss \in Nat \X Nat : ss[1] < ss[2]})
  BY <1>1, <1>2, Zenon
<1>4. \A k \in T : ~(k < n)
  BY <1>3
<1> QED
  BY <1>4

\* Induction for a property given as a set of numbers.
LEMMA SetInduction ==
    ASSUME NEW T, 0 \in T, \A n \in Nat : n \in T => n + 1 \in T
    PROVE  Nat \subseteq T
<1> DEFINE Bad == {n \in Nat : n \notin T}
<1> SUFFICES ASSUME Bad # {} PROVE FALSE
  OBVIOUS
<1>1. PICK n \in Bad : \A k \in Bad : n <= k
  BY LeastElement, Bad \subseteq Nat
<1>2. n \in Nat /\ n # 0
  OBVIOUS
<1>3. n - 1 \in Nat /\ n - 1 \notin Bad
  <2> HIDE DEF Bad
  <2> QED
    BY <1>1, <1>2
<1>4. n - 1 \in T
  BY <1>3
<1>5. (n - 1) + 1 \in T
  BY <1>3, <1>4
<1> QED
  BY <1>2, <1>5

\* Primitive recursion over 0..n, from c and in S.
Recurses(S, n, c, F) ==
    \E f \in [0..n -> S] : f[0] = c /\ \A k \in 1..n : f[k] = F[<<k, f[k - 1]>>]

\* There is such a function.
LEMMA RecursionIn ==
    ASSUME NEW S, NEW n \in Nat, NEW c \in S, NEW F \in [(1..n) \X S -> S]
    PROVE  Recurses(S, n, c, F)
<1> DEFINE G(m) == \E f \in [0..m -> S] :
                       f[0] = c /\ \A k \in 1..m : f[k] = F[<<k, f[k - 1]>>]
           Good == {m \in Nat : m <= n => G(m)}
<1>1. 0 \in Good
  <2> DEFINE f == [k \in 0..0 |-> c]
  <2>1. f \in [0..0 -> S] /\ f[0] = c /\ \A k \in 1..0 : f[k] = F[<<k, f[k - 1]>>]
    OBVIOUS
  <2> QED
    BY <2>1
<1>2. ASSUME NEW m \in Nat, m \in Good PROVE m + 1 \in Good
  <2> SUFFICES ASSUME m + 1 <= n PROVE G(m + 1)
    OBVIOUS
  <2>1. PICK f \in [0..m -> S] :
            f[0] = c /\ \A k \in 1..m : f[k] = F[<<k, f[k - 1]>>]
    BY <1>2
  <2> DEFINE g == [k \in 0..(m + 1) |-> IF k = m + 1 THEN F[<<m + 1, f[m]>>] ELSE f[k]]
  <2>2. F[<<m + 1, f[m]>>] \in S
    BY <2>1
  <2>3. g \in [0..(m + 1) -> S] /\ g[0] = c
    BY <2>1, <2>2
  <2>4. ASSUME NEW k \in 1..(m + 1) PROVE g[k] = F[<<k, g[k - 1]>>]
    <3>1. k - 1 \in 0..m /\ k - 1 # m + 1 /\ k - 1 \in 0..(m + 1)
      OBVIOUS
    <3>4. g[k - 1] = f[k - 1]
      BY <3>1
    <3>2. CASE k = m + 1
      <4>1. g[k] = F[<<m + 1, f[m]>>] /\ k - 1 = m
        BY <3>2
      <4> HIDE DEF g
      <4> QED
        BY <4>1, <3>2, <3>4
    <3>3. CASE k # m + 1
      <4>1. k \in 1..m /\ g[k] = f[k]
        BY <3>3
      <4> QED
        BY <4>1, <3>4, <2>1
    <3> QED
      BY <3>2, <3>3
  <2> HIDE DEF g
  <2> QED
    BY <2>3, <2>4
<1>3. Nat \subseteq Good
  <2> HIDE DEF Good
  <2> QED
    BY <1>1, <1>2, SetInduction
<1>4. n \in Good
  <2> HIDE DEF Good
  <2> QED
    BY <1>3
<1>5. G(n)
  <2> HIDE DEF G
  <2> QED
    BY <1>4
<1> QED
  BY <1>5 DEF Recurses

\* In integers.
LEMMA RecursionFrom ==
    ASSUME NEW n \in Nat, NEW c \in Int, NEW F \in [(1..n) \X Int -> Int]
    PROVE  \E f \in [0..n -> Int] :
               f[0] = c /\ \A k \in 1..n : f[k] = F[<<k, f[k - 1]>>]
<1>1. Recurses(Int, n, c, F)
  BY RecursionIn
<1> QED
  BY <1>1 DEF Recurses

\* From 0.
LEMMA RecursionExists ==
    ASSUME NEW n \in Nat, NEW F \in [(1..n) \X Int -> Int]
    PROVE  \E f \in [0..n -> Int] :
               f[0] = 0 /\ \A k \in 1..n : f[k] = F[<<k, f[k - 1]>>]
BY RecursionFrom, 0 \in Int, Zenon

\* What a loop starts with and every round keeps, it ends with.
LEMMA RoundByRound ==
    ASSUME NEW n \in Nat, NEW P,
           0 \in P, \A k \in 1..n : k - 1 \in P => k \in P
    PROVE  \A k \in 0..n : k \in P
<1> DEFINE Good == {k \in Nat : k <= n => k \in P}
<1>1. 0 \in Good
  OBVIOUS
<1>2. ASSUME NEW k \in Nat, k \in Good PROVE k + 1 \in Good
  <2>1. ASSUME k + 1 <= n PROVE k + 1 \in 1..n /\ (k + 1) - 1 = k /\ k \in P
    BY <1>2, <2>1
  <2> QED
    BY <2>1
<1>3. Nat \subseteq Good
  <2> HIDE DEF Good
  <2> QED
    BY <1>1, <1>2, SetInduction
<1> QED
  BY <1>3

\* What Append makes.
Appended(T, u, x) ==
    /\ Append(u, x) \in Seq(T) /\ Len(Append(u, x)) = Len(u) + 1
    /\ \A i \in 1..(Len(u) + 1) : Append(u, x)[i] = IF i = Len(u) + 1 THEN x ELSE u[i]

LEMMA AppendIs ==
    ASSUME NEW T, NEW u \in Seq(T), NEW x \in T
    PROVE  Appended(T, u, x)
BY DEF Appended

\* What a concatenation is.
Joined(T, s, u) ==
    /\ s \o u \in Seq(T) /\ Len(s \o u) = Len(s) + Len(u)
    /\ \A i \in 1..Len(s) : (s \o u)[i] = s[i]
    /\ \A i \in 1..Len(u) : (s \o u)[Len(s) + i] = u[i]

LEMMA JoinIs ==
    ASSUME NEW T, NEW s \in Seq(T), NEW u \in Seq(T)
    PROVE  Joined(T, s, u)
BY DEF Joined

\* f adds up T step by step, modulo m.
AddsUp(f, T, m, n) ==
    f = [k \in 0..n |-> IF k = 0 THEN 0 ELSE (f[k - 1] + T[k]) % m]

\* There is such a function, and its values are residues.
LEMMA ResidueSums ==
    ASSUME NEW n \in Nat, NEW m \in Nat \ {0}, NEW T \in [1..n -> Nat]
    PROVE  /\ \E f : AddsUp(f, T, m, n)
           /\ \A f : AddsUp(f, T, m, n) =>
                  /\ f \in [0..n -> 0..(m - 1)]
                  /\ f[0] = 0
                  /\ \A k \in 1..n : f[k] = (f[k - 1] + T[k]) % m
<1> DEFINE F == [p \in (1..n) \X Int |-> (p[2] + T[p[1]]) % m]
<1>1. \A s \in Int, t \in Nat : (s + t) % m \in 0..(m - 1)
  OBVIOUS
<1>2. F \in [(1..n) \X Int -> Int]
  <2> SUFFICES ASSUME NEW p \in (1..n) \X Int PROVE (p[2] + T[p[1]]) % m \in Int
    OBVIOUS
  <2>1. p[2] \in Int /\ T[p[1]] \in Nat
    OBVIOUS
  <2> QED
    BY <1>1, <2>1
<1>3. PICK g \in [0..n -> Int] : g[0] = 0 /\ \A k \in 1..n : g[k] = F[<<k, g[k - 1]>>]
  <2> HIDE DEF F
  <2> QED
    BY <1>2, RecursionExists
<1>4. \A k \in 1..n : g[k] = (g[k - 1] + T[k]) % m
  <2> SUFFICES ASSUME NEW k \in 1..n PROVE g[k] = (g[k - 1] + T[k]) % m
    OBVIOUS
  <2>1. <<k, g[k - 1]>> \in (1..n) \X Int
    BY <1>3
  <2> QED
    BY <1>3, <2>1
<1>5. AddsUp(g, T, m, n)
  <2>1. \A k \in 0..n : g[k] = IF k = 0 THEN 0 ELSE (g[k - 1] + T[k]) % m
    BY <1>3, <1>4
  <2> QED
    BY <1>3, <2>1, Zenon DEF AddsUp
<1>6. ASSUME NEW f, AddsUp(f, T, m, n)
      PROVE  /\ f \in [0..n -> 0..(m - 1)]
             /\ f[0] = 0
             /\ \A k \in 1..n : f[k] = (f[k - 1] + T[k]) % m
  <2>1. \A k \in 0..n : f[k] = IF k = 0 THEN 0 ELSE (f[k - 1] + T[k]) % m
    BY <1>6, Zenon DEF AddsUp
  <2>2. f = [k \in 0..n |-> f[k]]
    BY <1>6, Zenon DEF AddsUp
  <2>3. f[0] = 0 /\ \A k \in 1..n : f[k] = (f[k - 1] + T[k]) % m
    <3>1. 0 \in 0..n /\ \A k \in 1..n : k \in 0..n /\ k # 0
      OBVIOUS
    <3> QED
      BY <2>1, <3>1
  <2> DEFINE Good == {k \in Nat : k <= n => f[k] \in 0..(m - 1)}
  <2>4. 0 \in Good
    BY <2>3
  <2>5. ASSUME NEW k \in Nat, k \in Good PROVE k + 1 \in Good
    <3> SUFFICES ASSUME k + 1 <= n PROVE f[k + 1] \in 0..(m - 1)
      OBVIOUS
    <3>1. k + 1 \in 1..n /\ (k + 1) - 1 = k /\ f[k] \in Nat /\ T[k + 1] \in Nat
      BY <2>5
    <3>2. f[k + 1] = (f[k] + T[k + 1]) % m
      BY <2>3, <3>1
    <3>3. f[k] \in Int
      BY <3>1
    <3>4. (f[k] + T[k + 1]) % m \in 0..(m - 1)
      BY <1>1, <3>1, <3>3, Zenon
    <3> QED
      BY <3>2, <3>4, Zenon
  <2>6. Nat \subseteq Good
    <3> HIDE DEF Good
    <3> QED
      BY <2>4, <2>5, SetInduction
  <2>7. \A k \in 0..n : f[k] \in 0..(m - 1)
    BY <2>6
  <2> QED
    BY <2>2, <2>3, <2>7
<1> QED
  BY <1>5, <1>6

\* f collects the numbers of P one by one, as a loop that appends does.
Collects(f, P, n) ==
    f = [k \in 0..n |-> IF k = 0 THEN <<>>
                         ELSE IF k \in P THEN Append(f[k - 1], k) ELSE f[k - 1]]

\* How many numbers of P there are up to k.
CountTo(P, k) == Cardinality({j \in 1..k : j \in P})

LEMMA CountStep ==
    ASSUME NEW P, NEW k \in Nat
    PROVE  /\ CountTo(P, k) \in Nat
           /\ CountTo(P, 0) = 0
           /\ CountTo(P, k + 1) = IF k + 1 \in P THEN CountTo(P, k) + 1 ELSE CountTo(P, k)
<1> DEFINE Upto(i) == {j \in 1..i : j \in P}
<1>1. \A i \in Nat : IsFiniteSet(Upto(i))
  <2> SUFFICES ASSUME NEW i \in Nat PROVE IsFiniteSet(Upto(i))
    OBVIOUS
  <2>1. IsFiniteSet(1..i)
    BY FS_Interval
  <2> QED
    BY <2>1, FS_Subset, Upto(i) \subseteq 1..i
<1>2. Cardinality(Upto(k)) \in Nat
  BY <1>1, FS_CardinalityType
<1>3. Cardinality(Upto(0)) = 0
  BY FS_EmptySet, Upto(0) = {}
<1>4. CASE k + 1 \in P
  <2>1. Upto(k + 1) = Upto(k) \union {k + 1} /\ k + 1 \notin Upto(k)
    BY <1>4
  <2>2. Cardinality(Upto(k + 1)) = Cardinality(Upto(k)) + 1
    BY <1>1, <2>1, FS_AddElement
  <2> QED
    BY <1>2, <1>3, <1>4, <2>2 DEF CountTo
<1>5. CASE k + 1 \notin P
  <2>1. Upto(k + 1) = Upto(k)
    BY <1>5
  <2> QED
    BY <1>2, <1>3, <1>5, <2>1 DEF CountTo
<1> QED
  BY <1>4, <1>5

\* There is such a function; a number of P stands in its last value where it
\* comes among those of P.
LEMMA Collection ==
    ASSUME NEW P, NEW n \in Nat
    PROVE  /\ \E f : Collects(f, P, n)
           /\ \A f : Collects(f, P, n) =>
                  \A i \in 1..n : i \in P =>
                      CountTo(P, i) \in 1..Len(f[n]) /\ f[n][CountTo(P, i)] = i
<1>1. \E f : Collects(f, P, n)
  <2> DEFINE Good == {m \in Nat : \E f : Collects(f, P, m)}
  <2>1. 0 \in Good
    <3> DEFINE f == [k \in 0..0 |-> <<>>]
    <3>1. f = [k \in 0..0 |-> IF k = 0 THEN <<>>
                               ELSE IF k \in P THEN Append(f[k - 1], k) ELSE f[k - 1]]
      OBVIOUS
    <3> QED
      BY <3>1 DEF Collects
  <2>2. ASSUME NEW m \in Nat, m \in Good PROVE m + 1 \in Good
    <3>1. PICK f : Collects(f, P, m)
      BY <2>2
    <3> DEFINE last == IF m + 1 \in P THEN Append(f[m], m + 1) ELSE f[m]
               g == [k \in 0..(m + 1) |-> IF k = m + 1 THEN last ELSE f[k]]
    <3>2. \A k \in 0..m : f[k] = IF k = 0 THEN <<>>
                                  ELSE IF k \in P THEN Append(f[k - 1], k) ELSE f[k - 1]
      BY <3>1, Zenon DEF Collects
    <3>3. ASSUME NEW k \in 0..(m + 1)
          PROVE  g[k] = IF k = 0 THEN <<>>
                        ELSE IF k \in P THEN Append(g[k - 1], k) ELSE g[k - 1]
      <4>1. CASE k = m + 1
        <5>1. k # 0 /\ k - 1 = m /\ k - 1 \in 0..(m + 1) /\ k - 1 # m + 1 /\ m \in 0..(m + 1)
          BY <4>1
        <5>2. g[k] = last /\ g[k - 1] = f[m]
          BY <4>1, <5>1
        <5> HIDE DEF g
        <5> QED
          BY <4>1, <5>1, <5>2
      <4>2. CASE k # m + 1
        <5>1. k \in 0..m /\ (k # 0 => k - 1 \in 0..m /\ k - 1 # m + 1 /\ k - 1 \in 0..(m + 1))
          BY <4>2
        <5>2. g[k] = f[k] /\ (k # 0 => g[k - 1] = f[k - 1])
          BY <4>2, <5>1
        <5> HIDE DEF g
        <5> QED
          BY <3>2, <5>1, <5>2
      <4> QED
        BY <4>1, <4>2
    <3>4. g = [k \in 0..(m + 1) |-> g[k]]
      BY Zenon
    <3> HIDE DEF g
    <3>5. Collects(g, P, m + 1)
      BY <3>3, <3>4, Zenon DEF Collects
    <3> QED
      BY <3>5
  <2>3. Nat \subseteq Good
    <3> HIDE DEF Good
    <3> QED
      BY <2>1, <2>2, SetInduction
  <2> QED
    BY <2>3
<1>2. ASSUME NEW f, Collects(f, P, n)
      PROVE  \A i \in 1..n : i \in P =>
                 CountTo(P, i) \in 1..Len(f[n]) /\ f[n][CountTo(P, i)] = i
  <2>0. \A k \in 0..n : f[k] = IF k = 0 THEN <<>>
                                ELSE IF k \in P THEN Append(f[k - 1], k) ELSE f[k - 1]
    BY <1>2, Zenon DEF Collects
  <2> DEFINE Holds(k) == /\ f[k] \in Seq(Nat)
                         /\ Len(f[k]) = CountTo(P, k)
                         /\ \A i \in 1..k : i \in P =>
                                CountTo(P, i) \in 1..Len(f[k]) /\ f[k][CountTo(P, i)] = i
             Good == {k \in Nat : k <= n => Holds(k)}
  <2>1. 0 \in Good
    <3>1. f[0] = <<>>
      BY <2>0
    <3>2. CountTo(P, 0) = 0
      BY CountStep
    <3>3. f[0] \in Seq(Nat) /\ Len(f[0]) = 0
      BY <3>1
    <3> QED
      BY <3>2, <3>3
  <2>2. ASSUME NEW k \in Nat, k \in Good PROVE k + 1 \in Good
    <3> SUFFICES ASSUME k + 1 <= n PROVE Holds(k + 1)
      OBVIOUS
    <3>1. /\ f[k] \in Seq(Nat)
          /\ Len(f[k]) = CountTo(P, k)
          /\ \A i \in 1..k : i \in P =>
                 CountTo(P, i) \in 1..Len(f[k]) /\ f[k][CountTo(P, i)] = i
      BY <2>2
    <3>2. f[k + 1] = IF k + 1 \in P THEN Append(f[k], k + 1) ELSE f[k]
      <4>1. k + 1 \in 0..n /\ k + 1 # 0 /\ (k + 1) - 1 = k
        OBVIOUS
      <4> QED
        BY <2>0, <4>1
    <3>3. /\ CountTo(P, k) \in Nat
          /\ CountTo(P, k + 1) = IF k + 1 \in P THEN CountTo(P, k) + 1 ELSE CountTo(P, k)
      BY CountStep
    <3>4. \A i \in 1..(k + 1) : i \in 1..k \/ i = k + 1
      OBVIOUS
    <3> HIDE DEF Good
    <3>5. CASE k + 1 \in P
      <4>1. /\ f[k + 1] \in Seq(Nat)
            /\ Len(f[k + 1]) = Len(f[k]) + 1
            /\ \A i \in 1..Len(f[k]) : f[k + 1][i] = f[k][i]
            /\ f[k + 1][Len(f[k]) + 1] = k + 1
        BY <3>1, <3>2, <3>5, AppendProperties
      <4>2. ASSUME NEW i \in 1..(k + 1), i \in P
            PROVE  CountTo(P, i) \in 1..Len(f[k + 1]) /\ f[k + 1][CountTo(P, i)] = i
        <5>1. CASE i \in 1..k
          <6>1. CountTo(P, i) \in 1..Len(f[k]) /\ f[k][CountTo(P, i)] = i
            BY <3>1, <4>2, <5>1
          <6>2. CountTo(P, i) \in 1..Len(f[k + 1])
            <7>1. Len(f[k]) \in Nat
              BY <3>1
            <7> QED
              BY <4>1, <6>1, <7>1
          <6>3. f[k + 1][CountTo(P, i)] = f[k][CountTo(P, i)]
            BY <4>1, <6>1
          <6> QED
            BY <6>1, <6>2, <6>3
        <5>2. CASE i = k + 1
          BY <3>1, <3>3, <3>5, <4>1, <5>2
        <5> QED
          BY <3>4, <5>1, <5>2
      <4> QED
        BY <3>1, <3>3, <3>5, <4>1, <4>2
    <3>6. CASE k + 1 \notin P
      BY <3>1, <3>2, <3>3, <3>4, <3>6
    <3> QED
      BY <3>5, <3>6
  <2>3. Nat \subseteq Good
    <3> HIDE DEF Good
    <3> QED
      BY <2>1, <2>2, SetInduction
  <2>4. Holds(n)
    <3> HIDE DEF Holds
    <3> QED
      BY <2>3
  <2> QED
    BY <2>4
<1> QED
  BY <1>1, <1>2

\* f is the function FlattenSeq defines by recursion, on the first n numbers.
Concatenates(f, s, n) ==
    f = [i \in 1..n |-> IF i = 1 THEN s[i] ELSE f[i - 1] \o s[i]]

\* There is such a function.
LEMMA ConcatenationExists ==
    ASSUME NEW s, NEW n \in Nat
    PROVE  \E f : Concatenates(f, s, n)
<1> DEFINE G(m) == \E f : Concatenates(f, s, m)
           Good == {m \in Nat : G(m)}
<1>1. 0 \in Good
  <2> DEFINE f == [i \in 1..0 |-> i]
  <2>1. f = [i \in 1..0 |-> IF i = 1 THEN s[i] ELSE f[i - 1] \o s[i]]
    OBVIOUS
  <2> QED
    BY <2>1 DEF Concatenates
<1>2. ASSUME NEW m \in Nat, m \in Good PROVE m + 1 \in Good
  <2>1. PICK f : f = [i \in 1..m |-> IF i = 1 THEN s[i] ELSE f[i - 1] \o s[i]]
    BY <1>2 DEF Concatenates
  <2> DEFINE last == IF m = 0 THEN s[m + 1] ELSE f[m] \o s[m + 1]
             g == [i \in 1..(m + 1) |-> IF i = m + 1 THEN last ELSE f[i]]
             h == [i \in 1..(m + 1) |-> IF i = 1 THEN s[i] ELSE g[i - 1] \o s[i]]
  <2>2. \A i \in 1..m : f[i] = IF i = 1 THEN s[i] ELSE f[i - 1] \o s[i]
    BY <2>1
  <2>3. ASSUME NEW i \in 1..(m + 1) PROVE g[i] = h[i]
    <3>1. CASE i = m + 1 /\ m # 0
      <4>1. i - 1 = m /\ m \in 1..(m + 1) /\ m # m + 1 /\ i # 1
        BY <3>1
      <4>2. g[m] = f[m]
        BY <4>1
      <4> QED
        BY <4>1, <4>2, <3>1
    <3>2. CASE i = m + 1 /\ m = 0
      BY <3>2
    <3>3. CASE i # m + 1 /\ i = 1
      <4>1. i \in 1..m /\ g[i] = f[i]
        BY <3>3
      <4> QED
        BY <4>1, <2>2, <3>3
    <3>4. CASE i # m + 1 /\ i # 1
      <4>1. i - 1 \in 1..(m + 1) /\ i - 1 # m + 1 /\ i \in 1..m
        BY <3>4
      <4>2. g[i - 1] = f[i - 1] /\ g[i] = f[i]
        BY <4>1, <3>4
      <4> QED
        BY <4>1, <4>2, <2>2, <3>4
    <3> QED
      BY <3>1, <3>2, <3>3, <3>4
  <2>4. g = h
    BY <2>3
  <2>5. Concatenates(g, s, m + 1)
    <3> HIDE DEF g
    <3> QED
      BY <2>4 DEF Concatenates
  <2> QED
    <3> HIDE DEF g
    <3> QED
      BY <2>5
<1>3. Nat \subseteq Good
  <2> HIDE DEF Good
  <2> QED
    BY <1>1, <1>2, SetInduction
<1> QED
  BY <1>3

\* Its values.
LEMMA ConcatenationValue ==
    ASSUME NEW s, NEW n \in Nat, NEW f, Concatenates(f, s, n), NEW i \in 1..n
    PROVE  f[i] = IF i = 1 THEN s[i] ELSE f[i - 1] \o s[i]
BY DEF Concatenates

\* And only one: what it is at a number does not depend on how far it goes.
LEMMA ConcatenationUnique ==
    ASSUME NEW s, NEW m \in Nat, NEW n \in Nat, m <= n,
           NEW f, Concatenates(f, s, m), NEW g, Concatenates(g, s, n)
    PROVE  \A i \in 1..m : f[i] = g[i]
<1> DEFINE Good == {k \in Nat : k \in 1..m => f[k] = g[k]}
<1>1. 0 \in Good
  OBVIOUS
<1>2. ASSUME NEW k \in Nat, k \in Good PROVE k + 1 \in Good
  <2> SUFFICES ASSUME k + 1 \in 1..m PROVE f[k + 1] = g[k + 1]
    OBVIOUS
  <2>0. k + 1 \in 1..n /\ (k + 1) - 1 = k
    OBVIOUS
  <2>1. f[k + 1] = IF k + 1 = 1 THEN s[k + 1] ELSE f[k] \o s[k + 1]
    BY <2>0 DEF Concatenates
  <2>2. g[k + 1] = IF k + 1 = 1 THEN s[k + 1] ELSE g[k] \o s[k + 1]
    BY <2>0 DEF Concatenates
  <2>3. k + 1 # 1 => f[k] = g[k]
    BY <1>2
  <2> QED
    BY <2>1, <2>2, <2>3
<1>3. Nat \subseteq Good
  <2> HIDE DEF Good
  <2> QED
    BY <1>1, <1>2, SetInduction
<1> QED
  BY <1>3

\* FlattenSeq is the last value of that function.
LEMMA FlattenByConcatenation ==
    ASSUME NEW s, Len(s) \in Nat \ {0}
    PROVE  \E f : Concatenates(f, s, Len(s)) /\ FlattenSeq(s) = f[Len(s)]
BY ConcatenationExists DEF FlattenSeq, Concatenates

\* Flattening sequences over S gives a sequence over S.
LEMMA FlattenType ==
    ASSUME NEW S, NEW s \in Seq(Seq(S))
    PROVE  FlattenSeq(s) \in Seq(S)
<1>1. CASE Len(s) = 0
  BY <1>1 DEF FlattenSeq
<1>2. CASE Len(s) # 0
  <2>1. PICK f : Concatenates(f, s, Len(s)) /\ FlattenSeq(s) = f[Len(s)]
    BY <1>2, FlattenByConcatenation
  <2> DEFINE Good == {k \in Nat : k \in 1..Len(s) => f[k] \in Seq(S)}
  <2>2. 0 \in Good
    OBVIOUS
  <2>3. ASSUME NEW k \in Nat, k \in Good PROVE k + 1 \in Good
    <3> SUFFICES ASSUME k + 1 \in 1..Len(s) PROVE f[k + 1] \in Seq(S)
      OBVIOUS
    <3>0. (k + 1) - 1 = k
      OBVIOUS
    <3>1. f[k + 1] = IF k + 1 = 1 THEN s[k + 1] ELSE f[k] \o s[k + 1]
      BY <2>1, <3>0 DEF Concatenates
    <3>2. s[k + 1] \in Seq(S)
      OBVIOUS
    <3>3. k + 1 # 1 => f[k] \in Seq(S)
      BY <2>3
    <3> QED
      BY <3>1, <3>2, <3>3
  <2>4. Nat \subseteq Good
    <3> HIDE DEF Good
    <3> QED
      BY <2>2, <2>3, SetInduction
  <2> QED
    BY <1>2, <2>1, <2>4
<1> QED
  BY <1>1, <1>2

\* The last sequence comes last.
LEMMA FlattenAppend ==
    ASSUME NEW S, NEW s \in Seq(Seq(S)), NEW e \in Seq(S)
    PROVE  FlattenSeq(Append(s, e)) = FlattenSeq(s) \o e
<1> DEFINE t == Append(s, e)
           n == Len(s)
<1>0. /\ t \in Seq(Seq(S))
      /\ Len(t) = n + 1
      /\ n \in Nat
      /\ t[n + 1] = e
      /\ \A i \in 1..n : t[i] = s[i]
  OBVIOUS
<1> HIDE DEF t, n
<1>1. PICK g : Concatenates(g, t, n + 1) /\ FlattenSeq(t) = g[n + 1]
  <2>1. Len(t) \in Nat \ {0}
    BY <1>0
  <2> QED
    BY <1>0, <2>1, FlattenByConcatenation
<1>2. g[n + 1] = IF n + 1 = 1 THEN t[n + 1] ELSE g[(n + 1) - 1] \o t[n + 1]
  <2>1. n + 1 \in Nat /\ n + 1 \in 1..(n + 1)
    BY <1>0
  <2>2. Concatenates(g, t, n + 1)
    BY <1>1
  <2> QED
    BY <2>1, <2>2, ConcatenationValue
<1>3. CASE n = 0
  <2>1. FlattenSeq(s) = <<>>
    BY <1>3 DEF FlattenSeq, n
  <2> QED
    BY <1>0, <1>1, <1>2, <1>3, <2>1 DEF t
<1>4. CASE n # 0
  <2>1. PICK f : Concatenates(f, s, n) /\ FlattenSeq(s) = f[n]
    BY <1>0, <1>4, FlattenByConcatenation DEF n
  <2>2. Concatenates(f, t, n)
    <3>1. [i \in 1..n |-> IF i = 1 THEN s[i] ELSE f[i - 1] \o s[i]]
            = [i \in 1..n |-> IF i = 1 THEN t[i] ELSE f[i - 1] \o t[i]]
      BY <1>0
    <3> QED
      BY <2>1, <3>1 DEF Concatenates
  <2>3. f[n] = g[n]
    <3>1. n + 1 \in Nat /\ n <= n + 1 /\ n \in 1..n
      BY <1>0, <1>4
    <3>2. Concatenates(g, t, n + 1) /\ n \in Nat
      BY <1>0, <1>1
    <3>3. ASSUME NEW k \in Nat, k = n + 1
          PROVE  \A i \in 1..n : f[i] = g[i]
      <4>1. Concatenates(g, t, k) /\ n <= k
        BY <3>1, <3>2, <3>3
      <4> QED
        BY <2>2, <3>2, <4>1, ConcatenationUnique
    <3> QED
      BY <3>1, <3>3
  <2>4. (n + 1) - 1 = n /\ n + 1 # 1
    BY <1>0, <1>4
  <2> QED
    BY <1>0, <1>1, <1>2, <2>1, <2>3, <2>4 DEF t
<1> QED
  BY <1>3, <1>4

\* What the first k sequences flatten to comes first.
LEMMA FlattenPrefix ==
    ASSUME NEW S, NEW s \in Seq(Seq(S)), NEW k \in 0..Len(s)
    PROVE  \E rest \in Seq(S) : FlattenSeq(s) = FlattenSeq(SubSeq(s, 1, k)) \o rest
<1> DEFINE n == Len(s)
           P(j) == \E rest \in Seq(S) : FlattenSeq(s) = FlattenSeq(SubSeq(s, 1, n - j)) \o rest
           Good == {j \in Nat : j <= n => P(j)}
<1>0. n \in Nat
  OBVIOUS
<1>1. 0 \in Good
  <2>1. SubSeq(s, 1, n - 0) = s
    OBVIOUS
  <2>2. FlattenSeq(s) \in Seq(S) /\ <<>> \in Seq(S)
    BY FlattenType
  <2>3. FlattenSeq(s) = FlattenSeq(s) \o <<>>
    BY <2>2
  <2> QED
    BY <2>1, <2>2, <2>3
<1>2. ASSUME NEW j \in Nat, j \in Good PROVE j + 1 \in Good
  <2> SUFFICES ASSUME j + 1 <= n PROVE P(j + 1)
    <3> HIDE DEF P, n
    <3> QED
      OBVIOUS
  <2> DEFINE t == SubSeq(s, 1, n - (j + 1))
             e == s[n - j]
  <2>1. t \in Seq(Seq(S)) /\ e \in Seq(S) /\ SubSeq(s, 1, n - j) = Append(t, e)
    <3>1. n - (j + 1) \in 0..(n - 1) /\ n - j \in 1..n
      BY <1>0
    <3>2. t \in Seq(Seq(S)) /\ Len(t) = n - (j + 1) /\ \A i \in 1..(n - (j + 1)) : t[i] = s[i]
      BY <3>1
    <3>3. e \in Seq(S)
      BY <3>1
    <3>4. /\ SubSeq(s, 1, n - j) \in Seq(Seq(S))
          /\ Len(SubSeq(s, 1, n - j)) = n - j
          /\ \A i \in 1..(n - j) : SubSeq(s, 1, n - j)[i] = s[i]
      BY <3>1
    <3> HIDE DEF t, e
    <3>5. /\ Append(t, e) \in Seq(Seq(S))
          /\ Len(Append(t, e)) = n - j
          /\ \A i \in 1..(n - j) : Append(t, e)[i] = IF i = n - j THEN e ELSE t[i]
      <4>1. Len(t) + 1 = n - j
        BY <1>0, <3>2
      <4>2. t \in Seq(Seq(S)) /\ e \in Seq(S)
        BY <3>2, <3>3
      <4>3. Appended(Seq(S), t, e)
        BY <4>2, AppendIs
      <4> QED
        BY <4>1, <4>3, Zenon DEF Appended
    <3>6. \A i \in 1..(n - j) : SubSeq(s, 1, n - j)[i] = Append(t, e)[i]
      <4>1. ASSUME NEW i \in 1..(n - j), i # n - j
            PROVE  SubSeq(s, 1, n - j)[i] = Append(t, e)[i]
        <5>1. i \in 1..(n - (j + 1))
          BY <1>0, <4>1
        <5> QED
          BY <3>2, <3>4, <3>5, <4>1, <5>1
      <4>2. n - j \in 1..(n - j)
        BY <3>1
      <4>3. SubSeq(s, 1, n - j)[n - j] = Append(t, e)[n - j]
        BY <3>4, <3>5, <4>2 DEF e
      <4> QED
        BY <4>1, <4>3
    <3>7. SubSeq(s, 1, n - j) = Append(t, e)
      <4>1. Len(SubSeq(s, 1, n - j)) = Len(Append(t, e))
        BY <3>4, <3>5
      <4>2. \A i \in 1..Len(SubSeq(s, 1, n - j)) : SubSeq(s, 1, n - j)[i] = Append(t, e)[i]
        BY <3>4, <3>6
      <4> QED
        BY <3>4, <3>5, <4>1, <4>2, SeqEqual
    <3> QED
      BY <3>2, <3>3, <3>7
  <2>2. PICK rest \in Seq(S) : FlattenSeq(s) = FlattenSeq(SubSeq(s, 1, n - j)) \o rest
    <3>1. j <= n
      BY <1>0
    <3> QED
      BY <1>2, <3>1
  <2> HIDE DEF t, e
  <2>3. FlattenSeq(Append(t, e)) = FlattenSeq(t) \o e
    BY <2>1, FlattenAppend
  <2>4. FlattenSeq(t) \in Seq(S) /\ e \o rest \in Seq(S)
    BY <2>1, FlattenType
  <2>5. (FlattenSeq(t) \o e) \o rest = FlattenSeq(t) \o (e \o rest)
    <3>1. ASSUME NEW a \in Seq(S), NEW b \in Seq(S), NEW c \in Seq(S)
          PROVE  (a \o b) \o c = a \o (b \o c)
      OBVIOUS
    <3> QED
      BY <2>1, <2>4, rest \in Seq(S), <3>1, Zenon
  <2>6. FlattenSeq(s) = FlattenSeq(t) \o (e \o rest)
    BY <2>1, <2>2, <2>3, <2>5
  <2> QED
    BY <2>4, <2>6 DEF t
<1>3. Nat \subseteq Good
  <2> HIDE DEF Good
  <2> QED
    BY <1>1, <1>2, SetInduction
<1>4. n - k \in Good /\ n - k <= n /\ n - (n - k) = k
  <2>1. n - k \in Nat /\ n - k <= n /\ n - (n - k) = k
    BY <1>0
  <2> HIDE DEF Good, n
  <2> QED
    BY <1>3, <2>1
<1>5. P(n - k)
  <2> HIDE DEF P
  <2> QED
    BY <1>4
<1> QED
  BY <1>4, <1>5

\* Recursion over 0..n along next, from where it stops or leads down.
Descends(S, n, c, next, F) ==
    \E f \in [0..n -> S] :
        \A p \in 0..n : f[p] = IF next[p] \in (p + 1)..n THEN F[<<p, f[next[p]]>>] ELSE c[p]

\* There is such a function.
LEMMA RecursionDown ==
    ASSUME NEW S, NEW n \in Nat, NEW c \in [0..n -> S], NEW next, NEW F \in [(0..n) \X S -> S]
    PROVE  Descends(S, n, c, next, F)
<1> DEFINE Eq(f, p) == f[p] = IF next[p] \in (p + 1)..n THEN F[<<p, f[next[p]]>>] ELSE c[p]
           G(m) == \E f \in [0..n -> S] : \A p \in (n - m)..n : Eq(f, p)
           Good == {m \in Nat : m <= n => G(m)}
<1>1. 0 \in Good
  <2>1. ASSUME NEW p \in (n - 0)..n PROVE p = n /\ ~(next[p] \in (p + 1)..n)
    OBVIOUS
  <2>2. \A p \in (n - 0)..n : Eq(c, p)
    BY <2>1
  <2> HIDE DEF Eq
  <2> QED
    BY <2>2
<1>2. ASSUME NEW m \in Nat, m \in Good PROVE m + 1 \in Good
  <2> SUFFICES ASSUME m + 1 <= n PROVE G(m + 1)
    OBVIOUS
  <2>1. PICK f \in [0..n -> S] : \A p \in (n - m)..n : Eq(f, p)
    BY <1>2
  <2> DEFINE q == n - (m + 1)
             v == IF next[q] \in (q + 1)..n THEN F[<<q, f[next[q]]>>] ELSE c[q]
             g == [p \in 0..n |-> IF p = q THEN v ELSE f[p]]
  <2>0. q \in 0..n /\ q + 1 = n - m
    OBVIOUS
  <2>2. v \in S
    <3>1. CASE next[q] \in (q + 1)..n
      <4>1. next[q] \in 0..n
        BY <2>0, <3>1
      <4>2. f[next[q]] \in S
        BY <2>1, <4>1
      <4> HIDE DEF q
      <4>3. F[<<q, f[next[q]]>>] \in S
        BY <2>0, <4>2
      <4> QED
        BY <3>1, <4>3
    <3>2. CASE ~(next[q] \in (q + 1)..n)
      <4> HIDE DEF q
      <4> QED
        BY <2>0, <3>2
    <3> QED
      BY <3>1, <3>2
  <2> HIDE DEF v
  <2>3. g \in [0..n -> S]
    BY <2>1, <2>2
  <2>4. ASSUME NEW p \in q..n PROVE Eq(g, p)
    <3>0. p \in 0..n
      BY <2>0
    <3>1. \A r \in 0..n : r # q => g[r] = f[r]
      OBVIOUS
    <3>2. g[q] = v
      BY <2>0
    <3>3. \A r \in (p + 1)..n : r \in 0..n /\ r # q
      BY <2>0
    <3>4. next[p] \in (p + 1)..n => g[next[p]] = f[next[p]]
      BY <3>1, <3>3
    <3> HIDE DEF g
    <3>5. CASE p = q
      BY <3>2, <3>4, <3>5 DEF v
    <3>6. CASE p # q
      <4>1. p \in (n - m)..n
        BY <2>0, <3>6
      <4>2. Eq(f, p)
        BY <2>1, <4>1
      <4>3. g[p] = f[p]
        BY <3>0, <3>1, <3>6
      <4> QED
        BY <3>4, <4>2, <4>3
    <3> QED
      BY <3>5, <3>6
  <2> HIDE DEF Eq, g
  <2> QED
    BY <2>3, <2>4
<1>3. Nat \subseteq Good
  <2> HIDE DEF Good
  <2> QED
    BY <1>1, <1>2, SetInduction
<1>4. G(n)
  <2> HIDE DEF G
  <2> QED
    BY <1>3
<1>5. n - n = 0
  OBVIOUS
<1> QED
  BY <1>4, <1>5 DEF Descends

\* The count of the numbers of P grows at each of them, and skips nothing.
LEMMA CountGrows ==
    ASSUME NEW P, NEW i \in Nat, NEW j \in Nat, i <= j
    PROVE  /\ CountTo(P, i) <= CountTo(P, j)
           /\ i < j /\ j \in P => CountTo(P, i) < CountTo(P, j)
<1> DEFINE Good == {d \in Nat : CountTo(P, i) <= CountTo(P, i + d)}
<1>0. \A k \in Nat : CountTo(P, k) \in Nat
  BY CountStep
<1>1. 0 \in Good
  <2>1. i + 0 = i
    OBVIOUS
  <2> QED
    BY <1>0, <2>1
<1>2. ASSUME NEW d \in Nat, d \in Good PROVE d + 1 \in Good
  <2>1. (i + d) + 1 = i + (d + 1) /\ i + d \in Nat /\ i + (d + 1) \in Nat
    OBVIOUS
  <2>2. CountTo(P, (i + d) + 1) >= CountTo(P, i + d)
    BY <1>0, <2>1, CountStep
  <2> QED
    BY <1>0, <1>2, <2>1, <2>2
<1>3. Nat \subseteq Good
  <2> HIDE DEF Good
  <2> QED
    BY <1>1, <1>2, SetInduction
<1>4. ASSUME NEW k \in Nat, i <= k PROVE CountTo(P, i) <= CountTo(P, k)
  <2>1. k - i \in Nat /\ i + (k - i) = k
    BY <1>4
  <2>2. k - i \in Good
    <3> HIDE DEF Good
    <3> QED
      BY <1>3, <2>1
  <2> QED
    BY <2>1, <2>2
<1>5. CASE i < j /\ j \in P
  <2>1. j - 1 \in Nat /\ i <= j - 1 /\ (j - 1) + 1 = j
    BY <1>5
  <2>2. CountTo(P, i) <= CountTo(P, j - 1)
    BY <1>4, <2>1
  <2>3. CountTo(P, (j - 1) + 1) = CountTo(P, j - 1) + 1
    BY <1>5, <2>1, CountStep
  <2> QED
    BY <1>0, <1>4, <2>1, <2>2, <2>3
<1> QED
  BY <1>4, <1>5

\* And it reaches every value on the way.
LEMMA CountReaches ==
    ASSUME NEW P, NEW n \in Nat
    PROVE  \A c \in 1..CountTo(P, n) : \E i \in 1..n : i \in P /\ CountTo(P, i) = c
<1> DEFINE G(m) == \A c \in 1..CountTo(P, m) : \E i \in 1..m : i \in P /\ CountTo(P, i) = c
           Good == {m \in Nat : G(m)}
<1>0. CountTo(P, 0) = 0 /\ \A k \in Nat : CountTo(P, k) \in Nat
  BY CountStep
<1>1. 0 \in Good
  BY <1>0
<1>2. ASSUME NEW m \in Nat, m \in Good PROVE m + 1 \in Good
  <2> SUFFICES ASSUME NEW c \in 1..CountTo(P, m + 1)
               PROVE  \E i \in 1..(m + 1) : i \in P /\ CountTo(P, i) = c
    OBVIOUS
  <2>1. CASE c <= CountTo(P, m)
    <3>1. c \in 1..CountTo(P, m)
      BY <1>0, <2>1
    <3>2. \E i \in 1..m : i \in P /\ CountTo(P, i) = c
      BY <1>2, <3>1
    <3>3. \A i \in 1..m : i \in 1..(m + 1)
      OBVIOUS
    <3> QED
      BY <3>2, <3>3
  <2>2. CASE ~(c <= CountTo(P, m))
    <3>1. CountTo(P, m + 1) = IF m + 1 \in P THEN CountTo(P, m) + 1 ELSE CountTo(P, m)
      BY CountStep
    <3>2. m + 1 \in P /\ CountTo(P, m + 1) = c
      BY <1>0, <2>2, <3>1
    <3>3. m + 1 \in 1..(m + 1)
      OBVIOUS
    <3> QED
      BY <3>2, <3>3
  <2> QED
    BY <2>1, <2>2
<1>3. Nat \subseteq Good
  <2> HIDE DEF Good
  <2> QED
    BY <1>1, <1>2, SetInduction
<1> QED
  BY <1>3

\* Induction over sequences, from behind.
LEMMA SequenceInduction ==
    ASSUME NEW S, NEW G, <<>> \in G,
           \A s \in Seq(S), e \in S : s \in G => Append(s, e) \in G
    PROVE  \A s \in Seq(S) : s \in G
<1> DEFINE Good == {m \in Nat : \A s \in Seq(S) : Len(s) = m => s \in G}
<1>1. 0 \in Good
  <2>1. \A s \in Seq(S) : Len(s) = 0 => s = <<>>
    BY EmptySeq
  <2> QED
    BY <2>1
<1>2. ASSUME NEW m \in Nat, m \in Good PROVE m + 1 \in Good
  <2> SUFFICES ASSUME NEW s \in Seq(S), Len(s) = m + 1 PROVE s \in G
    OBVIOUS
  <2>1. s # <<>>
    OBVIOUS
  <2>2. PICK t \in Seq(S), e \in S : s = Append(t, e)
    BY <2>1, SequenceEmptyOrAppend
  <2>3. Len(t) = m
    BY <2>2
  <2> QED
    BY <1>2, <2>2, <2>3
<1>3. Nat \subseteq Good
  <2> HIDE DEF Good
  <2> QED
    BY <1>1, <1>2, SetInduction
<1>4. \A s \in Seq(S) : Len(s) \in Nat
  OBVIOUS
<1> QED
  BY <1>3, <1>4

\* Flattening takes concatenation to concatenation.
LEMMA FlattenJoin ==
    ASSUME NEW S, NEW s \in Seq(Seq(S)), NEW t \in Seq(Seq(S))
    PROVE  FlattenSeq(s \o t) = FlattenSeq(s) \o FlattenSeq(t)
<1> DEFINE G == {u \in Seq(Seq(S)) : FlattenSeq(s \o u) = FlattenSeq(s) \o FlattenSeq(u)}
<1>0. FlattenSeq(s) \in Seq(S)
  BY FlattenType
<1>1. <<>> \in G
  <2>1. FlattenSeq(<<>>) = <<>> /\ <<>> \in Seq(Seq(S))
    BY DEF FlattenSeq
  <2>2. s \o <<>> = s /\ FlattenSeq(s) \o <<>> = FlattenSeq(s)
    BY <1>0, ConcatEmptySeq
  <2> QED
    BY <2>1, <2>2
<1>2. ASSUME NEW u \in Seq(Seq(S)), NEW e \in Seq(S), u \in G PROVE Append(u, e) \in G
  <2>1. s \o Append(u, e) = Append(s \o u, e)
    OBVIOUS
  <2>2. s \o u \in Seq(Seq(S)) /\ Append(u, e) \in Seq(Seq(S)) /\ FlattenSeq(u) \in Seq(S)
    BY FlattenType
  <2>3. FlattenSeq(Append(s \o u, e)) = FlattenSeq(s \o u) \o e
    BY <2>2, FlattenAppend, Zenon
  <2>4. FlattenSeq(Append(u, e)) = FlattenSeq(u) \o e
    BY <2>2, FlattenAppend, Zenon
  <2>5. (FlattenSeq(s) \o FlattenSeq(u)) \o e = FlattenSeq(s) \o (FlattenSeq(u) \o e)
    <3>1. \A x, y, z \in Seq(S) : (x \o y) \o z = x \o (y \o z)
      BY ConcatAssociative
    <3>2. FlattenSeq(u) \in Seq(S)
      BY <2>2
    <3> QED
      BY <1>0, <3>1, <3>2, Zenon
  <2>6. FlattenSeq(s \o u) = FlattenSeq(s) \o FlattenSeq(u)
    BY <1>2
  <2> HIDE DEF G
  <2>7. FlattenSeq(s \o Append(u, e)) = FlattenSeq(s) \o FlattenSeq(Append(u, e))
    BY <2>1, <2>3, <2>4, <2>5, <2>6, Zenon
  <2> QED
    BY <2>2, <2>7 DEF G
<1>3. \A u \in Seq(Seq(S)) : u \in G
  <2> HIDE DEF G
  <2> QED
    BY <1>1, <1>2, SequenceInduction
<1> QED
  BY <1>3

\* Flattening one sequence gives it back.
LEMMA FlattenOne ==
    ASSUME NEW S, NEW e \in Seq(S)
    PROVE  FlattenSeq(<<e>>) = e
<1>1. <<e>> = Append(<<>>, e)
  OBVIOUS
<1>2. <<>> \in Seq(Seq(S)) /\ FlattenSeq(<<>>) = <<>>
  BY DEF FlattenSeq
<1>3. FlattenSeq(Append(<<>>, e)) = FlattenSeq(<<>>) \o e
  BY <1>2, FlattenAppend, Zenon
<1>4. <<>> \o e = e
  BY ConcatEmptySeq
<1> QED
  BY <1>1, <1>2, <1>3, <1>4, Zenon
=============================================================================
