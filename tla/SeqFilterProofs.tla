-------------------------- MODULE SeqFilterProofs --------------------------
(***************************************************************************)
(* What the other modules' proofs need of data: induction over the         *)
(* naturals and over the steps of a recursion, what Among returns, for     *)
(* every sequence and every set, the greatest and least of some numbers,   *)
(* division, and what a recursion that walks from mark to mark collects.   *)
(***************************************************************************)
EXTENDS SeqFilter, SequencesExt, NaturalsInduction, WellFoundedInduction, TLAPS

\* Induction over the naturals, stated of a set: the library's theorem takes
\* an operator, this one follows from the least element outside the set.
LEMMA SetInduction ==
    ASSUME NEW S \in SUBSET Nat, 0 \in S, \A i \in S : i + 1 \in S
    PROVE  S = Nat
<1> DEFINE R == {p \in Nat \X Nat : p[1] < p[2]}
<1>1. IsWellFoundedOn(R, Nat)
  <2>1. OpToRel(<, Nat) = R
    BY Zenon DEF OpToRel
  <2> QED BY <2>1, NatLessThanWellFounded
<1>2. ASSUME Nat \ S # {} PROVE FALSE
  <2>1. PICK x \in Nat \ S : \A y \in Nat \ S : ~(<<y, x>> \in R)
    BY <1>1, <1>2, WFMin, Zenon
  <2>2. x # 0 /\ x - 1 \in Nat /\ <<x - 1, x>> \in R
    OBVIOUS
  <2>3. x - 1 \in S
    <3> HIDE DEF R
    <3> QED BY <2>1, <2>2
  <2> QED BY <2>2, <2>3
<1> QED BY <1>2

\* A set of naturals has a least element.
LEMMA LeastNat ==
    ASSUME NEW S \in SUBSET Nat, S # {}
    PROVE  \E x \in S : \A y \in S : x <= y
<1> DEFINE Below == {n \in Nat : \A y \in S : n <= y}
<1>1. 0 \in Below
  OBVIOUS
<1>2. CASE \E n \in Below : n + 1 \notin Below
  <2>1. PICK n \in Below : n + 1 \notin Below
    BY <1>2
  <2>2. PICK y \in S : ~(n + 1 <= y)
    BY <2>1
  <2>3. y = n
    BY <2>1, <2>2
  <2> QED BY <2>1, <2>2, <2>3
<1>3. CASE \A n \in Below : n + 1 \in Below
  <2>1. Below = Nat
    <3>1. Below \in SUBSET Nat OBVIOUS
    <3> HIDE DEF Below
    <3> QED BY <1>1, <1>3, <3>1, SetInduction
  <2>2. PICK y \in S : TRUE
    OBVIOUS
  <2>3. y + 1 \in Below
    <3>1. y + 1 \in Nat
      BY <2>2
    <3> HIDE DEF Below
    <3> QED BY <2>1, <3>1
  <2> QED BY <2>2, <2>3
<1> QED BY <1>2, <1>3

\* What holds of a first value and is passed from each value to the next holds
\* of all of them.
LEMMA StaysIn ==
    ASSUME NEW D, NEW n \in Nat, NEW f, f[0] \in D,
           \A i \in 1..n : f[i - 1] \in D => f[i] \in D
    PROVE  \A i \in 0..n : f[i] \in D
<1> DEFINE P == {i \in Nat : i <= n => f[i] \in D}
<1>1. 0 \in P
  OBVIOUS
<1>2. ASSUME NEW i \in P PROVE i + 1 \in P
  <2>1. CASE i + 1 <= n
    <3>1. i + 1 \in 1..n /\ (i + 1) - 1 = i /\ f[i] \in D
      BY <2>1
    <3>2. f[(i + 1) - 1] \in D => f[i + 1] \in D
      BY <3>1
    <3> QED BY <3>1, <3>2
  <2> QED BY <2>1
<1>3. P = Nat
  <2>1. P \in SUBSET Nat OBVIOUS
  <2> HIDE DEF P
  <2> QED BY <1>1, <1>2, <2>1, SetInduction
<1> QED BY <1>3

\* A recursion of n steps, each of which maps D into itself, defines a function.
LEMMA Recursion ==
    ASSUME NEW D, NEW a \in D, NEW n \in Nat, NEW F \in [1..n -> [D -> D]]
    PROVE  \E f \in [0..n -> D] : f[0] = a /\ \A i \in 1..n : f[i] = F[i][f[i - 1]]
<1> DEFINE Runs(f, m) == /\ f \in [0..m -> D] /\ f[0] = a
                         /\ \A i \in 1..m : f[i] = F[i][f[i - 1]]
           P == {m \in Nat : m <= n => \E f : Runs(f, m)}
<1>1. 0 \in P
  <2> DEFINE f0 == [i \in 0..0 |-> a]
  <2>1. Runs(f0, 0)
    OBVIOUS
  <2> HIDE DEF f0, Runs
  <2> QED BY <2>1
<1>2. ASSUME NEW m \in P PROVE m + 1 \in P
  <2>1. CASE m + 1 <= n
    <3>1. m <= n /\ m \in Nat /\ m + 1 \in 1..n
      BY <2>1
    <3>2. PICK f : Runs(f, m)
      <4> HIDE DEF Runs
      <4> QED BY <3>1
    <3> DEFINE g == [i \in 0..(m + 1) |-> IF i = m + 1 THEN F[m + 1][f[m]] ELSE f[i]]
    <3>3. f \in [0..m -> D] /\ f[m] \in D /\ F[m + 1] \in [D -> D]
      BY <3>1, <3>2
    <3>4. F[m + 1][f[m]] \in D
      BY <3>3
    <3>5. ASSUME NEW i \in 0..(m + 1) PROVE g[i] \in D
      <4>1. i = m + 1 \/ i \in 0..m
        BY <3>1
      <4> QED BY <3>3, <3>4, <4>1
    <3>6. g \in [0..(m + 1) -> D]
      BY <3>5
    <3>7. g[0] = a
      BY <3>1, <3>2
    <3>8. ASSUME NEW i \in 1..(m + 1) PROVE g[i] = F[i][g[i - 1]]
      <4>1. CASE i = m + 1
        <5>1. g[i] = F[m + 1][f[m]] /\ g[i - 1] = f[m]
          BY <3>1, <4>1
        <5> HIDE DEF g
        <5> QED BY <4>1, <5>1
      <4>2. CASE i # m + 1
        <5>1. i \in 1..m
          BY <3>1, <4>2
        <5>2. g[i] = f[i] /\ g[i - 1] = f[i - 1] /\ f[i] = F[i][f[i - 1]]
          BY <3>1, <3>2, <5>1
        <5> HIDE DEF g
        <5> QED BY <5>2
      <4> QED BY <4>1, <4>2
    <3> HIDE DEF g
    <3>9. Runs(g, m + 1)
      BY <3>6, <3>7, <3>8
    <3> HIDE DEF Runs
    <3> QED BY <3>9
  <2> HIDE DEF Runs
  <2>2. m \in Nat
    OBVIOUS
  <2> QED BY <2>1, <2>2
<1>3. P = Nat
  <2>1. P \in SUBSET Nat OBVIOUS
  <2> HIDE DEF P
  <2> QED BY <1>1, <1>2, <2>1, SetInduction
<1> QED BY <1>3

\* f is the recursive function of Among on the first n elements of s.
Keeps(f, s, S, n) ==
    f = [k \in 0..n |->
            IF k = 0 THEN <<>>
            ELSE IF s[k] \in S THEN Append(f[k - 1], s[k]) ELSE f[k - 1]]

\* The function on n elements extends to one on n + 1.
LEMMA KeepsExtends ==
    ASSUME NEW s, NEW S, NEW n \in Nat, NEW f, Keeps(f, s, S, n)
    PROVE  \E g : Keeps(g, s, S, n + 1)
<1> DEFINE last == IF s[n + 1] \in S THEN Append(f[n], s[n + 1]) ELSE f[n]
           g == [k \in 0..(n + 1) |-> IF k = n + 1 THEN last ELSE f[k]]
<1>1. ASSUME NEW k \in 0..(n + 1)
      PROVE  g[k] = IF k = 0 THEN <<>>
                    ELSE IF s[k] \in S THEN Append(g[k - 1], s[k]) ELSE g[k - 1]
  <2>1. CASE k = n + 1
    <3>1. g[k] = last /\ g[k - 1] = f[n]
      BY <2>1
    <3> QED BY <3>1, <2>1
  <2>2. CASE k # n + 1
    <3>1. k \in 0..n
      BY <2>2
    <3>2. g[k] = f[k] /\ (k # 0 => g[k - 1] = f[k - 1])
      BY <2>2, <3>1
    <3>3. f[k] = IF k = 0 THEN <<>>
                 ELSE IF s[k] \in S THEN Append(f[k - 1], s[k]) ELSE f[k - 1]
      BY <3>1 DEF Keeps
    <3> HIDE DEF g, last
    <3> QED BY <3>2, <3>3
  <2> QED BY <2>1, <2>2
<1>2. Keeps(g, s, S, n + 1)
  <2>1. g = [k \in 0..(n + 1) |-> g[k]]
    OBVIOUS
  <2> HIDE DEF g
  <2> QED BY <2>1, <1>1 DEF Keeps
<1> QED BY <1>2

\* Its values, one by one.
LEMMA KeepsAt ==
    ASSUME NEW s, NEW S, NEW n \in Nat, NEW f, Keeps(f, s, S, n)
    PROVE  /\ f[0] = <<>>
           /\ \A k \in 1..n :
                 f[k] = IF s[k] \in S THEN Append(f[k - 1], s[k]) ELSE f[k - 1]
<1>1. ASSUME NEW k \in 0..n
      PROVE  f[k] = IF k = 0 THEN <<>>
                    ELSE IF s[k] \in S THEN Append(f[k - 1], s[k]) ELSE f[k - 1]
  BY DEF Keeps
<1> QED BY <1>1

\* So the recursion defines a function, for every length.
LEMMA KeepsExists ==
    ASSUME NEW s, NEW S, NEW n \in Nat
    PROVE  \E f : Keeps(f, s, S, n)
<1> DEFINE P == {i \in Nat : \E f : Keeps(f, s, S, i)}
<1>1. 0 \in P
  <2> DEFINE f0 == [k \in 0..0 |-> <<>>]
  <2>1. Keeps(f0, s, S, 0)
    BY DEF Keeps
  <2> QED BY <2>1
<1>2. \A i \in P : i + 1 \in P
  BY KeepsExtends
<1>3. P = Nat
  <2> HIDE DEF P
  <2>1. P \in SUBSET Nat BY DEF P
  <2> QED BY <1>1, <1>2, <2>1, SetInduction
<1> QED BY <1>3

\* Among is that function's last value.
LEMMA AmongIsKept ==
    ASSUME NEW s, NEW S, Len(s) \in Nat
    PROVE  \E f : Keeps(f, s, S, Len(s)) /\ Among(s, S) = f[Len(s)]
<1> DEFINE c == CHOOSE f : Keeps(f, s, S, Len(s))
<1>1. Keeps(c, s, S, Len(s))
  BY KeepsExists
<1>2. Among(s, S) = c[Len(s)]
  BY DEF Among, Keeps
<1> QED BY <1>1, <1>2

\* A list of n elements of T.
LEMMA ListIsSequence ==
    ASSUME NEW T, NEW n \in Nat, NEW s \in [1..n -> T]
    PROVE  s \in Seq(T) /\ Len(s) = n
OBVIOUS

\* What an appended element adds.
LEMMA ElementsOfAppend ==
    ASSUME NEW T, NEW s \in Seq(T), NEW x \in T
    PROVE  /\ Append(s, x) \in Seq(T)
           /\ Len(Append(s, x)) = Len(s) + 1
           /\ ToSet(Append(s, x)) = ToSet(s) \cup {x}
<1>1. \A i \in 1..Len(s) : Append(s, x)[i] = s[i]
  OBVIOUS
<1>2. Append(s, x)[Len(s) + 1] = x
  OBVIOUS
<1>3. DOMAIN Append(s, x) = DOMAIN s \cup {Len(s) + 1}
  OBVIOUS
<1> QED BY <1>1, <1>2, <1>3 DEF ToSet

\* Among keeps exactly the elements that are in S, and makes no sequence longer.
LEMMA AmongKeeps ==
    ASSUME NEW T, NEW s \in Seq(T), NEW S
    PROVE  /\ Among(s, S) \in Seq(T)
           /\ Len(Among(s, S)) <= Len(s)
           /\ ToSet(Among(s, S)) = ToSet(s) \cap S
<1>1. PICK f : Keeps(f, s, S, Len(s)) /\ Among(s, S) = f[Len(s)]
  BY AmongIsKept
<1>2. Len(s) \in Nat /\ DOMAIN s = 1..Len(s)
  OBVIOUS
<1>3. /\ f[0] = <<>>
      /\ \A k \in 1..Len(s) :
            f[k] = IF s[k] \in S THEN Append(f[k - 1], s[k]) ELSE f[k - 1]
  <2> DEFINE n == Len(s)
  <2>1. n \in Nat /\ Keeps(f, s, S, n)
    BY <1>1, <1>2
  <2> HIDE DEF n
  <2>2. /\ f[0] = <<>>
        /\ \A k \in 1..n :
              f[k] = IF s[k] \in S THEN Append(f[k - 1], s[k]) ELSE f[k - 1]
    BY <2>1, KeepsAt
  <2> QED BY <2>2 DEF n
<1> DEFINE Right(k) == /\ f[k] \in Seq(T)
                       /\ Len(f[k]) <= k
                       /\ ToSet(f[k]) = {s[i] : i \in 1..k} \cap S
           P == {k \in Nat : k <= Len(s) => Right(k)}
<1>4. 0 \in P
  <2>1. <<>> \in Seq(T) /\ Len(<<>>) = 0 /\ DOMAIN <<>> = {}
    OBVIOUS
  <2>2. ToSet(<<>>) = {}
    BY <2>1 DEF ToSet
  <2>3. {s[i] : i \in 1..0} = {}
    OBVIOUS
  <2>4. Right(0)
    BY <1>3, <2>1, <2>2, <2>3
  <2> HIDE DEF Right
  <2> QED BY <2>4
<1>5. ASSUME NEW k \in P PROVE k + 1 \in P
  <2> SUFFICES ASSUME k + 1 <= Len(s) PROVE Right(k + 1)
    OBVIOUS
  <2>1. Right(k) /\ k \in Nat /\ k + 1 \in 1..Len(s) /\ s[k + 1] \in T
    OBVIOUS
  <2>2. f[k + 1] = IF s[k + 1] \in S THEN Append(f[k], s[k + 1]) ELSE f[k]
    BY <2>1, <1>3
  <2>3. {s[i] : i \in 1..(k + 1)} = {s[i] : i \in 1..k} \cup {s[k + 1]}
    <3>1. 1..(k + 1) = (1..k) \cup {k + 1}
      BY <2>1
    <3> QED BY <3>1
  <2>4. CASE s[k + 1] \in S
    BY <2>1, <2>2, <2>3, <2>4, ElementsOfAppend
  <2>5. CASE s[k + 1] \notin S
    BY <2>1, <2>2, <2>3, <2>5
  <2> QED BY <2>4, <2>5
<1>6. P = Nat
  <2>1. P \in SUBSET Nat OBVIOUS
  <2> HIDE DEF P
  <2> QED BY <1>4, <1>5, <2>1, SetInduction
<1>7. Right(Len(s))
  <2>1. Len(s) \in P
    BY <1>2, <1>6, Zenon
  <2> QED BY <1>2, <2>1
<1> QED BY <1>1, <1>2, <1>7 DEF ToSet

\* Among keeps the order: of two elements it keeps, the former stands before
\* the latter in the sequence.
LEMMA AmongInOrder ==
    ASSUME NEW T, NEW s \in Seq(T), NEW S
    PROVE  \A i, j \in DOMAIN Among(s, S) : i < j =>
              \E a, b \in DOMAIN s : a < b /\ s[a] = Among(s, S)[i] /\ s[b] = Among(s, S)[j]
<1>1. PICK f : Keeps(f, s, S, Len(s)) /\ Among(s, S) = f[Len(s)]
  BY AmongIsKept
<1>2. Len(s) \in Nat /\ DOMAIN s = 1..Len(s)
  OBVIOUS
<1>3. /\ f[0] = <<>>
      /\ \A k \in 1..Len(s) :
            f[k] = IF s[k] \in S THEN Append(f[k - 1], s[k]) ELSE f[k - 1]
  <2> DEFINE n == Len(s)
  <2>1. n \in Nat /\ Keeps(f, s, S, n)
    BY <1>1, <1>2
  <2> HIDE DEF n
  <2>2. /\ f[0] = <<>>
        /\ \A k \in 1..n :
              f[k] = IF s[k] \in S THEN Append(f[k - 1], s[k]) ELSE f[k - 1]
    BY <2>1, KeepsAt
  <2> QED BY <2>2 DEF n
<1> DEFINE From(t, k) == \A i \in DOMAIN t : \E a \in 1..k : s[a] = t[i]
           Pairs(t, k) == \A i, j \in DOMAIN t : i < j =>
                             \E a, b \in 1..k : a < b /\ s[a] = t[i] /\ s[b] = t[j]
           P == {k \in Nat : k <= Len(s) =>
                                f[k] \in Seq(T) /\ From(f[k], k) /\ Pairs(f[k], k)}
<1>4. 0 \in P
  <2>1. f[0] \in Seq(T) /\ DOMAIN f[0] = {}
    BY <1>3
  <2>2. From(f[0], 0) /\ Pairs(f[0], 0)
    BY <2>1
  <2> HIDE DEF From, Pairs
  <2> QED BY <2>1, <2>2
<1>5. ASSUME NEW k \in P PROVE k + 1 \in P
  <2> SUFFICES ASSUME k + 1 <= Len(s)
               PROVE  f[k + 1] \in Seq(T) /\ From(f[k + 1], k + 1) /\ Pairs(f[k + 1], k + 1)
    OBVIOUS
  <2>1. /\ f[k] \in Seq(T) /\ From(f[k], k) /\ Pairs(f[k], k)
        /\ k \in Nat /\ k + 1 \in 1..Len(s) /\ s[k + 1] \in T
    OBVIOUS
  <2>2. f[k + 1] = IF s[k + 1] \in S THEN Append(f[k], s[k + 1]) ELSE f[k]
    BY <2>1, <1>3
  <2>3. From(f[k], k + 1) /\ Pairs(f[k], k + 1)
    <3>1. \A a \in 1..k : a \in 1..(k + 1)
      BY <2>1
    <3> HIDE DEF P
    <3> QED BY <2>1, <3>1
  <2>4. CASE s[k + 1] \notin S
    <3> HIDE DEF From, Pairs
    <3> QED BY <2>1, <2>2, <2>3, <2>4
  <2>5. CASE s[k + 1] \in S
    <3> DEFINE t == f[k]
               u == Append(t, s[k + 1])
    <3>1. t \in Seq(T) /\ From(t, k) /\ Pairs(t, k + 1) /\ From(t, k + 1)
      BY <2>1, <2>3
    <3> HIDE DEF t, P
    <3>2. /\ u \in Seq(T) /\ DOMAIN u = 1..(Len(t) + 1) /\ DOMAIN t = 1..Len(t) /\ Len(t) \in Nat
          /\ u[Len(t) + 1] = s[k + 1]
          /\ \A i \in 1..Len(t) : u[i] = t[i]
      BY <2>1, <3>1
    <3> HIDE DEF u
    <3>3. ASSUME NEW i \in DOMAIN u PROVE \E a \in 1..(k + 1) : s[a] = u[i]
      <4>1. CASE i = Len(t) + 1
        BY <2>1, <3>2, <4>1
      <4>2. CASE i # Len(t) + 1
        <5>1. i \in DOMAIN t /\ u[i] = t[i]
          BY <3>2, <4>2
        <5> QED BY <3>1, <5>1
      <4> QED BY <4>1, <4>2
    <3>4. ASSUME NEW i \in DOMAIN u, NEW j \in DOMAIN u, i < j
          PROVE  \E a, b \in 1..(k + 1) : a < b /\ s[a] = u[i] /\ s[b] = u[j]
      <4>1. i \in DOMAIN t /\ u[i] = t[i]
        BY <3>2, <3>4
      <4>2. CASE j = Len(t) + 1
        <5>1. PICK a \in 1..k : s[a] = t[i]
          BY <3>1, <4>1
        <5>2. a \in 1..(k + 1) /\ k + 1 \in 1..(k + 1) /\ a < k + 1
          BY <2>1
        <5> QED BY <3>2, <4>1, <4>2, <5>1, <5>2
      <4>3. CASE j # Len(t) + 1
        <5>1. j \in DOMAIN t /\ u[j] = t[j]
          BY <3>2, <4>3
        <5> QED BY <3>1, <3>4, <4>1, <5>1
      <4> QED BY <4>2, <4>3
    <3>5. f[k + 1] = u
      BY <2>2, <2>5 DEF u, t
    <3> QED BY <3>2, <3>3, <3>4, <3>5
  <2> QED BY <2>4, <2>5
<1>6. P = Nat
  <2>1. P \in SUBSET Nat OBVIOUS
  <2> HIDE DEF P
  <2> QED BY <1>4, <1>5, <2>1, SetInduction
<1>7. Pairs(f[Len(s)], Len(s))
  <2>1. Len(s) \in P
    BY <1>2, <1>6, Zenon
  <2> HIDE DEF Pairs, From
  <2> QED BY <1>2, <2>1
<1> QED BY <1>1, <1>2, <1>7

\* The first elements of a list.
LEMMA PrefixOf ==
    ASSUME NEW T, NEW s \in Seq(T), NEW n \in Nat, n <= Len(s)
    PROVE  /\ SubSeq(s, 1, n) \in Seq(T) /\ Len(SubSeq(s, 1, n)) = n
           /\ \A i \in 1..n : SubSeq(s, 1, n)[i] = s[i]
<1> DEFINE r == SubSeq(s, 1, n)
<1>1. r = [i \in 1..n |-> s[(1 + i) - 1]]
  BY DEF SubSeq
<1> HIDE DEF r
<1>2. \A i \in 1..n : (1 + i) - 1 = i /\ i \in 1..Len(s)
  OBVIOUS
<1>3. \A i \in 1..n : r[i] = s[i] /\ s[i] \in T
  BY <1>1, <1>2
<1>4. r \in [1..n -> T]
  BY <1>1, <1>2, <1>3
<1>5. r \in Seq(T) /\ Len(r) = n
  BY <1>4, ListIsSequence
<1> QED BY <1>3, <1>5 DEF r

-----------------------------------------------------------------------------
(* The greatest and the least of some numbers, and division.                *)

LEMMA MaxIs ==
    ASSUME NEW S \in SUBSET Int, NEW x \in S, \A y \in S : y <= x
    PROVE  Max(S) = x
<1>1. x \in Int /\ S \subseteq Int
  OBVIOUS
<1>2. \A y \in S : x >= y
  BY <1>1
<1>3. Max(S) \in S /\ \A y \in S : Max(S) >= y
  BY <1>2 DEF Max
<1>4. Max(S) \in Int /\ Max(S) >= x /\ x >= Max(S)
  BY <1>1, <1>2, <1>3
<1> QED BY <1>1, <1>4

LEMMA MinIs ==
    ASSUME NEW S \in SUBSET Int, NEW x \in S, \A y \in S : x <= y
    PROVE  Min(S) = x
<1>1. x \in Int /\ S \subseteq Int
  OBVIOUS
<1>2. Min(S) \in S /\ \A y \in S : Min(S) <= y
  BY DEF Min
<1>3. Min(S) \in Int /\ Min(S) <= x /\ x <= Min(S)
  BY <1>1, <1>2
<1> QED BY <1>1, <1>3

LEMMA MaxIsIn ==
    ASSUME NEW n \in Nat, NEW S \in SUBSET Nat, S # {}, \A y \in S : y <= n
    PROVE  Max(S) \in S /\ \A y \in S : y <= Max(S)
<1> DEFINE U == {u \in Nat : \A y \in S : y <= u}
<1>1. U \in SUBSET Nat /\ n \in U
  OBVIOUS
<1>2. PICK u \in U : \A v \in U : u <= v
  <2> HIDE DEF U
  <2> QED BY <1>1, LeastNat
<1>3. u \in S
  <2> SUFFICES ASSUME u \notin S PROVE FALSE
    OBVIOUS
  <2>1. u \in Nat /\ \A y \in S : y \in Nat /\ y <= u /\ y # u
    OBVIOUS
  <2>2. PICK z \in S : TRUE
    OBVIOUS
  <2>3. u > 0
    BY <2>1, <2>2
  <2>4. u - 1 \in U
    <3>1. u - 1 \in Nat /\ \A y \in S : y <= u - 1
      BY <2>1, <2>3
    <3> QED BY <3>1
  <2> HIDE DEF U
  <2>5. u <= u - 1
    BY <1>2, <2>4
  <2> QED BY <2>1, <2>5
<1>4. \A y \in S : y <= u
  OBVIOUS
<1>5. S \in SUBSET Int
  OBVIOUS
<1>6. Max(S) = u
  BY <1>3, <1>4, <1>5, MaxIs
<1> QED BY <1>3, <1>4, <1>6

\* Division rounds down, and respects the order.
LEMMA DivBounds ==
    ASSUME NEW x \in Int, NEW d \in Nat \ {0}
    PROVE  /\ x \div d \in Int
           /\ d * (x \div d) <= x /\ x < d * ((x \div d) + 1)
OBVIOUS

LEMMA LeastQuotient ==
    ASSUME NEW d \in Nat \ {0}, NEW p \in Int, NEW q \in Int, d * p < d * (q + 1)
    PROVE  p <= q
<1>1. p >= q + 1 => d * p >= d * (q + 1)
  <2> SUFFICES ASSUME NEW k \in Nat, p = q + 1 + k PROVE d * p >= d * (q + 1)
    <3>1. p >= q + 1 => p - (q + 1) \in Nat /\ p = q + 1 + (p - (q + 1))
      OBVIOUS
    <3> QED BY <3>1
  <2>1. d * p = d * (q + 1) + d * k /\ d * k >= 0
    OBVIOUS
  <2> QED BY <2>1
<1>2. d * p \in Int /\ d * (q + 1) \in Int
  OBVIOUS
<1> QED BY <1>1, <1>2

LEMMA DivMonotone ==
    ASSUME NEW x \in Int, NEW y \in Int, x <= y, NEW d \in Nat \ {0}
    PROVE  x \div d <= y \div d
<1> DEFINE p == x \div d
           q == y \div d
<1>1. p \in Int /\ q \in Int /\ d * p <= x /\ y < d * (q + 1)
  BY DivBounds
<1> HIDE DEF p, q
<1>2. d * p \in Int /\ d * (q + 1) \in Int
  BY <1>1
<1>3. d * p < d * (q + 1)
  BY <1>1, <1>2
<1>4. p <= q
  BY <1>1, <1>3, LeastQuotient
<1> QED BY <1>4 DEF p, q

-----------------------------------------------------------------------------
(* Walks: lists that a recursion over marks collects, each mark's item      *)
(* leading to a later mark until one stops.                                 *)

\* From each mark that does not stop, an item of I at or after it, which leads
\* to a mark after the item; no mark after the bound goes on.
Leads(bound, Stop, I, item, next, at) ==
    /\ bound \in Nat /\ Stop \in SUBSET Nat
    /\ \A m \in Nat : m > bound => m \in Stop
    /\ \A m \in Nat \ Stop : item[m] \in I /\ m <= at[item[m]]
    /\ \A i \in I : at[i] \in Nat /\ next[i] \in Nat /\ at[i] < next[i]

WalkOf(f, Stop, item, next) ==
    f = [m \in Nat |-> IF m \in Stop THEN <<>> ELSE <<item[m]>> \o f[next[item[m]]]]

\* s is what a walk from m collects.
Collected(s, m, Stop, I, item, next, at) ==
    /\ s \in Seq(I)
    /\ m \in Stop => s = <<>>
    /\ m \notin Stop => Len(s) > 0 /\ s[1] = item[m]
    /\ \A p \in DOMAIN s : m <= at[s[p]]
    /\ \A p, q \in DOMAIN s : p < q => next[s[p]] <= at[s[q]]
    /\ \A p \in DOMAIN s : p + 1 \in DOMAIN s =>
          next[s[p]] \notin Stop /\ s[p + 1] = item[next[s[p]]]

\* The recursion defines a function.
LEMMA WalkExists ==
    ASSUME NEW bound, NEW Stop, NEW I, NEW item, NEW next, NEW at,
           Leads(bound, Stop, I, item, next, at)
    PROVE  \E f : WalkOf(f, Stop, item, next)
<1>1. /\ bound \in Nat /\ Stop \in SUBSET Nat /\ \A m \in Nat : m > bound => m \in Stop
      /\ \A m \in Nat \ Stop : next[item[m]] \in Nat /\ next[item[m]] > m
  <2>1. ASSUME NEW m \in Nat \ Stop
        PROVE  next[item[m]] \in Nat /\ next[item[m]] > m
    <3>1. item[m] \in I /\ m <= at[item[m]]
      BY DEF Leads
    <3>2. at[item[m]] \in Nat /\ next[item[m]] \in Nat /\ at[item[m]] < next[item[m]]
      BY <3>1 DEF Leads
    <3> QED BY <3>1, <3>2
  <2> QED BY <2>1 DEF Leads
<1> DEFINE Value(f, m) == IF m \in Stop THEN <<>> ELSE <<item[m]>> \o f[next[item[m]]]
           Solves(f, k) == \A m \in Nat : m + k > bound => f[m] = Value(f, m)
           P == {k \in Nat : \E f : Solves(f, k)}
<1>2. 0 \in P
  <2> DEFINE f == [m \in Nat |-> <<>>]
  <2>1. Solves(f, 0)
    BY <1>1
  <2> HIDE DEF f, Solves
  <2> QED BY <2>1
<1>3. ASSUME NEW k \in P PROVE k + 1 \in P
  <2>1. PICK f : Solves(f, k)
    <3> HIDE DEF Solves
    <3> QED OBVIOUS
  <2> DEFINE g == [m \in Nat |-> IF m + k > bound THEN f[m] ELSE Value(f, m)]
  <2>2. ASSUME NEW m \in Nat, m + (k + 1) > bound PROVE g[m] = Value(g, m)
    <3>1. g[m] = Value(f, m)
      <4>1. CASE m + k > bound
        <5>1. f[m] = Value(f, m)
          BY <2>1, <4>1
        <5> HIDE DEF Value
        <5> QED BY <4>1, <5>1
      <4>2. CASE ~(m + k > bound)
        <5> HIDE DEF Value
        <5> QED BY <4>2
      <4> QED BY <4>1, <4>2
    <3>2. CASE m \in Stop
      <4> HIDE DEF g
      <4> QED BY <3>1, <3>2
    <3>3. CASE m \notin Stop
      <4> DEFINE n == next[item[m]]
      <4>1. n \in Nat /\ n > m
        BY <1>1, <3>3
      <4>2. n + k > bound
        <5> HIDE DEF n
        <5> QED BY <1>1, <2>2, <4>1
      <4>3. g[n] = f[n]
        <5> HIDE DEF n, Value
        <5> QED BY <4>1, <4>2
      <4> HIDE DEF g
      <4> QED BY <3>1, <4>3
    <3> QED BY <3>2, <3>3
  <2>3. Solves(g, k + 1)
    <3> HIDE DEF g, Value
    <3> QED BY <2>2
  <2> HIDE DEF Solves, g
  <2> QED BY <2>3
<1>4. P = Nat
  <2>1. P \in SUBSET Nat
    OBVIOUS
  <2> HIDE DEF P
  <2> QED BY <1>2, <1>3, <2>1, SetInduction
<1>5. PICK f : Solves(f, bound + 1)
  <2>1. bound + 1 \in P
    <3> HIDE DEF P
    <3> QED BY <1>1, <1>4
  <2> HIDE DEF Solves
  <2> QED BY <2>1
<1>6. \A m \in Nat : f[m] = Value(f, m)
  <2>1. \A m \in Nat : m + (bound + 1) > bound
    BY <1>1
  <2> HIDE DEF Value
  <2> QED BY <1>5, <2>1
<1> DEFINE h == [m \in Nat |-> f[m]]
<1>7. \A m \in Nat : Value(f, m) = Value(h, m)
  <2> SUFFICES ASSUME NEW m \in Nat PROVE Value(f, m) = Value(h, m)
    OBVIOUS
  <2>1. CASE m \in Stop
    BY <2>1
  <2>2. CASE m \notin Stop
    <3>1. next[item[m]] \in Nat
      BY <1>1, <2>2
    <3>2. h[next[item[m]]] = f[next[item[m]]]
      BY <3>1
    <3> HIDE DEF h
    <3> QED BY <3>2
  <2> QED BY <2>1, <2>2
<1>8. h = [m \in Nat |-> Value(h, m)]
  <2>1. \A m \in Nat : f[m] = Value(h, m)
    <3> HIDE DEF Value, h
    <3> QED BY <1>6, <1>7
  <2>2. h = [m \in Nat |-> f[m]]
    OBVIOUS
  <2> HIDE DEF Value, h
  <2> QED BY <2>1, <2>2
<1> HIDE DEF h
<1> QED BY <1>8 DEF WalkOf

\* What it collects.
LEMMA WalkCollects ==
    ASSUME NEW bound, NEW Stop, NEW I, NEW item, NEW next, NEW at,
           Leads(bound, Stop, I, item, next, at),
           NEW f, WalkOf(f, Stop, item, next), NEW start \in Nat
    PROVE  Collected(f[start], start, Stop, I, item, next, at)
<1>1. /\ bound \in Nat /\ Stop \in SUBSET Nat /\ \A m \in Nat : m > bound => m \in Stop
      /\ \A m \in Nat \ Stop : item[m] \in I /\ m <= at[item[m]]
      /\ \A i \in I : at[i] \in Nat /\ next[i] \in Nat /\ at[i] < next[i]
  BY DEF Leads
<1>2. \A m \in Nat : f[m] = IF m \in Stop THEN <<>> ELSE <<item[m]>> \o f[next[item[m]]]
  <2> DEFINE g == [m \in Nat |-> IF m \in Stop THEN <<>> ELSE <<item[m]>> \o f[next[item[m]]]]
  <2>1. \A m \in Nat : g[m] = IF m \in Stop THEN <<>> ELSE <<item[m]>> \o f[next[item[m]]]
    OBVIOUS
  <2>2. f = g
    BY DEF WalkOf
  <2> HIDE DEF g
  <2> QED BY <2>1, <2>2
<1> DEFINE Holds(m) == Collected(f[m], m, Stop, I, item, next, at)
           P == {k \in Nat : \A m \in Nat : m + k > bound => Holds(m)}
<1>3. ASSUME NEW m \in Nat, m \in Stop PROVE Holds(m)
  <2>1. f[m] = <<>>
    BY <1>2, <1>3
  <2>2. DOMAIN f[m] = {} /\ f[m] \in Seq(I)
    BY <2>1
  <2> QED BY <1>3, <2>1, <2>2 DEF Collected
<1>4. ASSUME NEW m \in Nat, m \notin Stop, Holds(next[item[m]]) PROVE Holds(m)
  <2> DEFINE i == item[m]
             n == next[i]
             rest == f[n]
             s == f[m]
  <2>1. /\ i \in I /\ at[i] \in Nat /\ m <= at[i] /\ n \in Nat /\ at[i] < n
    BY <1>1, <1>4
  <2>2. s = <<i>> \o rest
    BY <1>2, <1>4
  <2>3. /\ rest \in Seq(I)
        /\ n \in Stop => rest = <<>>
        /\ n \notin Stop => Len(rest) > 0 /\ rest[1] = item[n]
        /\ \A p \in DOMAIN rest : n <= at[rest[p]]
        /\ \A p, q \in DOMAIN rest : p < q => next[rest[p]] <= at[rest[q]]
        /\ \A p \in DOMAIN rest : p + 1 \in DOMAIN rest =>
              next[rest[p]] \notin Stop /\ rest[p + 1] = item[next[rest[p]]]
    BY <1>4 DEF Collected
  <2> DEFINE n0 == next[i]
  <2>4. n = next[i]
    OBVIOUS
  <2> HIDE DEF s, rest, n, n0, i
  <2>5. /\ s \in Seq(I) /\ Len(s) = Len(rest) + 1 /\ s[1] = i
        /\ DOMAIN s = 1..(Len(rest) + 1) /\ DOMAIN rest = 1..Len(rest) /\ Len(rest) \in Nat
        /\ \A p \in DOMAIN s : p # 1 => p - 1 \in DOMAIN rest /\ s[p] = rest[p - 1]
    BY <2>1, <2>2, <2>3
  <2>6. \A p \in DOMAIN rest : rest[p] \in I /\ at[rest[p]] \in Nat
    BY <1>1, <2>3
  <2>7. ASSUME NEW p \in DOMAIN s PROVE m <= at[s[p]]
    <3>1. CASE p = 1
      BY <2>1, <2>5, <3>1
    <3>2. CASE p # 1
      <4>1. p - 1 \in DOMAIN rest /\ s[p] = rest[p - 1]
        BY <2>5, <3>2
      <4>2. n <= at[rest[p - 1]] /\ at[rest[p - 1]] \in Nat
        BY <2>3, <2>6, <4>1
      <4> QED BY <2>1, <4>1, <4>2
    <3> QED BY <3>1, <3>2
  <2>8. ASSUME NEW p \in DOMAIN s, NEW q \in DOMAIN s, p < q PROVE next[s[p]] <= at[s[q]]
    <3>1. q # 1 /\ q - 1 \in DOMAIN rest /\ s[q] = rest[q - 1]
      BY <2>5, <2>8
    <3>2. CASE p = 1
      <4>1. n <= at[rest[q - 1]]
        BY <2>3, <3>1
      <4> QED BY <2>4, <2>5, <3>1, <3>2, <4>1
    <3>3. CASE p # 1
      <4>1. p - 1 \in DOMAIN rest /\ s[p] = rest[p - 1] /\ p - 1 < q - 1
        BY <2>5, <2>8, <3>3
      <4> QED BY <2>3, <3>1, <4>1
    <3> QED BY <3>2, <3>3
  <2>9. ASSUME NEW p \in DOMAIN s, p + 1 \in DOMAIN s
        PROVE  next[s[p]] \notin Stop /\ s[p + 1] = item[next[s[p]]]
    <3>1. (p + 1) - 1 = p /\ p + 1 # 1 /\ p \in DOMAIN rest /\ s[p + 1] = rest[p]
      <4>1. p + 1 # 1 /\ (p + 1) - 1 = p
        BY <2>5
      <4> QED BY <2>5, <2>9, <4>1
    <3>2. CASE p = 1
      <4>1. rest # <<>>
        BY <3>1, <3>2, <2>5
      <4>2. n \notin Stop /\ rest[1] = item[n]
        BY <2>3, <4>1
      <4> QED BY <2>4, <2>5, <3>1, <3>2, <4>2
    <3>3. CASE p # 1
      <4>1. p - 1 \in DOMAIN rest /\ s[p] = rest[p - 1] /\ (p - 1) + 1 = p
        BY <2>5, <3>3
      <4> QED BY <2>3, <3>1, <4>1
    <3> QED BY <3>2, <3>3
  <2>10. Len(s) > 0 /\ s[1] = item[m]
    BY <2>5 DEF i
  <2>11. Collected(s, m, Stop, I, item, next, at)
    BY ONLY <1>4, <2>5, <2>7, <2>8, <2>9, <2>10 DEF Collected
  <2> QED BY <2>11 DEF s
<1>5. 0 \in P
  <2> HIDE DEF Holds
  <2> QED BY <1>1, <1>3
<1>6. ASSUME NEW k \in P PROVE k + 1 \in P
  <2>1. ASSUME NEW m \in Nat, m + (k + 1) > bound PROVE Holds(m)
    <3>1. CASE m \in Stop
      BY <1>3, <3>1
    <3>2. CASE m \notin Stop
      <4> DEFINE n == next[item[m]]
      <4>1. n \in Nat /\ n > m
        <5>1. item[m] \in I /\ m <= at[item[m]]
          BY <1>1, <3>2
        <5>2. at[item[m]] \in Nat /\ n \in Nat /\ at[item[m]] < n
          BY <1>1, <5>1
        <5> HIDE DEF n
        <5> QED BY <5>1, <5>2
      <4>2. n + k > bound
        <5> HIDE DEF n, Holds
        <5> QED BY <1>1, <2>1, <4>1
      <4>3. Holds(n)
        <5> HIDE DEF n, Holds
        <5> QED BY <4>1, <4>2
      <4> QED BY <1>4, <3>2, <4>3
    <3> QED BY <3>1, <3>2
  <2> HIDE DEF Holds
  <2> QED BY <2>1
<1>7. P = Nat
  <2>1. P \in SUBSET Nat
    OBVIOUS
  <2> HIDE DEF P
  <2> QED BY <1>5, <1>6, <2>1, SetInduction
<1>8. bound + 1 \in P
  <2> HIDE DEF P
  <2> QED BY <1>1, <1>7
<1> HIDE DEF Holds
<1>9. start + (bound + 1) > bound
  BY <1>1
<1>10. Holds(start)
  BY <1>8, <1>9
<1> QED BY <1>10 DEF Holds
=============================================================================
