---------------------------- MODULE ReaderProofs ----------------------------
(***************************************************************************)
(* Theorems about Reader, for any queries, plans and number of reads.      *)
(***************************************************************************)
EXTENDS Reader, FiniteSetTheorems, SequenceTheorems, NaturalsInduction, TLAPS

-----------------------------------------------------------------------------
(* Counting up.                                                            *)

LEMMA Least ==
  ASSUME NEW S \in SUBSET Nat, S # {}
  PROVE  \E j \in S : \A k \in S : j <= k
  <1> DEFINE Less == OpToRel(<, Nat)
  <1>1. IsWellFoundedOn(Less, Nat)
    BY NatLessThanWellFounded
  <1>2. \A x, y \in Nat : <<x, y>> \in Less <=> x < y
    BY DEF OpToRel
  <1> HIDE DEF Less
  <1>3. PICK j \in S : \A k \in S : ~ (<<k, j>> \in Less)
    BY <1>1, WFMin, Zenon
  <1>4. ASSUME NEW k \in S PROVE j <= k
    <2>1. j \in Nat /\ k \in Nat
      BY <1>3
    <2>2. ~ k < j
      BY <1>2, <1>3, <2>1, Zenon
    <2> QED BY <2>1, <2>2
  <1> QED BY <1>4

LEMMA Upwards ==
  ASSUME NEW N \in Nat, NEW G, 0 \in G,
         \A n \in 1 .. N : n - 1 \in G => n \in G
  PROVE  0 .. N \subseteq G
  <1> DEFINE Bad == {n \in 0 .. N : n \notin G}
  <1> SUFFICES ASSUME Bad # {} PROVE FALSE
      OBVIOUS
  <1>1. PICK j \in Bad : \A k \in Bad : j <= k
    <2>1. Bad \in SUBSET Nat
      OBVIOUS
    <2> HIDE DEF Bad
    <2> QED BY <2>1, Least
  <1>2. j \in 1 .. N /\ j - 1 \in 0 .. N /\ ~ j <= j - 1
    BY <1>1
  <1>3. j - 1 \in Bad
    BY <1>1, <1>2
  <1> QED BY <1>1, <1>2, <1>3

Iterates(g, base, f, N) == g[0] = base /\ \A n \in 1 .. N : g[n] = f[n][g[n - 1]]

LEMMA Iterate ==
  ASSUME NEW S, NEW base \in S, NEW N \in Nat, NEW f \in [1 .. N -> [S -> S]]
  PROVE  \E g \in [0 .. N -> S] : Iterates(g, base, f, N)
  <1> DEFINE Fits(g, k) == Iterates(g, base, f, k)
             G == {k \in 0 .. N : \E g \in [0 .. k -> S] : Fits(g, k)}
  <1>1. 0 \in G
    <2> DEFINE h == [n \in 0 .. 0 |-> base]
    <2>1. h \in [0 .. 0 -> S] /\ h[0] = base /\ 1 .. 0 = {}
      OBVIOUS
    <2>2. 0 \in 0 .. N
      OBVIOUS
    <2> HIDE DEF h
    <2> QED BY <2>1, <2>2 DEF Iterates
  <1>2. ASSUME NEW k \in 1 .. N, k - 1 \in G PROVE k \in G
    <2>1. PICK g \in [0 .. k - 1 -> S] : Fits(g, k - 1)
      BY <1>2
    <2> DEFINE h == [n \in 0 .. k |-> IF n = k THEN f[k][g[k - 1]] ELSE g[n]]
    <2>2. g[k - 1] \in S /\ f[k] \in [S -> S]
      BY <2>1
    <2>3. h \in [0 .. k -> S]
      BY <2>1, <2>2
    <2>4. Fits(h, k)
      <3>1. h[0] = base
        BY <2>1 DEF Iterates
      <3>2. ASSUME NEW n \in 1 .. k PROVE h[n] = f[n][h[n - 1]]
        <4>1. h[n - 1] = g[n - 1]
          OBVIOUS
        <4>2. CASE n = k
          BY <4>1, <4>2
        <4>3. CASE n # k
          <5>1. n \in 1 .. k - 1
            BY <4>3
          <5> QED BY <2>1, <4>1, <4>3, <5>1 DEF Iterates
        <4> QED BY <4>2, <4>3
      <3> QED BY <3>1, <3>2 DEF Iterates
    <2>5. k \in 0 .. N
      OBVIOUS
    <2> HIDE DEF h, Fits
    <2> QED BY <2>3, <2>4, <2>5
  <1>3. 0 .. N \subseteq G
    <2> HIDE DEF G
    <2> QED BY <1>1, <1>2, Upwards
  <1>4. N \in G
    <2> HIDE DEF G
    <2> QED BY <1>3
  <1> QED BY <1>4

-----------------------------------------------------------------------------
(* Pick: its elements are those of s at some positions, which rise.        *)

\* The first k positions of s that are in I, and the elements r there.
Along(p, r, s, I, k) ==
    /\ p \in [1 .. Len(r) -> I \cap 1 .. k]
    /\ \A n \in 1 .. Len(r) : r[n] = s[p[n]]
    /\ \A m, n \in 1 .. Len(r) : m < n => p[m] < p[n]
    /\ \A i \in I \cap 1 .. k : \E n \in 1 .. Len(r) : p[n] = i

\* The loop of Pick, and its result.
PickSteps(g, s, I) ==
    /\ g[0] = <<>>
    /\ \A n \in 1 .. Len(s) :
          g[n] = IF n \in I THEN Append(g[n - 1], s[n]) ELSE g[n - 1]
    /\ Pick(s, I) = g[Len(s)]

LEMMA PickUnfolds ==
  ASSUME NEW T, NEW s \in Seq(T), NEW I
  PROVE  \E g \in [0 .. Len(s) -> Seq(T)] : PickSteps(g, s, I)
  <1> DEFINE N == Len(s)
             S == Seq(T)
             Next1(x, n) == IF n \in I THEN Append(x, s[n]) ELSE x
             f == [n \in 1 .. N |-> [x \in S |-> Next1(x, n)]]
             c == CHOOSE c : c = [n \in 0 .. Len(s) |->
                      IF n = 0 THEN <<>>
                      ELSE IF n \in I THEN Append(c[n - 1], s[n]) ELSE c[n - 1]]
  <1>1. N \in Nat /\ \A n \in 1 .. N : s[n] \in T
    BY LenProperties
  <1>2. \A n \in 1 .. N : \A x \in S : Next1(x, n) \in S
    BY <1>1, AppendProperties
  <1>3. <<>> \in S
    BY EmptySeq
  <1> SUFFICES \E g \in [0 .. N -> S] :
                  /\ g[0] = <<>>
                  /\ \A n \in 1 .. N : g[n] = Next1(g[n - 1], n)
                  /\ Pick(s, I) = g[N]
      BY DEF PickSteps
  <1>4. /\ Pick(s, I) = c[N]
        /\ (\E g : g = [n \in 0 .. N |-> IF n = 0 THEN <<>> ELSE Next1(g[n - 1], n)])
              => c = [n \in 0 .. N |-> IF n = 0 THEN <<>> ELSE Next1(c[n - 1], n)]
    BY DEF Pick
  <1> HIDE DEF c, N, S, Next1
  <1>5. f \in [1 .. N -> [S -> S]]
    BY <1>2
  <1>6. \A n \in 1 .. N : \A x \in S : f[n][x] = Next1(x, n)
    OBVIOUS
  <1> HIDE DEF f
  <1>7. PICK g \in [0 .. N -> S] :
           g[0] = <<>> /\ \A n \in 1 .. N : g[n] = f[n][g[n - 1]]
    <2>1. \E g \in [0 .. N -> S] : Iterates(g, <<>>, f, N)
      BY <1>1, <1>3, <1>5, Iterate
    <2> QED BY <2>1 DEF Iterates
  <1>8. \A n \in 1 .. N : n - 1 \in 0 .. N /\ g[n] = Next1(g[n - 1], n)
    <2> TAKE n \in 1 .. N
    <2>1. n - 1 \in 0 .. N
      BY <1>1
    <2>2. g[n - 1] \in S
      BY <1>7, <2>1
    <2> QED BY <1>6, <1>7, <2>1, <2>2
  <1>9. \A n \in 0 .. N : n = 0 \/ n \in 1 .. N
    BY <1>1
  <1>10. g = [n \in 0 .. N |-> IF n = 0 THEN <<>> ELSE Next1(g[n - 1], n)]
    BY <1>1, <1>7, <1>8, <1>9
  <1>11. \A n \in 0 .. N : c[n] = IF n = 0 THEN <<>> ELSE Next1(c[n - 1], n)
    BY <1>4, <1>10
  <1> DEFINE G == {n \in 0 .. N : c[n] = g[n]}
  <1>12. 0 \in G
    <2>1. 0 \in 0 .. N
      BY <1>1
    <2> QED BY <1>7, <1>11, <2>1
  <1>13. ASSUME NEW n \in 1 .. N, n - 1 \in G PROVE n \in G
    <2>1. c[n - 1] = g[n - 1] /\ n \in 0 .. N /\ n # 0
      BY <1>1, <1>13
    <2> QED BY <1>8, <1>11, <2>1
  <1>14. N \in G
    <2> HIDE DEF G
    <2>1. 0 .. N \subseteq G
      BY <1>1, <1>12, <1>13, Upwards
    <2> QED BY <1>1, <2>1
  <1> QED BY <1>4, <1>7, <1>8, <1>14

LEMMA PickIs ==
  ASSUME NEW T, NEW s \in Seq(T), NEW I
  PROVE  /\ Pick(s, I) \in Seq(T)
         /\ \E p : Along(p, Pick(s, I), s, I, Len(s))
  <1>1. Len(s) \in Nat /\ \A n \in 1 .. Len(s) : s[n] \in T
    BY LenProperties
  <1>2. PICK g \in [0 .. Len(s) -> Seq(T)] : PickSteps(g, s, I)
    BY PickUnfolds
  <1>3. /\ g[0] = <<>>
        /\ \A n \in 1 .. Len(s) :
              g[n] = IF n \in I THEN Append(g[n - 1], s[n]) ELSE g[n - 1]
        /\ Pick(s, I) = g[Len(s)]
    BY <1>2 DEF PickSteps
  <1> DEFINE G == {k \in 0 .. Len(s) : \E p : Along(p, g[k], s, I, k)}
  <1>4. 0 \in G
    <2>1. Len(<<>>) = 0 /\ 1 .. 0 = {}
      BY EmptySeq
    <2>2. Along([n \in 1 .. 0 |-> n], <<>>, s, I, 0)
      BY <2>1 DEF Along
    <2> QED BY <1>1, <1>2, <1>3, <2>2
  <1>5. ASSUME NEW k \in 1 .. Len(s), k - 1 \in G PROVE k \in G
    <2>1. PICK p : Along(p, g[k - 1], s, I, k - 1)
      BY <1>5
    <2> DEFINE r == g[k - 1]
    <2>2. r \in Seq(T) /\ Len(r) \in Nat
      <3>1. k - 1 \in 0 .. Len(s)
        BY <1>1
      <3>2. r \in Seq(T)
        BY <1>2, <1>3, <3>1
      <3> QED BY <3>2, LenProperties
    <2>3. CASE k \notin I
      <3>1. I \cap 1 .. k = I \cap 1 .. k - 1
        BY <1>1, <2>3
      <3>2. g[k] = r /\ k \in 0 .. Len(s)
        BY <1>1, <1>2, <1>3, <2>3
      <3>3. Along(p, r, s, I, k)
        BY <2>1, <3>1 DEF Along
      <3> QED BY <3>2, <3>3
    <2>4. CASE k \in I
      <3> DEFINE q == [n \in 1 .. Len(r) + 1 |-> IF n = Len(r) + 1 THEN k ELSE p[n]]
                 x == Append(r, s[k])
      <3>1. /\ g[k] = x /\ Len(x) = Len(r) + 1
            /\ \A n \in 1 .. Len(r) : x[n] = r[n]
            /\ x[Len(r) + 1] = s[k]
        <4>1. g[k] = x /\ s[k] \in T
          BY <1>1, <1>2, <1>3, <2>4
        <4> HIDE DEF r
        <4> QED BY <2>2, <4>1, AppendProperties
      <3>2. \A n \in 1 .. Len(r) : p[n] \in I /\ p[n] \in 1 .. k - 1 /\ q[n] = p[n]
        BY <2>1, <2>2 DEF Along
      <3>3. q[Len(r) + 1] = k
        BY <2>2
      <3> HIDE DEF x
      <3>4. q \in [1 .. Len(x) -> I \cap 1 .. k]
        <4>1. \A n \in 1 .. Len(r) + 1 :
                 (IF n = Len(r) + 1 THEN k ELSE p[n]) \in I \cap 1 .. k
          <5> TAKE n \in 1 .. Len(r) + 1
          <5>1. CASE n = Len(r) + 1
            BY <1>1, <2>4, <5>1
          <5>2. CASE n # Len(r) + 1
            <6>1. n \in 1 .. Len(r)
              BY <2>2, <5>2
            <6>2. p[n] \in I /\ p[n] \in 1 .. k - 1
              BY <3>2, <6>1
            <6>3. p[n] \in 1 .. k
              BY <6>2
            <6> QED BY <5>2, <6>2, <6>3
          <5> QED BY <5>1, <5>2
        <4> QED BY <3>1, <4>1
      <3>5. \A n \in 1 .. Len(x) : n = Len(r) + 1 \/ n \in 1 .. Len(r)
        BY <2>2, <3>1
      <3> HIDE DEF q
      <3>6. \A n \in 1 .. Len(x) : x[n] = s[q[n]]
        BY <2>1, <3>1, <3>2, <3>3, <3>5 DEF Along
      <3>7. \A m, n \in 1 .. Len(x) : m < n => q[m] < q[n]
        BY <2>1, <2>2, <3>1, <3>2, <3>3, <3>5 DEF Along
      <3>8. \A i \in I \cap 1 .. k : \E n \in 1 .. Len(x) : q[n] = i
        <4> TAKE i \in I \cap 1 .. k
        <4>1. CASE i = k
          BY <2>2, <3>1, <3>3, <4>1
        <4>2. CASE i # k
          <5>1. i \in I \cap 1 .. k - 1
            BY <4>2
          <5> QED BY <2>1, <2>2, <3>1, <3>2, <5>1 DEF Along
        <4> QED BY <4>1, <4>2
      <3>9. Along(q, x, s, I, k)
        BY <3>4, <3>6, <3>7, <3>8 DEF Along
      <3>10. k \in 0 .. Len(s)
        BY <1>1
      <3> QED BY <3>1, <3>9, <3>10
    <2> QED BY <2>3, <2>4
  <1>6. 0 .. Len(s) \subseteq G
    <2> HIDE DEF G
    <2> QED BY <1>1, <1>4, <1>5, Upwards
  <1> QED BY <1>1, <1>2, <1>3, <1>6

Rises(p, M) == \A m, n \in 1 .. M : m < n => p[m] < p[n]

Covers(q, N, p, M) == \A n \in 1 .. M : \E k \in 1 .. N : q[k] = p[n]

\* Positions that rise are known by the set of them.
LEMMA SameOrder ==
  ASSUME NEW M \in Nat, NEW N \in Nat,
         NEW p \in [1 .. M -> Nat], NEW q \in [1 .. N -> Nat],
         Rises(p, M), Rises(q, N), Covers(q, N, p, M), Covers(p, M, q, N)
  PROVE  M = N /\ p = q
  <1> USE DEF Rises, Covers
  <1> DEFINE G == {n \in Nat : n <= M /\ n <= N => \A m \in 1 .. n : p[m] = q[m]}
  <1>1. 0 \in G
    OBVIOUS
  <1>2. ASSUME NEW n \in Nat \ {0}, n - 1 \in G PROVE n \in G
    <2> SUFFICES ASSUME n <= M, n <= N PROVE \A m \in 1 .. n : p[m] = q[m]
        OBVIOUS
    <2>1. \A m \in 1 .. n - 1 : p[m] = q[m]
      BY <1>2
    <2>2. n \in 1 .. M /\ n \in 1 .. N /\ p[n] \in Nat /\ q[n] \in Nat
      <3>1. n \in 1 .. M /\ n \in 1 .. N
        OBVIOUS
      <3> QED BY <3>1, Zenon
    <2>3. PICK k \in 1 .. N : q[k] = p[n]
      BY <2>2
    <2>4. PICK l \in 1 .. M : p[l] = q[n]
      BY <2>2
    <2>5. q[n] <= p[n]
      <3>1. CASE k < n
        <4>1. k \in 1 .. n - 1 /\ k \in 1 .. M
          BY <2>2, <3>1
        <4> QED BY <2>1, <2>2, <2>3, <3>1, <4>1
      <3>2. CASE k >= n
        <4>1. k = n \/ n < k
          BY <3>2
        <4>2. CASE n < k
          <5>1. q[n] < q[k]
            BY <2>2, <2>3, <4>2
          <5> QED BY <2>2, <2>3, <5>1
        <4> QED BY <2>2, <2>3, <4>1, <4>2
      <3> QED BY <3>1, <3>2
    <2>6. p[n] <= q[n]
      <3>1. CASE l < n
        <4>1. l \in 1 .. n - 1 /\ l \in 1 .. N
          BY <2>2, <3>1
        <4> QED BY <2>1, <2>2, <2>4, <3>1, <4>1
      <3>2. CASE l >= n
        <4>1. l = n \/ n < l
          BY <3>2
        <4>2. CASE n < l
          <5>1. p[n] < p[l]
            BY <2>2, <2>4, <4>2
          <5> QED BY <2>2, <2>4, <5>1
        <4> QED BY <2>2, <2>4, <4>1, <4>2
      <3> QED BY <3>1, <3>2
    <2>7. p[n] = q[n]
      BY <2>2, <2>5, <2>6
    <2>8. \A m \in 1 .. n : m = n \/ m \in 1 .. n - 1
      OBVIOUS
    <2> QED BY <2>1, <2>7, <2>8
  <1>3. M \in G /\ N \in G
    <2> HIDE DEF G
    <2>1. \A n \in 1 .. M : n - 1 \in G => n \in G
      BY <1>2
    <2>2. \A n \in 1 .. N : n - 1 \in G => n \in G
      BY <1>2
    <2>3. 0 .. M \subseteq G
      BY <1>1, <2>1, Upwards
    <2>4. 0 .. N \subseteq G
      BY <1>1, <2>2, Upwards
    <2> QED BY <2>3, <2>4
  <1>4. ~ M < N
    <2> SUFFICES ASSUME M < N PROVE FALSE
        OBVIOUS
    <2>1. M + 1 \in 1 .. N /\ \A m \in 1 .. M : p[m] = q[m] /\ m \in 1 .. N /\ m < M + 1
      BY <1>3
    <2>2. PICK k \in 1 .. M : p[k] = q[M + 1]
      BY <2>1
    <2> QED BY <2>1, <2>2
  <1>5. ~ N < M
    <2> SUFFICES ASSUME N < M PROVE FALSE
        OBVIOUS
    <2>1. N + 1 \in 1 .. M /\ \A m \in 1 .. N : p[m] = q[m] /\ m \in 1 .. M /\ m < N + 1
      BY <1>3
    <2>2. PICK k \in 1 .. N : q[k] = p[N + 1]
      BY <2>1
    <2> QED BY <2>1, <2>2
  <1>6. M = N
    BY <1>4, <1>5
  <1>7. \A m \in 1 .. M : p[m] = q[m]
    BY <1>3, <1>6
  <1> QED BY <1>6, <1>7

LEMMA PickElements ==
  ASSUME NEW T, NEW s \in Seq(T), NEW I
  PROVE  /\ Pick(s, I) \in Seq(T)
         /\ \A n \in DOMAIN Pick(s, I) : \E i \in I \cap DOMAIN s : Pick(s, I)[n] = s[i]
         /\ \A i \in I \cap DOMAIN s : \E n \in DOMAIN Pick(s, I) : Pick(s, I)[n] = s[i]
  <1>1. Pick(s, I) \in Seq(T) /\ \E p : Along(p, Pick(s, I), s, I, Len(s))
    BY PickIs
  <1>2. PICK p : Along(p, Pick(s, I), s, I, Len(s))
    BY <1>1
  <1> DEFINE r == Pick(s, I)
  <1>3. DOMAIN s = 1 .. Len(s) /\ DOMAIN r = 1 .. Len(r)
    BY <1>1, LenProperties
  <1>4. /\ \A n \in 1 .. Len(r) : p[n] \in I \cap 1 .. Len(s) /\ r[n] = s[p[n]]
        /\ \A i \in I \cap 1 .. Len(s) : \E n \in 1 .. Len(r) : p[n] = i
    <2> HIDE DEF r
    <2> QED BY <1>2 DEF Along, r
  <1> HIDE DEF r
  <1>5. \A n \in DOMAIN r : \E i \in I \cap DOMAIN s : r[n] = s[i]
    BY <1>3, <1>4
  <1>6. \A i \in I \cap DOMAIN s : \E n \in DOMAIN r : r[n] = s[i]
    BY <1>3, <1>4
  <1> QED BY <1>1, <1>5, <1>6 DEF r

\* The positions of s that hold a member of V.
At(s, V) == {i \in DOMAIN s : s[i] \in V}

\* What is in V is not lost, nor moved, when more than V is picked first.
LEMMA PickAgain ==
  ASSUME NEW T, NEW s \in Seq(T), NEW I, NEW V,
         At(s, V) \subseteq I
  PROVE  Pick(Pick(s, I), At(Pick(s, I), V)) = Pick(s, At(s, V))
  <1> DEFINE k == Pick(s, I)
             J == At(k, V)
             D == At(s, V)
             a == Pick(k, J)
             b == Pick(s, D)
  <1>1. k \in Seq(T) /\ \E p : Along(p, k, s, I, Len(s))
    BY PickIs
  <1>2. PICK p : Along(p, k, s, I, Len(s))
    BY <1>1
  <1>3. a \in Seq(T) /\ \E q : Along(q, a, k, J, Len(k))
    <2> HIDE DEF k, J
    <2> QED BY <1>1, PickIs
  <1>4. PICK q : Along(q, a, k, J, Len(k))
    BY <1>3
  <1>5. b \in Seq(T) /\ \E r : Along(r, b, s, D, Len(s))
    <2> HIDE DEF D
    <2> QED BY PickIs
  <1>6. PICK r : Along(r, b, s, D, Len(s))
    BY <1>5
  <1>7. /\ Len(s) \in Nat /\ DOMAIN s = 1 .. Len(s)
        /\ Len(k) \in Nat /\ DOMAIN k = 1 .. Len(k)
        /\ Len(a) \in Nat /\ Len(b) \in Nat
    <2> HIDE DEF k, a, b
    <2> QED BY <1>1, <1>3, <1>5, LenProperties
  <1>8. \A n \in 1 .. Len(k) : k[n] = s[p[n]] /\ p[n] \in 1 .. Len(s)
    BY <1>2 DEF Along, At
  <1>9. \A n \in 1 .. Len(a) : q[n] \in 1 .. Len(k) /\ k[q[n]] \in V /\ a[n] = k[q[n]]
    <2> HIDE DEF k, a
    <2> QED BY <1>4, <1>7 DEF Along, At
  <1>10. \A n \in 1 .. Len(b) : r[n] \in 1 .. Len(s) /\ s[r[n]] \in V /\ b[n] = s[r[n]]
    <2> HIDE DEF b
    <2> QED BY <1>6, <1>7 DEF Along, At
  <1> DEFINE t == [n \in 1 .. Len(a) |-> p[q[n]]]
  <1>11. \A n \in 1 .. Len(a) : t[n] \in 1 .. Len(s) /\ s[t[n]] \in V /\ a[n] = s[t[n]]
    <2> HIDE DEF k, a
    <2> QED BY <1>8, <1>9
  <1>12. \A m, n \in 1 .. Len(a) : m < n => t[m] < t[n]
    <2> HIDE DEF k, a
    <2> QED BY <1>2, <1>4, <1>9 DEF Along, At
  <1>13. ASSUME NEW i \in 1 .. Len(s), s[i] \in V
         PROVE  \E n \in 1 .. Len(a) : t[n] = i
    <2>1. i \in I \cap 1 .. Len(s)
      BY <1>7, <1>13 DEF At
    <2>2. PICK m \in 1 .. Len(k) : p[m] = i
      <3> HIDE DEF k
      <3> QED BY <1>2, <2>1 DEF Along, At
    <2>3. m \in J \cap 1 .. Len(k)
      <3> HIDE DEF k
      <3> QED BY <1>7, <1>8, <1>13, <2>2 DEF At
    <2>4. PICK n \in 1 .. Len(a) : q[n] = m
      <3> HIDE DEF J, a, k
      <3> QED BY <1>4, <2>3 DEF Along, At
    <2> QED BY <2>2, <2>4
  <1>14. \A i \in 1 .. Len(s) : s[i] \in V => \E n \in 1 .. Len(b) : r[n] = i
    <2> HIDE DEF b
    <2> QED BY <1>6, <1>7 DEF Along, At
  <1>15. \A m, n \in 1 .. Len(b) : m < n => r[m] < r[n]
    <2> HIDE DEF b
    <2> QED BY <1>6 DEF Along, At
  <1>16. t \in [1 .. Len(a) -> Nat] /\ r \in [1 .. Len(b) -> Nat]
    <2>1. \A n \in 1 .. Len(a) : t[n] \in Nat
      <3> HIDE DEF t
      <3> QED BY <1>7, <1>11
    <2>2. r \in [1 .. Len(b) -> D \cap 1 .. Len(s)] /\ D \cap 1 .. Len(s) \subseteq Nat
      <3> HIDE DEF b, D
      <3> QED BY <1>6, <1>7 DEF Along, At
    <2> QED BY <2>1, <2>2
  <1> HIDE DEF t, a, b
  <1>17. Len(a) = Len(b) /\ t = r
    <2>1. \A n \in 1 .. Len(a) : \E k1 \in 1 .. Len(b) : r[k1] = t[n]
      BY <1>11, <1>14
    <2>2. \A n \in 1 .. Len(b) : \E k1 \in 1 .. Len(a) : t[k1] = r[n]
      BY <1>10, <1>13
    <2> DEFINE M == Len(a)
               N == Len(b)
    <2>3. M \in Nat /\ N \in Nat /\ t \in [1 .. M -> Nat] /\ r \in [1 .. N -> Nat]
      BY <1>7, <1>16
    <2>4. Rises(t, M) /\ Rises(r, N) /\ Covers(r, N, t, M) /\ Covers(t, M, r, N)
      BY <1>12, <1>15, <2>1, <2>2 DEF Rises, Covers
    <2> HIDE DEF M, N
    <2>5. M = N /\ t = r
      BY <2>3, <2>4, SameOrder
    <2> QED BY <2>5 DEF M, N
  <1>18. a = b
    BY <1>3, <1>5, <1>10, <1>11, <1>17, SeqEqual
  <1> QED BY <1>18 DEF a, b

-----------------------------------------------------------------------------
(* Block: what an iteration found grows with each section that comes in.   *)

LEMMA LineOf ==
  /\ Header \in Lines /\ Blank \in Lines /\ Found \in Lines
  /\ <<Header>> \in Seq(Lines) /\ <<Blank>> \in Seq(Lines) /\ <<Found>> \in Seq(Lines)
  BY DEF Header, Blank, Found, Line, Lines

\* The loop of Block, and its result.
BlockSteps(g, ss) ==
    /\ g[0] = <<Header>>
    /\ \A n \in 1 .. Len(ss) : g[n] = g[n - 1] \o <<Blank>> \o ss[n]
    /\ Block(ss) = g[Len(ss)]

LEMMA BlockUnfolds ==
  ASSUME NEW ss \in Seq(Seq(Lines))
  PROVE  \E g \in [0 .. Len(ss) -> Seq(Lines)] : BlockSteps(g, ss)
  <1> DEFINE N == Len(ss)
             S == Seq(Lines)
             Next1(x, n) == x \o <<Blank>> \o ss[n]
             f == [n \in 1 .. N |-> [x \in S |-> Next1(x, n)]]
             c == CHOOSE c : c = [n \in 0 .. Len(ss) |->
                      IF n = 0 THEN <<Header>> ELSE c[n - 1] \o <<Blank>> \o ss[n]]
  <1>1. N \in Nat /\ \A n \in 1 .. N : ss[n] \in S
    BY LenProperties
  <1>2. \A n \in 1 .. N : \A x \in S : Next1(x, n) \in S
    <2> TAKE n \in 1 .. N
    <2> TAKE x \in S
    <2>1. x \o <<Blank>> \in S
      BY LineOf, ConcatProperties
    <2> QED BY <1>1, <2>1, ConcatProperties
  <1>3. <<Header>> \in S
    BY LineOf
  <1> SUFFICES \E g \in [0 .. N -> S] :
                  /\ g[0] = <<Header>>
                  /\ \A n \in 1 .. N : g[n] = Next1(g[n - 1], n)
                  /\ Block(ss) = g[N]
      BY DEF BlockSteps
  <1>4. /\ Block(ss) = c[N]
        /\ (\E g : g = [n \in 0 .. N |-> IF n = 0 THEN <<Header>> ELSE Next1(g[n - 1], n)])
              => c = [n \in 0 .. N |-> IF n = 0 THEN <<Header>> ELSE Next1(c[n - 1], n)]
    BY DEF Block
  <1> HIDE DEF c, N, S, Next1
  <1>5. f \in [1 .. N -> [S -> S]]
    BY <1>2
  <1>6. \A n \in 1 .. N : \A x \in S : f[n][x] = Next1(x, n)
    OBVIOUS
  <1> HIDE DEF f
  <1>7. PICK g \in [0 .. N -> S] :
           g[0] = <<Header>> /\ \A n \in 1 .. N : g[n] = f[n][g[n - 1]]
    <2>1. \E g \in [0 .. N -> S] : Iterates(g, <<Header>>, f, N)
      BY <1>1, <1>3, <1>5, Iterate
    <2> QED BY <2>1 DEF Iterates
  <1>8. \A n \in 1 .. N : n - 1 \in 0 .. N /\ g[n] = Next1(g[n - 1], n)
    <2> TAKE n \in 1 .. N
    <2>1. n - 1 \in 0 .. N
      BY <1>1
    <2>2. g[n - 1] \in S
      BY <1>7, <2>1
    <2> QED BY <1>6, <1>7, <2>1, <2>2
  <1>9. \A n \in 0 .. N : n = 0 \/ n \in 1 .. N
    BY <1>1
  <1>10. g = [n \in 0 .. N |-> IF n = 0 THEN <<Header>> ELSE Next1(g[n - 1], n)]
    BY <1>1, <1>7, <1>8, <1>9
  <1>11. \A n \in 0 .. N : c[n] = IF n = 0 THEN <<Header>> ELSE Next1(c[n - 1], n)
    BY <1>4, <1>10
  <1> DEFINE G == {n \in 0 .. N : c[n] = g[n]}
  <1>12. 0 \in G
    <2>1. 0 \in 0 .. N
      BY <1>1
    <2> QED BY <1>7, <1>11, <2>1
  <1>13. ASSUME NEW n \in 1 .. N, n - 1 \in G PROVE n \in G
    <2>1. c[n - 1] = g[n - 1] /\ n \in 0 .. N /\ n # 0
      BY <1>1, <1>13
    <2> QED BY <1>8, <1>11, <2>1
  <1>14. N \in G
    <2> HIDE DEF G
    <2>1. 0 .. N \subseteq G
      BY <1>1, <1>12, <1>13, Upwards
    <2> QED BY <1>1, <2>1
  <1> QED BY <1>4, <1>7, <1>8, <1>14

LEMMA BlockStarts == Block(<<>>) = <<Header>>
  <1>1. <<>> \in Seq(Seq(Lines)) /\ Len(<<>>) = 0
    BY EmptySeq
  <1>2. PICK g \in [0 .. Len(<<>>) -> Seq(Lines)] : BlockSteps(g, <<>>)
    BY <1>1, BlockUnfolds
  <1> QED BY <1>1, <1>2 DEF BlockSteps

LEMMA BlockType ==
  ASSUME NEW ss \in Seq(Seq(Lines))
  PROVE  Block(ss) \in Seq(Lines)
  <1>1. Len(ss) \in Nat
    BY LenProperties
  <1>2. PICK g \in [0 .. Len(ss) -> Seq(Lines)] : BlockSteps(g, ss)
    BY BlockUnfolds
  <1>3. Len(ss) \in 0 .. Len(ss)
    BY <1>1
  <1>4. Block(ss) = g[Len(ss)]
    BY <1>2 DEF BlockSteps
  <1> QED BY <1>2, <1>3, <1>4

LEMMA BlockGrows ==
  ASSUME NEW ss \in Seq(Seq(Lines)), NEW s \in Seq(Lines)
  PROVE  Block(Append(ss, s)) = Block(ss) \o <<Blank>> \o s
  <1> DEFINE N == Len(ss)
             tt == Append(ss, s)
  <1>1. /\ N \in Nat /\ tt \in Seq(Seq(Lines)) /\ Len(tt) = N + 1
        /\ \A n \in 1 .. N : tt[n] = ss[n]
        /\ tt[N + 1] = s
    BY LenProperties, AppendProperties
  <1>2. PICK g \in [0 .. N -> Seq(Lines)] : BlockSteps(g, ss)
    BY BlockUnfolds
  <1> HIDE DEF tt
  <1>3. PICK h \in [0 .. Len(tt) -> Seq(Lines)] : BlockSteps(h, tt)
    BY <1>1, BlockUnfolds
  <1> USE DEF BlockSteps
  <1> DEFINE G == {n \in 0 .. N : h[n] = g[n]}
  <1>4. 0 \in G
    <2>1. 0 \in 0 .. N
      BY <1>1
    <2> QED BY <1>2, <1>3, <2>1
  <1>5. ASSUME NEW n \in 1 .. N, n - 1 \in G PROVE n \in G
    <2>1. h[n - 1] = g[n - 1] /\ n \in 1 .. Len(tt) /\ tt[n] = ss[n] /\ n \in 0 .. N
      BY <1>1, <1>5
    <2> QED BY <1>2, <1>3, <2>1
  <1>6. N \in G
    <2> HIDE DEF G
    <2>1. 0 .. N \subseteq G
      BY <1>1, <1>4, <1>5, Upwards
    <2>2. N \in 0 .. N
      BY <1>1
    <2> QED BY <2>1, <2>2
  <1>7. N + 1 \in 1 .. Len(tt) /\ (N + 1) - 1 = N
    BY <1>1
  <1>8. h[N + 1] = h[N] \o <<Blank>> \o tt[N + 1]
    BY <1>3, <1>7
  <1> QED BY <1>1, <1>2, <1>3, <1>6, <1>8 DEF tt

LEMMA JoinIs ==
  ASSUME NEW a \in Seq(Lines), NEW b \in Seq(Lines)
  PROVE  /\ Join(a, b) \in Seq(Lines)
         /\ \E gap \in {<<>>, <<Blank>>} : Join(a, b) = a \o (gap \o b)
  <1>1. <<>> \in Seq(Lines) /\ <<>> \o b = b
    BY EmptySeq, ConcatEmptySeq
  <1>2. a \o b \in Seq(Lines) /\ a \o <<Blank>> \in Seq(Lines)
    BY LineOf, ConcatProperties
  <1>3. a \o <<Blank>> \o b \in Seq(Lines)
    BY <1>2, ConcatProperties
  <1>4. a \o <<Blank>> \o b = a \o (<<Blank>> \o b)
    BY LineOf, ConcatAssociative
  <1> QED BY <1>1, <1>2, <1>3, <1>4 DEF Join

LEMMA TakeIs ==
  ASSUME NEW S, NEW s \in Seq(S), NEW n \in Nat
  PROVE  /\ Take(s, n) \in Seq(S)
         /\ Len(Take(s, n)) = IF Len(s) <= n THEN Len(s) ELSE n
         /\ \A i \in 1 .. Len(Take(s, n)) : Take(s, n)[i] = s[i]
  <1>1. Len(s) \in Nat /\ \A i \in 1 .. Len(s) : s[i] \in S
    BY LenProperties
  <1>2. CASE Len(s) <= n
    BY <1>2 DEF Take
  <1>3. CASE ~ Len(s) <= n
    <2>1. Take(s, n) = SubSeq(s, 1, n) /\ \A i \in 1 .. n : s[i] \in S
      BY <1>1, <1>3 DEF Take
    <2>2. /\ SubSeq(s, 1, n) \in Seq(S)
          /\ Len(SubSeq(s, 1, n)) = IF 1 <= n THEN n - 1 + 1 ELSE 0
          /\ \A i \in 1 .. n - 1 + 1 : SubSeq(s, 1, n)[i] = s[1 + i - 1]
      BY <2>1, SubSeqProperties
    <2>3. \A i \in 1 .. n : i \in 1 .. n - 1 + 1 /\ 1 + i - 1 = i
      OBVIOUS
    <2>4. Len(SubSeq(s, 1, n)) = n
      BY <2>2
    <2> QED BY <1>3, <2>1, <2>2, <2>3, <2>4
  <1> QED BY <1>2, <1>3

-----------------------------------------------------------------------------
(* Sections.                                                               *)

\* A label, and under it what the label announces: records, or the complaints of
\* an error, with a relation as the last of them, and no list of fields where the
\* code would look for one.
IsSection(s) ==
    /\ s \in Seq(Lines) /\ Len(s) >= 1
    /\ s[1].kind = "OK" \/ IsErrorLabel(s[1])
    /\ \A i \in 2 .. Len(s) :
          /\ s[1].kind = "OK" => s[i].kind = "record"
          /\ IsErrorLabel(s[1]) => IsErrorText(s[i])
          /\ s[i].kind = "relation" => i = Len(s)
    /\ \A i \in 1 .. Len(s) - 1 :
          s[i].kind = "field" /\ s[i + 1].kind = "field" => s[i + 1].of.listed = {}

LEMMA OutcomesAreSections ==
  ASSUME NEW q \in Queries, NEW s \in Outcomes(q)
  PROVE  IsSection(s)
  <1> USE DEF Line, Lines, IsSection, IsErrorLabel, IsErrorText
  <1>1. CASE Complaints[q] # <<>>
    <2> DEFINE a == <<Line("VALIDATION_ERROR", q)>>
               c == Complaints[q]
    <2>1. s = a \o c
      BY <1>1 DEF Outcomes
    <2>2. c \in Seq(Texts) /\ Texts \subseteq Lines
      BY ReaderAssumption DEF Texts
    <2>3. c \in Seq(Lines) /\ a \in Seq(Lines) /\ Len(a) = 1 /\ Len(c) \in Nat
      <3>1. Seq(Texts) \subseteq Seq(Lines)
        BY <2>2, SeqMonotonic
      <3>2. Line("VALIDATION_ERROR", q) \in Lines
        OBVIOUS
      <3>3. Len(c) \in Nat
        BY <2>2, LenProperties
      <3> HIDE DEF c, Line, Lines
      <3> QED BY <2>2, <3>1, <3>2, <3>3
    <2>4. \A i \in 1 .. Len(c) : c[i].kind \in {"field", "message"}
      BY <2>2, LenProperties DEF Texts
    <2>5. /\ s \in Seq(Lines) /\ Len(s) = 1 + Len(c)
          /\ s[1] = a[1] /\ \A i \in 2 .. Len(s) : s[i] = c[i - 1]
      BY <2>1, <2>3, ConcatProperties
    <2>6. \A i \in 2 .. Len(s) : s[i].kind \in {"field", "message"}
      BY <2>3, <2>4, <2>5
    <2>7. s[1].kind = "VALIDATION_ERROR"
      BY <2>5
    <2>8. \A i \in 1 .. Len(s) - 1 :
             s[i].kind = "field" /\ s[i + 1].kind = "field" => s[i + 1].of.listed = {}
      <3>1. ListsOnce(c)
        BY ReaderAssumption
      <3> HIDE DEF a, c
      <3>2. \A i \in 1 .. Len(s) - 1 :
               i = 1 \/ (i - 1 \in 1 .. Len(c) - 1 /\ s[i] = c[i - 1]
                         /\ s[i + 1] = c[(i - 1) + 1])
        <4> TAKE i \in 1 .. Len(s) - 1
        <4>1. CASE i # 1
          <5>1. i \in 2 .. Len(s) /\ i + 1 \in 2 .. Len(s) /\ i - 1 \in 1 .. Len(c) - 1
            BY <2>3, <2>5, <4>1
          <5>2. (i + 1) - 1 = (i - 1) + 1
            BY <2>3, <2>5
          <5> QED BY <2>5, <5>1, <5>2
        <4> QED BY <4>1
      <3> QED BY <2>7, <3>1, <3>2 DEF ListsOnce
    <2> HIDE DEF a, c
    <2> QED BY <2>3, <2>5, <2>6, <2>7, <2>8
  <1>2. CASE Complaints[q] = <<>> /\ Relation[q] # None
    <2>1. s = <<Line("EXECUTION_ERROR", q), Line("relation", Relation[q])>>
      BY <1>2 DEF Outcomes
    <2>2. Relation[q] \in UnknownRelation
      BY <1>2, ReaderAssumption
    <2> QED BY <2>1, <2>2
  <1>3. CASE Complaints[q] = <<>> /\ Relation[q] = None
    <2>1. s \in {<<Line("OK", q), Line("record", q)>>, <<Line("OK", q)>>,
                 <<Line("EXECUTION_ERROR", q), Line("message", q)>>}
      BY <1>3 DEF Outcomes
    <2>2. CASE s = <<Line("OK", q), Line("record", q)>>
      BY <2>2
    <2>3. CASE s = <<Line("OK", q)>>
      BY <2>3
    <2>4. CASE s = <<Line("EXECUTION_ERROR", q), Line("message", q)>>
      BY <2>4
    <2> QED BY <2>1, <2>2, <2>3, <2>4
  <1> QED BY <1>1, <1>2, <1>3

-----------------------------------------------------------------------------
(* Knowledge: three lists of entries, told apart by what they are of.      *)

Kinds == {"fields", "relations", "errors"}

FieldEntries == [of : Names \X Names, correct : SUBSET Names]

RelationEntries == [of : Names \X (Names \cup {None}), correct : Names]

ErrorEntries == [of : Queries, correction : Names \cup {None},
                 type : {"VALIDATION_ERROR", "EXECUTION_ERROR"}]

Entries == FieldEntries \cup RelationEntries \cup ErrorEntries

LEMMA KnowledgeIs ==
  /\ Knowledge = [fields : Seq(FieldEntries), relations : Seq(RelationEntries),
                  errors : Seq(ErrorEntries)]
  /\ \A k \in Knowledge : \A kind \in Kinds : k[kind] \in Seq(Entries)
  <1>1. Knowledge = [fields : Seq(FieldEntries), relations : Seq(RelationEntries),
                     errors : Seq(ErrorEntries)]
    BY DEF Knowledge, FieldEntries, RelationEntries, ErrorEntries
  <1>2. /\ Seq(FieldEntries) \subseteq Seq(Entries)
        /\ Seq(RelationEntries) \subseteq Seq(Entries)
        /\ Seq(ErrorEntries) \subseteq Seq(Entries)
    BY SeqMonotonic DEF Entries
  <1> QED BY <1>1, <1>2 DEF Kinds

Distinct(entries) ==
    \A i, j \in DOMAIN entries : entries[i].of = entries[j].of => i = j

LEMMA PrefixIs ==
  ASSUME NEW S, NEW s \in Seq(S), NEW t \in Seq(S)
  PROVE  IsPrefix(s, t) <=> Len(s) <= Len(t) /\ \A i \in 1 .. Len(s) : s[i] = t[i]
  <1>1. Len(s) \in Nat /\ Len(t) \in Nat /\ \A i \in 1 .. Len(t) : t[i] \in S
    BY LenProperties
  <1>2. SubSeq(s, 1, Len(s)) = s
    BY SubSeqFull
  <1>3. CASE Len(s) <= Len(t)
    <2> DEFINE c == SubSeq(t, 1, Len(s))
    <2>1. \A i \in 1 .. Len(s) : t[i] \in S
      BY <1>1, <1>3
    <2>2. /\ c \in Seq(S)
          /\ Len(c) = IF 1 <= Len(s) THEN Len(s) - 1 + 1 ELSE 0
          /\ \A i \in 1 .. Len(s) - 1 + 1 : c[i] = t[1 + i - 1]
      BY <1>1, <2>1, SubSeqProperties
    <2>3. \A i \in 1 .. Len(s) : i \in 1 .. Len(s) - 1 + 1 /\ 1 + i - 1 = i
      BY <1>1
    <2>4. Len(c) = Len(s) /\ \A i \in 1 .. Len(s) : c[i] = t[i]
      BY <1>1, <2>2, <2>3
    <2> HIDE DEF c
    <2>5. s = c <=> \A i \in 1 .. Len(s) : s[i] = t[i]
      BY <2>2, <2>4, SeqEqual
    <2> QED BY <1>2, <1>3, <2>5 DEF IsPrefix, c
  <1>4. CASE ~ Len(s) <= Len(t)
    BY <1>4 DEF IsPrefix
  <1> QED BY <1>3, <1>4

LEMMA AddedAre ==
  ASSUME NEW T, NEW a \in Seq(T), NEW b \in Seq(T)
  PROVE  /\ Added(a, b) \in Seq(T)
         /\ ToSet(Added(a, b)) \subseteq ToSet(a) \cup ToSet(b)
         /\ Distinct(Added(a, b))
         /\ \A l \in ToSet(a) \cup ToSet(b) : Noted(Added(a, b), l.of)
         /\ Distinct(a) => /\ Len(a) <= Len(Added(a, b))
                           /\ \A n \in 1 .. Len(a) : Added(a, b)[n] = a[n]
  <1> DEFINE es == a \o b
             I == {i \in DOMAIN es : \A j \in 1 .. i - 1 : es[j].of # es[i].of}
             r == Added(a, b)
  <1>1. /\ Len(a) \in Nat /\ DOMAIN a = 1 .. Len(a)
        /\ Len(b) \in Nat /\ DOMAIN b = 1 .. Len(b)
    BY LenProperties
  <1>2. /\ es \in Seq(T) /\ Len(es) = Len(a) + Len(b)
        /\ \A i \in 1 .. Len(a) + Len(b) :
              es[i] = IF i <= Len(a) THEN a[i] ELSE b[i - Len(a)]
    BY ConcatProperties
  <1>3. DOMAIN es = 1 .. Len(a) + Len(b)
    BY <1>2, LenProperties
  <1>4. r = Pick(es, I)
    BY DEF Added
  <1> HIDE DEF es, r
  <1>5. r \in Seq(T) /\ \E p : Along(p, r, es, I, Len(es))
    <2> HIDE DEF I
    <2> QED BY <1>2, <1>4, PickIs
  <1>6. PICK p : Along(p, r, es, I, Len(es))
    BY <1>5
  <1>7. Len(r) \in Nat /\ DOMAIN r = 1 .. Len(r)
    BY <1>5, LenProperties
  <1>8. \A n \in 1 .. Len(r) : p[n] \in I /\ p[n] \in 1 .. Len(es) /\ r[n] = es[p[n]]
    <2> HIDE DEF I
    <2> QED BY <1>6, <1>7 DEF Along
  <1>9. \A m, n \in 1 .. Len(r) : m < n => p[m] < p[n]
    <2> HIDE DEF I
    <2> QED BY <1>6 DEF Along
  <1>10. \A i \in I : \E n \in 1 .. Len(r) : p[n] = i
    <2>1. I = I \cap 1 .. Len(es)
      BY <1>2, <1>3
    <2> HIDE DEF I
    <2> QED BY <1>6, <2>1 DEF Along
  <1>11. ASSUME NEW i \in DOMAIN es PROVE Noted(r, es[i].of)
    <2> DEFINE S == {j \in DOMAIN es : es[j].of = es[i].of}
    <2>1. PICK j \in S : \A k \in S : j <= k
      <3>1. S \in SUBSET Nat /\ S # {}
        BY <1>1, <1>3
      <3> HIDE DEF S
      <3> QED BY <3>1, Least
    <2>2. \A k \in 1 .. j - 1 : k \in DOMAIN es /\ ~ j <= k
      BY <1>1, <1>3, <2>1
    <2>3. j \in I
      BY <2>1, <2>2
    <2>4. PICK n \in 1 .. Len(r) : p[n] = j
      <3> HIDE DEF I
      <3> QED BY <1>10, <2>3
    <2>5. r[n].of = es[i].of
      <3> HIDE DEF I
      <3> QED BY <1>8, <2>1, <2>4
    <2> QED BY <1>7, <2>5 DEF Noted
  <1>12. \A i \in DOMAIN a : i \in DOMAIN es /\ es[i] = a[i]
    BY <1>1, <1>2, <1>3
  <1>13. \A i \in DOMAIN b : Len(a) + i \in DOMAIN es /\ es[Len(a) + i] = b[i]
    BY <1>1, <1>2, <1>3
  <1>14. \A n \in DOMAIN r : \/ \E i \in DOMAIN a : r[n] = a[i]
                             \/ \E i \in DOMAIN b : r[n] = b[i]
    <2> TAKE n \in DOMAIN r
    <2>1. p[n] \in 1 .. Len(a) + Len(b) /\ r[n] = es[p[n]]
      <3> HIDE DEF I
      <3> QED BY <1>2, <1>7, <1>8
    <2>2. CASE p[n] <= Len(a)
      <3>1. p[n] \in DOMAIN a
        BY <1>1, <2>1, <2>2
      <3> QED BY <1>2, <2>1, <2>2, <3>1
    <2>3. CASE ~ p[n] <= Len(a)
      <3>1. p[n] - Len(a) \in DOMAIN b
        BY <1>1, <2>1, <2>3
      <3> QED BY <1>2, <2>1, <2>3, <3>1
    <2> QED BY <2>2, <2>3
  <1>15. Distinct(r)
    <2> SUFFICES ASSUME NEW m \in 1 .. Len(r), NEW n \in 1 .. Len(r), m < n
                 PROVE  r[m].of # r[n].of
        BY <1>7 DEF Distinct
    <2>1. p[m] < p[n] /\ p[m] \in 1 .. Len(es) /\ p[n] \in 1 .. Len(es) /\ p[n] \in I
      <3> HIDE DEF I
      <3> QED BY <1>8, <1>9
    <2>2. p[m] \in 1 .. p[n] - 1
      BY <1>2, <2>1
    <2> QED BY <1>8, <2>1, <2>2
  <1>16. ASSUME Distinct(a)
         PROVE  /\ Len(a) <= Len(r)
                /\ \A n \in 1 .. Len(a) : r[n] = a[n]
    <2>1. \A n \in 1 .. Len(a) : n \in I
      <3> TAKE n \in 1 .. Len(a)
      <3>1. \A j \in 1 .. n - 1 : j \in DOMAIN a /\ n \in DOMAIN a /\ j # n
        BY <1>1
      <3> QED BY <1>1, <1>12, <1>16, <3>1 DEF Distinct
    <2> HIDE DEF I
    <2> DEFINE G == {n \in 0 .. Len(a) : n <= Len(r) /\ \A m \in 1 .. n : p[m] = m}
    <2>2. 0 \in G
      BY <1>1, <1>7
    <2>3. ASSUME NEW n \in 1 .. Len(a), n - 1 \in G PROVE n \in G
      <3>1. \A m \in 1 .. n - 1 : p[m] = m /\ m \in 1 .. Len(r)
        BY <1>7, <2>3
      <3>2. PICK m \in 1 .. Len(r) : p[m] = n
        BY <1>10, <2>1
      <3>3. ~ m < n
        <4> SUFFICES ASSUME m < n PROVE FALSE
            OBVIOUS
        <4>1. m \in 1 .. n - 1
          BY <3>2
        <4> QED BY <3>1, <3>2, <4>1
      <3>4. n \in 1 .. Len(r)
        BY <1>7, <3>2, <3>3
      <3>5. ~ n < m
        <4> SUFFICES ASSUME n < m PROVE FALSE
            OBVIOUS
        <4>1. p[n] < n /\ p[n] \in 1 .. Len(es)
          BY <1>8, <1>9, <3>2, <3>4
        <4>2. p[n] \in 1 .. n - 1
          BY <1>2, <4>1
        <4>3. p[p[n]] = p[n] /\ p[n] \in 1 .. Len(r)
          BY <3>1, <4>2
        <4>4. p[p[n]] < p[n]
          BY <1>9, <3>4, <4>1, <4>3
        <4> QED BY <4>1, <4>3, <4>4
      <3>6. p[n] = n
        BY <3>2, <3>3, <3>4, <3>5
      <3>7. \A k \in 1 .. n : k = n \/ k \in 1 .. n - 1
        OBVIOUS
      <3> QED BY <1>1, <3>1, <3>4, <3>6, <3>7
    <2>4. Len(a) \in G
      <3> HIDE DEF G
      <3>1. 0 .. Len(a) \subseteq G
        BY <1>1, <2>2, <2>3, Upwards
      <3> QED BY <1>1, <3>1
    <2>5. \A n \in 1 .. Len(a) : p[n] = n /\ n \in 1 .. Len(r)
      BY <1>1, <1>7, <2>4
    <2> QED BY <1>1, <1>8, <1>12, <2>4, <2>5
  <1> HIDE DEF I
  <1>17. /\ \A i \in DOMAIN a : Noted(r, a[i].of)
         /\ \A i \in DOMAIN b : Noted(r, b[i].of)
    BY <1>11, <1>12, <1>13
  <1>18. \A l \in ToSet(a) \cup ToSet(b) : Noted(r, l.of)
    BY <1>17 DEF ToSet
  <1>19. ToSet(r) \subseteq ToSet(a) \cup ToSet(b)
    BY <1>14 DEF ToSet
  <1> QED BY <1>5, <1>15, <1>16, <1>18, <1>19 DEF r

\* The entries r hold those of a, in their places, and others of b only.
Extends(r, a, b) ==
    /\ ToSet(r) \subseteq ToSet(a) \cup ToSet(b)
    /\ Distinct(r)
    /\ Distinct(a) => IsPrefix(a, r) /\ Len(a) <= Len(r)

Holds(r, a, b) == \A l \in ToSet(a) \cup ToSet(b) : Noted(r, l.of)

LEMMA AddedExtends ==
  ASSUME NEW T, NEW a \in Seq(T), NEW b \in Seq(T)
  PROVE  /\ Added(a, b) \in Seq(T)
         /\ Extends(Added(a, b), a, b)
         /\ Holds(Added(a, b), a, b)
  <1> DEFINE r == Added(a, b)
  <1>1. /\ r \in Seq(T)
        /\ ToSet(r) \subseteq ToSet(a) \cup ToSet(b)
        /\ Distinct(r)
        /\ \A l \in ToSet(a) \cup ToSet(b) : Noted(r, l.of)
        /\ Distinct(a) => Len(a) <= Len(r) /\ \A n \in 1 .. Len(a) : r[n] = a[n]
    BY AddedAre
  <1> HIDE DEF r
  <1>2. Distinct(a) => IsPrefix(a, r)
    BY <1>1, PrefixIs
  <1> QED BY <1>1, <1>2 DEF Extends, Holds, r

LEMMA CappedExtends ==
  ASSUME NEW T, NEW a \in Seq(T), NEW b \in Seq(T), Len(a) <= MaxKnowledgeErrors
  PROVE  LET r == Capped(Added(a, b)) IN
         /\ r \in Seq(T) /\ Len(r) <= MaxKnowledgeErrors
         /\ Extends(r, a, b)
         /\ Len(r) = MaxKnowledgeErrors \/ Holds(r, a, b)
  <1> DEFINE w == Added(a, b)
             r == Capped(w)
  <1>1. MaxKnowledgeErrors \in Nat
    BY ReaderAssumption
  <1>2. /\ w \in Seq(T)
        /\ ToSet(w) \subseteq ToSet(a) \cup ToSet(b)
        /\ Distinct(w)
        /\ \A l \in ToSet(a) \cup ToSet(b) : Noted(w, l.of)
        /\ Distinct(a) => Len(a) <= Len(w) /\ \A n \in 1 .. Len(a) : w[n] = a[n]
    BY AddedAre
  <1> HIDE DEF w
  <1>3. /\ r \in Seq(T)
        /\ Len(r) = IF Len(w) <= MaxKnowledgeErrors THEN Len(w) ELSE MaxKnowledgeErrors
        /\ \A i \in 1 .. Len(r) : r[i] = w[i]
    BY <1>1, <1>2, TakeIs DEF Capped
  <1> HIDE DEF r
  <1>4. /\ Len(a) \in Nat /\ DOMAIN a = 1 .. Len(a)
        /\ Len(w) \in Nat /\ DOMAIN w = 1 .. Len(w)
        /\ Len(r) \in Nat /\ DOMAIN r = 1 .. Len(r)
    BY <1>2, <1>3, LenProperties
  <1>5. \A n \in DOMAIN r : n \in DOMAIN w /\ r[n] = w[n]
    BY <1>1, <1>3, <1>4
  <1>6. Distinct(r)
    BY <1>2, <1>5 DEF Distinct
  <1>7. ToSet(r) \subseteq ToSet(a) \cup ToSet(b)
    BY <1>2, <1>5 DEF ToSet
  <1>8. Len(r) = MaxKnowledgeErrors \/ Holds(r, a, b)
    <2>1. CASE Len(r) # MaxKnowledgeErrors
      <3>1. Len(r) = Len(w)
        BY <1>3, <2>1
      <3>2. r = w
        BY <1>2, <1>3, <3>1, SeqEqual
      <3> QED BY <1>2, <3>2 DEF Holds
    <2> QED BY <2>1
  <1>9. ASSUME Distinct(a) PROVE IsPrefix(a, r) /\ Len(a) <= Len(r)
    <2>1. Len(a) <= Len(r)
      BY <1>1, <1>2, <1>3, <1>4, <1>9
    <2>2. \A n \in 1 .. Len(a) : n \in 1 .. Len(r)
      BY <1>4, <2>1
    <2>3. \A n \in 1 .. Len(a) : a[n] = r[n]
      BY <1>2, <1>3, <1>9, <2>2
    <2> QED BY <1>3, <2>1, <2>3, PrefixIs
  <1>10. Len(r) <= MaxKnowledgeErrors
    BY <1>1, <1>3, <1>4
  <1> QED BY <1>3, <1>6, <1>7, <1>8, <1>9, <1>10 DEF Extends, r, w

\* What is noted stays where it is, and of two entries of the same only one is noted.
LEMMA MergeIs ==
  ASSUME NEW k \in Knowledge, NEW other \in Knowledge,
         Len(k.errors) <= MaxKnowledgeErrors
  PROVE  LET m == Merge(k, other) IN
         /\ m \in Knowledge /\ Len(m.errors) <= MaxKnowledgeErrors
         /\ \A kind \in Kinds :
               /\ Extends(m[kind], k[kind], other[kind])
               /\ \/ Holds(m[kind], k[kind], other[kind])
                  \/ kind = "errors" /\ Len(m.errors) = MaxKnowledgeErrors
  <1> DEFINE m == Merge(k, other)
  <1>1. /\ k.fields \in Seq(FieldEntries) /\ other.fields \in Seq(FieldEntries)
        /\ k.relations \in Seq(RelationEntries) /\ other.relations \in Seq(RelationEntries)
        /\ k.errors \in Seq(ErrorEntries) /\ other.errors \in Seq(ErrorEntries)
    BY KnowledgeIs
  <1>2. /\ m = [fields |-> m.fields, relations |-> m.relations, errors |-> m.errors]
        /\ m.fields = Added(k.fields, other.fields)
        /\ m.relations = Added(k.relations, other.relations)
        /\ m.errors = Capped(Added(k.errors, other.errors))
    BY DEF Merge
  <1> HIDE DEF m
  <1>3. /\ m.fields \in Seq(FieldEntries)
        /\ Extends(m.fields, k.fields, other.fields)
        /\ Holds(m.fields, k.fields, other.fields)
    BY <1>1, <1>2, AddedExtends
  <1>4. /\ m.relations \in Seq(RelationEntries)
        /\ Extends(m.relations, k.relations, other.relations)
        /\ Holds(m.relations, k.relations, other.relations)
    BY <1>1, <1>2, AddedExtends
  <1>5. /\ m.errors \in Seq(ErrorEntries) /\ Len(m.errors) <= MaxKnowledgeErrors
        /\ Extends(m.errors, k.errors, other.errors)
        /\ \/ Len(m.errors) = MaxKnowledgeErrors
           \/ Holds(m.errors, k.errors, other.errors)
    BY <1>1, <1>2, CappedExtends
  <1>6. m \in Knowledge
    BY <1>2, <1>3, <1>4, <1>5, KnowledgeIs
  <1>7. \A kind \in Kinds :
           /\ Extends(m[kind], k[kind], other[kind])
           /\ \/ Holds(m[kind], k[kind], other[kind])
              \/ kind = "errors" /\ Len(m.errors) = MaxKnowledgeErrors
    BY <1>3, <1>4, <1>5 DEF Kinds
  <1> QED BY <1>5, <1>6, <1>7 DEF m

-----------------------------------------------------------------------------
(* Parts of a block stay parts of it when it grows.                        *)

LEMMA ConcatIs ==
  ASSUME NEW a \in Seq(Lines), NEW b \in Seq(Lines)
  PROVE  /\ a \o b \in Seq(Lines)
         /\ Len(a) \in Nat /\ Len(b) \in Nat /\ Len(a \o b) = Len(a) + Len(b)
         /\ DOMAIN a = 1 .. Len(a) /\ DOMAIN b = 1 .. Len(b)
         /\ DOMAIN (a \o b) = 1 .. Len(a) + Len(b)
         /\ \A i \in 1 .. Len(a) : (a \o b)[i] = a[i]
         /\ \A i \in 1 .. Len(b) : (a \o b)[Len(a) + i] = b[i]
  <1>1. Len(a) \in Nat /\ Len(b) \in Nat /\ DOMAIN a = 1 .. Len(a) /\ DOMAIN b = 1 .. Len(b)
    BY LenProperties
  <1>2. /\ a \o b \in Seq(Lines) /\ Len(a \o b) = Len(a) + Len(b)
        /\ \A i \in 1 .. Len(a) + Len(b) :
              (a \o b)[i] = IF i <= Len(a) THEN a[i] ELSE b[i - Len(a)]
    BY ConcatProperties
  <1>3. DOMAIN (a \o b) = 1 .. Len(a) + Len(b)
    BY <1>2, LenProperties
  <1>4. \A i \in 1 .. Len(a) : i \in 1 .. Len(a) + Len(b) /\ i <= Len(a)
    BY <1>1
  <1>5. \A i \in 1 .. Len(b) : /\ Len(a) + i \in 1 .. Len(a) + Len(b)
                               /\ ~ Len(a) + i <= Len(a) /\ Len(a) + i - Len(a) = i
    BY <1>1
  <1> QED BY <1>1, <1>2, <1>3, <1>4, <1>5

LEMMA PrefixGrows ==
  ASSUME NEW s \in Seq(Lines), NEW a \in Seq(Lines), NEW b \in Seq(Lines), IsPrefix(s, a)
  PROVE  IsPrefix(s, a \o b)
  <1>1. Len(s) \in Nat
    BY LenProperties
  <1>2. Len(s) <= Len(a) /\ \A i \in 1 .. Len(s) : s[i] = a[i]
    BY PrefixIs
  <1>3. \A i \in 1 .. Len(s) : i \in 1 .. Len(a)
    BY <1>1, <1>2, ConcatIs
  <1>4. /\ a \o b \in Seq(Lines) /\ Len(a) \in Nat /\ Len(b) \in Nat
        /\ Len(a \o b) = Len(a) + Len(b)
        /\ \A i \in 1 .. Len(a) : (a \o b)[i] = a[i]
    BY ConcatIs
  <1>5. Len(s) <= Len(a \o b) /\ \A i \in 1 .. Len(s) : s[i] = (a \o b)[i]
    BY <1>1, <1>2, <1>3, <1>4
  <1> QED BY <1>4, <1>5, PrefixIs

LEMMA PartIs ==
  ASSUME NEW s \in Seq(Lines), NEW a \in Seq(Lines)
  PROVE  IsPartOf(s, a) <=>
           \E i \in 0 .. Len(a) - Len(s) : \A n \in 1 .. Len(s) : a[i + n] = s[n]
  <1>1. Len(s) \in Nat /\ Len(a) \in Nat /\ \A i \in 1 .. Len(a) : a[i] \in Lines
    BY LenProperties
  <1> SUFFICES ASSUME NEW i \in 0 .. Len(a) - Len(s)
               PROVE  SubSeq(a, i + 1, i + Len(s)) = s <=>
                        \A n \in 1 .. Len(s) : a[i + n] = s[n]
      BY DEF IsPartOf
  <1> DEFINE c == SubSeq(a, i + 1, i + Len(s))
  <1>2. i + 1 \in Int /\ i + Len(s) \in Int /\ \A k \in i + 1 .. i + Len(s) : a[k] \in Lines
    BY <1>1
  <1>3. /\ c \in Seq(Lines)
        /\ Len(c) = IF i + 1 <= i + Len(s) THEN i + Len(s) - (i + 1) + 1 ELSE 0
        /\ \A n \in 1 .. i + Len(s) - (i + 1) + 1 : c[n] = a[i + 1 + n - 1]
    BY <1>2, SubSeqProperties
  <1>4. \A n \in 1 .. Len(s) : /\ n \in 1 .. i + Len(s) - (i + 1) + 1
                               /\ i + 1 + n - 1 = i + n
    BY <1>1
  <1>5. Len(c) = Len(s) /\ \A n \in 1 .. Len(s) : c[n] = a[i + n]
    BY <1>1, <1>3, <1>4
  <1> HIDE DEF c
  <1>6. c = s <=> \A n \in 1 .. Len(s) : a[i + n] = s[n]
    BY <1>3, <1>5, SeqEqual
  <1> QED BY <1>6 DEF c

LEMMA PartGrows ==
  ASSUME NEW s \in Seq(Lines), NEW a \in Seq(Lines), NEW b \in Seq(Lines)
  PROVE  /\ IsPartOf(s, a) => IsPartOf(s, a \o b)
         /\ IsPartOf(s, a \o s)
  <1>1. Len(s) \in Nat
    BY LenProperties
  <1>2. ASSUME IsPartOf(s, a) PROVE IsPartOf(s, a \o b)
    <2>1. PICK i \in 0 .. Len(a) - Len(s) : \A n \in 1 .. Len(s) : a[i + n] = s[n]
      BY <1>2, PartIs
    <2>2. /\ Len(a) \in Nat /\ Len(b) \in Nat /\ a \o b \in Seq(Lines)
          /\ Len(a \o b) = Len(a) + Len(b)
          /\ \A n \in 1 .. Len(a) : (a \o b)[n] = a[n]
      BY ConcatIs
    <2>3. i \in 0 .. Len(a \o b) - Len(s) /\ \A n \in 1 .. Len(s) : i + n \in 1 .. Len(a)
      BY <1>1, <2>1, <2>2
    <2>4. \A n \in 1 .. Len(s) : (a \o b)[i + n] = s[n]
      BY <2>1, <2>2, <2>3
    <2> QED BY <2>2, <2>3, <2>4, PartIs
  <1>3. IsPartOf(s, a \o s)
    <2>1. /\ Len(a) \in Nat /\ a \o s \in Seq(Lines) /\ Len(a \o s) = Len(a) + Len(s)
          /\ \A n \in 1 .. Len(s) : (a \o s)[Len(a) + n] = s[n]
      BY ConcatIs
    <2>2. Len(a) \in 0 .. Len(a \o s) - Len(s)
      BY <1>1, <2>1
    <2> QED BY <2>1, <2>2, PartIs
  <1> QED BY <1>2, <1>3

\* What a block is once a section came in.
LEMMA Adding ==
  ASSUME NEW a \in Seq(Lines), NEW s \in Seq(Lines)
  PROVE  LET c == a \o <<Blank>> \o s IN
         /\ c \in Seq(Lines) /\ c = a \o (<<Blank>> \o s) /\ <<Blank>> \o s \in Seq(Lines)
         /\ Len(a) \in Nat /\ Len(s) \in Nat
         /\ DOMAIN a = 1 .. Len(a) /\ DOMAIN s = 1 .. Len(s)
         /\ DOMAIN c = 1 .. Len(a) + 1 + Len(s)
         /\ \A i \in 1 .. Len(a) : c[i] = a[i]
         /\ c[Len(a) + 1] = Blank
         /\ \A i \in 1 .. Len(s) : c[Len(a) + 1 + i] = s[i]
  <1>1. Len(<<Blank>>) = 1 /\ <<Blank>>[1] = Blank
    OBVIOUS
  <1> DEFINE d == a \o <<Blank>>
  <1>2. /\ d \in Seq(Lines) /\ Len(d) = Len(a) + 1 /\ Len(a) \in Nat /\ DOMAIN a = 1 .. Len(a)
        /\ \A i \in 1 .. Len(a) : d[i] = a[i]
        /\ \A i \in 1 .. 1 : d[Len(a) + i] = <<Blank>>[i]
    BY <1>1, LineOf, ConcatIs
  <1>3. d[Len(a) + 1] = Blank
    BY <1>1, <1>2
  <1> HIDE DEF d
  <1>4. /\ d \o s \in Seq(Lines) /\ Len(s) \in Nat /\ DOMAIN s = 1 .. Len(s)
        /\ DOMAIN (d \o s) = 1 .. Len(d) + Len(s)
        /\ \A i \in 1 .. Len(d) : (d \o s)[i] = d[i]
        /\ \A i \in 1 .. Len(s) : (d \o s)[Len(d) + i] = s[i]
    BY <1>2, ConcatIs
  <1>5. \A i \in 1 .. Len(a) : i \in 1 .. Len(d)
    BY <1>2
  <1>6. Len(a) + 1 \in 1 .. Len(d)
    BY <1>2
  <1>7. d \o s = a \o (<<Blank>> \o s) /\ <<Blank>> \o s \in Seq(Lines)
    BY LineOf, ConcatAssociative, ConcatIs DEF d
  <1> QED BY <1>2, <1>3, <1>4, <1>5, <1>6, <1>7 DEF d

LEMMA BlockNotEmpty ==
  ASSUME NEW ss \in Seq(Seq(Lines))
  PROVE  Block(ss) # <<>>
  <1>1. Len(ss) \in Nat /\ \A n \in 1 .. Len(ss) : ss[n] \in Seq(Lines)
    BY LenProperties
  <1>2. PICK g \in [0 .. Len(ss) -> Seq(Lines)] : BlockSteps(g, ss)
    BY BlockUnfolds
  <1> USE DEF BlockSteps
  <1>3. CASE Len(ss) = 0
    BY <1>2, <1>3
  <1>4. CASE Len(ss) # 0
    <2>1. Len(ss) \in 1 .. Len(ss) /\ g[Len(ss) - 1] \in Seq(Lines)
      <3>1. Len(ss) \in 1 .. Len(ss) /\ Len(ss) - 1 \in 0 .. Len(ss)
        BY <1>1, <1>4
      <3> QED BY <1>2, <3>1
    <2> DEFINE a == g[Len(ss) - 1]
               s == ss[Len(ss)]
    <2>2. Block(ss) = a \o <<Blank>> \o s /\ s \in Seq(Lines)
      BY <1>1, <1>2, <2>1
    <2> HIDE DEF a, s
    <2>3. a \in Seq(Lines)
      BY <2>1 DEF a
    <2>4. Len(a) + 1 \in DOMAIN Block(ss)
      BY <2>2, <2>3, Adding
    <2>5. DOMAIN <<>> = {}
      BY EmptySeq
    <2> QED BY <2>4, <2>5
  <1> QED BY <1>3, <1>4

LEMMA JoinGrows ==
  ASSUME NEW a \in Seq(Lines), NEW b \in Seq(Lines), NEW s \in Seq(Lines), b # <<>>
  PROVE  Join(a, b \o <<Blank>> \o s) = Join(a, b) \o <<Blank>> \o s
  <1> DEFINE c == b \o <<Blank>> \o s
  <1>1. c \in Seq(Lines) /\ c = b \o (<<Blank>> \o s) /\ <<Blank>> \o s \in Seq(Lines)
    BY Adding
  <1>2. c # <<>>
    <2>1. Len(b) + 1 \in DOMAIN c
      BY Adding
    <2>2. DOMAIN <<>> = {}
      BY EmptySeq
    <2> QED BY <2>1, <2>2
  <1>3. CASE a = <<>>
    <2>1. Join(a, c) = a \o c /\ Join(a, b) = a \o b
      BY <1>3 DEF Join
    <2>2. a \o c = c /\ a \o b = b
      BY <1>1, <1>3, ConcatEmptySeq
    <2> QED BY <2>1, <2>2
  <1>4. CASE a # <<>>
    <2> DEFINE d == a \o <<Blank>>
               t == <<Blank>> \o s
    <2>1. Join(a, c) = d \o c /\ Join(a, b) = d \o b
      BY <1>2, <1>4 DEF Join
    <2>2. d \in Seq(Lines) /\ t \in Seq(Lines) /\ c = b \o t
      BY <1>1, LineOf, ConcatProperties
    <2> HIDE DEF c, d
    <2> HIDE DEF t
    <2>3. d \o (b \o t) = (d \o b) \o t /\ d \o b \in Seq(Lines)
      <3>1. \A u, v, w \in Seq(Lines) : (u \o v) \o w = u \o (v \o w)
        BY ConcatAssociative
      <3>2. d \o b \in Seq(Lines)
        BY <2>2, ConcatProperties
      <3>3. d \in Seq(Lines) /\ b \in Seq(Lines) /\ t \in Seq(Lines)
        BY <2>2
      <3>4. (d \o b) \o t = d \o (b \o t)
        BY <3>1, <3>3, Zenon
      <3> QED BY <3>2, <3>4, Zenon
    <2>4. (d \o b) \o t = (d \o b) \o <<Blank>> \o s
      <3> DEFINE e == d \o b
      <3>1. e \in Seq(Lines)
        BY <2>3
      <3> HIDE DEF e
      <3>2. e \o <<Blank>> \o s = e \o (<<Blank>> \o s)
        BY <3>1, Adding
      <3> QED BY <3>2 DEF e, t
    <2> QED BY <2>1, <2>2, <2>3, <2>4 DEF c
  <1> QED BY <1>3, <1>4

-----------------------------------------------------------------------------
(* Filter: what follows the label of an error is skipped, and nothing else *)
(* is.  Sound says so of the lines that a later part of the code needs to  *)
(* be kept, or gone.                                                       *)

Sound(block) ==
    \A i \in DOMAIN block : /\ IsData(block[i]) => ~ Skipped(block, i)
                            /\ IsErrorText(block[i]) => Skipped(block, i)

Clean(block) ==
    \A i \in DOMAIN block : ~ IsErrorLabel(block[i]) /\ ~ IsErrorText(block[i])

LEMMA CleanIsSound ==
  ASSUME NEW block \in Seq(Lines), Clean(block)
  PROVE  Sound(block)
  BY DEF Clean, Sound, Skipped, Labels

LEMMA CleanJoin ==
  ASSUME NEW a \in Seq(Lines), NEW b \in Seq(Lines), Clean(a), Clean(b)
  PROVE  Clean(Join(a, b))
  <1>1. CASE a = <<>> \/ b = <<>>
    <2>1. Join(a, b) = a \/ Join(a, b) = b
      BY <1>1, ConcatEmptySeq DEF Join
    <2> QED BY <2>1
  <1>2. CASE ~ (a = <<>> \/ b = <<>>)
    <2> DEFINE c == a \o <<Blank>> \o b
    <2>1. Join(a, b) = c
      BY <1>2 DEF Join
    <2>2. /\ Len(a) \in Nat /\ Len(b) \in Nat
          /\ DOMAIN a = 1 .. Len(a) /\ DOMAIN b = 1 .. Len(b)
          /\ DOMAIN c = 1 .. Len(a) + 1 + Len(b)
          /\ \A i \in 1 .. Len(a) : c[i] = a[i]
          /\ c[Len(a) + 1] = Blank
          /\ \A i \in 1 .. Len(b) : c[Len(a) + 1 + i] = b[i]
      BY Adding
    <2> HIDE DEF c
    <2>3. ASSUME NEW i \in DOMAIN c PROVE ~ IsErrorLabel(c[i]) /\ ~ IsErrorText(c[i])
      <3>1. \/ i \in DOMAIN a /\ c[i] = a[i]
            \/ c[i] = Blank
            \/ i - (Len(a) + 1) \in DOMAIN b /\ c[i] = b[i - (Len(a) + 1)]
        <4>1. CASE i <= Len(a) + 1
          BY <2>2, <2>3, <4>1
        <4>2. CASE ~ i <= Len(a) + 1
          <5>1. i - (Len(a) + 1) \in 1 .. Len(b) /\ Len(a) + 1 + (i - (Len(a) + 1)) = i
            BY <2>2, <2>3, <4>2
          <5>2. c[Len(a) + 1 + (i - (Len(a) + 1))] = b[i - (Len(a) + 1)]
            BY <2>2, <5>1
          <5> QED BY <2>2, <5>1, <5>2
        <4> QED BY <4>1, <4>2
      <3> QED BY <3>1 DEF Clean, IsErrorLabel, IsErrorText, Blank, Line
    <2> QED BY <2>1, <2>3 DEF Clean
  <1> QED BY <1>1, <1>2

LEMMA FilterIs ==
  ASSUME NEW block \in Seq(Lines), Sound(block)
  PROVE  /\ Filter(block) \in Seq(Lines)
         /\ Clean(Filter(block))
         /\ Data(Filter(block)) = Data(block)
  <1> DEFINE I == {i \in DOMAIN block : ~ Skipped(block, i)}
             kept == Filter(block)
             V == {l \in Lines : IsData(l)}
  <1>1. kept = Pick(block, I)
    BY DEF Filter
  <1> HIDE DEF kept
  <1>2. /\ kept \in Seq(Lines)
        /\ \A n \in DOMAIN kept : \E i \in I \cap DOMAIN block : kept[n] = block[i]
    <2> HIDE DEF I
    <2> QED BY <1>1, PickElements
  <1>3. DOMAIN block \subseteq Nat /\ \A i \in DOMAIN block : block[i] \in Lines
    BY LenProperties
  <1>4. Clean(kept)
    <2>1. ASSUME NEW i \in I PROVE ~ IsErrorLabel(block[i]) /\ ~ IsErrorText(block[i])
      <3>1. ASSUME IsErrorLabel(block[i]) PROVE FALSE
        <4>1. i \in Labels(block) /\ i <= i
          BY <1>3, <3>1 DEF Labels
        <4>2. \A k \in i .. i : k = i /\ block[k].kind # "OK"
          BY <1>3, <3>1 DEF IsErrorLabel
        <4> QED BY <4>1, <4>2 DEF Skipped
      <3> QED BY <3>1 DEF Sound
    <2> QED BY <1>2, <2>1 DEF Clean
  <1>5. At(block, V) \subseteq I
    BY DEF Sound, At
  <1>6. At(block, V) = {i \in DOMAIN block : IsData(block[i])}
    BY <1>3 DEF At
  <1>7. At(kept, V) = {n \in DOMAIN kept : IsData(kept[n])}
    <2>1. \A n \in DOMAIN kept : kept[n] \in Lines
      BY <1>2, <1>3
    <2> QED BY <2>1 DEF At
  <1>8. Pick(kept, At(kept, V)) = Pick(block, At(block, V))
    <2> HIDE DEF I, V
    <2> QED BY <1>1, <1>5, PickAgain
  <1> HIDE DEF V
  <1> QED BY <1>2, <1>4, <1>6, <1>7, <1>8 DEF kept, Data

\* Whether a line is skipped is known from the lines before it.
LEMMA SkippedLocally ==
  ASSUME NEW a \in Seq(Lines), NEW c \in Seq(Lines), Len(a) <= Len(c),
         \A i \in 1 .. Len(a) : c[i] = a[i], NEW i \in 1 .. Len(a)
  PROVE  Skipped(c, i) <=> Skipped(a, i)
  <1>1. Len(a) \in Nat /\ DOMAIN a = 1 .. Len(a) /\ Len(c) \in Nat /\ DOMAIN c = 1 .. Len(c)
    BY LenProperties
  <1>2. \A j \in 1 .. Len(c) : j <= i =>
           /\ j \in Labels(c) <=> j \in Labels(a)
           /\ \A k \in j .. i : c[k] = a[k]
    BY <1>1 DEF Labels
  <1>3. \A j \in Labels(c) \cup Labels(a) : j \in 1 .. Len(c)
    BY <1>1 DEF Labels
  <1>4. ASSUME Skipped(c, i) PROVE Skipped(a, i)
    <2>1. PICK j \in Labels(c) : j <= i /\ \A k \in j .. i : c[k].kind # "OK"
      BY <1>4 DEF Skipped
    <2>2. j \in Labels(a) /\ \A k \in j .. i : a[k].kind # "OK"
      BY <1>2, <1>3, <2>1
    <2> QED BY <2>1, <2>2 DEF Skipped
  <1>5. ASSUME Skipped(a, i) PROVE Skipped(c, i)
    <2>1. PICK j \in Labels(a) : j <= i /\ \A k \in j .. i : a[k].kind # "OK"
      BY <1>5 DEF Skipped
    <2>2. j \in Labels(c) /\ \A k \in j .. i : c[k].kind # "OK"
      BY <1>2, <1>3, <2>1
    <2> QED BY <2>1, <2>2 DEF Skipped
  <1> QED BY <1>4, <1>5

\* Lines that are neither data nor part of an error may be added.
LEMMA SoundPadded ==
  ASSUME NEW a \in Seq(Lines), NEW b \in Seq(Lines), Sound(a),
         \A i \in DOMAIN b : ~ IsData(b[i]) /\ ~ IsErrorText(b[i])
  PROVE  Sound(a \o b)
  <1> DEFINE c == a \o b
  <1>1. /\ c \in Seq(Lines)
        /\ Len(a) \in Nat /\ Len(b) \in Nat /\ Len(c) = Len(a) + Len(b)
        /\ DOMAIN a = 1 .. Len(a) /\ DOMAIN b = 1 .. Len(b)
        /\ DOMAIN c = 1 .. Len(a) + Len(b)
        /\ \A i \in 1 .. Len(a) : c[i] = a[i]
        /\ \A i \in 1 .. Len(b) : c[Len(a) + i] = b[i]
    BY ConcatIs
  <1> HIDE DEF c
  <1>2. ASSUME NEW i \in DOMAIN c
        PROVE  /\ IsData(c[i]) => ~ Skipped(c, i)
               /\ IsErrorText(c[i]) => Skipped(c, i)
    <2>1. CASE i \in 1 .. Len(a)
      <3>1. Skipped(c, i) <=> Skipped(a, i)
        <4>1. Len(a) <= Len(c)
          BY <1>1
        <4> QED BY <1>1, <2>1, <4>1, SkippedLocally
      <3> QED BY <1>1, <2>1, <3>1 DEF Sound
    <2>2. CASE i \notin 1 .. Len(a)
      <3>1. i - Len(a) \in 1 .. Len(b) /\ Len(a) + (i - Len(a)) = i
        BY <1>1, <1>2, <2>2
      <3>2. c[Len(a) + (i - Len(a))] = b[i - Len(a)]
        BY <1>1, <3>1
      <3> QED BY <1>1, <3>1, <3>2
    <2> QED BY <2>1, <2>2
  <1> QED BY <1>2 DEF Sound, c

LEMMA SoundGrows ==
  ASSUME NEW a \in Seq(Lines), NEW s, IsSection(s), Sound(a)
  PROVE  Sound(a \o <<Blank>> \o s)
  <1> DEFINE c == a \o <<Blank>> \o s
             n == Len(a) + 1
  <1>1. s \in Seq(Lines)
    BY DEF IsSection
  <1>2. /\ c \in Seq(Lines)
        /\ Len(a) \in Nat /\ Len(s) \in Nat /\ Len(s) >= 1
        /\ DOMAIN a = 1 .. Len(a) /\ DOMAIN s = 1 .. Len(s)
        /\ DOMAIN c = 1 .. n + Len(s)
        /\ \A i \in 1 .. Len(a) : c[i] = a[i]
        /\ c[n] = Blank
        /\ \A i \in 1 .. Len(s) : c[n + i] = s[i]
    BY <1>1, Adding DEF IsSection
  <1>3. Len(a) <= Len(c)
    BY <1>2, LenProperties
  <1>4. c[n + 1] = s[1] /\ n + 1 \in DOMAIN c /\ 1 \in 1 .. Len(s)
    BY <1>2
  <1> HIDE DEF c
  <1>5. ASSUME NEW i \in DOMAIN c
        PROVE  /\ IsData(c[i]) => ~ Skipped(c, i)
               /\ IsErrorText(c[i]) => Skipped(c, i)
    <2>1. CASE i \in 1 .. Len(a)
      <3>1. Skipped(c, i) <=> Skipped(a, i)
        BY <1>2, <1>3, <2>1, SkippedLocally
      <3> QED BY <1>2, <2>1, <3>1 DEF Sound
    <2>2. CASE i = n
      BY <1>2, <2>2 DEF IsData, IsErrorText, Blank, Line
    <2>3. CASE i > n
      <3>1. i - n \in 1 .. Len(s) /\ n + (i - n) = i
        BY <1>2, <1>5, <2>3
      <3>2. c[i] = s[i - n]
        BY <1>2, <3>1
      <3>3. CASE IsErrorLabel(s[1])
        <4>1. n + 1 \in Labels(c) /\ n + 1 <= i
          BY <1>2, <1>4, <2>3, <3>3, <1>5 DEF Labels
        <4>2. ASSUME NEW k \in n + 1 .. i PROVE c[k].kind # "OK"
          <5>1. k - n \in 1 .. Len(s) /\ n + (k - n) = k
            BY <1>2, <3>1, <4>2
          <5>2. c[k] = s[k - n]
            BY <1>2, <5>1
          <5>3. k - n = 1 \/ k - n \in 2 .. Len(s)
            BY <5>1
          <5> QED BY <3>3, <5>2, <5>3 DEF IsSection, IsErrorLabel, IsErrorText
        <4>3. Skipped(c, i)
          BY <4>1, <4>2 DEF Skipped
        <4>4. ~ IsData(c[i])
          <5>1. i - n = 1 \/ i - n \in 2 .. Len(s)
            BY <3>1
          <5> QED BY <3>2, <3>3, <5>1 DEF IsSection, IsErrorLabel, IsErrorText, IsData
        <4> QED BY <4>3, <4>4
      <3>4. CASE s[1].kind = "OK"
        <4>1. \A k \in 1 .. Len(s) : ~ IsErrorLabel(s[k]) /\ ~ IsErrorText(s[k])
          <5>1. \A k \in 1 .. Len(s) : k = 1 \/ k \in 2 .. Len(s)
            OBVIOUS
          <5> QED BY <3>4, <5>1 DEF IsSection, IsErrorLabel, IsErrorText
        <4>2. ~ IsErrorText(c[i])
          BY <3>1, <3>2, <4>1
        <4>3. ~ Skipped(c, i)
          <5> SUFFICES ASSUME NEW j \in Labels(c), j <= i,
                              \A k \in j .. i : c[k].kind # "OK"
                       PROVE  FALSE
              BY DEF Skipped
          <5>1. j \in 1 .. n + Len(s)
            BY <1>2 DEF Labels
          <5>2. ~ j <= n + 1
            <6>1. n + 1 <= i
              BY <1>2, <2>3, <1>5
            <6> QED BY <1>2, <1>4, <3>4, <5>1, <6>1
          <5>3. j - n \in 1 .. Len(s) /\ n + (j - n) = j
            BY <1>2, <5>1, <5>2
          <5>4. c[j] = s[j - n]
            BY <1>2, <5>3
          <5> QED BY <4>1, <5>3, <5>4 DEF Labels
        <4> QED BY <4>2, <4>3
      <3> QED BY <3>3, <3>4 DEF IsSection
    <2>4. i \in 1 .. Len(a) \/ i = n \/ i > n
      BY <1>2, <1>5
    <2> QED BY <2>1, <2>2, <2>3, <2>4
  <1> QED BY <1>5 DEF Sound, c

-----------------------------------------------------------------------------
(* Extract: a section that comes in adds what it says, and changes nothing *)
(* of what the sections before it teach.                                   *)

Teaches(block) ==
    [fields    |-> {FieldFix(block, i) : i \in FieldLines(block)},
     relations |-> {RelationFix(block, j) : j \in Corrected(block)},
     errors    |-> {ErrorAt(block, j) : j \in Labels(block)}]

Says(s) ==
    [fields    |-> FieldLessons(s),
     relations |-> RelationLessons(s),
     errors    |-> ErrorLessons(s)]

Yields(f, at) == [n \in DOMAIN at |-> f[at[n]]]

Values(f) == {f[i] : i \in DOMAIN f}

LEMMA AtPositions ==
  ASSUME NEW block \in Seq(Lines), NEW J, J \subseteq DOMAIN block,
         NEW f, DOMAIN f = J
  PROVE  /\ \A n \in DOMAIN Positions(block, J) : Positions(block, J)[n] \in J
         /\ Yields(f, Positions(block, J)) \in Seq(Values(f))
         /\ ToSet(Yields(f, Positions(block, J))) = Values(f)
  <1> DEFINE ids == [i \in DOMAIN block |-> i]
             at == Positions(block, J)
             r == [n \in DOMAIN at |-> f[at[n]]]
  <1>1. Len(block) \in Nat /\ DOMAIN block = 1 .. Len(block)
    BY LenProperties
  <1>2. ids \in Seq(Nat) /\ DOMAIN ids = DOMAIN block /\ \A i \in DOMAIN block : ids[i] = i
    BY <1>1, SeqDef
  <1>3. at = Pick(ids, J)
    BY DEF Positions
  <1> HIDE DEF ids
  <1>4. /\ at \in Seq(Nat)
        /\ \A n \in DOMAIN at : \E i \in J \cap DOMAIN ids : at[n] = ids[i]
        /\ \A i \in J \cap DOMAIN ids : \E n \in DOMAIN at : at[n] = ids[i]
    BY <1>2, <1>3, PickElements
  <1> HIDE DEF at
  <1>5. \A n \in DOMAIN at : at[n] \in J
    BY <1>2, <1>4
  <1>6. \A i \in J : \E n \in DOMAIN at : at[n] = i
    BY <1>2, <1>4
  <1>7. Len(at) \in Nat /\ DOMAIN at = 1 .. Len(at)
    BY <1>4, LenProperties
  <1>8. r \in [1 .. Len(at) -> Values(f)]
    BY <1>5, <1>7 DEF Values
  <1>9. r \in Seq(Values(f))
    BY <1>7, <1>8, SeqDef
  <1>10. ToSet(r) = {r[n] : n \in DOMAIN at}
    BY DEF ToSet
  <1>11. {r[n] : n \in DOMAIN at} = {f[i] : i \in J}
    BY <1>5, <1>6
  <1>12. ToSet(r) = Values(f)
    BY <1>10, <1>11 DEF Values
  <1> QED BY <1>5, <1>9, <1>12 DEF at, Yields

\* What each line of a block yields.
LEMMA YieldsAre ==
  ASSUME NEW block \in Seq(Lines)
  PROVE  /\ Labels(block) \subseteq DOMAIN block /\ Corrected(block) \subseteq DOMAIN block
         /\ FieldLines(block) \subseteq DOMAIN block
         /\ \A i \in FieldLines(block) : FieldFix(block, i) \in FieldEntries
         /\ \A j \in Corrected(block) : RelationFix(block, j) \in RelationEntries
         /\ \A j \in Labels(block) : ErrorAt(block, j) \in ErrorEntries
  <1>1. \A i \in DOMAIN block : block[i] \in Lines
    BY LenProperties
  <1>2. /\ Labels(block) \subseteq DOMAIN block /\ Corrected(block) \subseteq Labels(block)
        /\ FieldLines(block) \subseteq DOMAIN block
    BY DEF Labels, Corrected, FieldLines, Told
  <1>3. ASSUME NEW i \in DOMAIN block, block[i].kind = "field"
        PROVE  block[i].of \in UnknownField
    BY <1>1, <1>3 DEF Lines
  <1>4. ASSUME NEW i \in FieldLines(block) PROVE FieldFix(block, i) \in FieldEntries
    <2>1. block[i].of \in UnknownField
      BY <1>2, <1>3 DEF FieldLines, Told
    <2>2. Candidates(block, i) \subseteq Names
      <3>1. CASE i + 1 \in DOMAIN block /\ block[i + 1].kind = "field"
        <4>1. block[i + 1].of \in UnknownField
          BY <1>3, <3>1
        <4> QED BY <3>1, <4>1 DEF Candidates, UnknownField
      <3>2. CASE ~ (i + 1 \in DOMAIN block /\ block[i + 1].kind = "field")
        BY <3>2 DEF Candidates
      <3> QED BY <3>1, <3>2
    <2> QED BY <2>1, <2>2 DEF FieldFix, FieldEntries, UnknownField
  <1>5. ASSUME NEW j \in Labels(block)
        PROVE  /\ block[j].of \in Queries
               /\ block[j].kind \in {"VALIDATION_ERROR", "EXECUTION_ERROR"}
               /\ \A r \in Suggested(block, j) : r \in UnknownRelation
    <2>1. block[j] \in Lines /\ block[j].kind \in {"VALIDATION_ERROR", "EXECUTION_ERROR"}
      BY <1>1 DEF Labels, IsErrorLabel
    <2>2. ASSUME NEW r \in Suggested(block, j) PROVE r \in UnknownRelation
      <3>1. PICK i \in Told(block, {j}, "relation") : r = block[i].of
        BY DEF Suggested
      <3>2. i \in DOMAIN block /\ block[i].kind = "relation"
        BY DEF Told
      <3> QED BY <1>1, <3>1, <3>2 DEF Lines
    <2> QED BY <2>1, <2>2 DEF Lines
  <1>6. ASSUME NEW j \in Labels(block), Suggested(block, j) # {}
        PROVE  Suggestion(Suggested(block, j)) \in UnknownRelation
    <2>1. Suggestion(Suggested(block, j)) \in Suggested(block, j)
      BY <1>6 DEF Suggestion
    <2> QED BY <1>5, <2>1
  <1>7. ASSUME NEW j \in Corrected(block) PROVE RelationFix(block, j) \in RelationEntries
    <2>1. j \in Labels(block) /\ Suggested(block, j) # {}
      BY DEF Corrected
    <2>2. Suggestion(Suggested(block, j)) \in UnknownRelation /\ block[j].of \in Queries
      BY <1>5, <1>6, <2>1
    <2>3. FirstFrom[block[j].of] \in Names \cup {None}
      BY <2>2, ReaderAssumption
    <2> QED BY <2>2, <2>3 DEF RelationFix, Filed, RelationEntries, UnknownRelation
  <1>8. ASSUME NEW j \in Labels(block) PROVE ErrorAt(block, j) \in ErrorEntries
    <2> DEFINE rs == Suggested(block, j)
    <2>1. rs # {} => Suggestion(rs).correct \in Names
      BY <1>6 DEF UnknownRelation
    <2> HIDE DEF rs
    <2>2. (IF rs = {} THEN None ELSE Suggestion(rs).correct) \in Names \cup {None}
      BY <2>1
    <2>3. Failure(block[j], rs) \in ErrorEntries
      BY <1>5, <2>2 DEF Failure, ErrorEntries
    <2> QED BY <2>3 DEF ErrorAt, rs
  <1> QED BY <1>2, <1>4, <1>7, <1>8

LEMMA ExtractIs ==
  ASSUME NEW block \in Seq(Lines)
  PROVE  /\ Extract(block) \in Knowledge
         /\ \A kind \in Kinds : ToSet(Extract(block)[kind]) = Teaches(block)[kind]
  <1> DEFINE x == Extract(block)
  <1>1. /\ x = [fields |-> x.fields, relations |-> x.relations, errors |-> x.errors]
        /\ x.fields = FieldFixes(block) /\ x.relations = RelationFixes(block)
        /\ x.errors = Errors(block, Labels(block))
    BY DEF Extract
  <1> HIDE DEF x
  <1>2. x.fields \in Seq(FieldEntries) /\ ToSet(x.fields) = Teaches(block).fields
    <2> DEFINE J == FieldLines(block)
               at == Positions(block, J)
               f == [i \in J |-> FieldFix(block, i)]
               r == Yields(f, at)
    <2>1. J \subseteq DOMAIN block /\ DOMAIN f = J /\ Values(f) \subseteq FieldEntries
      BY YieldsAre DEF Values
    <2>2. x.fields = [n \in DOMAIN at |-> FieldFix(block, at[n])]
      BY <1>1 DEF FieldFixes
    <2>3. {f[i] : i \in J} = Teaches(block).fields
      BY DEF Teaches
    <2>4. \A i \in J : f[i] = FieldFix(block, i)
      OBVIOUS
    <2> HIDE DEF J, f
    <2>5. /\ \A n \in DOMAIN at : at[n] \in J
          /\ r \in Seq(FieldEntries) /\ ToSet(r) = {f[i] : i \in J}
      <3>0. Seq(Values(f)) \subseteq Seq(FieldEntries)
        BY <2>1, SeqMonotonic
      <3>1. /\ \A n \in DOMAIN Positions(block, J) : Positions(block, J)[n] \in J
            /\ Yields(f, Positions(block, J)) \in Seq(Values(f))
        BY <2>1, AtPositions
      <3>2. ToSet(Yields(f, Positions(block, J))) = Values(f)
        BY <2>1, AtPositions
      <3> QED BY <2>1, <3>0, <3>1, <3>2 DEF Values
    <2> HIDE DEF at
    <2>6. r = x.fields
      BY <2>2, <2>4, <2>5 DEF Yields
    <2> HIDE DEF r
    <2> QED BY <2>3, <2>5, <2>6
  <1>3. x.relations \in Seq(RelationEntries) /\ ToSet(x.relations) = Teaches(block).relations
    <2> DEFINE J == Corrected(block)
               at == Positions(block, J)
               f == [j \in J |-> RelationFix(block, j)]
               r == Yields(f, at)
    <2>1. J \subseteq DOMAIN block /\ DOMAIN f = J /\ Values(f) \subseteq RelationEntries
      BY YieldsAre DEF Values
    <2>2. x.relations = [n \in DOMAIN at |-> RelationFix(block, at[n])]
      BY <1>1 DEF RelationFixes
    <2>3. {f[i] : i \in J} = Teaches(block).relations
      BY DEF Teaches
    <2>4. \A i \in J : f[i] = RelationFix(block, i)
      OBVIOUS
    <2> HIDE DEF J, f
    <2>5. /\ \A n \in DOMAIN at : at[n] \in J
          /\ r \in Seq(RelationEntries) /\ ToSet(r) = {f[i] : i \in J}
      <3>0. Seq(Values(f)) \subseteq Seq(RelationEntries)
        BY <2>1, SeqMonotonic
      <3>1. /\ \A n \in DOMAIN Positions(block, J) : Positions(block, J)[n] \in J
            /\ Yields(f, Positions(block, J)) \in Seq(Values(f))
        BY <2>1, AtPositions
      <3>2. ToSet(Yields(f, Positions(block, J))) = Values(f)
        BY <2>1, AtPositions
      <3> QED BY <2>1, <3>0, <3>1, <3>2 DEF Values
    <2> HIDE DEF at
    <2>6. r = x.relations
      BY <2>2, <2>4, <2>5 DEF Yields
    <2> HIDE DEF r
    <2> QED BY <2>3, <2>5, <2>6
  <1>4. x.errors \in Seq(ErrorEntries) /\ ToSet(x.errors) = Teaches(block).errors
    <2> DEFINE J == Labels(block)
               at == Positions(block, J)
               f == [j \in J |-> ErrorAt(block, j)]
               r == Yields(f, at)
    <2>1. J \subseteq DOMAIN block /\ DOMAIN f = J /\ Values(f) \subseteq ErrorEntries
      BY YieldsAre DEF Values
    <2>2. x.errors = [n \in DOMAIN at |-> ErrorAt(block, at[n])]
      BY <1>1 DEF Errors
    <2>3. {f[i] : i \in J} = Teaches(block).errors
      BY DEF Teaches
    <2>4. \A i \in J : f[i] = ErrorAt(block, i)
      OBVIOUS
    <2> HIDE DEF J, f
    <2>5. /\ \A n \in DOMAIN at : at[n] \in J
          /\ r \in Seq(ErrorEntries) /\ ToSet(r) = {f[i] : i \in J}
      <3>0. Seq(Values(f)) \subseteq Seq(ErrorEntries)
        BY <2>1, SeqMonotonic
      <3>1. /\ \A n \in DOMAIN Positions(block, J) : Positions(block, J)[n] \in J
            /\ Yields(f, Positions(block, J)) \in Seq(Values(f))
        BY <2>1, AtPositions
      <3>2. ToSet(Yields(f, Positions(block, J))) = Values(f)
        BY <2>1, AtPositions
      <3> QED BY <2>1, <3>0, <3>1, <3>2 DEF Values
    <2> HIDE DEF at
    <2>6. r = x.errors
      BY <2>2, <2>4, <2>5 DEF Yields
    <2> HIDE DEF r
    <2> QED BY <2>3, <2>5, <2>6
  <1>5. x \in Knowledge
    BY <1>1, <1>2, <1>3, <1>4, KnowledgeIs
  <1>6. \A kind \in Kinds : ToSet(x[kind]) = Teaches(block)[kind]
    BY <1>2, <1>3, <1>4 DEF Kinds
  <1> QED BY <1>5, <1>6 DEF x

\* Block c is b with section s behind it, from line m + 1 on: where its lines are,
\* and which of them belong to which message.
Follows(c, b, s, m) ==
    /\ DOMAIN c = 1 .. m + Len(s) /\ DOMAIN b = 1 .. Len(b) /\ DOMAIN s = 1 .. Len(s)
    /\ m = Len(b) + 1 /\ m \in Nat /\ Len(s) \in Nat /\ Len(s) >= 1
    /\ \A i \in 1 .. Len(b) : c[i] = b[i]
    /\ c[m].kind = "blank"
    /\ \A i \in 1 .. Len(s) : c[m + i] = s[i] /\ m + i \in DOMAIN c
    /\ \A i \in DOMAIN c : i \in 1 .. Len(b) \/ i = m \/ \E k \in 1 .. Len(s) : i = m + k
    /\ Labels(c) = Labels(b) \cup {j \in {m + 1} : IsErrorLabel(s[1])}
    /\ \A j \in Labels(b) : \A i \in DOMAIN c : i # m =>
          (InMessage(c, j, i) <=> i \in 1 .. Len(b) /\ InMessage(b, j, i))
    /\ IsErrorLabel(s[1]) => \A i \in 2 .. Len(s) : InMessage(c, m + 1, m + i)

LEMMA SectionFollows ==
  ASSUME NEW b \in Seq(Lines), NEW s, IsSection(s)
  PROVE  Follows(b \o <<Blank>> \o s, b, s, Len(b) + 1)
  <1> DEFINE c == b \o <<Blank>> \o s
             m == Len(b) + 1
  <1>1. s \in Seq(Lines)
    BY DEF IsSection
  <1>2. /\ c \in Seq(Lines)
        /\ Len(b) \in Nat /\ Len(s) \in Nat /\ Len(s) >= 1
        /\ DOMAIN b = 1 .. Len(b) /\ DOMAIN s = 1 .. Len(s)
        /\ DOMAIN c = 1 .. m + Len(s)
        /\ \A i \in 1 .. Len(b) : c[i] = b[i]
        /\ c[m] = Blank
        /\ \A i \in 1 .. Len(s) : c[m + i] = s[i]
    BY <1>1, Adding DEF IsSection
  <1>3. c[m + 1] = s[1] /\ m + 1 \in DOMAIN c /\ 1 \in 1 .. Len(s)
    BY <1>2
  <1>4. \A i \in 1 .. Len(s) : i = 1 \/ i \in 2 .. Len(s)
    OBVIOUS
  <1> HIDE DEF c
  <1>5. \A i \in DOMAIN c : i \in 1 .. Len(b) \/ i = m \/ \E k \in 1 .. Len(s) : i = m + k
    <2> TAKE i \in DOMAIN c
    <2>1. CASE i <= m
      BY <1>2, <2>1
    <2>2. CASE ~ i <= m
      <3>1. i - m \in 1 .. Len(s) /\ m + (i - m) = i
        BY <1>2, <2>2
      <3> QED BY <3>1
    <2> QED BY <2>1, <2>2
  <1>6. \A i \in 2 .. Len(s) : ~ IsErrorLabel(s[i])
    BY DEF IsSection, IsErrorLabel, IsErrorText
  <1>7. c[m].kind = "blank"
    BY <1>2 DEF Blank, Line
  <1>8. Labels(c) = Labels(b) \cup {j \in {m + 1} : IsErrorLabel(s[1])}
    <2>1. \A j \in Labels(b) : j \in Labels(c)
      BY <1>2 DEF Labels
    <2>2. IsErrorLabel(s[1]) => m + 1 \in Labels(c)
      BY <1>3 DEF Labels
    <2>3. ASSUME NEW j \in Labels(c)
          PROVE  j \in Labels(b) \/ (j = m + 1 /\ IsErrorLabel(s[1]))
      <3>1. j \in DOMAIN c /\ IsErrorLabel(c[j])
        BY DEF Labels
      <3>2. CASE j \in 1 .. Len(b)
        BY <1>2, <3>1, <3>2 DEF Labels
      <3>3. CASE j = m
        BY <1>7, <3>1, <3>3 DEF IsErrorLabel
      <3>4. ASSUME NEW k \in 1 .. Len(s), j = m + k
            PROVE  j = m + 1 /\ IsErrorLabel(s[1])
        <4>1. IsErrorLabel(s[k])
          BY <1>2, <3>1, <3>4
        <4>2. k = 1
          BY <1>4, <1>6, <4>1
        <4> QED BY <3>4, <4>1, <4>2
      <3> QED BY <1>5, <3>1, <3>2, <3>3, <3>4
    <2> QED BY <2>1, <2>2, <2>3
  <1>9. ASSUME NEW j \in Labels(b), NEW i \in 1 .. Len(b)
        PROVE  InMessage(c, j, i) <=> InMessage(b, j, i)
    <2>1. j \in 1 .. Len(b)
      BY <1>2 DEF Labels
    <2>2. \A k \in j + 1 .. i - 1 : k \in 1 .. Len(b) /\ c[k] = b[k]
      BY <1>2, <2>1
    <2> QED BY <2>2 DEF InMessage
  <1>10. ASSUME NEW j \in Labels(b), NEW i \in DOMAIN c, i > m
         PROVE  ~ InMessage(c, j, i)
    <2>1. j \in 1 .. Len(b)
      BY <1>2 DEF Labels
    <2>2. m \in j + 1 .. i - 1
      BY <1>2, <1>10, <2>1
    <2> QED BY <1>7, <2>2 DEF InMessage
  <1>11. ASSUME NEW j \in Labels(b), NEW i \in DOMAIN c, i # m
         PROVE  InMessage(c, j, i) <=> i \in 1 .. Len(b) /\ InMessage(b, j, i)
    <2>1. CASE i > m
      <3>1. i \notin 1 .. Len(b)
        BY <1>2, <2>1
      <3> QED BY <1>10, <2>1, <3>1
    <2>2. CASE ~ i > m
      <3>1. i \in 1 .. Len(b)
        BY <1>2, <1>11, <2>2
      <3> QED BY <1>9, <3>1
    <2> QED BY <2>1, <2>2
  <1>12. ASSUME IsErrorLabel(s[1]), NEW i \in 2 .. Len(s)
         PROVE  InMessage(c, m + 1, m + i)
    <2>1. ASSUME NEW k \in (m + 1) + 1 .. (m + i) - 1
          PROVE  c[k].kind \notin {"blank", "relation"} /\ ~ IsErrorLabel(c[k])
      <3>1. k - m \in 2 .. Len(s) /\ m + (k - m) = k /\ k - m # Len(s)
        BY <1>2, <1>12, <2>1
      <3>2. c[k] = s[k - m]
        <4>1. k - m \in 1 .. Len(s)
          BY <3>1
        <4>2. c[m + (k - m)] = s[k - m]
          BY <1>2, <4>1
        <4> QED BY <3>1, <4>2
      <3> QED BY <1>6, <1>12, <3>1, <3>2 DEF IsSection, IsErrorText
    <2>2. m + 1 < m + i
      BY <1>2, <1>12
    <2> QED BY <2>1, <2>2 DEF InMessage
  <1>13. \A i \in 1 .. Len(s) : m + i \in DOMAIN c
    BY <1>2
  <1> HIDE DEF m
  <1>14. m = Len(b) + 1 /\ m \in Nat
    BY <1>2 DEF m
  <1>15. Follows(c, b, s, m)
    BY <1>2, <1>5, <1>7, <1>8, <1>11, <1>12, <1>13, <1>14 DEF Follows
  <1> QED BY <1>15 DEF c, m

\* What a section complains of stands in lines of the message of its label.
LEMMA ComplaintsAre ==
  ASSUME NEW s, IsSection(s), NEW kind \in {"field", "relation"}
  PROVE  /\ Complained(s, kind) = {s[k].of : k \in {k \in 1 .. Len(s) : s[k].kind = kind}}
         /\ \A k \in 1 .. Len(s) : s[k].kind = kind => k \in 2 .. Len(s) /\ IsErrorLabel(s[1])
         /\ Head(s) = s[1]
  <1>1. s \in Seq(Lines) /\ Len(s) >= 1
    BY DEF IsSection
  <1>2. Len(s) \in Nat /\ DOMAIN s = 1 .. Len(s) /\ s # <<>>
    BY <1>1, LenProperties, EmptySeq
  <1>3. Head(s) = s[1]
    BY <1>1, <1>2
  <1>4. Complained(s, kind) = {s[k].of : k \in {k \in 1 .. Len(s) : s[k].kind = kind}}
    BY <1>2 DEF Complained, ToSet
  <1>5. ASSUME NEW k \in 1 .. Len(s), s[k].kind = kind
        PROVE  k \in 2 .. Len(s) /\ IsErrorLabel(s[1])
    <2>1. s[1].kind # kind
      BY DEF IsSection, IsErrorLabel
    <2>2. k \in 2 .. Len(s)
      BY <1>2, <1>5, <2>1
    <2> QED BY <1>5, <2>2 DEF IsSection
  <1> QED BY <1>3, <1>4, <1>5

\* The fields: the line after a complaint is of the same section or blank.
LEMMA TellingFields ==
  ASSUME NEW b \in Seq(Lines), NEW s, IsSection(s), NEW c, NEW m, Follows(c, b, s, m)
  PROVE  Teaches(c).fields = Teaches(b).fields \cup FieldLessons(s)
  <1> USE DEF Follows
  <1>1. ASSUME NEW i \in FieldLines(c)
        PROVE  FieldFix(c, i) \in Teaches(b).fields \cup FieldLessons(s)
    <2>1. /\ i \in DOMAIN c /\ c[i].kind = "field" /\ c[i].of.wrong \notin Dotted
          /\ \E j \in Labels(c) : InMessage(c, j, i)
      BY DEF FieldLines, Told
    <2>2. PICK j \in Labels(c) : InMessage(c, j, i)
      BY <2>1
    <2>3. CASE i \in 1 .. Len(b)
      <3>1. j < i
        BY <2>2 DEF InMessage
      <3>2. j \in Labels(b)
        BY <2>2, <2>3, <3>1
      <3>3. InMessage(b, j, i)
        BY <2>1, <2>2, <2>3, <3>2
      <3>4. c[i] = b[i] /\ i \in DOMAIN b
        BY <2>3
      <3>5. i \in FieldLines(b)
        BY <2>1, <3>2, <3>3, <3>4 DEF FieldLines, Told
      <3>6. Candidates(c, i) = Candidates(b, i)
        <4>1. CASE i + 1 \in 1 .. Len(b)
          BY <4>1 DEF Candidates
        <4>2. CASE i + 1 \notin 1 .. Len(b)
          <5>1. i + 1 = m
            BY <2>3, <4>2
          <5> QED BY <4>2, <5>1 DEF Candidates
        <4> QED BY <4>1, <4>2
      <3> QED BY <3>4, <3>5, <3>6 DEF Teaches, FieldFix
    <2>4. ASSUME NEW k \in 1 .. Len(s), i = m + k
          PROVE  FieldFix(c, i) \in FieldLessons(s)
      <3>1. c[i] = s[k] /\ s[k].kind = "field"
        BY <2>1, <2>4
      <3>2. s[k].of \in Complained(s, "field")
        BY <3>1, ComplaintsAre
      <3>3. Candidates(c, i) = {}
        <4>1. CASE k + 1 \in 1 .. Len(s)
          <5>1. c[i + 1] = s[k + 1]
            <6>1. i + 1 = m + (k + 1)
              BY <2>4
            <6> QED BY <4>1, <6>1
          <5>2. k \in 1 .. Len(s) - 1
            BY <4>1
          <5>3. s[k + 1].kind = "field" => s[k + 1].of.listed = {}
            BY <3>1, <5>2 DEF IsSection
          <5> QED BY <5>1, <5>3 DEF Candidates
        <4>2. CASE k + 1 \notin 1 .. Len(s)
          <5>1. i + 1 \notin DOMAIN c
            BY <2>4, <4>2
          <5> QED BY <5>1 DEF Candidates
        <4> QED BY <4>1, <4>2
      <3> QED BY <2>1, <3>1, <3>2, <3>3 DEF FieldLessons, FieldFix
    <2>5. i # m
      BY <2>1
    <2> QED BY <2>1, <2>3, <2>4, <2>5
  <1>2. ASSUME NEW i \in FieldLines(b)
        PROVE  i \in FieldLines(c) /\ FieldFix(c, i) = FieldFix(b, i)
    <2>1. /\ i \in 1 .. Len(b) /\ b[i].kind = "field" /\ b[i].of.wrong \notin Dotted
          /\ \E j \in Labels(b) : InMessage(b, j, i)
      BY DEF FieldLines, Told
    <2>2. PICK j \in Labels(b) : InMessage(b, j, i)
      BY <2>1
    <2>3. c[i] = b[i] /\ i \in DOMAIN c /\ i # m
      BY <2>1
    <2>4. InMessage(c, j, i) /\ j \in Labels(c)
      BY <2>1, <2>2, <2>3
    <2>5. i \in FieldLines(c)
      BY <2>1, <2>3, <2>4 DEF FieldLines, Told
    <2>6. Candidates(c, i) = Candidates(b, i)
      <3>1. CASE i + 1 \in 1 .. Len(b)
        BY <3>1 DEF Candidates
      <3>2. CASE i + 1 \notin 1 .. Len(b)
        <4>1. i + 1 = m
          BY <2>1, <3>2
        <4> QED BY <3>2, <4>1 DEF Candidates
      <3> QED BY <3>1, <3>2
    <2> QED BY <2>3, <2>5, <2>6 DEF FieldFix
  <1>3. ASSUME NEW u \in Complained(s, "field"), u.wrong \notin Dotted
        PROVE  \E i \in FieldLines(c) :
                  FieldFix(c, i) = [of |-> <<u.wrong, u.object>>, correct |-> {}]
    <2>1. PICK k \in 1 .. Len(s) : s[k].kind = "field" /\ u = s[k].of
      BY ComplaintsAre
    <2>2. k \in 2 .. Len(s) /\ IsErrorLabel(s[1])
      BY <2>1, ComplaintsAre
    <2>3. InMessage(c, m + 1, m + k) /\ m + 1 \in Labels(c)
      BY <2>2
    <2>4. c[m + k] = s[k] /\ m + k \in DOMAIN c
      BY <2>1
    <2>5. m + k \in FieldLines(c)
      BY <1>3, <2>1, <2>3, <2>4 DEF FieldLines, Told
    <2>6. Candidates(c, m + k) = {}
      <3>1. CASE k + 1 \in 1 .. Len(s)
        <4>1. c[(m + k) + 1] = s[k + 1]
          <5>1. (m + k) + 1 = m + (k + 1)
            OBVIOUS
          <5> QED BY <3>1, <5>1
        <4>2. k \in 1 .. Len(s) - 1
          BY <3>1
        <4>3. s[k + 1].kind = "field" => s[k + 1].of.listed = {}
          BY <2>1, <4>2 DEF IsSection
        <4> QED BY <4>1, <4>3 DEF Candidates
      <3>2. CASE k + 1 \notin 1 .. Len(s)
        <4>1. (m + k) + 1 \notin DOMAIN c
          BY <3>2
        <4> QED BY <4>1 DEF Candidates
      <3> QED BY <3>1, <3>2
    <2> QED BY <2>1, <2>4, <2>5, <2>6 DEF FieldFix
  <1>4. /\ Teaches(c).fields = {FieldFix(c, i) : i \in FieldLines(c)}
        /\ Teaches(b).fields = {FieldFix(b, i) : i \in FieldLines(b)}
    BY DEF Teaches
  <1>5. \A l \in FieldLessons(s) : \E i \in FieldLines(c) : l = FieldFix(c, i)
    <2> TAKE l \in FieldLessons(s)
    <2>1. PICK u \in Complained(s, "field") :
             u.wrong \notin Dotted /\ l = [of |-> <<u.wrong, u.object>>, correct |-> {}]
      BY DEF FieldLessons
    <2> QED BY <1>3, <2>1
  <1>6. Teaches(c).fields \subseteq Teaches(b).fields \cup FieldLessons(s)
    BY <1>1, <1>4
  <1>7. Teaches(b).fields \subseteq Teaches(c).fields
    BY <1>2, <1>4
  <1>8. FieldLessons(s) \subseteq Teaches(c).fields
    BY <1>4, <1>5
  <1> QED BY <1>6, <1>7, <1>8

\* The errors and the relations: a message that ended stays as it was, and the
\* message of the new section holds all its lines, a relation at most as the last.
LEMMA TellingErrors ==
  ASSUME NEW b \in Seq(Lines), NEW s, IsSection(s), NEW c, NEW m, Follows(c, b, s, m)
  PROVE  /\ Teaches(c).errors = Teaches(b).errors \cup ErrorLessons(s)
         /\ Teaches(c).relations = Teaches(b).relations \cup RelationLessons(s)
  <1> USE DEF Follows
  <1> DEFINE C == Complained(s, "relation")
  <1>1. ASSUME NEW j \in Labels(b)
        PROVE  j \in Labels(c) /\ c[j] = b[j] /\ Suggested(c, j) = Suggested(b, j)
    <2>1. j \in Labels(c) /\ c[j] = b[j]
      BY DEF Labels
    <2>2. ASSUME NEW i \in Told(c, {j}, "relation")
          PROVE  i \in Told(b, {j}, "relation") /\ c[i] = b[i]
      <3>1. i \in DOMAIN c /\ c[i].kind = "relation" /\ InMessage(c, j, i)
        BY DEF Told
      <3>2. i # m
        BY <3>1
      <3>3. i \in 1 .. Len(b) /\ InMessage(b, j, i)
        BY <3>1, <3>2
      <3> QED BY <3>1, <3>3 DEF Told
    <2>3. ASSUME NEW i \in Told(b, {j}, "relation")
          PROVE  i \in Told(c, {j}, "relation") /\ c[i] = b[i]
      <3>1. i \in 1 .. Len(b) /\ b[i].kind = "relation" /\ InMessage(b, j, i)
        BY DEF Told
      <3>2. i \in DOMAIN c /\ i # m /\ c[i] = b[i]
        BY <3>1
      <3>3. InMessage(c, j, i)
        BY <3>1, <3>2
      <3> QED BY <3>1, <3>2, <3>3 DEF Told
    <2>4. /\ Told(c, {j}, "relation") = Told(b, {j}, "relation")
          /\ \A i \in Told(b, {j}, "relation") : c[i] = b[i]
      BY <2>2, <2>3
    <2> DEFINE at == Told(b, {j}, "relation")
    <2>5. Suggested(c, j) = {c[i].of : i \in at} /\ Suggested(b, j) = {b[i].of : i \in at}
      BY <2>4 DEF Suggested
    <2> HIDE DEF at
    <2>6. \A i \in at : c[i] = b[i]
      BY <2>4 DEF at
    <2>7. Suggested(c, j) = Suggested(b, j)
      BY <2>5, <2>6
    <2> QED BY <2>1, <2>7
  <1>2. ASSUME IsErrorLabel(s[1])
        PROVE  m + 1 \in Labels(c) /\ c[m + 1] = Head(s) /\ Suggested(c, m + 1) = C
    <2>1. m + 1 \in Labels(c) /\ c[m + 1] = Head(s)
      BY <1>2, ComplaintsAre
    <2>2. ASSUME NEW i \in Told(c, {m + 1}, "relation") PROVE c[i].of \in C
      <3>1. i \in DOMAIN c /\ c[i].kind = "relation" /\ InMessage(c, m + 1, i)
        BY DEF Told
      <3>2. i > m + 1
        BY <3>1 DEF InMessage
      <3>3. PICK k \in 1 .. Len(s) : i = m + k
        BY <3>1, <3>2
      <3>4. c[i] = s[k]
        BY <3>3
      <3> QED BY <3>1, <3>4, ComplaintsAre
    <2>3. ASSUME NEW k \in 1 .. Len(s), s[k].kind = "relation"
          PROVE  s[k].of \in Suggested(c, m + 1)
      <3>1. k \in 2 .. Len(s)
        BY <2>3, ComplaintsAre
      <3>2. InMessage(c, m + 1, m + k) /\ c[m + k] = s[k] /\ m + k \in DOMAIN c
        BY <1>2, <3>1
      <3> QED BY <2>3, <3>2 DEF Suggested, Told
    <2>4. C = {s[k].of : k \in {k \in 1 .. Len(s) : s[k].kind = "relation"}}
      BY ComplaintsAre
    <2> HIDE DEF C
    <2>5. Suggested(c, m + 1) \subseteq C
      BY <2>2 DEF Suggested
    <2>6. C \subseteq Suggested(c, m + 1)
      BY <2>3, <2>4
    <2> QED BY <2>1, <2>5, <2>6
  <1>3. C # {} => IsErrorLabel(s[1])
    BY ComplaintsAre
  <1>4. \A r \in C : r = Suggestion(C)
    <2>1. \A k \in 1 .. Len(s) : s[k].kind = "relation" => k = Len(s)
      <3>1. \A k \in 1 .. Len(s) : s[k].kind = "relation" => k \in 2 .. Len(s)
        BY ComplaintsAre
      <3> QED BY <3>1 DEF IsSection
    <2>2. C = {s[k].of : k \in {k \in 1 .. Len(s) : s[k].kind = "relation"}}
      BY ComplaintsAre
    <2> HIDE DEF C
    <2>3. \A r \in C : r = s[Len(s)].of
      BY <2>1, <2>2
    <2>4. C # {} => Suggestion(C) \in C
      BY DEF Suggestion
    <2> QED BY <2>3, <2>4
  <1> HIDE DEF C
  <1>5. \A j \in Labels(c) : j \in Labels(b) \/ (j = m + 1 /\ IsErrorLabel(s[1]))
    OBVIOUS
  <1>6. Teaches(c).errors = Teaches(b).errors \cup ErrorLessons(s)
    <2>1. \A j \in Labels(b) : ErrorAt(c, j) = ErrorAt(b, j) /\ j \in Labels(c)
      BY <1>1 DEF ErrorAt
    <2>2. IsErrorLabel(s[1]) => ErrorAt(c, m + 1) = Failure(Head(s), C)
      BY <1>2 DEF ErrorAt
    <2>3. ErrorLessons(s) = IF IsErrorLabel(s[1]) THEN {Failure(Head(s), C)} ELSE {}
      BY ComplaintsAre DEF ErrorLessons, C
    <2>4. Teaches(c).errors = {ErrorAt(c, j) : j \in Labels(c)}
          /\ Teaches(b).errors = {ErrorAt(b, j) : j \in Labels(b)}
      BY DEF Teaches
    <2> QED BY <1>2, <1>5, <2>1, <2>2, <2>3, <2>4
  <1>7. Teaches(c).relations = Teaches(b).relations \cup RelationLessons(s)
    <2>1. \A j \in Labels(b) : /\ RelationFix(c, j) = RelationFix(b, j)
                               /\ j \in Corrected(c) <=> j \in Corrected(b)
      BY <1>1 DEF RelationFix, Corrected
    <2>2. IsErrorLabel(s[1]) =>
             /\ RelationFix(c, m + 1) = Filed(Suggestion(C), Head(s).of)
             /\ m + 1 \in Corrected(c) <=> C # {}
      BY <1>2 DEF RelationFix, Corrected
    <2>3. RelationLessons(s) = {Filed(r, Head(s).of) : r \in C}
      BY DEF RelationLessons, C
    <2>4. \A r \in RelationLessons(s) : r = Filed(Suggestion(C), Head(s).of) /\ C # {}
      BY <1>4, <2>3
    <2>5. C # {} => Filed(Suggestion(C), Head(s).of) \in RelationLessons(s)
      BY <1>4, <2>3
    <2>6. Corrected(c) \subseteq Labels(c) /\ Corrected(b) \subseteq Labels(b)
      BY DEF Corrected
    <2>7. Teaches(c).relations = {RelationFix(c, j) : j \in Corrected(c)}
          /\ Teaches(b).relations = {RelationFix(b, j) : j \in Corrected(b)}
      BY DEF Teaches
    <2>8. ASSUME NEW j \in Corrected(c)
          PROVE  RelationFix(c, j) \in Teaches(b).relations \cup RelationLessons(s)
      <3>1. CASE j \in Labels(b)
        BY <2>1, <2>7, <2>8, <3>1
      <3>2. CASE j = m + 1 /\ IsErrorLabel(s[1])
        BY <2>2, <2>5, <2>8, <3>2
      <3> QED BY <1>5, <2>6, <3>1, <3>2
    <2>9. ASSUME NEW j \in Corrected(b)
          PROVE  RelationFix(b, j) \in Teaches(c).relations
      BY <2>1, <2>6, <2>7
    <2>10. ASSUME NEW l \in RelationLessons(s) PROVE l \in Teaches(c).relations
      BY <1>3, <2>2, <2>4, <2>7
    <2> QED BY <2>7, <2>8, <2>9, <2>10
  <1> QED BY <1>6, <1>7

LEMMA Telling ==
  ASSUME NEW b \in Seq(Lines), NEW s, IsSection(s)
  PROVE  \A kind \in Kinds : Teaches(b \o <<Blank>> \o s)[kind] = Teaches(b)[kind] \cup Says(s)[kind]
  <1> DEFINE c == b \o <<Blank>> \o s
  <1>1. Follows(c, b, s, Len(b) + 1)
    BY SectionFollows
  <1> HIDE DEF c
  <1>2. /\ Teaches(c).fields = Teaches(b).fields \cup FieldLessons(s)
        /\ Teaches(c).errors = Teaches(b).errors \cup ErrorLessons(s)
        /\ Teaches(c).relations = Teaches(b).relations \cup RelationLessons(s)
    BY <1>1, TellingFields, TellingErrors
  <1>3. \A kind \in Kinds : Teaches(c)[kind] = Teaches(b)[kind] \cup Says(s)[kind]
    BY <1>2 DEF Kinds, Says
  <1> QED BY <1>3 DEF c

-----------------------------------------------------------------------------
(* Type correctness.                                                       *)

LEMMA NoneKnown == NoKnowledge \in Knowledge /\ Len(NoKnowledge.errors) = 0
  <1>1. <<>> \in Seq(FieldEntries) /\ <<>> \in Seq(RelationEntries) /\ <<>> \in Seq(ErrorEntries)
    BY EmptySeq
  <1>2. NoKnowledge \in Knowledge
    BY <1>1, KnowledgeIs DEF NoKnowledge
  <1>3. Len(NoKnowledge.errors) = 0
    BY DEF NoKnowledge
  <1> QED BY <1>2, <1>3

LEMMA TypeInit == Init => TypeOK
  <1> SUFFICES ASSUME Init PROVE TypeOK
      OBVIOUS
  <1> USE DEF Init
  <1>1. /\ round \in Seq(Queries) /\ sections \in Seq(Seq(Lines))
        /\ {accumulated, history} \cup answers \subseteq Seq(Lines)
        /\ Len(round) = 0 /\ Len(sections) = 0
    BY EmptySeq
  <1>2. Cardinality(open) = 0
    BY FS_EmptySet
  <1> QED BY <1>1, <1>2, NoneKnown, ReaderAssumption DEF TypeOK

\* The positions that are open are finitely many.
LEMMA RoundIs ==
  ASSUME NEW r \in Seq(Queries)
  PROVE  /\ Len(r) \in Nat /\ DOMAIN r = 1 .. Len(r)
         /\ IsFiniteSet(DOMAIN r) /\ Cardinality(DOMAIN r) = Len(r)
         /\ \A S \in SUBSET DOMAIN r : IsFiniteSet(S) /\ Cardinality(S) \in Nat
  <1>1. Len(r) \in Nat /\ DOMAIN r = 1 .. Len(r)
    BY LenProperties
  <1>2. IsFiniteSet(1 .. Len(r)) /\ Cardinality(1 .. Len(r)) = Len(r)
    <2>1. IsFiniteSet(1 .. Len(r)) /\ Cardinality(1 .. Len(r)) =
                                        IF 1 > Len(r) THEN 0 ELSE Len(r) - 1 + 1
      BY <1>1, FS_Interval
    <2> QED BY <1>1, <2>1
  <1>3. \A S \in SUBSET DOMAIN r : IsFiniteSet(S)
    BY <1>1, <1>2, FS_Subset
  <1> QED BY <1>1, <1>2, <1>3, FS_CardinalityType

LEMMA TypeDispatch ==
  ASSUME TypeOK, sections = <<>>, NEW qs \in Seq(Queries), Dispatch(qs),
         UNCHANGED <<objects, iteration, accumulated, sections, found, session, answers>>
  PROVE  TypeOK'
  <1>1. MaxParallelQueries \in Nat
    BY ReaderAssumption
  <1>2. /\ round' \in Seq(Queries)
        /\ Len(round') = IF Len(qs) <= MaxParallelQueries THEN Len(qs) ELSE MaxParallelQueries
    BY <1>1, TakeIs DEF Dispatch
  <1>3. Len(round') <= MaxParallelQueries
    <2>1. Len(qs) \in Nat
      BY LenProperties
    <2> QED BY <1>1, <1>2, <2>1
  <1>4. Cardinality(open') = Len(round') /\ Len(round') \in Nat
    BY <1>2, RoundIs DEF Dispatch
  <1>5. Len(sections') = 0
    BY EmptySeq
  <1>6. Len(sections') + Cardinality(open') = Len(round')
    BY <1>4, <1>5
  <1> QED BY <1>2, <1>3, <1>6 DEF TypeOK, Dispatch, session

LEMMA TypeReturn ==
  ASSUME TypeOK, Return, history' \in Seq(Lines), knowledge' \in Knowledge,
         Len(knowledge'.errors) <= MaxKnowledgeErrors, reads' = reads
  PROVE  TypeOK'
  <1>1. /\ round' \in Seq(Queries) /\ sections' \in Seq(Seq(Lines))
        /\ accumulated' \in Seq(Lines) /\ Len(round') = 0 /\ Len(sections') = 0
    BY EmptySeq DEF Return, NoRound
  <1>2. Cardinality(open') = 0
    BY FS_EmptySet DEF Return, NoRound
  <1> QED BY <1>1, <1>2, NoneKnown, ReaderAssumption DEF TypeOK, Return, NoRound

\* Where sections do not wait to be put together, there are none.
QuietInv ==
    /\ pc # "run" => sections = <<>>
    /\ pc = "idle" => answers = {} /\ found = NoKnowledge /\ iteration = 0
    /\ pc \in {"plan", "run"} => iteration < MaxReadIterations

LEMMA QuietStep == QuietInv /\ TypeOK /\ [Next]_vars => QuietInv'
  <1> SUFFICES ASSUME QuietInv, TypeOK, [Next]_vars PROVE QuietInv'
      OBVIOUS
  <1> USE DEF QuietInv
  <1>1. MaxReadIterations \in Nat \ {0} /\ iteration \in 0 .. MaxReadIterations
    BY ReaderAssumption DEF TypeOK
  <1>2. CASE StartRead
    <2>1. iteration = iteration' /\ pc' = "plan" /\ sections' = <<>>
      BY <1>2 DEF StartRead
    <2> QED BY <1>1, <1>2, <2>1 DEF StartRead
  <1>3. CASE Sufficient
    BY <1>3 DEF Sufficient, Dispatch
  <1>4. CASE NeedMore
    BY <1>4 DEF NeedMore, Dispatch
  <1>5. CASE EndRound
    BY <1>1, <1>5 DEF EndRound, NoRound
  <1>6. CASE Synthesize
    BY <1>6 DEF Synthesize, Return, NoRound
  <1>7. CASE ClaudeRaises
    BY <1>7 DEF ClaudeRaises, Return, NoRound
  <1>8. ASSUME NEW i \in open, QueryEnds(i) PROVE QuietInv'
    BY <1>8 DEF QueryEnds
  <1>9. ASSUME NEW i \in open, QueryRaises(i) PROVE QuietInv'
    BY <1>9 DEF QueryRaises, Return, NoRound
  <1>10. CASE UNCHANGED vars
    BY <1>10 DEF vars
  <1> QED BY <1>2, <1>3, <1>4, <1>5, <1>6, <1>7, <1>8, <1>9, <1>10 DEF Next, Continue

LEMMA TypeQueryEnds ==
  ASSUME TypeOK, NEW i \in open, QueryEnds(i)
  PROVE  TypeOK'
  <1>1. PICK s \in Outcomes(round[i]) :
           sections' = Append(sections, s) /\ answers' = answers \cup {s}
    BY DEF QueryEnds
  <1>2. /\ round \in Seq(Queries) /\ open \subseteq DOMAIN round
        /\ sections \in Seq(Seq(Lines)) /\ answers \subseteq Seq(Lines)
        /\ Len(sections) + Cardinality(open) = Len(round)
    BY DEF TypeOK
  <1>3. round[i] \in Queries
    BY <1>2, LenProperties
  <1>4. s \in Seq(Lines)
    BY <1>1, <1>3, OutcomesAreSections DEF IsSection
  <1>5. sections' \in Seq(Seq(Lines)) /\ Len(sections') = Len(sections) + 1
    BY <1>1, <1>2, <1>4, AppendProperties
  <1>6. open' = open \ {i} /\ round' = round
    BY DEF QueryEnds
  <1>7. Cardinality(open') = Cardinality(open) - 1
    <2>1. IsFiniteSet(open)
      BY <1>2, RoundIs
    <2> QED BY <1>6, <2>1, FS_RemoveElement
  <1>8. Len(sections') + Cardinality(open') = Len(round')
    <2>1. Len(sections) \in Nat /\ Cardinality(open) \in Nat
      BY <1>2, RoundIs, LenProperties
    <2> QED BY <1>2, <1>5, <1>6, <1>7, <2>1
  <1>9. ({accumulated, history} \cup answers)' \subseteq Seq(Lines)
    BY <1>1, <1>4 DEF TypeOK, QueryEnds, session
  <1>10. open' \subseteq DOMAIN round'
    BY <1>2, <1>6
  <1> QED BY <1>5, <1>6, <1>8, <1>9, <1>10 DEF TypeOK, QueryEnds, session

LEMMA TypeEndRound ==
  ASSUME TypeOK, QuietInv, EndRound
  PROVE  TypeOK'
  <1>1. Block(sections) \in Seq(Lines)
    BY BlockType DEF TypeOK
  <1>2. accumulated' \in Seq(Lines)
    <2>1. accumulated' = Join(accumulated, Block(sections)) /\ accumulated \in Seq(Lines)
      BY DEF TypeOK, EndRound
    <2> QED BY <1>1, <2>1, JoinIs
  <1>3. Extract(Block(sections)) \in Knowledge
    BY <1>1, ExtractIs
  <1>4. found \in Knowledge /\ Len(found.errors) <= MaxKnowledgeErrors
    BY DEF TypeOK
  <1>5. found' \in Knowledge /\ Len(found'.errors) <= MaxKnowledgeErrors
    BY <1>3, <1>4, MergeIs DEF EndRound
  <1>6. iteration' \in 0 .. MaxReadIterations
    BY ReaderAssumption DEF TypeOK, QuietInv, EndRound
  <1>7. /\ round' \in Seq(Queries) /\ sections' \in Seq(Seq(Lines))
        /\ Len(round') = 0 /\ Len(sections') = 0
    BY EmptySeq DEF EndRound, NoRound
  <1>8. Cardinality(open') = 0 /\ open' = {}
    BY FS_EmptySet DEF EndRound, NoRound
  <1>9. pc' \in {"plan", "synthesize"} /\ objects' = <<>>
    BY DEF EndRound
  <1>10. MaxParallelQueries \in Nat
    BY ReaderAssumption
  <1> QED BY <1>2, <1>5, <1>6, <1>7, <1>8, <1>9, <1>10 DEF TypeOK, EndRound, session

LEMMA FilterType ==
  ASSUME NEW block \in Seq(Lines)
  PROVE  Filter(block) \in Seq(Lines)
  BY PickElements DEF Filter

LEMMA TypeStep == TypeOK /\ QuietInv /\ [Next]_vars => TypeOK'
  <1> SUFFICES ASSUME TypeOK, QuietInv, [Next]_vars PROVE TypeOK'
      OBVIOUS
  <1>1. CASE StartRead
    <2>1. <<>> \in Seq(Lines) /\ <<Found>> \in Seq(Lines)
      BY LineOf, EmptySeq
    <2>2. accumulated' \in Seq(Lines)
      <3>1. PICK fresh \in {<<>>, <<Found>>} : accumulated' = Join(history, fresh)
        BY <1>1 DEF StartRead
      <3>2. history \in Seq(Lines) /\ fresh \in Seq(Lines)
        BY <2>1, <3>1 DEF TypeOK
      <3> QED BY <3>1, <3>2, JoinIs
    <2>3. reads' \in 0 .. MaxReads
      BY <1>1, ReaderAssumption DEF StartRead, TypeOK
    <2> QED BY <1>1, <2>2, <2>3 DEF StartRead, TypeOK
  <1>2. CASE Sufficient
    <2>1. CASE accumulated = <<>> /\ iteration = 0
      <3>1. objects \in Seq(Queries)
        BY ReaderAssumption, EmptySeq DEF TypeOK
      <3>2. sections = <<>>
        BY <1>2 DEF Sufficient, QuietInv
      <3> QED BY <1>2, <2>1, <3>1, <3>2, TypeDispatch DEF Sufficient
    <2>2. CASE ~ (accumulated = <<>> /\ iteration = 0)
      BY <1>2, <2>2 DEF Sufficient, TypeOK, session
    <2> QED BY <2>1, <2>2
  <1>3. CASE NeedMore
    <2>1. PICK qs \in Plans : Dispatch(qs)
      BY <1>3 DEF NeedMore
    <2>2. qs \in Seq(Queries) /\ sections = <<>>
      BY <1>3, ReaderAssumption DEF NeedMore, QuietInv
    <2> QED BY <1>3, <2>1, <2>2, TypeDispatch DEF NeedMore
  <1>4. CASE EndRound
    BY <1>4, TypeEndRound
  <1>5. CASE Synthesize
    <2>1. accumulated \in Seq(Lines) /\ history \in Seq(Lines)
          /\ found \in Knowledge /\ knowledge \in Knowledge
          /\ Len(knowledge.errors) <= MaxKnowledgeErrors
      BY DEF TypeOK
    <2>2. history' \in Seq(Lines)
      BY <1>5, <2>1, FilterType, JoinIs DEF Synthesize
    <2>3. knowledge' \in Knowledge /\ Len(knowledge'.errors) <= MaxKnowledgeErrors
      BY <1>5, <2>1, MergeIs DEF Synthesize
    <2> QED BY <1>5, <2>2, <2>3, TypeReturn DEF Synthesize
  <1>6. CASE ClaudeRaises
    BY <1>6, TypeReturn DEF ClaudeRaises, session, TypeOK
  <1>7. ASSUME NEW i \in open, QueryEnds(i) PROVE TypeOK'
    BY <1>7, TypeQueryEnds
  <1>8. ASSUME NEW i \in open, QueryRaises(i) PROVE TypeOK'
    BY <1>8, TypeReturn DEF QueryRaises, session, TypeOK
  <1>9. CASE UNCHANGED vars
    BY <1>9 DEF vars, session, TypeOK
  <1> QED BY <1>1, <1>2, <1>3, <1>4, <1>5, <1>6, <1>7, <1>8, <1>9 DEF Next, Continue

LEMMA TypedAndQuiet == Spec => [](TypeOK /\ QuietInv)
  <1>1. Init => TypeOK /\ QuietInv
    BY TypeInit DEF Init, QuietInv
  <1>2. TypeOK /\ QuietInv /\ [Next]_vars => (TypeOK /\ QuietInv)'
    BY TypeStep, QuietStep
  <1> QED BY <1>1, <1>2, PTL DEF Spec

\* The state of a read is well typed: at most MaxParallelQueries queries are on
\* their way (_run_parallel_queries_with_feedback), each has left a section or is
\* still open, no more than MaxReadIterations rounds are begun, and knowledge keeps
\* no more errors than its cap, after every merge.
THEOREM TypeCorrect == Spec => []TypeOK
  BY TypedAndQuiet, PTL

-----------------------------------------------------------------------------
(* What Claude is shown: with the results of a round that goes on, it is   *)
(* what Claude would be shown next.                                        *)

Text == IF pc = "run" THEN Join(accumulated, Block(sections)) ELSE accumulated

TextInv ==
    /\ Clean(history)
    /\ \A s \in answers : IsSection(s) /\ IsPartOf(s, Text)
    /\ pc # "idle" => IsPrefix(history, Text) /\ Sound(Text)

LEMMA TextType == TypeOK => Text \in Seq(Lines)
  BY BlockType, JoinIs DEF Text, TypeOK

LEMMA HeadingIs ==
  ASSUME NEW gap \in {<<>>, <<Blank>>}
  PROVE  /\ gap \o <<Header>> \in Seq(Lines)
         /\ \A i \in DOMAIN (gap \o <<Header>>) :
               ~ IsData((gap \o <<Header>>)[i]) /\ ~ IsErrorText((gap \o <<Header>>)[i])
  <1> DEFINE h == <<Header>>
             b == <<Blank>>
             c == gap \o h
  <1>1. /\ h \in Seq(Lines) /\ DOMAIN h = 1 .. 1 /\ Len(h) = 1 /\ h[1] = Header
        /\ b \in Seq(Lines) /\ DOMAIN b = 1 .. 1 /\ Len(b) = 1 /\ b[1] = Blank
    BY LineOf
  <1>2. /\ ~ IsData(Header) /\ ~ IsErrorText(Header)
        /\ ~ IsData(Blank) /\ ~ IsErrorText(Blank)
    BY DEF IsData, IsErrorText, Blank, Header, Line
  <1> HIDE DEF h
  <1>3. c \in Seq(Lines) /\ \A i \in DOMAIN c : c[i] = Blank \/ c[i] = Header
    <2>1. CASE gap = <<>>
      <3>1. c = h
        BY <1>1, <2>1, ConcatEmptySeq
      <3>2. \A i \in DOMAIN h : h[i] = Header
        BY <1>1
      <3> HIDE DEF c
      <3> QED BY <1>1, <3>1, <3>2
    <2>2. CASE gap = b
      <3>1. c = b \o h
        BY <2>2
      <3> HIDE DEF b, c
      <3>2. /\ b \o h \in Seq(Lines) /\ DOMAIN (b \o h) = 1 .. 1 + 1
            /\ \A i \in 1 .. 1 : (b \o h)[i] = b[i]
            /\ \A i \in 1 .. 1 : (b \o h)[1 + i] = h[i]
        BY <1>1, ConcatIs
      <3>3. \A i \in 1 .. 1 + 1 : (b \o h)[i] = Blank \/ (b \o h)[i] = Header
        BY <1>1, <3>2
      <3> QED BY <3>1, <3>2, <3>3
    <2> QED BY <2>1, <2>2
  <1> HIDE DEF c
  <1>4. \A i \in DOMAIN c : ~ IsData(c[i]) /\ ~ IsErrorText(c[i])
    BY <1>2, <1>3
  <1> QED BY <1>3, <1>4 DEF c, h

LEMMA TextDispatch ==
  ASSUME TypeOK, TextInv, pc = "plan", sections = <<>>, NEW qs, Dispatch(qs),
         UNCHANGED <<objects, iteration, accumulated, sections, found, session, answers>>
  PROVE  TextInv'
  <1>1. accumulated \in Seq(Lines) /\ history \in Seq(Lines) /\ Text = accumulated
    BY DEF TypeOK, Text
  <1>2. history' = history /\ answers' = answers /\ accumulated' = accumulated
        /\ sections' = <<>> /\ pc' # "idle"
    BY DEF session, Dispatch
  <1>3. CASE qs = <<>>
    <2>1. Text' = Text
      BY <1>1, <1>2, <1>3 DEF Dispatch, Text
    <2> QED BY <1>2, <2>1 DEF TextInv
  <1>4. CASE qs # <<>>
    <2>1. Text' = Join(accumulated, <<Header>>)
      BY <1>2, <1>4, BlockStarts DEF Dispatch, Text
    <2>2. PICK gap \in {<<>>, <<Blank>>} :
             Join(accumulated, <<Header>>) = accumulated \o (gap \o <<Header>>)
      BY <1>1, LineOf, JoinIs
    <2> DEFINE b == gap \o <<Header>>
    <2>3. b \in Seq(Lines) /\ \A i \in DOMAIN b : ~ IsData(b[i]) /\ ~ IsErrorText(b[i])
      BY HeadingIs
    <2>4. Text' = Text \o b
      BY <1>1, <2>1, <2>2
    <2> HIDE DEF b
    <2>5. Text \in Seq(Lines)
      BY TextType
    <2> HIDE DEF Text
    <2>6. Sound(Text \o b) /\ IsPrefix(history, Text \o b)
      BY <1>1, <2>3, <2>5, SoundPadded, PrefixGrows DEF TextInv
    <2>7. \A s \in answers : IsPartOf(s, Text \o b)
      BY <2>3, <2>5, PartGrows DEF TextInv, IsSection
    <2> QED BY <1>2, <2>4, <2>6, <2>7 DEF TextInv
  <1> QED BY <1>3, <1>4

LEMMA TextQueryEnds ==
  ASSUME TypeOK, TextInv, NEW i \in open, QueryEnds(i)
  PROVE  TextInv'
  <1>1. PICK s \in Outcomes(round[i]) :
           sections' = Append(sections, s) /\ answers' = answers \cup {s}
    BY DEF QueryEnds
  <1>2. /\ round \in Seq(Queries) /\ open \subseteq DOMAIN round
        /\ sections \in Seq(Seq(Lines)) /\ history \in Seq(Lines)
        /\ accumulated \in Seq(Lines)
    BY DEF TypeOK
  <1>3. round[i] \in Queries
    BY <1>2, LenProperties
  <1>4. IsSection(s) /\ s \in Seq(Lines)
    BY <1>1, <1>3, OutcomesAreSections DEF IsSection
  <1>5. /\ pc = "run" /\ pc' = "run" /\ accumulated' = accumulated /\ history' = history
    BY DEF QueryEnds, session
  <1> DEFINE B == Block(sections)
  <1>6. B \in Seq(Lines) /\ B # <<>>
    BY <1>2, BlockType, BlockNotEmpty
  <1>7. Text' = Join(accumulated, B \o <<Blank>> \o s)
    BY <1>1, <1>2, <1>4, <1>5, BlockGrows DEF Text
  <1>8. Text = Join(accumulated, B)
    BY <1>5 DEF Text
  <1> HIDE DEF B
  <1>9. Text' = Text \o <<Blank>> \o s
    BY <1>2, <1>4, <1>6, <1>7, <1>8, JoinGrows
  <1>10. Text \in Seq(Lines)
    BY TextType
  <1> HIDE DEF Text
  <1>11. Text' = Text \o (<<Blank>> \o s) /\ <<Blank>> \o s \in Seq(Lines)
    BY <1>4, <1>9, <1>10, Adding
  <1>12. Sound(Text')
    BY <1>4, <1>5, <1>9, <1>10, SoundGrows DEF TextInv
  <1>13. IsPrefix(history, Text')
    BY <1>2, <1>5, <1>10, <1>11, PrefixGrows DEF TextInv
  <1>14. \A t \in answers : IsPartOf(t, Text')
    BY <1>10, <1>11, PartGrows DEF TextInv, IsSection
  <1>15. IsPartOf(s, Text')
    <2>1. Text \o <<Blank>> \in Seq(Lines)
      BY <1>10, LineOf, ConcatProperties
    <2> QED BY <1>4, <1>9, <2>1, PartGrows
  <1> QED BY <1>1, <1>4, <1>5, <1>12, <1>13, <1>14, <1>15 DEF TextInv

LEMMA TextStartRead ==
  ASSUME TypeOK, QuietInv, TextInv, StartRead
  PROVE  TextInv'
  <1>1. PICK fresh \in {<<>>, <<Found>>} : accumulated' = Join(history, fresh)
    BY DEF StartRead
  <1>2. history \in Seq(Lines) /\ fresh \in Seq(Lines) /\ Clean(history)
    BY LineOf, EmptySeq DEF TypeOK, TextInv
  <1>3. Clean(fresh)
    BY DEF Clean, Found, Line, IsErrorLabel, IsErrorText
  <1>4. Text' = Join(history, fresh) /\ history' = history /\ answers' = {}
    BY <1>1 DEF StartRead, Text, QuietInv
  <1>5. Join(history, fresh) \in Seq(Lines)
    BY <1>2, JoinIs
  <1>6. Sound(Join(history, fresh))
    BY <1>2, <1>3, <1>5, CleanJoin, CleanIsSound
  <1>7. IsPrefix(history, Join(history, fresh))
    <2>1. PICK gap \in {<<>>, <<Blank>>} :
             Join(history, fresh) = history \o (gap \o fresh)
      BY <1>2, JoinIs
    <2>2. gap \o fresh \in Seq(Lines)
      BY <1>2, <2>1, LineOf, EmptySeq, ConcatProperties
    <2>3. IsPrefix(history, history)
      <3>1. Len(history) \in Nat
        BY <1>2, LenProperties
      <3>2. Len(history) <= Len(history)
        BY <3>1
      <3> QED BY <1>2, <3>2, PrefixIs
    <2> QED BY <1>2, <2>1, <2>2, <2>3, PrefixGrows
  <1> QED BY <1>2, <1>4, <1>6, <1>7 DEF TextInv

LEMMA TextStep == TypeOK /\ QuietInv /\ TextInv /\ [Next]_vars => TextInv'
  <1> SUFFICES ASSUME TypeOK, QuietInv, TextInv, [Next]_vars PROVE TextInv'
      OBVIOUS
  <1>1. CASE StartRead
    BY <1>1, TextStartRead
  <1>2. CASE Sufficient
    <2>1. CASE accumulated = <<>> /\ iteration = 0
      <3>1. pc = "plan" /\ sections = <<>>
        BY <1>2 DEF Sufficient, QuietInv
      <3> QED BY <1>2, <2>1, <3>1, TextDispatch DEF Sufficient
    <2>2. CASE ~ (accumulated = <<>> /\ iteration = 0)
      <3>1. Text' = Text /\ pc # "idle"
        BY <1>2, <2>2 DEF Sufficient, Text
      <3>2. history' = history /\ answers' = answers
        BY <1>2 DEF Sufficient, session
      <3> QED BY <3>1, <3>2 DEF TextInv
    <2> QED BY <2>1, <2>2
  <1>3. CASE NeedMore
    <2>1. PICK qs \in Plans : Dispatch(qs)
      BY <1>3 DEF NeedMore
    <2>2. pc = "plan" /\ sections = <<>>
      BY <1>3 DEF NeedMore, QuietInv
    <2> QED BY <1>3, <2>1, <2>2, TextDispatch DEF NeedMore
  <1>4. CASE EndRound
    <2>1. Text' = Text /\ pc # "idle"
      BY <1>4 DEF EndRound, Text
    <2>2. history' = history /\ answers' = answers
      BY <1>4 DEF EndRound, session
    <2> QED BY <2>1, <2>2 DEF TextInv
  <1>5. CASE Synthesize
    <2>1. accumulated \in Seq(Lines) /\ history \in Seq(Lines) /\ Sound(accumulated)
      BY <1>5 DEF TypeOK, TextInv, Text, Synthesize
    <2>2. Filter(accumulated) \in Seq(Lines) /\ Clean(Filter(accumulated))
      BY <2>1, FilterIs
    <2>3. Clean(history')
      BY <1>5, <2>1, <2>2, CleanJoin DEF Synthesize, TextInv
    <2> QED BY <1>5, <2>3 DEF Synthesize, Return, TextInv
  <1>6. CASE ClaudeRaises
    BY <1>6 DEF ClaudeRaises, Return, session, TextInv
  <1>7. ASSUME NEW i \in open, QueryEnds(i) PROVE TextInv'
    BY <1>7, TextQueryEnds
  <1>8. ASSUME NEW i \in open, QueryRaises(i) PROVE TextInv'
    BY <1>8 DEF QueryRaises, Return, session, TextInv
  <1>9. CASE UNCHANGED vars
    BY <1>9 DEF vars, session, TextInv, Text
  <1> QED BY <1>1, <1>2, <1>3, <1>4, <1>5, <1>6, <1>7, <1>8, <1>9 DEF Next, Continue

LEMMA TextIsWhole == Spec => [](TypeOK /\ TextInv)
  <1>1. Init => TextInv
    BY DEF Init, TextInv, Clean
  <1>2. TypeOK /\ QuietInv /\ (TypeOK /\ QuietInv)' /\ TextInv /\ [Next]_vars => TextInv'
    BY TextStep
  <1> QED BY <1>1, <1>2, TypedAndQuiet, PTL DEF Spec

\* Whatever Claude asked for, in whichever order the queries completed, and however
\* many rounds there were: each section that came in stands undivided in what
\* _call_synthesizer or the next _call_planner is given, and the history does too.
THEOREM AnswersArrive == Spec => []AnswersReachClaude
  <1>1. TypeOK /\ TextInv => AnswersReachClaude
    BY DEF TextInv, Text, AnswersReachClaude
  <1> QED BY <1>1, TextIsWhole, PTL

\* _filter_ok_records tells records from errors by the labels above them alone;
\* that is enough: of what a read saw, all data stays and no line of an error does.
THEOREM HistoryIsData == Spec => []HistoryKeepsTheData
  <1>1. TypeOK /\ TextInv => HistoryKeepsTheData
    <2> SUFFICES ASSUME TypeOK, TextInv, pc = "synthesize"
                 PROVE  LET kept == Filter(accumulated)
                        IN  /\ \A i \in DOMAIN kept :
                                  ~ IsErrorLabel(kept[i]) /\ ~ IsErrorText(kept[i])
                            /\ Data(kept) = Data(accumulated)
        BY DEF HistoryKeepsTheData
    <2>1. accumulated \in Seq(Lines) /\ Sound(accumulated)
      BY DEF TypeOK, TextInv, Text
    <2> QED BY <2>1, FilterIs DEF Clean
  <1> QED BY <1>1, TextIsWhole, PTL

-----------------------------------------------------------------------------
(* What a read has learned, and what the results of a round that goes on   *)
(* will still teach, are together what the sections said.                  *)

Results == IF pc = "run" THEN Block(sections) ELSE <<>>

Said(kind) == UNION {Says(s)[kind] : s \in answers}

\* Nothing is learned that no section says.
ToldInv == \A kind \in Kinds :
              ToSet(found[kind]) \cup Teaches(Results)[kind] \subseteq Said(kind)

\* What a section says is known, or will be when the round is over.
HeldInv == \A kind \in Kinds :
              \/ kind = "errors" /\ Len(found.errors) = MaxKnowledgeErrors
              \/ \A l \in Said(kind) : \/ Noted(found[kind], l.of)
                                       \/ l \in Teaches(Results)[kind]

\* Entries are told apart: without that, the cap could push out what was noted.
DistinctInv == \A kind \in Kinds : Distinct(found[kind]) /\ Distinct(knowledge[kind])

LessonInv == ToldInv /\ HeldInv /\ DistinctInv

LEMMA NothingTold ==
  \A kind \in Kinds : Teaches(<<>>)[kind] = {} /\ Teaches(<<Header>>)[kind] = {}
  <1>1. Labels(<<>>) = {}
    BY DEF Labels
  <1>2. Labels(<<Header>>) = {}
    BY DEF Labels, Header, Line, IsErrorLabel
  <1>3. ASSUME NEW block, Labels(block) = {}
        PROVE  \A kind \in Kinds : Teaches(block)[kind] = {}
    <2>1. FieldLines(block) = {} /\ Corrected(block) = {}
      BY <1>3 DEF FieldLines, Told, Corrected
    <2> QED BY <1>3, <2>1 DEF Teaches, Kinds
  <1> QED BY <1>1, <1>2, <1>3

LEMMA NothingKnown ==
  \A kind \in Kinds : Distinct(NoKnowledge[kind]) /\ ToSet(NoKnowledge[kind]) = {}
  <1>1. Distinct(<<>>) /\ ToSet(<<>>) = {}
    BY DEF Distinct, ToSet
  <1> QED BY <1>1 DEF NoKnowledge, Kinds

\* Where nothing changes but the position of the read.
LEMMA LessonsKept ==
  ASSUME LessonInv, UNCHANGED <<found, answers, knowledge>>,
         \A kind \in Kinds : Teaches(Results')[kind] = Teaches(Results)[kind]
  PROVE  LessonInv'
  <1>1. \A kind \in Kinds : Said(kind)' = Said(kind)
    BY DEF Said
  <1>2. ToldInv'
    BY <1>1 DEF LessonInv, ToldInv
  <1>3. HeldInv'
    BY <1>1 DEF LessonInv, HeldInv
  <1>4. DistinctInv'
    BY DEF LessonInv, DistinctInv
  <1> QED BY <1>2, <1>3, <1>4 DEF LessonInv

LEMMA LessonsDispatch ==
  ASSUME LessonInv, pc = "plan", sections = <<>>, NEW qs, Dispatch(qs),
         UNCHANGED <<objects, iteration, accumulated, sections, found, session, answers>>
  PROVE  LessonInv'
  <1>1. Results = <<>> /\ (Results' = <<>> \/ Results' = <<Header>>)
    BY BlockStarts DEF Results, Dispatch
  <1>2. UNCHANGED <<found, answers, knowledge>>
    BY DEF session
  <1>3. \A kind \in Kinds : Teaches(Results')[kind] = {} /\ Teaches(Results)[kind] = {}
    BY <1>1, NothingTold
  <1> HIDE DEF Results
  <1> QED BY <1>2, <1>3, LessonsKept

LEMMA LessonsReturn ==
  ASSUME Return, \A kind \in Kinds : Distinct(knowledge'[kind])
  PROVE  LessonInv'
  <1>1. found' = NoKnowledge /\ answers' = {} /\ Results' = <<>>
    BY DEF Return, Results
  <1>2. \A kind : Said(kind)' = {}
    BY <1>1 DEF Said
  <1>3. ToldInv'
    BY <1>1, NothingKnown, NothingTold DEF ToldInv
  <1>4. HeldInv'
    BY <1>2 DEF HeldInv
  <1>5. DistinctInv'
    BY <1>1, NothingKnown DEF DistinctInv
  <1> QED BY <1>3, <1>4, <1>5 DEF LessonInv

LEMMA LessonsQueryEnds ==
  ASSUME TypeOK, LessonInv, NEW i \in open, QueryEnds(i)
  PROVE  LessonInv'
  <1>1. PICK s \in Outcomes(round[i]) :
           sections' = Append(sections, s) /\ answers' = answers \cup {s}
    BY DEF QueryEnds
  <1>2. /\ round \in Seq(Queries) /\ open \subseteq DOMAIN round
        /\ sections \in Seq(Seq(Lines))
    BY DEF TypeOK
  <1>3. round[i] \in Queries
    BY <1>2, LenProperties
  <1>4. IsSection(s) /\ s \in Seq(Lines)
    BY <1>1, <1>3, OutcomesAreSections DEF IsSection
  <1>5. pc = "run" /\ pc' = "run" /\ UNCHANGED <<found, knowledge>>
    BY DEF QueryEnds, session
  <1> DEFINE b == Results
  <1>6. b \in Seq(Lines) /\ b = Block(sections)
    BY <1>2, <1>5, BlockType DEF Results
  <1>7. Results' = b \o <<Blank>> \o s
    BY <1>1, <1>2, <1>4, <1>5, <1>6, BlockGrows DEF Results
  <1> HIDE DEF b
  <1>8. \A kind \in Kinds : Teaches(Results')[kind] = Teaches(b)[kind] \cup Says(s)[kind]
    BY <1>4, <1>6, <1>7, Telling
  <1>9. \A kind \in Kinds : Said(kind)' = Said(kind) \cup Says(s)[kind]
    BY <1>1 DEF Said
  <1>10. ToldInv'
    <2> SUFFICES ASSUME NEW kind \in Kinds
                 PROVE  ToSet(found'[kind]) \cup Teaches(Results')[kind] \subseteq Said(kind)'
        BY DEF ToldInv
    <2>1. ToSet(found[kind]) \cup Teaches(b)[kind] \subseteq Said(kind)
      BY DEF LessonInv, ToldInv, b
    <2> QED BY <1>5, <1>8, <1>9, <2>1
  <1>11. HeldInv'
    <2> SUFFICES ASSUME NEW kind \in Kinds
                 PROVE  \/ kind = "errors" /\ Len(found'.errors) = MaxKnowledgeErrors
                        \/ \A l \in Said(kind)' : \/ Noted(found'[kind], l.of)
                                                  \/ l \in Teaches(Results')[kind]
        BY DEF HeldInv
    <2>1. \/ kind = "errors" /\ Len(found.errors) = MaxKnowledgeErrors
          \/ \A l \in Said(kind) : Noted(found[kind], l.of) \/ l \in Teaches(b)[kind]
      BY DEF LessonInv, HeldInv, b
    <2> QED BY <1>5, <1>8, <1>9, <2>1
  <1>12. DistinctInv'
    BY <1>5 DEF LessonInv, DistinctInv
  <1> QED BY <1>10, <1>11, <1>12 DEF LessonInv

LEMMA LessonsEndRound ==
  ASSUME TypeOK, LessonInv, EndRound
  PROVE  LessonInv'
  <1> DEFINE b == Block(sections)
             x == Extract(b)
             r == Merge(found, x)
  <1>1. pc = "run" /\ Results = b /\ Results' = <<>> /\ found' = r
        /\ UNCHANGED <<answers, knowledge>>
    BY DEF EndRound, Results, session
  <1>2. b \in Seq(Lines) /\ found \in Knowledge /\ Len(found.errors) <= MaxKnowledgeErrors
    BY BlockType DEF TypeOK
  <1> HIDE DEF b
  <1>3. x \in Knowledge /\ \A kind \in Kinds : ToSet(x[kind]) = Teaches(b)[kind]
    BY <1>2, ExtractIs
  <1> HIDE DEF x
  <1>4. /\ r \in Knowledge /\ Len(r.errors) <= MaxKnowledgeErrors
        /\ \A kind \in Kinds :
              /\ Extends(r[kind], found[kind], x[kind])
              /\ \/ Holds(r[kind], found[kind], x[kind])
                 \/ kind = "errors" /\ Len(r.errors) = MaxKnowledgeErrors
    BY <1>2, <1>3, MergeIs
  <1> HIDE DEF r
  <1>5. \A kind \in Kinds : Said(kind)' = Said(kind)
    BY <1>1 DEF Said
  <1>6. \A kind \in Kinds : ToSet(found[kind]) \cup Teaches(b)[kind] \subseteq Said(kind)
    BY <1>1 DEF LessonInv, ToldInv
  <1>7. ToldInv'
    <2> SUFFICES ASSUME NEW kind \in Kinds
                 PROVE  ToSet(found'[kind]) \cup Teaches(Results')[kind] \subseteq Said(kind)'
        BY DEF ToldInv
    <2>1. ToSet(r[kind]) \subseteq ToSet(found[kind]) \cup ToSet(x[kind])
      BY <1>4 DEF Extends
    <2>2. Teaches(Results')[kind] = {}
      BY <1>1, NothingTold
    <2> QED BY <1>1, <1>3, <1>5, <1>6, <2>1, <2>2
  <1>8. HeldInv'
    <2> SUFFICES ASSUME NEW kind \in Kinds,
                        ~ (kind = "errors" /\ Len(r.errors) = MaxKnowledgeErrors),
                        NEW l \in Said(kind)
                 PROVE  Noted(r[kind], l.of)
        BY <1>1, <1>5 DEF HeldInv
    <2>1. Holds(r[kind], found[kind], x[kind])
      BY <1>4
    <2>2. ~ (kind = "errors" /\ Len(found.errors) = MaxKnowledgeErrors)
      <3> SUFFICES ASSUME kind = "errors", Len(found.errors) = MaxKnowledgeErrors
                   PROVE  FALSE
          OBVIOUS
      <3>1. Len(found.errors) <= Len(r.errors)
        BY <1>4 DEF Extends, LessonInv, DistinctInv
      <3>2. Len(r.errors) \in Nat /\ MaxKnowledgeErrors \in Nat
        <4>1. r.errors \in Seq(ErrorEntries)
          BY <1>4, KnowledgeIs
        <4> QED BY <4>1, LenProperties, ReaderAssumption
      <3> QED BY <1>4, <3>1, <3>2
    <2>3. CASE Noted(found[kind], l.of)
      <3>1. PICK i \in DOMAIN found[kind] : found[kind][i].of = l.of
        BY <2>3 DEF Noted
      <3>2. found[kind][i] \in ToSet(found[kind])
        BY DEF ToSet
      <3> QED BY <2>1, <3>1, <3>2 DEF Holds
    <2>4. CASE l \in Teaches(b)[kind]
      BY <1>3, <2>1, <2>4 DEF Holds
    <2> QED BY <1>1, <2>2, <2>3, <2>4 DEF LessonInv, HeldInv
  <1>9. DistinctInv'
    BY <1>1, <1>4 DEF LessonInv, DistinctInv, Extends
  <1> QED BY <1>7, <1>8, <1>9 DEF LessonInv

LEMMA LessonStep == TypeOK /\ QuietInv /\ LessonInv /\ [Next]_vars => LessonInv'
  <1> SUFFICES ASSUME TypeOK, QuietInv, LessonInv, [Next]_vars PROVE LessonInv'
      OBVIOUS
  <1>0. \A kind \in Kinds : Distinct(knowledge[kind])
    BY DEF LessonInv, DistinctInv
  <1>1. CASE StartRead
    <2>1. Results' = Results
      BY <1>1 DEF StartRead, Results
    <2> HIDE DEF Results
    <2> QED BY <1>1, <2>1, LessonsKept DEF StartRead
  <1>2. CASE Sufficient
    <2>1. CASE accumulated = <<>> /\ iteration = 0
      <3>1. pc = "plan" /\ sections = <<>>
        BY <1>2 DEF Sufficient, QuietInv
      <3> QED BY <1>2, <2>1, <3>1, LessonsDispatch DEF Sufficient
    <2>2. CASE ~ (accumulated = <<>> /\ iteration = 0)
      <3>1. Results' = Results
        BY <1>2, <2>2 DEF Sufficient, Results
      <3> HIDE DEF Results
      <3> QED BY <1>2, <3>1, LessonsKept DEF Sufficient, session
    <2> QED BY <2>1, <2>2
  <1>3. CASE NeedMore
    <2>1. PICK qs \in Plans : Dispatch(qs)
      BY <1>3 DEF NeedMore
    <2>2. pc = "plan" /\ sections = <<>>
      BY <1>3 DEF NeedMore, QuietInv
    <2> QED BY <1>3, <2>1, <2>2, LessonsDispatch DEF NeedMore
  <1>4. CASE EndRound
    BY <1>4, LessonsEndRound
  <1>5. CASE Synthesize
    <2>1. found \in Knowledge /\ knowledge \in Knowledge
          /\ Len(knowledge.errors) <= MaxKnowledgeErrors
      BY DEF TypeOK
    <2>2. \A kind \in Kinds : Distinct(knowledge'[kind])
      BY <1>5, <2>1, MergeIs DEF Synthesize, Extends
    <2> QED BY <1>5, <2>2, LessonsReturn DEF Synthesize
  <1>6. CASE ClaudeRaises
    BY <1>0, <1>6, LessonsReturn DEF ClaudeRaises, session
  <1>7. ASSUME NEW i \in open, QueryEnds(i) PROVE LessonInv'
    BY <1>7, LessonsQueryEnds
  <1>8. ASSUME NEW i \in open, QueryRaises(i) PROVE LessonInv'
    BY <1>0, <1>8, LessonsReturn DEF QueryRaises, session
  <1>9. CASE UNCHANGED vars
    <2>1. Results' = Results
      BY <1>9 DEF vars, Results
    <2> HIDE DEF Results
    <2> QED BY <1>9, <2>1, LessonsKept DEF vars, session
  <1> QED BY <1>1, <1>2, <1>3, <1>4, <1>5, <1>6, <1>7, <1>8, <1>9 DEF Next, Continue

LEMMA LessonsAreWhole == Spec => [](TypeOK /\ LessonInv)
  <1>1. Init => LessonInv
    <2> SUFFICES ASSUME Init PROVE LessonInv
        OBVIOUS
    <2>1. found = NoKnowledge /\ knowledge = NoKnowledge /\ answers = {} /\ Results = <<>>
      BY DEF Init, Results
    <2>2. \A kind : Said(kind) = {}
      BY <2>1 DEF Said
    <2>3. ToldInv /\ HeldInv
      BY <2>1, <2>2, NothingKnown, NothingTold DEF ToldInv, HeldInv
    <2>4. DistinctInv
      BY <2>1, NothingKnown DEF DistinctInv
    <2> QED BY <2>3, <2>4 DEF LessonInv
  <1>2. TypeOK /\ QuietInv /\ LessonInv /\ [Next]_vars => LessonInv'
    BY LessonStep
  <1> QED BY <1>1, <1>2, TypedAndQuiet, PTL DEF Spec

\* Taking the text of a round apart again mixes nothing up between its sections:
\* _extract_from_errors learns what the sections say one by one, in the form of
\* FieldLessons, RelationLessons and ErrorLessons, nothing else, and misses none of it,
\* but for failed queries beyond the cap.  That form is what the code's patterns read:
\* it has no field listed for a wrong one (they stand on the complaint's own line,
\* reader.py:448 and 480, and are looked for on the next, reader.py:559), no field
\* with a dot, and as the parent of a relation the first object of the query's label.
THEOREM LessonsAreTrue == Spec => []LessonsMatchErrors
  <1>1. TypeOK /\ LessonInv => LessonsMatchErrors
    <2> SUFFICES ASSUME LessonInv, pc \in {"plan", "synthesize"}
                 PROVE  LessonsMatchErrors
        BY DEF LessonsMatchErrors
    <2>1. Results = <<>>
      BY DEF Results
    <2>2. \A kind \in Kinds :
             /\ ToSet(found[kind]) \subseteq Said(kind)
             /\ \/ kind = "errors" /\ Len(found.errors) = MaxKnowledgeErrors
                \/ \A l \in Said(kind) : Noted(found[kind], l.of)
      BY <2>1, NothingTold DEF LessonInv, ToldInv, HeldInv
    <2>3. /\ Said("fields") = UNION {FieldLessons(s) : s \in answers}
          /\ Said("relations") = UNION {RelationLessons(s) : s \in answers}
          /\ Said("errors") = UNION {ErrorLessons(s) : s \in answers}
      BY DEF Said, Says
    <2>4. "fields" \in Kinds /\ "relations" \in Kinds /\ "errors" \in Kinds
      BY DEF Kinds
    <2>5. \A l \in Said("fields") : l = [of |-> l.of, correct |-> {}]
      BY <2>3 DEF FieldLessons
    <2>6. ASSUME NEW l \in Said("fields") PROVE l \in ToSet(found.fields)
      <3>1. Noted(found.fields, l.of)
        BY <2>2, <2>4
      <3>2. PICK i \in DOMAIN found.fields : found.fields[i].of = l.of
        BY <3>1 DEF Noted
      <3>3. found.fields[i] \in ToSet(found.fields)
        BY DEF ToSet
      <3>4. found.fields[i] \in Said("fields")
        BY <2>2, <2>4, <3>3
      <3>5. found.fields[i] = l
        BY <2>5, <3>2, <3>4
      <3> QED BY <3>3, <3>5
    <2>7. ToSet(found.fields) = Said("fields")
      BY <2>2, <2>4, <2>6
    <2>8. /\ ToSet(found.relations) \subseteq Said("relations")
          /\ \A l \in Said("relations") : Noted(found.relations, l.of)
      BY <2>2, <2>4
    <2>9. /\ ToSet(found.errors) \subseteq Said("errors")
          /\ \/ Len(found.errors) = MaxKnowledgeErrors
             \/ \A l \in Said("errors") : Noted(found.errors, l.of)
      BY <2>2, <2>4
    <2> QED BY <2>3, <2>7, <2>8, <2>9 DEF LessonsMatchErrors
  <1> QED BY <1>1, LessonsAreWhole, PTL

\* The session's knowledge only grows, and keeps its order: what was noted first of a
\* field, a relation or a query is what stays, and what the cap on errors keeps,
\* whatever the reads that come after it teach.
THEOREM LessonsRemain == Spec => LessonsStay
  <1> DEFINE Stays == /\ IsPrefix(knowledge.fields, knowledge'.fields)
                      /\ IsPrefix(knowledge.relations, knowledge'.relations)
                      /\ IsPrefix(knowledge.errors, knowledge'.errors)
  <1>1. TypeOK /\ LessonInv /\ [Next]_vars => [Stays]_vars
    <2> SUFFICES ASSUME TypeOK, LessonInv, Next PROVE Stays
        OBVIOUS
    <2>1. /\ knowledge \in Knowledge /\ found \in Knowledge
          /\ Len(knowledge.errors) <= MaxKnowledgeErrors
          /\ \A kind \in Kinds : Distinct(knowledge[kind])
      BY DEF TypeOK, LessonInv, DistinctInv
    <2>2. CASE Synthesize
      <3>1. \A kind \in Kinds : IsPrefix(knowledge[kind], Merge(knowledge, found)[kind])
        BY <2>1, MergeIs DEF Extends
      <3>2. \A kind \in Kinds : IsPrefix(knowledge[kind], knowledge'[kind])
        BY <2>2, <3>1 DEF Synthesize
      <3> QED BY <3>2 DEF Kinds
    <2>3. CASE knowledge' = knowledge
      <3>1. ASSUME NEW kind \in Kinds PROVE IsPrefix(knowledge[kind], knowledge[kind])
        <4>1. knowledge[kind] \in Seq(Entries)
          BY <2>1, KnowledgeIs
        <4>2. Len(knowledge[kind]) <= Len(knowledge[kind])
          BY <4>1, LenProperties
        <4> QED BY <4>1, <4>2, PrefixIs
      <3> QED BY <2>3, <3>1 DEF Kinds
    <2>4. Synthesize \/ knowledge' = knowledge
      BY DEF Next, Continue, StartRead, Sufficient, NeedMore, EndRound, ClaudeRaises,
             QueryEnds, QueryRaises, session
    <2> QED BY <2>2, <2>3, <2>4
  <1> QED BY <1>1, LessonsAreWhole, PTL DEF Spec, LessonsStay
=============================================================================
