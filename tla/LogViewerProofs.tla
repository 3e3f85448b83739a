----------------------------- MODULE LogViewerProofs ----------------------------
(***************************************************************************)
(* Proofs about LogViewer, for any size of the buffer, any search words and *)
(* any lines: the viewer's types, that no line is lost between subscription *)
(* and screen, that the match under the cursor stays the same, and that the*)
(* counter and the marks speak of the same one.                            *)
(***************************************************************************)
EXTENDS LogViewer, FiniteSetTheorems, SequenceTheorems, WellFoundedInduction, TLAPS

-----------------------------------------------------------------------------
(* Sums of numbers, one after the other.                                    *)

\* What holds at the start and is kept by every round holds after each.
LEMMA Rounds ==
    ASSUME NEW N \in Nat, NEW S \in SUBSET (0 .. N), 0 \in S,
           \A i \in S : i < N => i + 1 \in S
    PROVE  \A i \in 0 .. N : i \in S
<1> DEFINE R == {p \in Nat \X Nat : p[1] < p[2]}
           missing == (0 .. N) \ S
<1> SUFFICES ASSUME missing # {} PROVE FALSE
    OBVIOUS
<1>1. IsWellFoundedOn(R, Nat)
    BY NatLessThanWellFounded DEF OpToRel
<1>2. missing \subseteq Nat
    OBVIOUS
<1>3. PICK x \in missing : \A y \in missing : <<y, x>> \notin R
    BY <1>1, <1>2, WFMin
<1>4. x - 1 \in 0 .. N /\ (x - 1) + 1 = x /\ x - 1 < N
    OBVIOUS
<1>5. x - 1 \notin missing
    <2>1. x - 1 \in missing => <<x - 1, x>> \in R
        BY <1>2, <1>4
    <2> QED
        BY <1>3, <2>1
<1> QED
    BY <1>3, <1>4, <1>5

\* g[k] is the sum of w[1] to w[k].
Sums(g, w, N) ==
    g \in [0 .. N -> Nat] /\ g[0] = 0 /\ \A i \in 1 .. N : g[i] = g[i - 1] + w[i]

CanSum(k, w, N) ==
    \E g \in [0 .. N -> Nat] : g[0] = 0 /\ \A i \in 1 .. k : g[i] = g[i - 1] + w[i]

LEMMA SumsExist ==
    ASSUME NEW N \in Nat, NEW w \in [1 .. N -> Nat]
    PROVE  \E g : Sums(g, w, N)
<1> DEFINE S == {k \in 0 .. N : CanSum(k, w, N)}
<1>1. 0 \in S
    <2> DEFINE g == [i \in 0 .. N |-> 0]
    <2>1. g \in [0 .. N -> Nat] /\ g[0] = 0
        OBVIOUS
    <2> HIDE DEF g
    <2>2. CanSum(0, w, N)
        BY <2>1 DEF CanSum
    <2> QED
        BY <2>2
<1>2. ASSUME NEW k \in S, k < N
      PROVE  k + 1 \in S
    <2>1. PICK g \in [0 .. N -> Nat] :
              g[0] = 0 /\ \A i \in 1 .. k : g[i] = g[i - 1] + w[i]
        BY DEF CanSum
    <2> DEFINE h == [i \in 0 .. N |-> IF i = k + 1 THEN g[k] + w[k + 1] ELSE g[i]]
    <2>2. k \in 0 .. N /\ k + 1 \in 1 .. N
        BY <1>2
    <2>3. g[k] + w[k + 1] \in Nat
        BY <2>2
    <2>4. h \in [0 .. N -> Nat]
        BY <2>3
    <2>5. ASSUME NEW i \in 1 .. k + 1
          PROVE  h[i] = h[i - 1] + w[i]
        <3>1. CASE i = k + 1
            <4>1. h[i] = g[k] + w[k + 1] /\ h[k] = g[k] /\ i - 1 = k
                BY <2>2, <3>1
            <4> QED
                BY <3>1, <4>1
        <3>2. CASE i # k + 1
            <4>1. /\ i \in 1 .. k /\ i \in 0 .. N /\ i - 1 \in 0 .. N
                  /\ i - 1 # k + 1
                BY <2>2, <3>2
            <4>2. h[i] = g[i] /\ h[i - 1] = g[i - 1]
                BY <3>2, <4>1
            <4> QED
                BY <2>1, <4>1, <4>2
        <3> QED
            BY <3>1, <3>2
    <2>6. h[0] = 0
        BY <2>1, <2>2
    <2> HIDE DEF h
    <2>7. CanSum(k + 1, w, N)
        BY <2>4, <2>5, <2>6 DEF CanSum
    <2> QED
        BY <2>2, <2>7
<1> HIDE DEF S
<1>3. S \in SUBSET (0 .. N)
    BY DEF S
<1>4. \A k \in 0 .. N : k \in S
    BY <1>1, <1>2, <1>3, Rounds
<1>5. CanSum(N, w, N)
    BY <1>4 DEF S
<1> QED
    BY <1>5 DEF CanSum, Sums

\* Sums of the same numbers are the same.
LEMMA SumsAgree ==
    ASSUME NEW N \in Nat, NEW M \in Nat, NEW k \in 0 .. N, k <= M,
           NEW g, NEW h, NEW w, NEW v, Sums(g, w, N), Sums(h, v, M),
           \A i \in 1 .. k : w[i] = v[i]
    PROVE  \A i \in 0 .. k : g[i] = h[i]
<1> DEFINE S == {i \in 0 .. k : g[i] = h[i]}
<1>1. 0 \in S
    BY DEF Sums
<1>2. ASSUME NEW i \in S, i < k
      PROVE  i + 1 \in S
    <2>1. i + 1 \in 1 .. k /\ i + 1 \in 1 .. N /\ i + 1 \in 1 .. M /\ (i + 1) - 1 = i
        BY <1>2
    <2>2. g[i + 1] = g[i] + w[i + 1] /\ h[i + 1] = h[i] + v[i + 1]
        BY <2>1 DEF Sums
    <2>3. w[i + 1] = v[i + 1] /\ g[i] = h[i]
        BY <2>1
    <2> QED
        BY <2>1, <2>2, <2>3
<1> HIDE DEF S
<1>3. S \in SUBSET (0 .. k) /\ k \in Nat
    BY DEF S
<1>4. \A i \in 0 .. k : i \in S
    BY <1>1, <1>2, <1>3, Rounds
<1> QED
    BY <1>4 DEF S

\* They do not decrease.
LEMMA SumsAscend ==
    ASSUME NEW N \in Nat, NEW g, NEW w \in [1 .. N -> Nat], Sums(g, w, N),
           NEW i \in 0 .. N, NEW j \in 0 .. N, i <= j
    PROVE  g[i] <= g[j]
<1> DEFINE S == {k \in 0 .. N : k <= i \/ g[i] <= g[k]}
<1>1. 0 \in S
    BY DEF Sums
<1>2. ASSUME NEW k \in S, k < N
      PROVE  k + 1 \in S
    <2>1. k + 1 \in 1 .. N /\ (k + 1) - 1 = k /\ k + 1 \in 0 .. N /\ k \in 0 .. N
        BY <1>2
    <2>2. /\ g[k + 1] = g[k] + w[k + 1] /\ w[k + 1] \in Nat
          /\ g[k] \in Nat /\ g[i] \in Nat /\ g[k + 1] \in Nat
        BY <2>1 DEF Sums
    <2>3. CASE k <= i
        <3>1. k + 1 <= i \/ k = i
            BY <2>3
        <3> QED
            BY <2>1, <2>2, <3>1
    <2>4. CASE g[i] <= g[k]
        BY <2>1, <2>2, <2>4
    <2> QED
        BY <2>3, <2>4
<1> HIDE DEF S
<1>3. S \in SUBSET (0 .. N)
    BY DEF S
<1>4. \A k \in 0 .. N : k \in S
    BY <1>1, <1>2, <1>3, Rounds
<1>5. g[i] \in Nat /\ (j <= i => i = j)
    BY DEF Sums
<1> QED
    BY <1>4, <1>5 DEF S

\* A pair for each unit of w[1] to w[k].
Units(w, k) == {o \in (1 .. k) \X Nat : o[2] \in 1 .. w[o[1]]}

LEMMA UnitsAreCounted ==
    ASSUME NEW N \in Nat, NEW g, NEW w \in [1 .. N -> Nat], Sums(g, w, N),
           NEW k \in 0 .. N
    PROVE  IsFiniteSet(Units(w, k)) /\ Cardinality(Units(w, k)) = g[k]
<1> DEFINE S == {i \in 0 .. N : IsFiniteSet(Units(w, i)) /\ Cardinality(Units(w, i)) = g[i]}
<1>1. 0 \in S
    <2>1. Units(w, 0) = {}
        BY DEF Units
    <2>2. IsFiniteSet(Units(w, 0)) /\ Cardinality(Units(w, 0)) = 0
        BY <2>1, FS_EmptySet
    <2>3. g[0] = 0
        BY DEF Sums
    <2> QED
        BY <2>2, <2>3
<1>2. ASSUME NEW i \in S, i < N
      PROVE  i + 1 \in S
    <2> DEFINE new == {i + 1} \X (1 .. w[i + 1])
    <2>1. /\ i + 1 \in 1 .. N /\ (i + 1) - 1 = i /\ i + 1 \in 0 .. N /\ i \in 0 .. N
          /\ w[i + 1] \in Nat
        BY <1>2
    <2>2. g[i + 1] = g[i] + w[i + 1] /\ g[i] \in Nat
        BY <2>1 DEF Sums
    <2>3. Units(w, i + 1) = Units(w, i) \cup new
        BY <2>1 DEF Units
    <2>4. Units(w, i) \cap new = {}
        BY <2>1 DEF Units
    <2>5. IsFiniteSet(new) /\ Cardinality(new) = w[i + 1]
        <3>1. IsFiniteSet({i + 1}) /\ Cardinality({i + 1}) = 1
            BY FS_Singleton
        <3>2. IsFiniteSet(1 .. w[i + 1]) /\ Cardinality(1 .. w[i + 1]) = w[i + 1]
            <4>1. w[i + 1] \in Int /\ 1 \in Int /\ w[i + 1] >= 0
                BY <2>1
            <4>2. /\ IsFiniteSet(1 .. w[i + 1])
                  /\ Cardinality(1 .. w[i + 1])
                        = IF 1 > w[i + 1] THEN 0 ELSE w[i + 1] - 1 + 1
                BY <4>1, FS_Interval
            <4> QED
                BY <4>1, <4>2
        <3>3. /\ IsFiniteSet(new)
              /\ Cardinality(new) = Cardinality({i + 1}) * Cardinality(1 .. w[i + 1])
            BY <3>1, <3>2, FS_Product
        <3>4. 1 * w[i + 1] = w[i + 1]
            BY <2>1
        <3> HIDE DEF new
        <3> QED
            BY <3>1, <3>2, <3>3, <3>4
    <2>6. IsFiniteSet(Units(w, i)) /\ Cardinality(Units(w, i)) = g[i]
        OBVIOUS
    <2> HIDE DEF new, S
    <2>7. /\ IsFiniteSet(Units(w, i + 1))
          /\ Cardinality(Units(w, i + 1)) = g[i] + w[i + 1] - Cardinality({})
        BY <2>3, <2>4, <2>5, <2>6, FS_Union
    <2>8. Cardinality(Units(w, i + 1)) = g[i + 1]
        BY <2>1, <2>2, <2>7, FS_EmptySet
    <2> QED
        BY <2>1, <2>7, <2>8 DEF S
<1> HIDE DEF S
<1>3. S \in SUBSET (0 .. N)
    BY DEF S
<1>4. \A i \in 0 .. N : i \in S
    BY <1>1, <1>2, <1>3, Rounds
<1> QED
    BY <1>4 DEF S

\* p puts the numbers w at other places, among more of them.
Placed(p, w, N, v, M) ==
    /\ p \in [1 .. N -> 1 .. M]
    /\ \A i, j \in 1 .. N : p[i] = p[j] => i = j
    /\ \A i \in 1 .. N : v[p[i]] = w[i]

LEMMA SumsGrow ==
    ASSUME NEW N \in Nat, NEW M \in Nat, NEW g, NEW h,
           NEW w \in [1 .. N -> Nat], NEW v \in [1 .. M -> Nat],
           Sums(g, w, N), Sums(h, v, M), NEW p, Placed(p, w, N, v, M)
    PROVE  g[N] <= h[M]
<1> DEFINE S == Units(w, N)
           T == Units(v, M)
           f == [o \in S |-> <<p[o[1]], o[2]>>]
<1>1. ASSUME NEW o \in S
      PROVE  f[o] \in T /\ f[o][1] = p[o[1]] /\ f[o][2] = o[2] /\ o[1] \in 1 .. N
    <2>1. o[1] \in 1 .. N /\ o[2] \in Nat /\ o[2] \in 1 .. w[o[1]]
        BY DEF Units
    <2>2. p[o[1]] \in 1 .. M /\ v[p[o[1]]] = w[o[1]]
        BY <2>1 DEF Placed
    <2>3. f[o] = <<p[o[1]], o[2]>>
        OBVIOUS
    <2> QED
        BY <2>1, <2>2, <2>3 DEF Units
<1>2. \A o, q \in S : f[o] = f[q] => o = q
    <2> SUFFICES ASSUME NEW o \in S, NEW q \in S, f[o] = f[q] PROVE o = q
        OBVIOUS
    <2>1. p[o[1]] = p[q[1]] /\ o[2] = q[2] /\ o[1] \in 1 .. N /\ q[1] \in 1 .. N
        BY <1>1
    <2>2. o[1] = q[1]
        BY <2>1 DEF Placed
    <2>3. o = <<o[1], o[2]>> /\ q = <<q[1], q[2]>>
        BY DEF Units
    <2> QED
        BY <2>1, <2>2, <2>3
<1>3. f \in Injection(S, T)
    <2>1. f \in [S -> T]
        BY <1>1
    <2> HIDE DEF f, S, T
    <2> QED
        BY <1>2, <2>1 DEF Injection, IsInjective
<1>4. IsFiniteSet(S) /\ Cardinality(S) = g[N]
    BY UnitsAreCounted
<1>5. IsFiniteSet(T) /\ Cardinality(T) = h[M]
    BY UnitsAreCounted
<1> HIDE DEF f, S, T
<1> QED
    BY <1>3, <1>4, <1>5, FS_Injection

-----------------------------------------------------------------------------
(* The log: lines put in the order of their times, and cut.                 *)

Total(S, R) ==
    /\ \A x \in S : <<x, x>> \notin R
    /\ \A x, y, z \in S : <<x, y>> \in R /\ <<y, z>> \in R => <<x, z>> \in R
    /\ \A x, y \in S : x = y \/ <<x, y>> \in R \/ <<y, x>> \in R

Rank(S, R, x) == Cardinality({y \in S : <<y, x>> \in R})

LEMMA Ranks ==
    ASSUME NEW S, NEW R, IsFiniteSet(S), Total(S, R)
    PROVE  /\ Cardinality(S) \in Nat
           /\ \A x \in S : Rank(S, R, x) \in 0 .. Cardinality(S) - 1
           /\ \A x, y \in S : <<x, y>> \in R => Rank(S, R, x) < Rank(S, R, y)
           /\ \A k \in 1 .. Cardinality(S) : \E x \in S : Rank(S, R, x) = k - 1
<1> DEFINE below(x) == {y \in S : <<y, x>> \in R}
           n == Cardinality(S)
<1>1. n \in Nat
    BY FS_CardinalityType
<1>2. ASSUME NEW x \in S
      PROVE  IsFiniteSet(below(x)) /\ Rank(S, R, x) \in Nat /\ Rank(S, R, x) < n
    <2>1. below(x) \in SUBSET S /\ below(x) # S
        BY DEF Total
    <2> HIDE DEF below
    <2>2. /\ IsFiniteSet(below(x)) /\ Cardinality(below(x)) <= n
          /\ n = Cardinality(below(x)) => S = below(x)
        BY <2>1, FS_Subset
    <2>3. Cardinality(below(x)) \in Nat
        BY <2>2, FS_CardinalityType
    <2> QED
        BY <1>1, <2>1, <2>2, <2>3 DEF Rank, below
<1>3. ASSUME NEW x \in S, NEW y \in S, <<x, y>> \in R
      PROVE  Rank(S, R, x) < Rank(S, R, y)
    <2>1. below(x) \in SUBSET below(y) /\ x \in below(y) /\ x \notin below(x)
        BY <1>3 DEF Total
    <2>2. IsFiniteSet(below(y)) /\ Rank(S, R, x) \in Nat /\ Rank(S, R, y) \in Nat
        BY <1>2
    <2> HIDE DEF below
    <2>3. /\ Cardinality(below(x)) <= Cardinality(below(y))
          /\ Cardinality(below(y)) = Cardinality(below(x)) => below(y) = below(x)
        BY <2>1, <2>2, FS_Subset
    <2>4. Rank(S, R, x) = Cardinality(below(x)) /\ Rank(S, R, y) = Cardinality(below(y))
        BY DEF Rank, below
    <2> QED
        BY <2>1, <2>2, <2>3, <2>4
<1>4. \A x \in S : Rank(S, R, x) \in Nat /\ Rank(S, R, x) < n
    BY <1>2
<1>5. \A x, y \in S : <<x, y>> \in R => Rank(S, R, x) < Rank(S, R, y)
    BY <1>3
<1> HIDE DEF n, below
<1> DEFINE T == 1 .. n
           f == [x \in S |-> Rank(S, R, x) + 1]
<1>6. f \in Injection(S, T)
    <2>1. f \in [S -> T]
        <3>1. \A x \in S : Rank(S, R, x) + 1 \in T
            BY <1>1, <1>4
        <3> QED
            BY <3>1
    <2>2. ASSUME NEW x \in S, NEW y \in S, x # y
          PROVE  f[x] # f[y]
        <3>1. <<x, y>> \in R \/ <<y, x>> \in R
            BY <2>2 DEF Total
        <3>2. Rank(S, R, x) # Rank(S, R, y) /\ Rank(S, R, x) \in Nat /\ Rank(S, R, y) \in Nat
            BY <1>4, <1>5, <3>1
        <3> QED
            BY <3>2
    <2> QED
        BY <2>1, <2>2 DEF Injection, IsInjective
<1>7. IsFiniteSet(T) /\ Cardinality(T) = n
    BY <1>1, FS_Interval
<1> HIDE DEF T, f
<1>8. f \in Surjection(S, T)
    BY <1>6, <1>7, FS_Injection DEF n
<1>9. ASSUME NEW k \in 1 .. n
      PROVE  \E x \in S : Rank(S, R, x) = k - 1
    <2>1. PICK x \in S : f[x] = k
        BY <1>8 DEF Surjection, T
    <2>2. f[x] = Rank(S, R, x) + 1 /\ Rank(S, R, x) \in Nat
        BY <1>4 DEF f
    <2> QED
        BY <2>1, <2>2
<1>10. \A x \in S : Rank(S, R, x) \in 0 .. n - 1
    BY <1>1, <1>4
<1> QED
    BY <1>1, <1>5, <1>9, <1>10 DEF n

LEMMA LineTypes ==
    \A l \in Line : l.n \in Nat /\ l.time \in Nat /\ l.found \in [Words -> Nat]
BY MaxArrivalsAssumption DEF Line

LEMMA SeqTypes ==
    ASSUME NEW s \in Seq(Line)
    PROVE  /\ Len(s) \in Nat /\ DOMAIN s = 1 .. Len(s)
           /\ \A i \in 1 .. Len(s) : s[i] \in Line
BY LenProperties, ElementOfSeq

\* t has the lines of s, each at the place p gives it.
Permuted(p, s, t) ==
    /\ t \in Seq(Line) /\ Len(t) = Len(s)
    /\ p \in [1 .. Len(s) -> 1 .. Len(s)]
    /\ \A i, j \in 1 .. Len(s) : p[i] = p[j] => i = j
    /\ \A k \in 1 .. Len(s) : \E i \in 1 .. Len(s) : p[i] = k
    /\ \A i \in 1 .. Len(s) : t[p[i]] = s[i]

LEMMA Unpermuted ==
    ASSUME NEW s \in Seq(Line)
    PROVE  \E p : Permuted(p, s, s)
<1> DEFINE p == [i \in 1 .. Len(s) |-> i]
<1>1. /\ p \in [1 .. Len(s) -> 1 .. Len(s)]
      /\ \A i \in 1 .. Len(s) : p[i] = i
    OBVIOUS
<1> HIDE DEF p
<1>2. Permuted(p, s, s)
    BY <1>1 DEF Permuted
<1> QED
    BY <1>2

\* Sorting by time keeps every line, once.
LEMMA ByTimeIsPermuted ==
    ASSUME NEW s \in Seq(Line)
    PROVE  \E p : Permuted(p, s, ByTime(s))
<1> DEFINE N == Len(s)
           S == 1 .. N
           R == {q \in S \X S : \/ s[q[1]].time < s[q[2]].time
                                \/ s[q[1]].time = s[q[2]].time /\ q[1] < q[2]}
           Before(i) == {j \in DOMAIN s : \/ s[j].time < s[i].time
                                          \/ s[j].time = s[i].time /\ j < i}
<1>1. N \in Nat /\ DOMAIN s = S /\ \A i \in S : s[i] \in Line /\ s[i].time \in Nat
    BY SeqTypes, LineTypes
<1>2. IsFiniteSet(S) /\ Cardinality(S) = N
    <2>1. N \in Nat
        BY <1>1
    <2> HIDE DEF N
    <2> QED
        BY <2>1, FS_Interval
<1>3. \A i, j \in S : <<i, j>> \in R <=> \/ s[i].time < s[j].time
                                         \/ s[i].time = s[j].time /\ i < j
    OBVIOUS
<1>4. Total(S, R)
    <2> HIDE DEF R
    <2>1. \A i \in S : i \in Nat /\ s[i].time \in Nat
        BY <1>1
    <2> HIDE DEF S
    <2>2. \A x \in S : <<x, x>> \notin R
        BY <1>3, <2>1
    <2>3. ASSUME NEW x \in S, NEW y \in S, NEW z \in S,
                 <<x, y>> \in R, <<y, z>> \in R
          PROVE  <<x, z>> \in R
        <3>1. /\ s[x].time < s[y].time \/ (s[x].time = s[y].time /\ x < y)
              /\ s[y].time < s[z].time \/ (s[y].time = s[z].time /\ y < z)
            BY <1>3, <2>3
        <3>2. s[x].time < s[z].time \/ (s[x].time = s[z].time /\ x < z)
            BY <2>1, <3>1
        <3> QED
            BY <1>3, <3>2
    <2>4. ASSUME NEW x \in S, NEW y \in S
          PROVE  x = y \/ <<x, y>> \in R \/ <<y, x>> \in R
        <3>1. \/ x = y
              \/ s[x].time < s[y].time \/ (s[x].time = s[y].time /\ x < y)
              \/ s[y].time < s[x].time \/ (s[y].time = s[x].time /\ y < x)
            BY <2>1
        <3> QED
            BY <1>3, <3>1
    <2> QED
        BY <2>2, <2>3, <2>4 DEF Total
<1>5. ASSUME NEW i \in S
      PROVE  Rank(S, R, i) = Cardinality(Before(i))
    <2>1. {j \in S : <<j, i>> \in R} = Before(i)
        BY <1>1, <1>3
    <2> QED
        BY <2>1 DEF Rank
<1> HIDE DEF R
<1>6. /\ \A i \in S : Rank(S, R, i) \in 0 .. N - 1
      /\ \A i, j \in S : <<i, j>> \in R => Rank(S, R, i) < Rank(S, R, j)
      /\ \A k \in S : \E i \in S : Rank(S, R, i) = k - 1
    BY <1>2, <1>4, Ranks
<1> DEFINE p == [i \in S |-> Rank(S, R, i) + 1]
           t == ByTime(s)
<1>7. /\ p \in [S -> S]
      /\ \A i \in S : p[i] = Rank(S, R, i) + 1 /\ Rank(S, R, i) \in Nat
    <2>1. ASSUME NEW i \in S
          PROVE  Rank(S, R, i) + 1 \in S /\ Rank(S, R, i) \in Nat
        <3>1. Rank(S, R, i) \in 0 .. N - 1 /\ N \in Nat
            BY <1>1, <1>6
        <3> HIDE DEF N
        <3> QED
            BY <3>1
    <2> HIDE DEF S
    <2> QED
        BY <2>1
<1>8. \A i, j \in S : p[i] = p[j] => i = j
    <2>1. ASSUME NEW i \in S, NEW j \in S, i # j
          PROVE  p[i] # p[j]
        <3>1. <<i, j>> \in R \/ <<j, i>> \in R
            BY <1>4, <2>1 DEF Total
        <3>2. Rank(S, R, i) < Rank(S, R, j) \/ Rank(S, R, j) < Rank(S, R, i)
            BY <1>6, <3>1
        <3> QED
            BY <1>7, <3>2
    <2> QED
        BY <2>1
<1>9. \A k \in S : \E i \in S : p[i] = k
    <2> SUFFICES ASSUME NEW k \in S PROVE \E i \in S : p[i] = k
        OBVIOUS
    <2>1. PICK i \in S : Rank(S, R, i) = k - 1
        BY <1>6
    <2>2. p[i] = k
        BY <1>1, <1>7, <2>1
    <2> QED
        BY <2>2
<1>10. t = [k \in DOMAIN s |-> s[CHOOSE i \in DOMAIN s : Cardinality(Before(i)) = k - 1]]
    BY DEF ByTime
<1> HIDE DEF p, t, Before
<1>11. ASSUME NEW i \in S
       PROVE  t[p[i]] = s[i]
    <2>1. p[i] \in S /\ p[i] - 1 = Rank(S, R, i)
        BY <1>1, <1>7
    <2> DEFINE j == CHOOSE j \in DOMAIN s : Cardinality(Before(j)) = p[i] - 1
    <2>2. t[p[i]] = s[j]
        BY <1>1, <1>10, <2>1
    <2>3. j \in S /\ Rank(S, R, j) = p[i] - 1
        <3>1. i \in DOMAIN s /\ Cardinality(Before(i)) = p[i] - 1
            BY <1>1, <1>5, <2>1
        <3>2. j \in DOMAIN s /\ Cardinality(Before(j)) = p[i] - 1
            BY <3>1
        <3> HIDE DEF j
        <3> QED
            BY <1>1, <1>5, <3>2
    <2> HIDE DEF j
    <2>4. j = i
        BY <1>7, <1>8, <2>1, <2>3
    <2> QED
        BY <2>2, <2>4
<1>12. t \in Seq(Line) /\ Len(t) = N
    <2>1. ASSUME NEW k \in S PROVE t[k] \in Line
        <3>1. PICK i \in S : p[i] = k
            BY <1>9
        <3> QED
            BY <1>1, <1>11, <3>1
    <2>2. t = [k \in S |-> t[k]]
        BY <1>10
    <2>3. t \in [1 .. N -> Line]
        BY <2>1, <2>2
    <2> QED
        BY <1>1, <2>3, SeqDef
<1>13. Permuted(p, s, t)
    BY <1>7, <1>8, <1>9, <1>11, <1>12 DEF Permuted
<1> QED
    BY <1>13 DEF t

\* What a flush appends to the log, or sorts into it.
LEMMA CutTypes ==
    ASSUME NEW s \in Seq(Line)
    PROVE  /\ Cut(s) \in Seq(Line)
           /\ Len(Cut(s)) = IF Len(s) > MaxLines THEN MaxLines ELSE Len(s)
           /\ \A i \in 1 .. Len(Cut(s)) : /\ Len(s) - Len(Cut(s)) + i \in 1 .. Len(s)
                                          /\ Cut(s)[i] = s[Len(s) - Len(Cut(s)) + i]
<1> DEFINE N == Len(s)
           c == Cut(s)
<1>1. N \in Nat /\ MaxLines \in Nat /\ MaxLines > 0 /\ \A i \in 1 .. N : s[i] \in Line
    BY SeqTypes, MaxLinesAssumption
<1>2. CASE N > MaxLines
    <2> DEFINE m == N - MaxLines + 1
    <2>1. m \in 1 .. N /\ N - m + 1 = MaxLines /\ m <= N /\ m \in Int /\ N \in Int
        BY <1>1, <1>2
    <2>2. c = SubSeq(s, m, N)
        BY <1>2 DEF Cut
    <2>3. \A i \in m .. N : s[i] \in Line
        BY <1>1, <2>1
    <2> HIDE DEF m, N, c
    <2>4. /\ c \in Seq(Line) /\ Len(c) = IF m <= N THEN N - m + 1 ELSE 0
          /\ \A i \in 1 .. N - m + 1 : c[i] = s[m + i - 1]
        BY <2>1, <2>2, <2>3, SubSeqProperties
    <2>5. Len(c) = MaxLines
        BY <2>1, <2>4
    <2>6. ASSUME NEW i \in 1 .. Len(c)
          PROVE  N - Len(c) + i \in 1 .. N /\ c[i] = s[N - Len(c) + i]
        <3>1. m + i - 1 = N - Len(c) + i /\ N - Len(c) + i \in 1 .. N /\ i \in 1 .. N - m + 1
            BY <1>1, <1>2, <2>1, <2>5 DEF m
        <3> QED
            BY <2>4, <3>1
    <2> QED
        BY <1>2, <2>4, <2>5, <2>6 DEF N, c
<1>3. CASE ~(N > MaxLines)
    <2>1. c = s
        BY <1>3 DEF Cut
    <2> HIDE DEF c, N
    <2>2. \A i \in 1 .. N : N - N + i = i
        BY <1>1
    <2> QED
        BY <1>3, <2>1, <2>2 DEF c, N
<1> QED
    BY <1>2, <1>3

-----------------------------------------------------------------------------
(* What the search counts.                                                  *)

Weights(s, word, on) == [i \in 1 .. Len(s) |-> IF on THEN s[i].found[word] ELSE 0]

\* The search loop over the lines s adds up their matches.
IsCount(g, s, word, on) ==
    g = CHOOSE f : f = [i \in 0 .. Len(s) |->
                           IF i = 0 \/ ~on THEN 0 ELSE f[i - 1] + s[i].found[word]]

LEMMA WeightTypes ==
    ASSUME NEW s \in Seq(Line), NEW on \in BOOLEAN, NEW word, on => word \in Words
    PROVE  /\ Weights(s, word, on) \in [1 .. Len(s) -> Nat]
           /\ \A i \in 1 .. Len(s) : Weights(s, word, on)[i] =
                                        IF on THEN s[i].found[word] ELSE 0
<1>1. \A i \in 1 .. Len(s) : on => s[i].found[word] \in Nat
    BY SeqTypes, LineTypes
<1> QED
    BY <1>1 DEF Weights

LEMMA Counting ==
    ASSUME NEW s \in Seq(Line), NEW on \in BOOLEAN, NEW word, on => word \in Words,
           NEW g, IsCount(g, s, word, on)
    PROVE  Sums(g, Weights(s, word, on), Len(s))
<1> DEFINE N == Len(s)
           w == Weights(s, word, on)
           count(f) == [i \in 0 .. N |->
                           IF i = 0 \/ ~on THEN 0 ELSE f[i - 1] + s[i].found[word]]
<1>1. N \in Nat
    BY SeqTypes
<1>2. /\ w \in [1 .. N -> Nat]
      /\ \A i \in 1 .. N : w[i] = IF on THEN s[i].found[word] ELSE 0
    BY WeightTypes
<1> HIDE DEF w
<1>3. PICK h : Sums(h, w, N)
    BY <1>1, <1>2, SumsExist
<1>4. h \in [0 .. N -> Nat] /\ h[0] = 0 /\ \A i \in 1 .. N : h[i] = h[i - 1] + w[i]
    BY <1>3 DEF Sums
<1>5. ~on => \A i \in 0 .. N : h[i] = 0
    <2> SUFFICES ASSUME ~on PROVE \A i \in 0 .. N : h[i] = 0
        OBVIOUS
    <2> DEFINE S == {i \in 0 .. N : h[i] = 0}
    <2>1. 0 \in S
        BY <1>1, <1>4
    <2>2. ASSUME NEW i \in S, i < N
          PROVE  i + 1 \in S
        <3>1. i + 1 \in 1 .. N /\ i + 1 \in 0 .. N /\ (i + 1) - 1 = i
            BY <1>1, <2>2
        <3>2. h[i + 1] = h[i] + w[i + 1] /\ w[i + 1] = 0 /\ h[i] = 0
            BY <1>2, <1>4, <3>1
        <3> QED
            BY <3>1, <3>2
    <2> HIDE DEF S
    <2>3. S \in SUBSET (0 .. N)
        BY DEF S
    <2>4. \A i \in 0 .. N : i \in S
        BY <1>1, <2>1, <2>2, <2>3, Rounds
    <2> QED
        BY <2>4 DEF S
<1>6. h = count(h)
    <2>1. ASSUME NEW i \in 0 .. N
          PROVE  h[i] = IF i = 0 \/ ~on THEN 0 ELSE h[i - 1] + s[i].found[word]
        <3>1. CASE i = 0
            BY <1>4, <3>1
        <3>2. CASE i # 0
            <4>1. i \in 1 .. N
                BY <1>1, <3>2
            <4>2. h[i] = h[i - 1] + w[i]
                BY <1>4, <4>1
            <4> QED
                BY <1>2, <1>5, <3>2, <4>1, <4>2
        <3> QED
            BY <3>1, <3>2
    <2> QED
        BY <1>4, <2>1
<1>7. g = count(g)
    <2>1. g = CHOOSE f : f = count(f)
        BY DEF IsCount
    <2> HIDE DEF count
    <2> QED
        BY <1>6, <2>1
<1>8. \A i \in 0 .. N : g[i] = h[i]
    <2> DEFINE S == {i \in 0 .. N : g[i] = h[i]}
    <2>1. 0 \in S
        BY <1>1, <1>4, <1>7
    <2>2. ASSUME NEW i \in S, i < N
          PROVE  i + 1 \in S
        <3>1. i + 1 \in 0 .. N /\ (i + 1) - 1 = i /\ i + 1 # 0
            BY <1>1, <2>2
        <3>2. g[i + 1] = IF ~on THEN 0 ELSE g[i] + s[i + 1].found[word]
            BY <1>7, <3>1
        <3>3. h[i + 1] = IF ~on THEN 0 ELSE h[i] + s[i + 1].found[word]
            BY <1>6, <3>1
        <3> QED
            BY <3>1, <3>2, <3>3
    <2> HIDE DEF S
    <2>3. S \in SUBSET (0 .. N)
        BY DEF S
    <2>4. \A i \in 0 .. N : i \in S
        BY <1>1, <2>1, <2>2, <2>3, Rounds
    <2> QED
        BY <2>4 DEF S
<1>9. g = h
    <2>1. g = [i \in 0 .. N |-> g[i]] /\ h = [i \in 0 .. N |-> h[i]]
        BY <1>4, <1>7
    <2> QED
        BY <1>8, <2>1
<1> QED
    BY <1>3, <1>9 DEF w

\* Of lines that are among others, the matches are not more.
LEMMA CountGrows ==
    ASSUME NEW s \in Seq(Line), NEW t \in Seq(Line), NEW on \in BOOLEAN, NEW word,
           on => word \in Words,
           NEW g, NEW h, IsCount(g, s, word, on), IsCount(h, t, word, on),
           NEW p \in [1 .. Len(s) -> 1 .. Len(t)],
           \A i, j \in 1 .. Len(s) : p[i] = p[j] => i = j,
           \A i \in 1 .. Len(s) : t[p[i]] = s[i]
    PROVE  g[Len(s)] <= h[Len(t)]
<1> DEFINE w == Weights(s, word, on)
           v == Weights(t, word, on)
<1>1. Len(s) \in Nat /\ Len(t) \in Nat
    BY SeqTypes
<1>2. /\ w \in [1 .. Len(s) -> Nat] /\ v \in [1 .. Len(t) -> Nat]
      /\ \A i \in 1 .. Len(s) : w[i] = IF on THEN s[i].found[word] ELSE 0
      /\ \A i \in 1 .. Len(t) : v[i] = IF on THEN t[i].found[word] ELSE 0
    BY WeightTypes
<1>3. Sums(g, w, Len(s)) /\ Sums(h, v, Len(t))
    BY Counting
<1> HIDE DEF w, v
<1>4. ASSUME NEW i \in 1 .. Len(s)
      PROVE  v[p[i]] = w[i]
    <2>1. p[i] \in 1 .. Len(t) /\ t[p[i]] = s[i]
        OBVIOUS
    <2> QED
        BY <1>2, <2>1
<1>5. Placed(p, w, Len(s), v, Len(t))
    BY <1>4 DEF Placed
<1> QED
    BY <1>1, <1>2, <1>3, <1>5, SumsGrow

\* The counts of the state.
LEMMA StateCounts == IsCount(matchesUpTo, logs, debouncedQuery, Finding)
BY DEF matchesUpTo, IsCount, Found

LEMMA NextCounts == IsCount(matchesUpTo', logs', debouncedQuery', Finding')
BY DEF matchesUpTo, IsCount, Found, Finding, isSearching

LEMMA SameCount ==
    ASSUME NEW g, NEW h, NEW s, NEW word, NEW on,
           IsCount(g, s, word, on), IsCount(h, s, word, on)
    PROVE  g = h
BY DEF IsCount

LEMMA CountTypes ==
    ASSUME NEW s \in Seq(Line), NEW on \in BOOLEAN, NEW word, on => word \in Words,
           NEW g, IsCount(g, s, word, on)
    PROVE  g \in [0 .. Len(s) -> Nat] /\ Len(s) \in Nat /\ g[Len(s)] \in Nat
<1>1. Sums(g, Weights(s, word, on), Len(s)) /\ Len(s) \in Nat
    BY Counting, SeqTypes
<1> QED
    BY <1>1 DEF Sums

-----------------------------------------------------------------------------
(* The inductive invariant: what was received is in the order of arrival,   *)
(* the batch is the end of it, the log shows what comes before, and a cursor*)
(* that no match was dropped under is within the matches.                   *)

ReceivedOK ==
    /\ \A i \in 1 .. Len(received) : received[i].n <= arrivals
    /\ \A i, j \in 1 .. Len(received) : i < j => received[i].n < received[j].n

BatchOK ==
    /\ frame = (batch # <<>>)
    /\ Len(batch) <= Len(received)
    /\ \A i \in 1 .. Len(batch) : batch[i] = received[Len(received) - Len(batch) + i]

\* The lines s are what a log shows of the first F lines of r.
Shows(s, r, F, sorted) ==
    /\ Len(s) = IF F > MaxLines THEN MaxLines ELSE F
    /\ sorted =>
         /\ \A i \in 1 .. Len(s) : \E j \in 1 .. F : s[i] = r[j]
         /\ \A i, j \in 1 .. Len(s) : s[i] = s[j] => i = j
    /\ ~sorted => \A i \in 1 .. Len(s) : s[i] = r[F - Len(s) + i]

LogsOK == Shows(logs, received, Len(received) - Len(batch), sortByTimestamp)

CursorOK == ~stale => currentMatchIndex = 0 \/ currentMatchIndex < totalMatches

Inv == TypeOK /\ ReceivedOK /\ BatchOK /\ LogsOK /\ CursorOK

-----------------------------------------------------------------------------
(* What leaves the buffer, or the search, as it is.                         *)

LEMMA SearchTypes ==
    TypeOK => /\ Finding \in BOOLEAN
              /\ Finding => debouncedQuery \in Words
              /\ totalMatches \in Nat
<1> SUFFICES ASSUME TypeOK
             PROVE  /\ Finding \in BOOLEAN /\ (Finding => debouncedQuery \in Words)
                    /\ totalMatches \in Nat
    OBVIOUS
<1>1. Finding \in BOOLEAN /\ (Finding => debouncedQuery \in Words)
    BY DEF TypeOK, Finding, isSearching
<1>2. logs \in Seq(Line)
    BY DEF TypeOK
<1> QED
    BY <1>1, <1>2, StateCounts, CountTypes DEF totalMatches

LEMMA NextSearchTypes ==
    TypeOK' => /\ Finding' \in BOOLEAN
               /\ Finding' => debouncedQuery' \in Words
               /\ totalMatches' \in Nat
<1> SUFFICES ASSUME TypeOK'
             PROVE  /\ Finding' \in BOOLEAN /\ (Finding' => debouncedQuery' \in Words)
                    /\ totalMatches' \in Nat
    OBVIOUS
<1>1. Finding' \in BOOLEAN /\ (Finding' => debouncedQuery' \in Words)
    BY DEF TypeOK, Finding, isSearching
<1>2. logs' \in Seq(Line)
    BY DEF TypeOK
<1> DEFINE g == matchesUpTo' 
           s == logs'
           word == debouncedQuery'
           on == Finding'
<1>3. IsCount(g, s, word, on)
    BY NextCounts
<1> HIDE DEF g, s, word, on
<1>4. g[Len(s)] \in Nat
    BY <1>1, <1>2, <1>3, CountTypes DEF s, on, word
<1> QED
    BY <1>1, <1>4 DEF totalMatches, g, s

LEMMA BufferStays ==
    ReceivedOK /\ BatchOK /\ LogsOK /\ UNCHANGED <<sortByTimestamp, arrivals, bufferVars>>
        => ReceivedOK' /\ BatchOK' /\ LogsOK'
<1> SUFFICES ASSUME ReceivedOK, BatchOK, LogsOK,
                    UNCHANGED <<sortByTimestamp, arrivals, bufferVars>>
             PROVE  ReceivedOK' /\ BatchOK' /\ LogsOK'
    OBVIOUS
<1>1. /\ sortByTimestamp' = sortByTimestamp /\ arrivals' = arrivals
      /\ batch' = batch /\ frame' = frame /\ logs' = logs /\ received' = received
    BY DEF bufferVars
<1>2. ReceivedOK'
    BY <1>1 DEF ReceivedOK
<1>3. BatchOK'
    BY <1>1 DEF BatchOK
<1>4. LogsOK'
    BY <1>1 DEF LogsOK
<1> QED
    BY <1>2, <1>3, <1>4

LEMMA SearchStays ==
    UNCHANGED <<logs, debouncedQuery, mode>>
        => matchesUpTo' = matchesUpTo /\ totalMatches' = totalMatches /\ Finding' = Finding
<1> SUFFICES ASSUME UNCHANGED <<logs, debouncedQuery, mode>>
             PROVE  /\ matchesUpTo' = matchesUpTo /\ totalMatches' = totalMatches
                    /\ Finding' = Finding
    OBVIOUS
<1>1. Finding' = Finding
    BY DEF Finding, isSearching
<1> DEFINE g == matchesUpTo'
<1>2. IsCount(g, logs', debouncedQuery', Finding')
    BY NextCounts
<1> HIDE DEF g
<1>3. IsCount(g, logs, debouncedQuery, Finding)
    BY <1>1, <1>2
<1>4. g = matchesUpTo
    BY <1>3, StateCounts, SameCount
<1> QED
    BY <1>1, <1>4 DEF g, totalMatches

LEMMA CursorKept ==
    CursorOK /\ UNCHANGED <<logs, debouncedQuery, mode, currentMatchIndex, stale>> => CursorOK'
BY SearchStays DEF CursorOK

LEMMA CursorReset == ResetIndex => CursorOK'
BY DEF ResetIndex, CursorOK

LEMMA CursorStale == stale' => CursorOK'
BY DEF CursorOK

LEMMA InvInit == Init => Inv
<1> SUFFICES ASSUME Init PROVE Inv
    OBVIOUS
<1>1. /\ batch = <<>> /\ logs = <<>> /\ received = <<>> /\ frame = FALSE
      /\ Len(batch) = 0 /\ Len(logs) = 0 /\ Len(received) = 0
      /\ batch \in Seq(Line) /\ logs \in Seq(Line) /\ received \in Seq(Line)
    BY EmptySeq DEF Init
<1>2. TypeOK
    <2>1. Len(logs) <= MaxLines /\ 0 \in 0 .. MaxArrivals
        BY <1>1, MaxLinesAssumption, MaxArrivalsAssumption
    <2> QED
        BY <1>1, <2>1 DEF Init, TypeOK
<1>3. ReceivedOK
    <2>1. 1 .. Len(received) = {}
        BY <1>1
    <2> QED
        BY <2>1 DEF ReceivedOK
<1>4. BatchOK
    <2>1. 1 .. Len(batch) = {} /\ Len(batch) <= Len(received)
        BY <1>1
    <2>2. frame = (batch # <<>>)
        BY <1>1
    <2> QED
        BY <2>1, <2>2 DEF BatchOK
<1>5. LogsOK
    <2>1. 1 .. Len(logs) = {} /\ Len(received) - Len(batch) = 0 /\ ~(0 > MaxLines)
        BY <1>1, MaxLinesAssumption
    <2> QED
        BY <1>1, <2>1 DEF LogsOK, Shows
<1>6. CursorOK
    BY DEF Init, CursorOK
<1> QED
    BY <1>2, <1>3, <1>4, <1>5, <1>6 DEF Inv

\* The steps that leave the buffer alone.
LEMMA SetQueryStep ==
    ASSUME NEW q \in Words \cup {""}, Inv, SetQuery(q)
    PROVE  Inv'
<1>1. TypeOK'
    BY DEF Inv, TypeOK, SetQuery, bufferVars, scrollVars
<1>2. ReceivedOK' /\ BatchOK' /\ LogsOK'
    BY BufferStays DEF Inv, SetQuery
<1>3. CursorOK'
    BY CursorKept DEF Inv, SetQuery, bufferVars
<1> QED
    BY <1>1, <1>2, <1>3 DEF Inv

LEMMA DebounceStep == Inv /\ DebounceFires => Inv'
<1> SUFFICES ASSUME Inv, DebounceFires PROVE Inv'
    OBVIOUS
<1>1. TypeOK'
    BY DEF Inv, TypeOK, DebounceFires, AfterQuery, ResetIndex, bufferVars, scrollVars
<1>2. ReceivedOK' /\ BatchOK' /\ LogsOK'
    BY BufferStays DEF Inv, DebounceFires
<1>3. CursorOK'
    BY CursorReset DEF DebounceFires, AfterQuery
<1> QED
    BY <1>1, <1>2, <1>3 DEF Inv

LEMMA ToggleModeStep == Inv /\ ToggleMode => Inv'
<1> SUFFICES ASSUME Inv, ToggleMode PROVE Inv'
    OBVIOUS
<1>1. TypeOK'
    BY DEF Inv, TypeOK, ToggleMode, ResetIndex, bufferVars, scrollVars
<1>2. ReceivedOK' /\ BatchOK' /\ LogsOK'
    BY BufferStays DEF Inv, ToggleMode
<1>3. CursorOK'
    BY CursorReset DEF ToggleMode
<1> QED
    BY <1>1, <1>2, <1>3 DEF Inv

LEMMA StepStep ==
    ASSUME NEW by \in Nat, Inv, Step(by)
    PROVE  Inv'
<1>1. /\ totalMatches \in Nat /\ totalMatches > 0 /\ currentMatchIndex \in Nat
      /\ currentMatchIndex' = (currentMatchIndex + by) % totalMatches
    BY SearchTypes DEF Inv, TypeOK, Step
<1>2. currentMatchIndex' \in Nat /\ currentMatchIndex' < totalMatches
    BY <1>1
<1>3. TypeOK'
    BY <1>2 DEF Inv, TypeOK, Step, bufferVars, scrollVars
<1>4. ReceivedOK' /\ BatchOK' /\ LogsOK'
    BY BufferStays DEF Inv, Step
<1>5. CursorOK'
    <2>1. totalMatches' = totalMatches
        BY SearchStays DEF Step, bufferVars
    <2> QED
        BY <1>2, <2>1 DEF CursorOK
<1> QED
    BY <1>3, <1>4, <1>5 DEF Inv

LEMMA KeyDownStep == Inv /\ KeyDown => Inv'
<1> SUFFICES ASSUME Inv, KeyDown PROVE Inv'
    OBVIOUS
<1>1. CASE NextMatch
    BY <1>1, StepStep DEF NextMatch
<1>2. CASE PrevMatch
    <2>1. totalMatches \in Nat /\ totalMatches > 0
        BY <1>2, SearchTypes DEF Inv, PrevMatch, Step
    <2>2. totalMatches - 1 \in Nat
        BY <2>1
    <2> QED
        BY <1>2, <2>2, StepStep DEF PrevMatch
<1> QED
    BY <1>1, <1>2 DEF KeyDown

LEMMA ScrollStep ==
    ASSUME Inv, UNCHANGED <<sortByTimestamp, arrivals, bufferVars, searchVars>>,
           isPaused' \in BOOLEAN, isFollowing' \in BOOLEAN
    PROVE  Inv'
<1>1. TypeOK'
    BY DEF Inv, TypeOK, bufferVars, searchVars
<1>2. ReceivedOK' /\ BatchOK' /\ LogsOK'
    BY BufferStays DEF Inv
<1>3. CursorOK'
    BY CursorKept DEF Inv, bufferVars, searchVars
<1> QED
    BY <1>1, <1>2, <1>3 DEF Inv

LEMMA TogglePauseStep == Inv /\ TogglePause => Inv'
BY ScrollStep DEF TogglePause, Inv, TypeOK

LEMMA HandleScrollStep ==
    ASSUME NEW atBottom \in BOOLEAN, Inv, HandleScroll(atBottom)
    PROVE  Inv'
BY ScrollStep DEF HandleScroll, Inv, TypeOK

LEMMA ScrollToBottomStep == Inv /\ ScrollToBottom => Inv'
BY ScrollStep DEF ScrollToBottom, Inv, TypeOK

-----------------------------------------------------------------------------
(* The steps of the buffer.                                                 *)

\* More lines behind those that were flushed do not change what is shown.
LEMMA ShowsLonger ==
    ASSUME NEW s \in Seq(Line), NEW r, NEW q, NEW F \in Nat, NEW sorted,
           Shows(s, r, F, sorted), \A j \in 1 .. F : q[j] = r[j]
    PROVE  Shows(s, q, F, sorted)
<1>1. Len(s) \in Nat /\ Len(s) = (IF F > MaxLines THEN MaxLines ELSE F) /\ MaxLines \in Nat
    BY SeqTypes, MaxLinesAssumption DEF Shows
<1>2. ASSUME sorted, NEW i \in 1 .. Len(s)
      PROVE  \E j \in 1 .. F : s[i] = q[j]
    BY <1>2 DEF Shows
<1>3. ASSUME ~sorted, NEW i \in 1 .. Len(s)
      PROVE  s[i] = q[F - Len(s) + i]
    <2>1. F - Len(s) + i \in 1 .. F
        BY <1>1
    <2>2. s[i] = r[F - Len(s) + i]
        BY <1>3 DEF Shows
    <2> QED
        BY <2>1, <2>2
<1>4. sorted => \A i, j \in 1 .. Len(s) : s[i] = s[j] => i = j
    BY DEF Shows
<1> QED
    BY <1>1, <1>2, <1>3, <1>4 DEF Shows

LEMMA OnDataStep ==
    ASSUME NEW kind \in Kinds, Inv, OnData(kind)
    PROVE  Inv'
<1> DEFINE line == [n |-> arrivals', time |-> kind.time, found |-> kind.found,
                    marks |-> kind.marks, event |-> kind.event]
           b == batch'
           r == received'
<1>1. /\ batch \in Seq(Line) /\ received \in Seq(Line) /\ logs \in Seq(Line)
      /\ arrivals \in Nat /\ arrivals' = arrivals + 1 /\ arrivals' \in 1 .. MaxArrivals
      /\ arrivals' \in 0 .. MaxArrivals
    <2>1. arrivals \in 0 .. MaxArrivals /\ arrivals < MaxArrivals /\ arrivals' = arrivals + 1
        BY DEF Inv, TypeOK, OnData
    <2>2. arrivals \in Nat /\ arrivals + 1 \in 1 .. MaxArrivals /\ arrivals + 1 \in 0 .. MaxArrivals
        BY <2>1, MaxArrivalsAssumption
    <2> QED
        BY <2>1, <2>2 DEF Inv, TypeOK
<1>2. line \in Line /\ line.n = arrivals + 1
    <2>1. /\ kind.time \in Nat /\ kind.found \in [Words -> Nat]
          /\ kind.marks \in [Words -> Seq(Nat)] /\ kind.event \in BOOLEAN
        BY KindsAssumption
    <2> QED
        BY <1>1, <2>1 DEF Line
<1>3. /\ b = Append(batch, line) /\ r = Append(received, line)
      /\ logs' = logs /\ frame' = TRUE /\ sortByTimestamp' = sortByTimestamp
      /\ UNCHANGED <<searchVars, scrollVars>>
    BY DEF OnData, AddLog
<1> HIDE DEF line, b, r
<1>4. /\ b \in Seq(Line) /\ b # <<>> /\ Len(b) = Len(batch) + 1
      /\ \A i \in 1 .. Len(batch) : b[i] = batch[i]
      /\ b[Len(batch) + 1] = line
    <2>1. batch \in Seq(Line) /\ line \in Line /\ b = Append(batch, line)
        BY <1>1, <1>2, <1>3
    <2> QED
        BY <2>1, AppendProperties
<1>5. /\ r \in Seq(Line) /\ Len(r) = Len(received) + 1
      /\ \A i \in 1 .. Len(received) : r[i] = received[i]
      /\ r[Len(received) + 1] = line
    BY <1>1, <1>2, <1>3, AppendProperties
<1>6. /\ Len(batch) \in Nat /\ Len(received) \in Nat
      /\ \A i \in 1 .. Len(received) : received[i].n \in Nat
    BY <1>1, SeqTypes, LineTypes
<1>7. TypeOK'
    BY <1>1, <1>3, <1>4, <1>5 DEF Inv, TypeOK, searchVars, scrollVars, b, r
<1>8. ReceivedOK'
    <2>1. ASSUME NEW i \in 1 .. Len(r)
          PROVE  r[i].n <= arrivals'
        <3>1. CASE i = Len(received) + 1
            BY <1>1, <1>2, <1>5, <3>1
        <3>2. CASE i # Len(received) + 1
            <4>1. i \in 1 .. Len(received)
                BY <1>5, <1>6, <3>2
            <4>2. received[i].n <= arrivals /\ r[i] = received[i] /\ received[i].n \in Nat
                BY <1>5, <1>6, <4>1 DEF Inv, ReceivedOK
            <4> QED
                BY <1>1, <4>2
        <3> QED
            BY <3>1, <3>2
    <2>2. ASSUME NEW i \in 1 .. Len(r), NEW j \in 1 .. Len(r), i < j
          PROVE  r[i].n < r[j].n
        <3>1. i \in 1 .. Len(received)
            BY <1>5, <1>6, <2>2
        <3>2. received[i].n <= arrivals /\ r[i] = received[i] /\ received[i].n \in Nat
            BY <1>5, <1>6, <3>1 DEF Inv, ReceivedOK
        <3>3. CASE j = Len(received) + 1
            BY <1>1, <1>2, <1>5, <3>2, <3>3
        <3>4. CASE j # Len(received) + 1
            <4>1. j \in 1 .. Len(received)
                BY <1>5, <1>6, <3>4
            <4>2. received[i].n < received[j].n /\ r[j] = received[j]
                BY <1>5, <2>2, <3>1, <4>1 DEF Inv, ReceivedOK
            <4> QED
                BY <3>2, <4>2
        <3> QED
            BY <3>3, <3>4
    <2> QED
        BY <2>1, <2>2 DEF ReceivedOK, r
<1>9. BatchOK'
    <2>1. Len(batch) <= Len(received)
        BY DEF Inv, BatchOK
    <2>2. ASSUME NEW i \in 1 .. Len(b)
          PROVE  b[i] = r[Len(r) - Len(b) + i]
        <3>1. CASE i = Len(batch) + 1
            <4>1. Len(r) - Len(b) + i = Len(received) + 1
                BY <1>4, <1>5, <1>6, <3>1
            <4> QED
                BY <1>4, <1>5, <3>1, <4>1
        <3>2. CASE i # Len(batch) + 1
            <4>1. /\ i \in 1 .. Len(batch)
                  /\ Len(r) - Len(b) + i = Len(received) - Len(batch) + i
                  /\ Len(received) - Len(batch) + i \in 1 .. Len(received)
                BY <1>4, <1>5, <1>6, <2>1, <3>2
            <4>2. batch[i] = received[Len(received) - Len(batch) + i]
                BY <4>1 DEF Inv, BatchOK
            <4> QED
                BY <1>4, <1>5, <4>1, <4>2
        <3> QED
            BY <3>1, <3>2
    <2>3. Len(b) <= Len(r)
        BY <1>4, <1>5, <1>6, <2>1
    <2>4. frame' = (b # <<>>)
        BY <1>3, <1>4
    <2> QED
        BY <2>2, <2>3, <2>4 DEF BatchOK, b, r
<1>10. LogsOK'
    <2> DEFINE F == Len(received) - Len(batch)
    <2>1. F \in Nat /\ Len(r) - Len(b) = F /\ \A j \in 1 .. F : j \in 1 .. Len(received)
        BY <1>4, <1>5, <1>6 DEF Inv, BatchOK
    <2>2. Shows(logs, received, F, sortByTimestamp)
        BY DEF Inv, LogsOK
    <2> HIDE DEF F
    <2>3. \A j \in 1 .. F : r[j] = received[j]
        BY <1>5, <2>1
    <2>4. Shows(logs, r, F, sortByTimestamp)
        BY <1>1, <2>1, <2>2, <2>3, ShowsLonger
    <2> QED
        BY <1>3, <2>1, <2>4 DEF LogsOK, b, r
<1>11. CursorOK'
    BY <1>3, CursorKept DEF Inv, searchVars
<1> QED
    BY <1>7, <1>8, <1>9, <1>10, <1>11 DEF Inv

LEMMA MergedIsPermuted ==
    ASSUME logs \in Seq(Line), batch \in Seq(Line)
    PROVE  /\ logs \o batch \in Seq(Line)
           /\ \E p : Permuted(p, logs \o batch, Merged)
           /\ ~sortByTimestamp => Merged = logs \o batch
<1>1. logs \o batch \in Seq(Line)
    BY ConcatProperties
<1>2. ~sortByTimestamp => Merged = logs \o batch
    BY DEF Merged, SortNeeded
<1>3. \E p : Permuted(p, logs \o batch, Merged)
    <2>1. CASE SortNeeded
        <3>1. Merged = ByTime(logs \o batch)
            BY <2>1 DEF Merged
        <3> QED
            BY <1>1, <3>1, ByTimeIsPermuted
    <2>2. CASE ~SortNeeded
        <3>1. Merged = logs \o batch
            BY <2>2 DEF Merged
        <3> QED
            BY <1>1, <3>1, Unpermuted
    <2> QED
        BY <2>1, <2>2
<1> QED
    BY <1>1, <1>2, <1>3

\* Lines in the order they arrived in, and the last ones of them.
InOrder(r) == \A i, j \in 1 .. Len(r) : i < j => r[i].n < r[j].n
IsRest(b, r, F) == Len(r) = F + Len(b) /\ \A i \in 1 .. Len(b) : b[i] = r[F + i]

\* After a flush the log shows what it showed and the batch.
LEMMA FlushShows ==
    ASSUME NEW s \in Seq(Line), NEW b \in Seq(Line), NEW r \in Seq(Line), NEW sorted,
           NEW F \in Nat, Shows(s, r, F, sorted), IsRest(b, r, F), InOrder(r),
           NEW m, NEW p, Permuted(p, s \o b, m), ~sorted => m = s \o b
    PROVE  Shows(Cut(m), r, Len(r), sorted)
<1> DEFINE a == s \o b
           c == Cut(m)
           N == Len(a)
           C == Len(c)
<1>1. /\ Len(s) \in Nat /\ Len(b) \in Nat /\ Len(r) \in Nat
      /\ MaxLines \in Nat /\ MaxLines > 0 /\ Len(r) = F + Len(b)
    BY SeqTypes, MaxLinesAssumption DEF IsRest
<1>2. \A i \in 1 .. Len(r) : r[i].n \in Nat
    BY SeqTypes, LineTypes
<1>3. N = Len(s) + Len(b) /\ N \in Nat
    BY <1>1, ConcatProperties
<1>4. a \in Seq(Line) /\ \A i \in 1 .. N : a[i] = IF i <= Len(s) THEN s[i] ELSE b[i - Len(s)]
    BY <1>3, ConcatProperties
<1>5. Len(s) = (IF F > MaxLines THEN MaxLines ELSE F)
    BY DEF Shows
<1> HIDE DEF a
<1>6. m \in Seq(Line) /\ Len(m) = N
    BY DEF Permuted, a
<1>7. C = (IF N > MaxLines THEN MaxLines ELSE N)
    BY <1>6, CutTypes
<1>8. \A i \in 1 .. C : N - C + i \in 1 .. N /\ c[i] = m[N - C + i]
    BY <1>6, CutTypes
<1> HIDE DEF c, N, C
<1>9. C = (IF Len(r) > MaxLines THEN MaxLines ELSE Len(r)) /\ C \in Nat /\ C <= N
    <2>1. CASE F > MaxLines
        BY <1>1, <1>3, <1>5, <1>7, <2>1
    <2>2. CASE ~(F > MaxLines)
        BY <1>1, <1>3, <1>5, <1>7, <2>2
    <2> QED
        BY <2>1, <2>2
<1>10. ASSUME sorted
      PROVE  /\ \A i \in 1 .. C : \E j \in 1 .. Len(r) : c[i] = r[j]
             /\ \A i, j \in 1 .. C : c[i] = c[j] => i = j
    <2>1. ASSUME NEW i \in 1 .. N
          PROVE  /\ i <= Len(s) => \E j \in 1 .. F : a[i] = r[j]
                 /\ i > Len(s) => a[i] = r[F + (i - Len(s))]
        <3>1. CASE i <= Len(s)
            <4>1. i \in 1 .. Len(s) /\ a[i] = s[i]
                BY <1>1, <1>3, <1>4, <3>1
            <4> QED
                BY <1>1, <1>10, <3>1, <4>1 DEF Shows
        <3>2. CASE i > Len(s)
            <4>1. i - Len(s) \in 1 .. Len(b) /\ ~(i <= Len(s))
                BY <1>1, <1>3, <3>2
            <4> QED
                BY <1>4, <4>1 DEF IsRest
        <3> QED
            BY <1>1, <3>1, <3>2
    <2>2. ASSUME NEW i \in 1 .. N, NEW j \in 1 .. N, i < j
          PROVE  a[i] # a[j]
        <3>1. CASE j <= Len(s)
            <4>1. i \in 1 .. Len(s) /\ j \in 1 .. Len(s) /\ i <= Len(s) /\ i # j
                BY <1>1, <2>2, <3>1
            <4>2. a[i] = s[i] /\ a[j] = s[j]
                BY <1>4, <3>1, <4>1
            <4> QED
                BY <1>10, <4>1, <4>2 DEF Shows
        <3>2. CASE j > Len(s) /\ i <= Len(s)
            <4>1. PICK k \in 1 .. F : a[i] = r[k]
                BY <2>1, <3>2
            <4> DEFINE l == F + (j - Len(s))
            <4>2. a[j] = r[l]
                BY <2>1, <3>2
            <4>3. l \in 1 .. Len(r) /\ k \in 1 .. Len(r) /\ k < l
                BY <1>1, <1>3, <3>2
            <4> HIDE DEF l
            <4>4. r[k].n < r[l].n /\ r[k].n \in Nat /\ r[l].n \in Nat
                BY <1>2, <4>3 DEF InOrder
            <4> QED
                BY <4>1, <4>2, <4>4
        <3>3. CASE i > Len(s)
            <4> DEFINE k == F + (i - Len(s))
                       l == F + (j - Len(s))
            <4>1. i > Len(s) /\ j > Len(s)
                BY <1>1, <1>3, <2>2, <3>3
            <4>2. a[i] = r[k] /\ a[j] = r[l]
                BY <2>1, <4>1
            <4>3. k \in 1 .. Len(r) /\ l \in 1 .. Len(r) /\ k < l
                BY <1>1, <1>3, <2>2, <4>1
            <4> HIDE DEF k, l
            <4>4. r[k].n < r[l].n /\ r[k].n \in Nat /\ r[l].n \in Nat
                BY <1>2, <4>3 DEF InOrder
            <4> QED
                BY <4>2, <4>4
        <3> QED
            BY <1>1, <3>1, <3>2, <3>3
    <2>3. \A i, j \in 1 .. N : a[i] = a[j] => i = j
        <3>1. \A i, j \in 1 .. N : i = j \/ i < j \/ j < i
            BY <1>3
        <3> QED
            BY <2>2, <3>1
    <2>4. /\ \A k \in 1 .. N : \E i \in 1 .. N : p[i] = k
          /\ \A i \in 1 .. N : m[p[i]] = a[i]
        BY DEF Permuted, N, a
    <2>5. ASSUME NEW i \in 1 .. N, NEW j \in 1 .. N, m[i] = m[j]
          PROVE  i = j
        <3>1. PICK k \in 1 .. N : p[k] = i
            BY <2>4
        <3>2. PICK l \in 1 .. N : p[l] = j
            BY <2>4
        <3>3. a[k] = a[l]
            BY <2>4, <2>5, <3>1, <3>2
        <3> QED
            BY <2>3, <3>1, <3>2, <3>3
    <2>6. ASSUME NEW i \in 1 .. C
          PROVE  \E j \in 1 .. Len(r) : c[i] = r[j]
        <3>1. PICK k \in 1 .. N : p[k] = N - C + i
            BY <1>8, <2>4
        <3>2. c[i] = a[k]
            <4>1. c[i] = m[p[k]]
                BY <1>8, <3>1
            <4> QED
                BY <2>4, <4>1
        <3>3. CASE k <= Len(s)
            <4>1. PICK j \in 1 .. F : a[k] = r[j]
                BY <2>1, <3>3
            <4>2. j \in 1 .. Len(r)
                BY <1>1
            <4> QED
                BY <3>2, <4>1, <4>2
        <3>4. CASE k > Len(s)
            <4>1. a[k] = r[F + (k - Len(s))]
                BY <2>1, <3>4
            <4>2. F + (k - Len(s)) \in 1 .. Len(r)
                BY <1>1, <1>3, <3>4
            <4> QED
                BY <3>2, <4>1, <4>2
        <3> QED
            BY <1>1, <3>3, <3>4
    <2>7. ASSUME NEW i \in 1 .. C, NEW j \in 1 .. C, c[i] = c[j]
          PROVE  i = j
        <3>1. N - C + i \in 1 .. N /\ N - C + j \in 1 .. N /\ m[N - C + i] = m[N - C + j]
            BY <1>8, <2>7
        <3>2. N - C + i = N - C + j
            BY <2>5, <3>1
        <3>3. i \in Nat /\ j \in Nat
            OBVIOUS
        <3> QED
            BY <1>3, <1>9, <3>2, <3>3
    <2> QED
        BY <2>6, <2>7
<1>11. ASSUME ~sorted, NEW i \in 1 .. C
      PROVE  c[i] = r[Len(r) - C + i]
    <2> DEFINE k == N - C + i
    <2>1. k \in 1 .. N /\ c[i] = a[k]
        BY <1>8, <1>11 DEF a
    <2>4. i \in Nat /\ k = N - C + i /\ k \in Nat /\ k <= N /\ k >= 1
        BY <1>3, <2>1
    <2> HIDE DEF k
    <2>2. CASE k <= Len(s)
        <3>1. k \in 1 .. Len(s)
            BY <1>1, <2>2, <2>4
        <3>2. a[k] = s[k] /\ s[k] = r[F - Len(s) + k]
            BY <1>11, <1>4, <2>1, <2>2, <3>1 DEF Shows
        <3>3. F - Len(s) + k = Len(r) - C + i
            BY <1>1, <1>3, <1>9, <2>4
        <3> QED
            BY <2>1, <3>2, <3>3
    <2>3. CASE ~(k <= Len(s))
        <3> DEFINE l == k - Len(s)
        <3>1. l \in 1 .. Len(b)
            BY <1>1, <1>3, <2>3, <2>4
        <3>2. a[k] = b[l]
            BY <1>4, <2>1, <2>3
        <3>3. F + l = Len(r) - C + i
            BY <1>1, <1>3, <1>9, <2>4
        <3> HIDE DEF l
        <3>4. b[l] = r[F + l]
            BY <3>1 DEF IsRest
        <3> QED
            BY <2>1, <3>2, <3>3, <3>4
    <2> QED
        BY <2>2, <2>3
<1> QED
    BY <1>9, <1>10, <1>11 DEF Shows, c, C

LEMMA FlushStep == Inv /\ FlushBatch => Inv'
<1> SUFFICES ASSUME Inv, FlushBatch PROVE Inv'
    OBVIOUS
<1> DEFINE F == Len(received) - Len(batch)
           m == Merged
           c == Cut(m)
           old == logs \o batch
<1>1. /\ logs \in Seq(Line) /\ batch \in Seq(Line) /\ received \in Seq(Line)
      /\ Len(batch) \in Nat /\ Len(received) \in Nat /\ Len(batch) <= Len(received)
    BY SeqTypes DEF Inv, TypeOK, BatchOK
<1>2. F \in Nat /\ Len(received) = F + Len(batch)
    BY <1>1
<1>3. Shows(logs, received, F, sortByTimestamp)
    BY DEF Inv, LogsOK
<1>4. IsRest(batch, received, F)
    BY <1>2 DEF Inv, BatchOK, IsRest
<1>5. InOrder(received)
    BY DEF Inv, ReceivedOK, InOrder
<1>6. /\ old \in Seq(Line) /\ \E p : Permuted(p, old, m)
      /\ ~sortByTimestamp => m = old
    BY <1>1, MergedIsPermuted
<1>7. PICK p : Permuted(p, old, m)
    BY <1>6
<1>8. /\ frame' = FALSE /\ batch' = <<>> /\ logs' = c /\ received' = received
      /\ sortByTimestamp' = sortByTimestamp /\ arrivals' = arrivals
      /\ stale' = (stale \/ Len(m) > MaxLines)
      /\ UNCHANGED <<query, debouncedQuery, mode, currentMatchIndex, scrollVars>>
    BY DEF FlushBatch
<1> HIDE DEF F, m, old
<1>9. Shows(c, received, Len(received), sortByTimestamp)
    BY <1>1, <1>2, <1>3, <1>4, <1>5, <1>6, <1>7, FlushShows DEF old
<1>10. m \in Seq(Line) /\ Len(m) = Len(old)
    BY <1>7 DEF Permuted
<1>11. c \in Seq(Line) /\ Len(c) = (IF Len(m) > MaxLines THEN MaxLines ELSE Len(m))
    BY <1>10, CutTypes
<1>12. Len(m) \in Nat /\ Len(c) \in Nat /\ MaxLines \in Nat
    BY <1>10, <1>11, SeqTypes, MaxLinesAssumption
<1> HIDE DEF c
<1>13. /\ batch' \in Seq(Line) /\ Len(batch') = 0
    BY <1>8, EmptySeq
<1>14. TypeOK'
    <2>1. Len(c) <= MaxLines
        BY <1>11, <1>12
    <2>2. logs' \in Seq(Line) /\ Len(logs') <= MaxLines
        BY <1>8, <1>11, <2>1
    <2> QED
        BY <1>8, <1>13, <2>2 DEF Inv, TypeOK, scrollVars
<1>15. ReceivedOK'
    BY <1>8 DEF Inv, ReceivedOK
<1>16. BatchOK'
    <2>1. frame' = (batch' # <<>>)
        BY <1>8
    <2>2. Len(batch') <= Len(received')
        BY <1>1, <1>8, <1>13
    <2>3. 1 .. Len(batch') = {}
        BY <1>13
    <2> QED
        BY <2>1, <2>2, <2>3 DEF BatchOK
<1>17. LogsOK'
    <2>1. Len(received') - Len(batch') = Len(received)
        BY <1>1, <1>8, <1>13
    <2> QED
        BY <1>8, <1>9, <2>1 DEF LogsOK
<1>18. CursorOK'
    <2> SUFFICES ASSUME ~stale' PROVE currentMatchIndex = 0 \/ currentMatchIndex < totalMatches'
        BY <1>8 DEF CursorOK
    <2>1. ~stale /\ ~(Len(m) > MaxLines)
        BY <1>8
    <2>2. c = m
        BY <2>1 DEF c, Cut
    <2> DEFINE g == matchesUpTo
               h == matchesUpTo'
               on == Finding
               word == debouncedQuery
    <2>3. /\ totalMatches = g[Len(logs)] /\ totalMatches' = h[Len(m)]
        BY <1>8, <2>2 DEF totalMatches
    <2>4. Finding' = Finding
        BY <1>8 DEF Finding, isSearching
    <2>5. on \in BOOLEAN /\ (on => word \in Words)
        BY SearchTypes DEF Inv
    <2>6. IsCount(g, logs, word, on) /\ IsCount(h, m, word, on)
        BY <1>8, <2>2, <2>4, StateCounts, NextCounts
    <2>7. g[Len(logs)] \in Nat /\ h[Len(m)] \in Nat /\ currentMatchIndex \in Nat
        BY <1>1, <1>10, <2>5, <2>6, CountTypes DEF Inv, TypeOK
    <2> HIDE DEF g, h, on, word
    <2>8. g[Len(logs)] <= h[Len(m)]
        <3> DEFINE L == Len(logs)
                   q == [i \in 1 .. L |-> p[i]]
        <3>1. Len(logs) \in Nat /\ Len(old) = Len(logs) + Len(batch)
            BY <1>1, SeqTypes, ConcatProperties DEF old
        <3>2. \A i \in 1 .. L : i \in 1 .. Len(old)
            BY <1>1, <3>1
        <3>3. \A i \in 1 .. L : old[i] = logs[i]
            BY <1>1, <3>1, <3>2, ConcatProperties DEF old
        <3>4. /\ p \in [1 .. Len(old) -> 1 .. Len(old)]
              /\ \A i, j \in 1 .. Len(old) : p[i] = p[j] => i = j
              /\ \A i \in 1 .. Len(old) : m[p[i]] = old[i]
            BY <1>7 DEF Permuted
        <3> HIDE DEF L
        <3>5. q \in [1 .. L -> 1 .. Len(m)] /\ \A i \in 1 .. L : q[i] = p[i]
            BY <1>10, <3>2, <3>4
        <3> HIDE DEF q
        <3>6. \A i \in 1 .. L : m[q[i]] = logs[i]
            BY <3>2, <3>3, <3>4, <3>5
        <3>7. \A i, j \in 1 .. L : q[i] = q[j] => i = j
            BY <3>2, <3>4, <3>5
        <3> QED
            BY <1>1, <1>10, <2>5, <2>6, <3>5, <3>6, <3>7, CountGrows DEF L
    <2>9. currentMatchIndex = 0 \/ currentMatchIndex < g[Len(logs)]
        BY <2>1, <2>3 DEF Inv, CursorOK
    <2> QED
        BY <2>3, <2>7, <2>8, <2>9
<1> QED
    BY <1>14, <1>15, <1>16, <1>17, <1>18 DEF Inv

\* An empty buffer, after Clear and in a viewer opened again.
LEMMA EmptyBuffer ==
    ASSUME batch' = <<>>, frame' = FALSE, logs' = <<>>, received' = <<>>
    PROVE  /\ batch' \in Seq(Line) /\ logs' \in Seq(Line) /\ received' \in Seq(Line)
           /\ Len(logs') <= MaxLines
           /\ ReceivedOK' /\ BatchOK' /\ LogsOK'
<1>1. /\ Len(batch') = 0 /\ Len(logs') = 0 /\ Len(received') = 0
      /\ batch' \in Seq(Line) /\ logs' \in Seq(Line) /\ received' \in Seq(Line)
    BY EmptySeq
<1>2. Len(logs') <= MaxLines
    BY <1>1, MaxLinesAssumption
<1>3. ReceivedOK'
    <2>1. 1 .. Len(received') = {}
        BY <1>1
    <2> QED
        BY <2>1 DEF ReceivedOK
<1>4. BatchOK'
    <2>1. 1 .. Len(batch') = {} /\ Len(batch') <= Len(received')
        BY <1>1
    <2>2. frame' = (batch' # <<>>)
        OBVIOUS
    <2> QED
        BY <2>1, <2>2 DEF BatchOK
<1>5. LogsOK'
    <2>1. 1 .. Len(logs') = {} /\ Len(received') - Len(batch') = 0 /\ ~(0 > MaxLines)
        BY <1>1, MaxLinesAssumption
    <2> QED
        BY <1>1, <2>1 DEF LogsOK, Shows
<1> QED
    BY <1>1, <1>2, <1>3, <1>4, <1>5

LEMMA ClearStep == Inv /\ ClearLogs => Inv'
<1> SUFFICES ASSUME Inv, ClearLogs PROVE Inv'
    OBVIOUS
<1>1. /\ batch' \in Seq(Line) /\ logs' \in Seq(Line) /\ received' \in Seq(Line)
      /\ Len(logs') <= MaxLines /\ ReceivedOK' /\ BatchOK' /\ LogsOK'
    BY EmptyBuffer DEF ClearLogs, CancelFrame
<1>2. TypeOK'
    BY <1>1 DEF Inv, TypeOK, ClearLogs, CancelFrame, scrollVars
<1>3. CursorOK'
    BY CursorStale DEF ClearLogs
<1> QED
    BY <1>1, <1>2, <1>3 DEF Inv

LEMMA RemountStep == Inv /\ Remount => Inv'
<1> SUFFICES ASSUME Inv, Remount PROVE Inv'
    OBVIOUS
<1>1. /\ batch' \in Seq(Line) /\ logs' \in Seq(Line) /\ received' \in Seq(Line)
      /\ Len(logs') <= MaxLines /\ ReceivedOK' /\ BatchOK' /\ LogsOK'
    BY EmptyBuffer DEF Remount
<1>2. TypeOK'
    BY <1>1 DEF Inv, TypeOK, Remount, ResetIndex
<1>3. CursorOK'
    BY CursorReset DEF Remount
<1> QED
    BY <1>1, <1>2, <1>3 DEF Inv

LEMMA ControlsStep == Inv /\ Controls => Inv'
<1> SUFFICES ASSUME Inv, Controls PROVE Inv'
    OBVIOUS
<1>1. ASSUME NEW q \in Words \cup {""}, SetQuery(q)
      PROVE  Inv'
    BY <1>1, SetQueryStep
<1>2. CASE ToggleMode
    BY <1>2, ToggleModeStep
<1>3. CASE TogglePause
    BY <1>3, TogglePauseStep
<1>4. CASE ScrollToBottom
    BY <1>4, ScrollToBottomStep
<1>5. CASE ClearLogs
    BY <1>5, ClearStep
<1> QED
    BY <1>1, <1>2, <1>3, <1>4, <1>5 DEF Controls

LEMMA InvStep == Inv /\ [Next]_vars => Inv'
<1> SUFFICES ASSUME Inv, [Next]_vars PROVE Inv'
    OBVIOUS
<1>1. ASSUME NEW kind \in Kinds, ContainerData(kind) \/ ServiceData(kind)
      PROVE  Inv'
    BY <1>1, OnDataStep DEF ContainerData, ServiceData
<1>2. CASE FlushBatch
    BY <1>2, FlushStep
<1>3. CASE Remount
    BY <1>3, RemountStep
<1>4. CASE Toolbar \/ ServiceToolbar
    BY <1>4, ControlsStep DEF Toolbar, ServiceToolbar
<1>5. CASE DebounceFires
    BY <1>5, DebounceStep
<1>6. CASE KeyDown
    BY <1>6, KeyDownStep
<1>7. ASSUME NEW atBottom \in BOOLEAN, HandleScroll(atBottom)
      PROVE  Inv'
    BY <1>7, HandleScrollStep
<1>8. CASE UNCHANGED vars
    BY <1>8, ScrollStep DEF vars, Inv, TypeOK, scrollVars
<1> QED
    BY <1>1, <1>2, <1>3, <1>4, <1>5, <1>6, <1>7, <1>8 DEF Next

LEMMA Invariance == Spec => []Inv
BY InvInit, InvStep, PTL DEF Spec

-----------------------------------------------------------------------------
(* What follows from it.                                                    *)

LEMMA TypesFollow == Inv => TypeOK
BY DEF Inv

LEMMA LinesFollow == Inv => LinesAreKept
<1> SUFFICES ASSUME Inv PROVE LinesAreKept
    OBVIOUS
<1> DEFINE shown == ToSet(logs)
           F == Len(received) - Len(batch)
           flushed == SubSeq(received, 1, F)
<1>1. /\ logs \in Seq(Line) /\ batch \in Seq(Line) /\ received \in Seq(Line)
      /\ Len(logs) \in Nat /\ Len(batch) \in Nat /\ Len(received) \in Nat
      /\ DOMAIN logs = 1 .. Len(logs) /\ F \in Nat /\ F <= Len(received)
      /\ Len(received) = F + Len(batch)
    <2>1. logs \in Seq(Line) /\ batch \in Seq(Line) /\ received \in Seq(Line)
        BY DEF Inv, TypeOK
    <2>2. /\ Len(logs) \in Nat /\ Len(batch) \in Nat /\ Len(received) \in Nat
          /\ DOMAIN logs = 1 .. Len(logs)
        BY <2>1, SeqTypes
    <2>3. Len(batch) <= Len(received)
        BY DEF Inv, BatchOK
    <2>4. F \in Nat /\ F <= Len(received) /\ Len(received) = F + Len(batch)
        BY <2>2, <2>3
    <2> QED
        BY <2>1, <2>2, <2>4
<1>2. Shows(logs, received, F, sortByTimestamp)
    BY DEF Inv, LogsOK
<1>3. flushed \in Seq(Line) /\ Len(flushed) = F /\ \A i \in 1 .. F : flushed[i] = received[i]
    <2>1. \A i \in 1 .. F : received[i] \in Line
        BY <1>1, SeqTypes
    <2> HIDE DEF F
    <2>2. /\ flushed \in Seq(Line) /\ Len(flushed) = IF 1 <= F THEN F - 1 + 1 ELSE 0
          /\ \A i \in 1 .. F - 1 + 1 : flushed[i] = received[1 + i - 1]
        BY <1>1, <2>1, SubSeqProperties
    <2>3. Len(flushed) = F /\ F - 1 + 1 = F
        BY <1>1, <2>2
    <2>4. \A i \in 1 .. F : 1 + i - 1 = i
        BY <1>1
    <2> QED
        BY <2>2, <2>3, <2>4
<1> HIDE DEF flushed, F
<1>4. DOMAIN flushed = 1 .. F
    BY <1>3, SeqTypes
<1>5. (batch # <<>>) = frame
    BY DEF Inv, BatchOK
<1>6. IsSuffix(batch, received)
    <2> DEFINE B == Len(batch)
               R == Len(received)
               rb == Reverse(batch)
               rr == Reverse(received)
    <2>1. B \in Nat /\ R \in Nat /\ B <= R /\ R - B + B = R
        BY <1>1
    <2>2. rb = [i \in 1 .. B |-> batch[(B - i) + 1]]
        BY DEF Reverse
    <2>3. rr = [i \in 1 .. R |-> received[(R - i) + 1]]
        BY DEF Reverse
    <2>4. /\ \A i \in 1 .. B : batch[i] \in Line
          /\ \A i \in 1 .. R : received[i] \in Line
          /\ \A i \in 1 .. B : batch[i] = received[R - B + i]
        BY <1>1, SeqTypes DEF Inv, BatchOK
    <2> HIDE DEF B, R, rb, rr
    <2>5. \A i \in 1 .. B : (B - i) + 1 \in 1 .. B /\ R - B + ((B - i) + 1) = (R - i) + 1
        BY <2>1
    <2>6. \A i \in 1 .. R : (R - i) + 1 \in 1 .. R
        BY <2>1
    <2>7. \A i \in 1 .. B : i \in 1 .. R
        BY <2>1
    <2>8. \A i \in 1 .. B : rb[i] = rr[i] /\ rb[i] \in Line
        BY <2>2, <2>3, <2>4, <2>5, <2>7
    <2>9. rb \in Seq(Line) /\ rr \in Seq(Line)
        <3>1. rb \in [1 .. B -> Line]
            BY <2>2, <2>4, <2>5
        <3>2. rr \in [1 .. R -> Line]
            BY <2>3, <2>4, <2>6
        <3> QED
            BY <2>1, <3>1, <3>2, SeqDef
    <2>10. DOMAIN rb = 1 .. B /\ DOMAIN rr = 1 .. R
        BY <2>2, <2>3
    <2>11. Len(rb) = B /\ Len(rr) = R
        <3>1. /\ DOMAIN rb = 1 .. Len(rb) /\ Len(rb) \in Nat
              /\ DOMAIN rr = 1 .. Len(rr) /\ Len(rr) \in Nat
            BY <2>9, LenProperties
        <3>2. \A n, k \in Nat : 1 .. n = 1 .. k => n = k
            OBVIOUS
        <3> QED
            BY <2>1, <2>10, <3>1, <3>2
    <2> DEFINE sb == SubSeq(rb, 1, B)
               sr == SubSeq(rr, 1, B)
    <2>12. /\ \A i \in 1 .. B : rb[i] \in Line
           /\ \A i \in 1 .. B : rr[i] \in Line
        BY <2>8
    <2>13. /\ sb \in Seq(Line) /\ Len(sb) = (IF 1 <= B THEN B - 1 + 1 ELSE 0)
           /\ \A i \in 1 .. B - 1 + 1 : sb[i] = rb[1 + i - 1]
           /\ sr \in Seq(Line) /\ Len(sr) = (IF 1 <= B THEN B - 1 + 1 ELSE 0)
           /\ \A i \in 1 .. B - 1 + 1 : sr[i] = rr[1 + i - 1]
        BY <2>1, <2>12, SubSeqProperties
    <2> HIDE DEF sb, sr
    <2>14. Len(sb) = B /\ Len(sr) = B /\ B - 1 + 1 = B /\ \A i \in 1 .. B : 1 + i - 1 = i
        BY <2>1, <2>13
    <2>15. \A i \in 1 .. B : sb[i] = sr[i]
        BY <2>8, <2>13, <2>14
    <2>16. sb = sr
        BY <2>13, <2>14, <2>15, SeqEqual
    <2> QED
        BY <2>1, <2>11, <2>16 DEF IsSuffix, IsPrefix, sb, sr, rb, rr
<1>7. CASE sortByTimestamp
    <2>1. /\ \A i \in 1 .. Len(logs) : \E j \in 1 .. F : logs[i] = received[j]
          /\ \A i, j \in 1 .. Len(logs) : logs[i] = logs[j] => i = j
          /\ Len(logs) = IF F > MaxLines THEN MaxLines ELSE F
        BY <1>2, <1>7 DEF Shows
    <2>2. shown = {logs[i] : i \in 1 .. Len(logs)}
        BY <1>1 DEF ToSet
    <2> HIDE DEF shown
    <2>3. ToSet(flushed) = {flushed[i] : i \in 1 .. F}
        BY <1>4 DEF ToSet
    <2>4. shown \subseteq ToSet(flushed)
        <3> SUFFICES ASSUME NEW i \in 1 .. Len(logs) PROVE logs[i] \in ToSet(flushed)
            BY <2>2
        <3>1. PICK j \in 1 .. F : logs[i] = received[j]
            BY <2>1
        <3> QED
            BY <1>3, <2>3, <3>1
    <2>5. Cardinality(shown) = Len(logs)
        <3> DEFINE N == Len(logs)
        <3>1. logs \in [1 .. N -> shown]
            <4>1. logs \in [1 .. N -> Line]
                BY <1>1, LenProperties
            <4> QED
                BY <2>2, <4>1
        <3>2. \A x \in shown : \E i \in 1 .. N : logs[i] = x
            BY <2>2
        <3>3. N \in Nat /\ \A i, j \in 1 .. N : logs[i] = logs[j] => i = j
            BY <1>1, <2>1
        <3> HIDE DEF N
        <3>4. logs \in Injection(1 .. N, shown)
            BY <3>1, <3>3 DEF Injection, IsInjective
        <3>5. logs \in Surjection(1 .. N, shown)
            BY <3>1, <3>2 DEF Surjection
        <3>6. IsFiniteSet(1 .. N) /\ Cardinality(1 .. N) = N
            BY <3>3, FS_Interval
        <3>7. Cardinality(shown) = Cardinality(1 .. N)
            BY <3>4, <3>5, <3>6, FS_Surjection
        <3> QED
            BY <3>6, <3>7 DEF N
    <2> QED
        BY <1>3, <1>5, <1>6, <1>7, <2>1, <2>4, <2>5 DEF LinesAreKept, shown, flushed, F
<1>8. CASE ~sortByTimestamp
    <2>1. logs = Cut(flushed)
        <3> DEFINE c == Cut(flushed)
        <3>1. /\ c \in Seq(Line) /\ Len(c) = (IF F > MaxLines THEN MaxLines ELSE F)
              /\ \A i \in 1 .. Len(c) : F - Len(c) + i \in 1 .. F /\ c[i] = flushed[F - Len(c) + i]
            BY <1>3, CutTypes
        <3>2. /\ Len(logs) = (IF F > MaxLines THEN MaxLines ELSE F)
              /\ \A i \in 1 .. Len(logs) : logs[i] = received[F - Len(logs) + i]
            BY <1>2, <1>8 DEF Shows
        <3> HIDE DEF c
        <3>3. Len(c) = Len(logs)
            BY <3>1, <3>2
        <3>4. \A i \in 1 .. Len(logs) : logs[i] = c[i]
            BY <1>3, <3>1, <3>2, <3>3
        <3>5. logs = c
            BY <1>1, <3>1, <3>3, <3>4, SeqEqual
        <3> QED
            BY <3>5 DEF c
    <2> QED
        BY <1>5, <1>6, <1>8, <2>1 DEF LinesAreKept, flushed, F
<1> QED
    BY <1>7, <1>8

\* Lines that are only appended leave the match under the cursor where it is.
LEMMA CursorFollows ==
    ASSUME Inv, Inv', ~stale, totalMatches > 0, debouncedQuery' = debouncedQuery,
           mode' = mode, currentMatchIndex' = currentMatchIndex, IsPrefix(logs, logs')
    PROVE  currentMatch' = currentMatch /\ clampedIndex = currentMatchIndex
<1> DEFINE s == logs
           t == logs'
           g == matchesUpTo
           h == matchesUpTo'
           on == Finding
           word == debouncedQuery
           N == Len(s)
           M == Len(t)
           k == currentMatchIndex
<1>1. s \in Seq(Line) /\ t \in Seq(Line) /\ N \in Nat /\ M \in Nat /\ k \in Nat
    BY SeqTypes DEF Inv, TypeOK
<1>2. on \in BOOLEAN /\ (on => word \in Words) /\ Finding' = Finding
    BY SearchTypes DEF Inv, Finding, isSearching
<1>3. IsCount(g, s, word, on) /\ IsCount(h, t, word, on)
    BY <1>2, StateCounts, NextCounts
<1>4. totalMatches = g[N] /\ totalMatches' = h[M]
    BY DEF totalMatches
<1>5. k < g[N]
    <2>1. k = 0 \/ k < totalMatches
        BY DEF Inv, CursorOK
    <2>2. totalMatches \in Nat
        BY SearchTypes DEF Inv
    <2> QED
        BY <1>4, <2>1, <2>2
<1>6. N <= M /\ \A i \in 1 .. N : t[i] = s[i]
    <2>1. N <= M /\ SubSeq(s, 1, N) = SubSeq(t, 1, N)
        BY DEF IsPrefix
    <2>2. /\ \A i \in 1 .. N : s[i] \in Line
          /\ \A i \in 1 .. N : t[i] \in Line
        BY <1>1, <2>1, SeqTypes
    <2> DEFINE a == SubSeq(s, 1, N)
               b == SubSeq(t, 1, N)
    <2> HIDE DEF s, t, N, M
    <2>3. /\ \A i \in 1 .. N - 1 + 1 : a[i] = s[1 + i - 1]
          /\ \A i \in 1 .. N - 1 + 1 : b[i] = t[1 + i - 1]
        BY <1>1, <2>2, SubSeqProperties
    <2>4. a = b
        BY <2>1
    <2> HIDE DEF a, b
    <2>5. N - 1 + 1 = N /\ \A i \in 1 .. N : 1 + i - 1 = i
        BY <1>1
    <2> QED
        BY <2>1, <2>3, <2>4, <2>5
<1>7. currentMatch = LET passed == {i \in DOMAIN s : g[i] <= clampedIndex}
                     IN  IF totalMatches = 0 THEN NoMatch
                         ELSE [logIndex |-> Cardinality(passed) + 1,
                               position |-> clampedIndex - g[Cardinality(passed)]]
    BY DEF currentMatch
<1>8. currentMatch' = LET passed == {i \in DOMAIN t : h[i] <= clampedIndex'}
                      IN  IF totalMatches' = 0 THEN NoMatch
                          ELSE [logIndex |-> Cardinality(passed) + 1,
                                position |-> clampedIndex' - h[Cardinality(passed)]]
    BY DEF currentMatch, NoMatch
<1>9. /\ clampedIndex = IF totalMatches = 0 THEN 0
                        ELSE IF k < totalMatches THEN k ELSE totalMatches - 1
      /\ clampedIndex' = IF totalMatches' = 0 THEN 0
                         ELSE IF k < totalMatches' THEN k ELSE totalMatches' - 1
    BY DEF clampedIndex
<1>10. DOMAIN s = 1 .. N /\ DOMAIN t = 1 .. M
    BY <1>1, SeqTypes
<1> DEFINE w == Weights(s, word, on)
           v == Weights(t, word, on)
<1> HIDE DEF s, t, g, h, on, word, N, M, k
<1>11. /\ w \in [1 .. N -> Nat] /\ \A i \in 1 .. N : w[i] = IF on THEN s[i].found[word] ELSE 0
       /\ v \in [1 .. M -> Nat] /\ \A i \in 1 .. M : v[i] = IF on THEN t[i].found[word] ELSE 0
    BY <1>1, <1>2, WeightTypes DEF N, M
<1>12. Sums(g, w, N) /\ Sums(h, v, M)
    BY <1>1, <1>2, <1>3, Counting DEF N, M
<1> HIDE DEF w, v
<1>13. \A i \in 1 .. N : w[i] = v[i]
    <2>1. \A i \in 1 .. N : i \in 1 .. M
        BY <1>1, <1>6
    <2> QED
        BY <1>6, <1>11, <2>1
<1>14. \A i \in 0 .. N : g[i] = h[i]
    <2>1. N \in Nat /\ M \in Nat /\ N \in 0 .. N /\ N <= M
        BY <1>1, <1>6
    <2>2. Sums(g, w, N) /\ Sums(h, v, M) /\ \A i \in 1 .. N : w[i] = v[i]
        BY <1>12, <1>13
    <2> QED
        BY <2>1, <2>2, SumsAgree
<1>15. /\ \A i \in 0 .. N : g[i] \in Nat
       /\ \A i \in 0 .. M : h[i] \in Nat
    BY <1>12 DEF Sums
<1>16. ASSUME NEW i \in N .. M
       PROVE  k < h[i]
    <2>1. N \in 0 .. M /\ N \in 0 .. N /\ i \in 0 .. M /\ N <= i
        BY <1>1, <1>6
    <2>2. h[N] <= h[i]
        BY <1>1, <1>11, <1>12, <2>1, SumsAscend
    <2>3. h[N] = g[N] /\ h[N] \in Nat /\ h[i] \in Nat
        BY <1>14, <1>15, <2>1
    <2> QED
        BY <1>1, <1>5, <2>2, <2>3
<1>17. N \in 0 .. N /\ M \in N .. M /\ M \in 0 .. M
    BY <1>1, <1>6
<1>18. totalMatches # 0 /\ totalMatches' # 0 /\ clampedIndex = k /\ clampedIndex' = k
    <2>1. k < g[N] /\ k < h[M] /\ g[N] \in Nat /\ h[M] \in Nat
        BY <1>5, <1>15, <1>16, <1>17
    <2> QED
        BY <1>1, <1>4, <1>9, <2>1
<1> DEFINE before == {i \in 1 .. N : g[i] <= k}
           after == {i \in 1 .. M : h[i] <= k}
           n == Cardinality(before)
<1>19. after = before
    <2>1. ASSUME NEW i \in 1 .. M, h[i] <= k
          PROVE  i \in 1 .. N /\ g[i] <= k
        <3>1. i \notin N .. M
            BY <1>1, <1>15, <1>16, <2>1
        <3>2. i \in 1 .. N /\ i \in 0 .. N
            BY <1>1, <3>1
        <3> QED
            BY <1>14, <2>1, <3>2
    <2>2. ASSUME NEW i \in 1 .. N, g[i] <= k
          PROVE  i \in 1 .. M /\ h[i] <= k
        <3>1. i \in 1 .. M /\ i \in 0 .. N
            BY <1>1, <1>6
        <3> QED
            BY <1>14, <2>2, <3>1
    <2> QED
        BY <2>1, <2>2
<1>20. n \in 0 .. N
    <2>1. IsFiniteSet(1 .. N) /\ Cardinality(1 .. N) = N
        <3>1. N \in Int /\ 1 \in Int /\ N >= 0
            BY <1>1
        <3>2. /\ IsFiniteSet(1 .. N)
              /\ Cardinality(1 .. N) = IF 1 > N THEN 0 ELSE N - 1 + 1
            BY <3>1, FS_Interval
        <3> QED
            BY <3>1, <3>2
    <2>2. before \in SUBSET (1 .. N)
        OBVIOUS
    <2> HIDE DEF before
    <2>3. IsFiniteSet(before) /\ n <= N
        BY <2>1, <2>2, FS_Subset
    <2>4. n \in Nat
        BY <2>3, FS_CardinalityType
    <2> QED
        BY <1>1, <2>3, <2>4
<1>21. currentMatch = [logIndex |-> n + 1, position |-> k - g[n]]
    BY <1>7, <1>10, <1>18
<1>22. currentMatch' = [logIndex |-> n + 1, position |-> k - h[n]]
    <2>1. currentMatch' = [logIndex |-> Cardinality(after) + 1,
                           position |-> k - h[Cardinality(after)]]
        BY <1>8, <1>10, <1>18
    <2> QED
        BY <1>19, <2>1
<1> HIDE DEF n
<1>23. g[n] = h[n]
    BY <1>14, <1>20
<1> QED
    BY <1>18, <1>21, <1>22, <1>23 DEF k

LEMMA UpTo ==
    ASSUME NEW m \in Nat
    PROVE  IsFiniteSet(1 .. m) /\ Cardinality(1 .. m) = m
<1>1. m \in Int /\ 1 \in Int
    OBVIOUS
<1>2. /\ IsFiniteSet(1 .. m)
      /\ Cardinality(1 .. m) = IF 1 > m THEN 0 ELSE m - 1 + 1
    BY <1>1, FS_Interval
<1>3. (IF 1 > m THEN 0 ELSE m - 1 + 1) = m
    OBVIOUS
<1> QED
    BY <1>2, <1>3

\* The counter, the index and the marks speak of the same occurrence.
LEMMA CounterFollows == Inv => CounterIsTheMark
<1> SUFFICES ASSUME Inv, Finding PROVE CounterIsTheMark
    BY DEF CounterIsTheMark
<1> DEFINE g == matchesUpTo
           N == Len(logs)
           w == Weights(logs, debouncedQuery, Finding)
           ci == clampedIndex
<1>1. logs \in Seq(Line) /\ N \in Nat /\ DOMAIN logs = 1 .. N /\ currentMatchIndex \in Nat
    BY SeqTypes DEF Inv, TypeOK
<1>2. Finding \in BOOLEAN /\ debouncedQuery \in Words
    BY SearchTypes DEF Inv
<1>3. /\ w \in [1 .. N -> Nat]
      /\ \A i \in 1 .. N : w[i] = Found(logs[i])
    <2>1. \A i \in 1 .. N : w[i] = logs[i].found[debouncedQuery]
        BY <1>1, <1>2, WeightTypes
    <2> QED
        BY <1>1, <1>2, <2>1, WeightTypes DEF Found
<1>4. Sums(g, w, N)
    BY <1>1, <1>2, StateCounts, Counting
<1>5. totalMatches = g[N]
    BY DEF totalMatches
<1>6. filteredLogs = logs
    BY DEF filteredLogs, Finding
<1> HIDE DEF g, N, w, ci
<1>7. /\ \A i \in 0 .. N : g[i] \in Nat
      /\ \A i \in 1 .. N : g[i] = g[i - 1] + w[i]
    BY <1>4 DEF Sums
<1>8. g[N] \in Nat
    BY <1>1, <1>7
<1>9. ci \in Nat /\ (totalMatches > 0 => ci < totalMatches)
    <2>1. ci = IF totalMatches = 0 THEN 0
               ELSE IF currentMatchIndex < totalMatches THEN currentMatchIndex
               ELSE totalMatches - 1
        BY DEF clampedIndex, ci
    <2> QED
        BY <1>1, <1>5, <1>8, <2>1
<1>10. Occurrences = Units(w, N)
    BY <1>1, <1>3 DEF Occurrences, Units
<1>11. IsFiniteSet(Occurrences) /\ Cardinality(Occurrences) = g[N]
    <2>1. N \in 0 .. N
        BY <1>1
    <2> QED
        BY <1>1, <1>3, <1>4, <1>10, <2>1, UnitsAreCounted
<1> DEFINE passed == {j \in 1 .. N : g[j] <= ci}
           n == Cardinality(passed)
<1>12. n \in 0 .. N
    <2>1. IsFiniteSet(1 .. N) /\ Cardinality(1 .. N) = N
        <3>1. N \in Int /\ 1 \in Int /\ N >= 0
            BY <1>1
        <3>2. /\ IsFiniteSet(1 .. N)
              /\ Cardinality(1 .. N) = IF 1 > N THEN 0 ELSE N - 1 + 1
            BY <3>1, FS_Interval
        <3> QED
            BY <3>1, <3>2
    <2>2. passed \in SUBSET (1 .. N)
        OBVIOUS
    <2> HIDE DEF passed
    <2>3. IsFiniteSet(passed) /\ n <= N
        BY <2>1, <2>2, FS_Subset
    <2>4. n \in Nat
        BY <2>3, FS_CardinalityType
    <2> QED
        BY <1>1, <2>3, <2>4
<1>13. ASSUME NEW o \in Occurrences
       PROVE  /\ o[1] \in 1 .. N /\ o[2] \in 1 .. w[o[1]] /\ o = <<o[1], o[2]>>
              /\ o[1] \in Nat /\ o[2] \in Nat /\ w[o[1]] \in Nat
              /\ o[1] - 1 \in 0 .. N /\ o[1] \in 0 .. N
              /\ g[o[1]] = g[o[1] - 1] + w[o[1]]
              /\ g[o[1] - 1] \in Nat /\ g[o[1]] \in Nat
    <2>1. o[1] \in 1 .. N /\ o[2] \in 1 .. w[o[1]] /\ o = <<o[1], o[2]>>
        BY <1>10 DEF Units
    <2>2. o[1] \in Nat /\ o[1] - 1 \in 0 .. N /\ o[1] \in 0 .. N
        BY <1>1, <2>1
    <2>3. w[o[1]] \in Nat
        BY <1>3, <2>1
    <2>4. o[2] \in Nat
        BY <2>1, <2>3
    <2>5. g[o[1]] = g[o[1] - 1] + w[o[1]]
        BY <1>7, <2>1
    <2>6. g[o[1] - 1] \in Nat /\ g[o[1]] \in Nat
        BY <1>7, <2>2
    <2> QED
        BY <2>1, <2>2, <2>3, <2>4, <2>5, <2>6
\* Before an occurrence are those of the lines above and those to its left.
<1>14. ASSUME NEW o \in Occurrences
       PROVE  Cardinality(Earlier(o)) = g[o[1] - 1] + (o[2] - 1)
    <2> DEFINE i == o[1]
               k == o[2]
               above == Units(w, i - 1)
               left == {i} \X (1 .. k - 1)
    <2>1. /\ i \in 1 .. N /\ k \in 1 .. w[i] /\ i \in Nat /\ k \in Nat /\ w[i] \in Nat
          /\ i - 1 \in 0 .. N /\ g[i - 1] \in Nat
        BY <1>13
    <2> HIDE DEF i, k
    <2>2. Earlier(o) = above \cup left
        <3>1. ASSUME NEW p \in Earlier(o)
              PROVE  p \in above \cup left
            <4>1. /\ p \in Units(w, N) /\ p \in Occurrences
                  /\ p[1] < i \/ (p[1] = i /\ p[2] < k)
                BY <1>10 DEF Earlier, i, k
            <4>2. /\ p[1] \in 1 .. N /\ p[2] \in Nat /\ p[2] \in 1 .. w[p[1]]
                  /\ p = <<p[1], p[2]>> /\ p[1] \in Nat
                BY <1>13, <4>1
            <4>3. CASE p[1] < i
                <5>1. p[1] \in 1 .. i - 1
                    BY <2>1, <4>2, <4>3
                <5> QED
                    BY <4>2, <5>1 DEF Units
            <4>4. CASE p[1] = i /\ p[2] < k
                <5>1. p[2] \in 1 .. k - 1
                    BY <2>1, <4>2, <4>4
                <5> QED
                    BY <4>2, <4>4, <5>1
            <4> QED
                BY <4>1, <4>3, <4>4
        <3>2. ASSUME NEW p \in above
              PROVE  p \in Earlier(o)
            <4>1. p[1] \in 1 .. i - 1 /\ p[2] \in 1 .. w[p[1]] /\ p \in (1 .. i - 1) \X Nat
                BY DEF Units
            <4>2. p[1] \in 1 .. N /\ p[1] < i
                <5>1. p[1] \in 1 .. i - 1 /\ N \in Nat /\ i \in Nat /\ i <= N
                    BY <1>1, <2>1, <4>1
                <5> HIDE DEF above, left
                <5> QED
                    BY <5>1
            <4>3. p \in Occurrences
                BY <1>10, <4>1, <4>2 DEF Units
            <4> QED
                BY <4>2, <4>3 DEF Earlier, i
        <3>3. ASSUME NEW p \in left
              PROVE  p \in Earlier(o)
            <4>1. p[1] = i /\ p[2] \in 1 .. k - 1 /\ p = <<p[1], p[2]>>
                OBVIOUS
            <4>2. p[2] \in 1 .. w[i] /\ p[2] \in Nat /\ p[2] < k
                BY <2>1, <4>1
            <4>3. p \in Occurrences
                BY <1>10, <2>1, <4>1, <4>2 DEF Units
            <4> QED
                BY <4>1, <4>2, <4>3 DEF Earlier, i, k
        <3> QED
            BY <3>1, <3>2, <3>3
    <2>3. above \cap left = {}
        <3>1. i \notin 1 .. i - 1
            BY <2>1
        <3> QED
            BY <3>1 DEF Units
    <2>4. IsFiniteSet(above) /\ Cardinality(above) = g[i - 1]
        BY <1>1, <1>3, <1>4, <2>1, UnitsAreCounted
    <2>5. IsFiniteSet(left) /\ Cardinality(left) = k - 1
        <3>1. IsFiniteSet({i}) /\ Cardinality({i}) = 1
            BY FS_Singleton
        <3>2. IsFiniteSet(1 .. k - 1) /\ Cardinality(1 .. k - 1) = k - 1
            <4>1. k - 1 \in Int /\ 1 \in Int /\ k - 1 >= 0
                BY <2>1
            <4>2. /\ IsFiniteSet(1 .. k - 1)
                  /\ Cardinality(1 .. k - 1) = IF 1 > k - 1 THEN 0 ELSE (k - 1) - 1 + 1
                BY <4>1, FS_Interval
            <4> QED
                BY <4>1, <4>2
        <3>3. IsFiniteSet(left) /\ Cardinality(left) = Cardinality({i}) * Cardinality(1 .. k - 1)
            BY <3>1, <3>2, FS_Product
        <3>4. 1 * (k - 1) = k - 1
            BY <2>1
        <3> HIDE DEF left
        <3> QED
            BY <3>1, <3>2, <3>3, <3>4
    <2> HIDE DEF above, left
    <2>6. Cardinality(Earlier(o)) = Cardinality(above) + Cardinality(left) - Cardinality({})
        BY <2>2, <2>3, <2>4, <2>5, FS_Union
    <2>7. Cardinality(Earlier(o)) = g[i - 1] + (k - 1)
        BY <2>1, <2>4, <2>5, <2>6, FS_EmptySet
    <2> QED
        BY <2>7 DEF i, k
\* The current match is in the line after those that are passed.
<1>15. ASSUME NEW o \in Occurrences
       PROVE  (o[2] = MatchPosition(o[1])) = (Cardinality(Earlier(o)) = ci)
    <2> DEFINE i == o[1]
               k == o[2]
    <2>1. /\ i \in 1 .. N /\ k \in 1 .. w[i] /\ i \in Nat /\ k \in Nat /\ w[i] \in Nat
          /\ i - 1 \in 0 .. N /\ i \in 0 .. N
          /\ g[i] = g[i - 1] + w[i] /\ g[i - 1] \in Nat /\ g[i] \in Nat
        BY <1>13
    <2>2. Cardinality(Earlier(o)) = g[i - 1] + (k - 1)
        BY <1>14
    <2> HIDE DEF i, k
    <2>3. totalMatches > 0 /\ totalMatches # 0
        <3>1. g[i] <= g[N] /\ g[i] > 0
            <4>1. N \in 0 .. N /\ i <= N
                BY <1>1, <2>1
            <4>2. g[i] <= g[N]
                BY <1>1, <1>3, <1>4, <2>1, <4>1, SumsAscend
            <4> QED
                BY <2>1, <4>2
        <3> QED
            BY <1>5, <1>8, <2>1, <3>1
    <2>4. currentMatch = [logIndex |-> n + 1, position |-> ci - g[n]]
        BY <1>1, <2>3 DEF currentMatch, ci, g
    <2>5. MatchPosition(i) = IF i = n + 1 THEN (ci - g[n]) + 1 ELSE 0
        BY <2>3, <2>4 DEF MatchPosition, NoPosition
    <2>6. g[n] \in Nat /\ n \in Nat
        BY <1>7, <1>12
    <2>7. ASSUME k = MatchPosition(i)
          PROVE  g[i - 1] + (k - 1) = ci
        <3>1. i = n + 1 /\ k = (ci - g[n]) + 1
            BY <2>1, <2>5, <2>7
        <3>2. i - 1 = n
            BY <2>6, <3>1
        <3> HIDE DEF n
        <3> QED
            BY <1>9, <2>6, <3>1, <3>2
    <2>8. ASSUME g[i - 1] + (k - 1) = ci
          PROVE  k = MatchPosition(i)
        <3>1. g[i - 1] <= ci /\ ci < g[i]
            BY <1>9, <2>1, <2>8
        <3>2. passed = 1 .. i - 1
            <4>1. ASSUME NEW j \in 1 .. i - 1
                  PROVE  j \in 1 .. N /\ g[j] <= ci
                <5>1. j \in 1 .. N /\ j \in 0 .. N /\ j <= i - 1
                    BY <1>1, <2>1
                <5>2. g[j] <= g[i - 1]
                    BY <1>1, <1>3, <1>4, <2>1, <5>1, SumsAscend
                <5>3. g[j] \in Nat
                    BY <1>7, <5>1
                <5> QED
                    BY <1>9, <2>1, <3>1, <5>1, <5>2, <5>3
            <4>2. ASSUME NEW j \in 1 .. N, g[j] <= ci
                  PROVE  j \in 1 .. i - 1
                <5>1. j \in 0 .. N /\ j \in Nat
                    BY <1>1
                <5>2. ~(i <= j)
                    <6> SUFFICES ASSUME i <= j PROVE FALSE
                        OBVIOUS
                    <6>1. g[i] <= g[j]
                        BY <1>1, <1>3, <1>4, <2>1, <5>1, SumsAscend
                    <6>2. g[j] \in Nat
                        BY <1>7, <5>1
                    <6> QED
                        BY <1>9, <2>1, <3>1, <4>2, <6>1, <6>2
                <5> QED
                    BY <2>1, <5>1, <5>2
            <4> QED
                BY <4>1, <4>2
        <3>3. n = i - 1
            <4>1. i - 1 \in Int /\ 1 \in Int /\ i - 1 >= 0
                BY <2>1
            <4>2. Cardinality(1 .. i - 1) = IF 1 > i - 1 THEN 0 ELSE (i - 1) - 1 + 1
                BY <4>1, FS_Interval
            <4>3. Cardinality(1 .. i - 1) = i - 1
                BY <4>1, <4>2
            <4> QED
                BY <3>2, <4>3
        <3> HIDE DEF n
        <3>4. i = n + 1 /\ g[n] = g[i - 1]
            BY <2>1, <3>3
        <3> QED
            BY <1>9, <2>1, <2>5, <2>8, <3>4
    <2>9. (k = MatchPosition(i)) <=> (g[i - 1] + (k - 1) = ci)
        BY <2>7, <2>8
    <2> QED
        BY <2>2, <2>9 DEF i, k
\* Which mark of a row is the current one, if it is drawn.
<1>16. ASSUME NEW i \in 1 .. N, NEW k \in DOMAIN DrawnMarks[i]
       PROVE  IsDrawnCurrent(i, k) = (k = MatchPosition(i))
    <2>1. DrawnMarks[i] = IF InService THEN ServiceRow(i) ELSE LogRow(i)
        BY <1>1, <1>6 DEF DrawnMarks, Rows, ServiceRows
    <2>2. LogRow(i) = Highlight(i)
        BY DEF LogRow
    <2>3. ("match-highlight-current" = "match-highlight") = FALSE
        OBVIOUS
    <2>4. CASE InService /\ logs[i].event
        <3>1. DrawnMarks[i] = <<>>
            BY <1>6, <2>1, <2>4 DEF ServiceRow
        <3> QED
            BY <3>1
    <2>5. CASE ~(InService /\ logs[i].event)
        <3>1. DrawnMarks[i] = Highlight(i)
            BY <1>6, <2>1, <2>2, <2>5 DEF ServiceRow
        <3>2. k \in DOMAIN Marks(filteredLogs[i])
            BY <3>1 DEF Highlight
        <3>3. DrawnMarks[i][k] = IF k = MatchPosition(i) THEN "match-highlight-current"
                                 ELSE "match-highlight"
            BY <3>1, <3>2 DEF Highlight
        <3> QED
            BY <2>3, <3>3 DEF IsDrawnCurrent
    <2> QED
        BY <2>4, <2>5
\* A row whose mark is the current one holds the occurrence that is counted.
<1>17. ASSUME NEW i \in 1 .. N, NEW k, k = MatchPosition(i), k # 0
       PROVE  \E o \in Occurrences : o[1] = i /\ IsCounted(o)
    <2>1. totalMatches > 0 /\ totalMatches # 0 /\ i = currentMatch.logIndex
          /\ k = currentMatch.position + 1
        BY <1>5, <1>8, <1>17 DEF MatchPosition, NoPosition
    <2>2. currentMatch = [logIndex |-> n + 1, position |-> ci - g[n]]
        BY <1>1, <2>1 DEF currentMatch, ci, g
    <2>3. i = n + 1 /\ k = (ci - g[n]) + 1
        BY <2>1, <2>2
    <2>4. /\ n \in Nat /\ n <= N /\ i \in Nat /\ i - 1 = n /\ n \in 0 .. N /\ i \in 0 .. N
          /\ g[n] \in Nat /\ g[i] \in Nat /\ g[i] = g[n] + w[i] /\ w[i] \in Nat
        <3>1. n \in Nat /\ n <= N /\ i \in Nat /\ i - 1 = n /\ i \in 0 .. N
            BY <1>1, <1>12, <2>3
        <3> HIDE DEF n
        <3>2. g[i] = g[i - 1] + w[i] /\ w[i] \in Nat
            BY <1>3, <1>7
        <3> QED
            BY <1>7, <1>12, <3>1, <3>2
    <2>5. passed \in SUBSET (1 .. N)
        OBVIOUS
    <2>6. \A a \in 1 .. N, c \in 1 .. N : a <= c /\ g[c] <= ci => g[a] <= ci
        <3> SUFFICES ASSUME NEW a \in 1 .. N, NEW c \in 1 .. N, a <= c, g[c] <= ci
                     PROVE  g[a] <= ci
            OBVIOUS
        <3>1. a \in 0 .. N /\ c \in 0 .. N
            BY <1>1
        <3>2. g[a] <= g[c]
            BY <1>1, <1>3, <1>4, <3>1, SumsAscend
        <3> QED
            BY <1>7, <1>9, <3>1, <3>2
    <2>7. ~(g[i] <= ci)
        <3> SUFFICES ASSUME g[i] <= ci PROVE FALSE
            OBVIOUS
        <3>1. 1 .. i \subseteq passed
            <4> SUFFICES ASSUME NEW a \in 1 .. i PROVE a \in passed
                OBVIOUS
            <4>1. a \in 1 .. N /\ a <= i
                BY <1>1, <2>4
            <4> QED
                BY <2>6, <4>1
        <3>2. IsFiniteSet(1 .. N) /\ IsFiniteSet(passed)
            BY <1>1, <2>5, FS_Interval, FS_Subset
        <3>3. Cardinality(1 .. i) <= Cardinality(passed)
            BY <3>1, <3>2, FS_Subset
        <3>4. Cardinality(1 .. i) = i
            BY <2>4, UpTo
        <3>5. i <= n
            BY <3>3, <3>4
        <3> HIDE DEF n
        <3> QED
            BY <2>4, <3>5
    <2>8. g[n] <= ci
        <3>1. CASE n = 0
            <4>1. g[n] = 0
                BY <1>4, <3>1 DEF Sums
            <4> QED
                BY <1>9, <4>1
        <3>2. CASE n # 0
            <4> SUFFICES ASSUME ~(g[n] <= ci) PROVE FALSE
                OBVIOUS
            <4>1. n \in 1 .. N /\ n - 1 \in Nat
                BY <2>4, <3>2
            <4>2. passed \subseteq 1 .. n - 1
                <5> SUFFICES ASSUME NEW a \in passed PROVE a \in 1 .. n - 1
                    OBVIOUS
                <5>1. a \in 1 .. N /\ g[a] <= ci
                    OBVIOUS
                <5>2. ~(n <= a)
                    BY <2>6, <4>1, <5>1
                <5> HIDE DEF n
                <5> QED
                    BY <4>1, <5>1, <5>2
            <4>3. IsFiniteSet(1 .. n - 1) /\ Cardinality(1 .. n - 1) = n - 1
                <5> HIDE DEF n
                <5>1. \A m \in Nat : IsFiniteSet(1 .. m) /\ Cardinality(1 .. m) = m
                    BY UpTo
                <5>2. n - 1 \in Nat
                    BY <4>1
                <5> QED
                    BY <5>1, <5>2
            <4>4. n <= n - 1
                <5>1. n <= Cardinality(1 .. n - 1)
                    <6> HIDE DEF passed
                    <6> QED
                        BY <4>2, <4>3, FS_Subset
                <5> HIDE DEF n
                <5> QED
                    BY <4>3, <5>1
            <4> HIDE DEF n
            <4> QED
                BY <2>4, <4>4
        <3> QED
            BY <3>1, <3>2
    <2> HIDE DEF n
    <2>9. k \in 1 .. w[i]
        BY <1>9, <2>3, <2>4, <2>7, <2>8
    <2> DEFINE o == <<i, k>>
    <2>10. o \in Occurrences /\ o[1] = i /\ o[2] = k
        BY <1>10, <2>9 DEF Units
    <2> HIDE DEF o
    <2>11. Cardinality(Earlier(o)) = ci
        BY <1>15, <1>17, <2>10
    <2> QED
        BY <2>10, <2>11 DEF IsCounted, ci
<1>18. ASSUME NEW o \in Occurrences, o[2] \in DOMAIN DrawnMarks[o[1]]
       PROVE  IsDrawnCurrent(o[1], o[2]) = IsCounted(o)
    <2>1. IsDrawnCurrent(o[1], o[2]) = (o[2] = MatchPosition(o[1]))
        BY <1>13, <1>16, <1>18
    <2> QED
        BY <1>15, <2>1 DEF IsCounted, ci
<1>19. ASSUME NEW row \in DOMAIN logs, NEW k \in DOMAIN DrawnMarks[row],
              IsDrawnCurrent(row, k)
       PROVE  \E o \in Occurrences : o[1] = row /\ IsCounted(o)
    <2>1. row \in 1 .. N
        BY <1>1
    <2>2. k = MatchPosition(row)
        BY <1>16, <1>19, <2>1
    <2>3. k # 0
        <3>1. DrawnMarks[row] = IF InService THEN ServiceRow(row) ELSE LogRow(row)
            BY <1>1, <1>6 DEF DrawnMarks, Rows, ServiceRows
        <3>2. DrawnMarks[row] # <<>>
            BY <1>19
        <3>3. DrawnMarks[row] = Highlight(row)
            BY <3>1, <3>2 DEF ServiceRow, LogRow
        <3>4. Marks(logs[row]) \in Seq(Nat)
            <4>1. logs[row] \in Line
                BY <1>1, <2>1, SeqTypes
            <4> QED
                BY <1>2, <4>1 DEF Line, Marks
        <3>5. k \in DOMAIN Marks(logs[row])
            BY <1>6, <3>3 DEF Highlight
        <3> QED
            BY <3>4, <3>5
    <2> QED
        BY <1>17, <2>1, <2>2, <2>3
<1> QED
    BY <1>5, <1>9, <1>11, <1>18, <1>19 DEF CounterIsTheMark, ci

-----------------------------------------------------------------------------

(* The viewer's variables keep their types: the log is never longer than    *)
(* the buffer, and the index of the current match is a number, whatever is  *)
(* typed, received, cut or cleared.                                         *)
THEOREM TypeInvariant == Spec => []TypeOK
BY Invariance, TypesFollow, PTL

(* No line is lost between addLog and the log, in a container's viewer and  *)
(* in a service's, which sorts what a flush brings (LinesAreKept).          *)
THEOREM NoLineIsLost == Spec => []LinesAreKept
BY Invariance, LinesFollow, PTL

(* While lines are only appended by flushBatch, and no match was dropped,   *)
(* useLogSearch derives the same current match from the same index.         *)
THEOREM CursorIsStable == Spec => CursorStays
<1>1. Inv /\ Inv' /\ [Next]_vars =>
        [/\ ~stale /\ totalMatches > 0
         /\ <<query, debouncedQuery, mode, currentMatchIndex>>'
              = <<query, debouncedQuery, mode, currentMatchIndex>>
         /\ IsPrefix(logs, logs')
         => currentMatch' = currentMatch /\ clampedIndex = currentMatchIndex]_vars
    BY CursorFollows
<1> QED
    BY <1>1, Invariance, PTL DEF Spec, CursorStays

(* The counter of the toolbar and the mark that highlightHtml draws as the  *)
(* current one speak of the same occurrence, where the HTML has the mark of *)
(* that number in the line, and of the same line in any case, though        *)
(* useLogSearch counts an index down over the lines and the row numbers its *)
(* own (CounterIsTheMark).                                                  *)
THEOREM CounterMarksTheMatch == Spec => []CounterIsTheMark
BY Invariance, CounterFollows, PTL
============================================================================
