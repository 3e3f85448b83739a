----------------------------- MODULE LogSearchProofs ----------------------------
(***************************************************************************)
(* Proofs about LogSearch, for any number of nodes, files and lines and any*)
(* size of the page: what the loops over lines and over files find, what   *)
(* the merge makes of it, and that pages are sound and complete.           *)
(***************************************************************************)
EXTENDS LogSearch, FiniteSetTheorems, SequenceTheorems, WellFoundedInduction, TLAPS

-----------------------------------------------------------------------------
(* Loops.                                                                   *)

\* What holds at the start and is kept by every round holds after each.
LEMMA Rounds ==
    ASSUME NEW N \in Nat, NEW S \in SUBSET (0 .. N), 0 \in S,
           \A i \in S : i < N => i + 1 \in S
    PROVE  \A i \in 0 .. N : i \in S
<1> DEFINE R == {p \in Nat \X Nat : p[1] < p[2]}
           missing == (0 .. N) \ S
<1> SUFFICES ASSUME missing # {} PROVE FALSE
    OBVIOUS
<1>1. IsWellFoundedOn(R, Nat)
    BY NatLessThanWellFounded DEF OpToRel
<1>2. missing \subseteq Nat
    OBVIOUS
<1>3. PICK x \in missing : \A y \in missing : <<y, x>> \notin R
    BY <1>1, <1>2, WFMin
<1>4. x - 1 \in 0 .. N /\ (x - 1) + 1 = x /\ x - 1 < N
    OBVIOUS
<1>5. x - 1 \notin missing
    <2>1. x - 1 \in missing => <<x - 1, x>> \in R
        BY <1>2, <1>4
    <2> QED
        BY <1>3, <2>1
<1> QED
    BY <1>3, <1>4, <1>5

\* What N rounds, F[1] to F[N], make of b.
IsRun(g, A, N, b, F) ==
    g \in [0 .. N -> A] /\ g[0] = b /\ \A i \in 1 .. N : g[i] = F[i][g[i - 1]]

\* A loop can be run.
LEMMA Runs ==
    ASSUME NEW A, NEW N \in Nat, NEW b \in A, NEW F \in [1 .. N -> [A -> A]]
    PROVE  \E g : IsRun(g, A, N, b, F)
<1> DEFINE Run(k, g) == g[0] = b /\ \A i \in 1 .. k : g[i] = F[i][g[i - 1]]
           S == {k \in 0 .. N : \E g \in [0 .. N -> A] : Run(k, g)}
<1>1. 0 \in S
    <2> DEFINE g == [i \in 0 .. N |-> b]
    <2>1. g \in [0 .. N -> A] /\ g[0] = b
        OBVIOUS
    <2> HIDE DEF g
    <2>2. Run(0, g)
        BY <2>1
    <2> QED
        BY <2>1, <2>2
<1>2. ASSUME NEW k \in S, k < N
      PROVE  k + 1 \in S
    <2>1. PICK g \in [0 .. N -> A] : Run(k, g)
        OBVIOUS
    <2> DEFINE h == [i \in 0 .. N |-> IF i = k + 1 THEN F[k + 1][g[k]] ELSE g[i]]
    <2>2. k \in 0 .. N /\ k + 1 \in 1 .. N
        BY <1>2
    <2>3. F[k + 1][g[k]] \in A
        BY <2>2
    <2>4. h \in [0 .. N -> A]
        BY <2>3
    <2>5. ASSUME NEW i \in 1 .. k + 1
          PROVE  h[i] = F[i][h[i - 1]]
        <3>1. CASE i = k + 1
            <4>1. h[i] = F[k + 1][g[k]] /\ h[k] = g[k] /\ i - 1 = k
                BY <2>2, <3>1
            <4> QED
                BY <3>1, <4>1
        <3>2. CASE i # k + 1
            <4>1. /\ i \in 1 .. k /\ i \in 0 .. N /\ i - 1 \in 0 .. N
                  /\ i - 1 # k + 1
                BY <2>2, <3>2
            <4>2. h[i] = g[i] /\ h[i - 1] = g[i - 1]
                BY <3>2, <4>1
            <4> QED
                BY <2>1, <4>1, <4>2
        <3> QED
            BY <3>1, <3>2
    <2>6. h[0] = b
        BY <2>1, <2>2
    <2> HIDE DEF h
    <2>7. Run(k + 1, h)
        BY <2>5, <2>6
    <2> QED
        BY <2>2, <2>4, <2>7
<1> HIDE DEF S
<1>3. S \in SUBSET (0 .. N)
    BY DEF S
<1>4. \A k \in 0 .. N : k \in S
    BY <1>1, <1>2, <1>3, Rounds
<1>5. PICK g \in [0 .. N -> A] : Run(N, g)
    <2>1. N \in S
        BY <1>4
    <2> QED
        BY <2>1 DEF S
<1>6. IsRun(g, A, N, b, F)
    BY <1>5 DEF IsRun
<1> QED
    BY <1>6

-----------------------------------------------------------------------------
(* Sorting by counting what comes before.                                   *)

Total(S, R) ==
    /\ \A x \in S : <<x, x>> \notin R
    /\ \A x, y, z \in S : <<x, y>> \in R /\ <<y, z>> \in R => <<x, z>> \in R
    /\ \A x, y \in S : x = y \/ <<x, y>> \in R \/ <<y, x>> \in R

Rank(S, R, x) == Cardinality({y \in S : <<y, x>> \in R})

LEMMA Ranks ==
    ASSUME NEW S, NEW R, IsFiniteSet(S), Total(S, R)
    PROVE  /\ Cardinality(S) \in Nat
           /\ \A x \in S : Rank(S, R, x) \in 0 .. Cardinality(S) - 1
           /\ \A x, y \in S : <<x, y>> \in R => Rank(S, R, x) < Rank(S, R, y)
           /\ \A k \in 1 .. Cardinality(S) : \E x \in S : Rank(S, R, x) = k - 1
<1> DEFINE below(x) == {y \in S : <<y, x>> \in R}
           n == Cardinality(S)
<1>1. n \in Nat
    BY FS_CardinalityType
<1>2. ASSUME NEW x \in S
      PROVE  IsFiniteSet(below(x)) /\ Rank(S, R, x) \in Nat /\ Rank(S, R, x) < n
    <2>1. below(x) \in SUBSET S /\ below(x) # S
        BY DEF Total
    <2> HIDE DEF below
    <2>2. /\ IsFiniteSet(below(x)) /\ Cardinality(below(x)) <= n
          /\ n = Cardinality(below(x)) => S = below(x)
        BY <2>1, FS_Subset
    <2>3. Cardinality(below(x)) \in Nat
        BY <2>2, FS_CardinalityType
    <2> QED
        BY <1>1, <2>1, <2>2, <2>3 DEF Rank, below
<1>3. ASSUME NEW x \in S, NEW y \in S, <<x, y>> \in R
      PROVE  Rank(S, R, x) < Rank(S, R, y)
    <2>1. below(x) \in SUBSET below(y) /\ x \in below(y) /\ x \notin below(x)
        BY <1>3 DEF Total
    <2>2. IsFiniteSet(below(y)) /\ Rank(S, R, x) \in Nat /\ Rank(S, R, y) \in Nat
        BY <1>2
    <2> HIDE DEF below
    <2>3. /\ Cardinality(below(x)) <= Cardinality(below(y))
          /\ Cardinality(below(y)) = Cardinality(below(x)) => below(y) = below(x)
        BY <2>1, <2>2, FS_Subset
    <2>4. Rank(S, R, x) = Cardinality(below(x)) /\ Rank(S, R, y) = Cardinality(below(y))
        BY DEF Rank, below
    <2> QED
        BY <2>1, <2>2, <2>3, <2>4
<1>4. \A x \in S : Rank(S, R, x) \in Nat /\ Rank(S, R, x) < n
    BY <1>2
<1>5. \A x, y \in S : <<x, y>> \in R => Rank(S, R, x) < Rank(S, R, y)
    BY <1>3
<1> HIDE DEF n, below
<1> DEFINE T == 1 .. n
           f == [x \in S |-> Rank(S, R, x) + 1]
<1>6. f \in Injection(S, T)
    <2>1. f \in [S -> T]
        <3>1. \A x \in S : Rank(S, R, x) + 1 \in T
            BY <1>1, <1>4
        <3> QED
            BY <3>1
    <2>2. ASSUME NEW x \in S, NEW y \in S, x # y
          PROVE  f[x] # f[y]
        <3>1. <<x, y>> \in R \/ <<y, x>> \in R
            BY <2>2 DEF Total
        <3>2. Rank(S, R, x) # Rank(S, R, y) /\ Rank(S, R, x) \in Nat /\ Rank(S, R, y) \in Nat
            BY <1>4, <1>5, <3>1
        <3> QED
            BY <3>2
    <2> QED
        BY <2>1, <2>2 DEF Injection, IsInjective
<1>7. IsFiniteSet(T) /\ Cardinality(T) = n
    BY <1>1, FS_Interval
<1> HIDE DEF T, f
<1>8. f \in Surjection(S, T)
    BY <1>6, <1>7, FS_Injection DEF n
<1>9. ASSUME NEW k \in 1 .. n
      PROVE  \E x \in S : Rank(S, R, x) = k - 1
    <2>1. PICK x \in S : f[x] = k
        BY <1>8 DEF Surjection, T
    <2>2. f[x] = Rank(S, R, x) + 1 /\ Rank(S, R, x) \in Nat
        BY <1>4 DEF f
    <2> QED
        BY <2>1, <2>2
<1>10. \A x \in S : Rank(S, R, x) \in 0 .. n - 1
    BY <1>1, <1>4
<1> QED
    BY <1>1, <1>5, <1>9, <1>10 DEF n

\* The elements in the order of their ranks.
ByRank(s, S, R) ==
    /\ s \in [1 .. Cardinality(S) -> S]
    /\ \A k \in 1 .. Cardinality(S) : Rank(S, R, s[k]) = k - 1

LEMMA Sorting ==
    ASSUME NEW S, NEW R, IsFiniteSet(S), Total(S, R), NEW s, ByRank(s, S, R)
    PROVE  /\ Cardinality(S) \in Nat
           /\ s \in Seq(S) /\ Len(s) = Cardinality(S) /\ DOMAIN s = 1 .. Cardinality(S)
           /\ \A x \in S : \E k \in DOMAIN s : s[k] = x
           /\ \A i, j \in DOMAIN s : i < j => <<s[i], s[j]>> \in R
<1>1. Cardinality(S) \in Nat
    BY Ranks
<1>2. s \in Seq(S) /\ Len(s) = Cardinality(S) /\ DOMAIN s = 1 .. Cardinality(S)
    BY <1>1, IsASeq, LenProperties DEF ByRank
<1>3. ASSUME NEW x \in S
      PROVE  \E k \in DOMAIN s : s[k] = x
    <2>1. Rank(S, R, x) \in 0 .. Cardinality(S) - 1
        BY Ranks
    <2> DEFINE k == Rank(S, R, x) + 1
    <2>2. k \in 1 .. Cardinality(S) /\ k - 1 = Rank(S, R, x)
        BY <1>1, <2>1
    <2>3. s[k] \in S /\ Rank(S, R, s[k]) = Rank(S, R, x)
        BY <2>2 DEF ByRank
    <2>4. s[k] = x \/ <<s[k], x>> \in R \/ <<x, s[k]>> \in R
        BY <2>3 DEF Total
    <2>5. \A y, z \in S : <<y, z>> \in R => Rank(S, R, y) < Rank(S, R, z)
        BY Ranks
    <2> QED
        BY <1>2, <2>1, <2>2, <2>3, <2>4, <2>5
<1>4. ASSUME NEW i \in DOMAIN s, NEW j \in DOMAIN s, i < j
      PROVE  <<s[i], s[j]>> \in R
    <2>1. /\ s[i] \in S /\ s[j] \in S
          /\ Rank(S, R, s[i]) = i - 1 /\ Rank(S, R, s[j]) = j - 1
        BY <1>2 DEF ByRank
    <2>2. s[i] = s[j] \/ <<s[i], s[j]>> \in R \/ <<s[j], s[i]>> \in R
        BY <2>1 DEF Total
    <2>3. \A y, z \in S : <<y, z>> \in R => Rank(S, R, y) < Rank(S, R, z)
        BY Ranks
    <2> QED
        BY <1>1, <1>2, <1>4, <2>1, <2>2, <2>3
<1> QED
    BY <1>1, <1>2, <1>3, <1>4
-----------------------------------------------------------------------------
(* What is found of the entries of a file, from a cursor on.                *)

\* A line without a timestamp is a line that no entry begins with.
LogLines == {l \in Lines : l.ts = 0 <=> l.id = 0}

\* What is found exists, and stands in the order of writing ...
FileSound(found, entries, cursor) ==
    \A i \in DOMAIN found : found[i].ts # 0 =>
        /\ cursor < found[i].ts
        /\ [id |-> found[i].id, ts |-> found[i].ts, hit |-> TRUE] \in entries
        /\ \A j \in 1 .. i - 1 : found[j].id < found[i].id

\* ... and an entry that is not found was written after all of it.
FileComplete(found, hasMore, entries, cursor) ==
    \A e \in entries : e.hit /\ cursor < e.ts =>
        \/ \E i \in DOMAIN found : found[i].id = e.id
        \/ hasMore /\ \A i \in DOMAIN found : found[i].id < e.id

\* Entries are appended to a file; lines without a timestamp may stand anywhere.
Ascending(lines) ==
    \A i, j \in DOMAIN lines : i < j /\ lines[j].ts # 0 => lines[i].id < lines[j].id

Results == [lines : Seq(LogLines), hasMore : BOOLEAN]

\* What reading a file up to a limit should give.
FileResultFor(r, limit, entries, cursor) ==
    /\ r \in Results
    /\ Len(r.lines) <= limit
    /\ r.hasMore => Len(r.lines) = limit
    /\ FileSound(r.lines, entries, cursor)

LEMMA LineTypes ==
    /\ Times \subseteq Nat /\ 0 \in Times
    /\ Ids \subseteq Nat /\ 0 \in Ids
    /\ \A l \in LogLines : /\ l.ts \in Nat /\ l.ts \in Times /\ l.hit \in BOOLEAN
                           /\ l.id \in Nat /\ l.id \in Ids /\ (l.ts = 0 <=> l.id = 0)
    /\ \A s \in Seq(LogLines) : /\ Len(s) \in Nat /\ DOMAIN s = 1 .. Len(s)
                             /\ \A i \in DOMAIN s : s[i] \in LogLines
<1>1. Times \subseteq Nat /\ 0 \in Times /\ Ids \subseteq Nat /\ 0 \in Ids
    BY BoundsAssumption DEF Times, Ids
<1>2. ASSUME NEW s \in Seq(LogLines)
      PROVE  Len(s) \in Nat /\ DOMAIN s = 1 .. Len(s) /\ \A i \in DOMAIN s : s[i] \in LogLines
    <2>1. Len(s) \in Nat /\ DOMAIN s = 1 .. Len(s)
        BY LenProperties
    <2> QED
        BY <2>1, ElementOfSeq
<1>3. \A l \in LogLines : /\ l.ts \in Nat /\ l.ts \in Times /\ l.hit \in BOOLEAN
                         /\ l.id \in Nat /\ l.id \in Ids /\ (l.ts = 0 <=> l.id = 0)
    BY <1>1 DEF LogLines, Lines
<1> QED
    BY <1>1, <1>2, <1>3

\* One more line, after the others.
Longer(next, found, l) ==
    /\ next \in Seq(LogLines)
    /\ Len(next) = Len(found) + 1
    /\ DOMAIN next = DOMAIN found \cup {Len(found) + 1}
    /\ next[Len(found) + 1] = l
    /\ \A i \in DOMAIN found : next[i] = found[i]

\* A line is appended that has no timestamp, or comes after all others.
LEMMA SoundAppend ==
    ASSUME NEW found \in Seq(LogLines), NEW entries, NEW cursor \in Times, NEW l \in LogLines,
           FileSound(found, entries, cursor),
           l.ts # 0 => /\ cursor < l.ts /\ [id |-> l.id, ts |-> l.ts, hit |-> TRUE] \in entries
                       /\ \A i \in DOMAIN found : found[i].id < l.id
    PROVE  Longer(Append(found, l), found, l) /\ FileSound(Append(found, l), entries, cursor)
<1> DEFINE next == Append(found, l)
<1>1. /\ next \in Seq(LogLines) /\ Len(next) = Len(found) + 1
      /\ \A i \in 1 .. Len(found) : next[i] = found[i]
      /\ next[Len(found) + 1] = l
    BY AppendProperties
<1>2. /\ Len(found) \in Nat /\ DOMAIN found = 1 .. Len(found)
      /\ DOMAIN next = 1 .. Len(found) + 1
    BY <1>1, LineTypes
<1> HIDE DEF next
<1>3. ASSUME NEW i \in DOMAIN next, next[i].ts # 0
      PROVE  /\ cursor < next[i].ts
             /\ [id |-> next[i].id, ts |-> next[i].ts, hit |-> TRUE] \in entries
             /\ \A j \in 1 .. i - 1 : next[j].id < next[i].id
    <2>1. CASE i = Len(found) + 1
        <3>1. /\ next[i] = l /\ l.ts # 0
              /\ \A j \in 1 .. i - 1 : j \in DOMAIN found /\ next[j] = found[j]
            BY <1>1, <1>2, <1>3, <2>1
        <3> QED
            BY <3>1
    <2>2. CASE i # Len(found) + 1
        <3>1. i \in DOMAIN found /\ \A j \in 1 .. i - 1 : j \in DOMAIN found
            BY <1>2, <2>2
        <3> QED
            BY <1>1, <1>2, <1>3, <3>1 DEF FileSound
    <2> QED
        BY <2>1, <2>2
<1>4. DOMAIN next = DOMAIN found \cup {Len(found) + 1}
    BY <1>2
<1> QED
    BY <1>1, <1>2, <1>3, <1>4 DEF FileSound, next, Longer

-----------------------------------------------------------------------------
(* The scan of a file.                                                      *)

Scans == [found : Seq(LogLines), entry : LogLines, hasMore : BOOLEAN, done : BOOLEAN]

ScanStart == [found |-> <<>>, entry |-> NoEntry, hasMore |-> FALSE, done |-> FALSE]

LEMMA FlushedType ==
    ASSUME NEW found \in Seq(LogLines), NEW entry \in LogLines, NEW cursor
    PROVE  Flushed(found, entry, cursor) \in Seq(LogLines)
BY AppendProperties DEF Flushed

LEMMA ScannedType ==
    ASSUME NEW s \in Scans, NEW line \in LogLines, NEW last \in BOOLEAN,
           NEW cursor \in Times, NEW limit \in Nat
    PROVE  Scanned(s, line, last, cursor, limit) \in Scans
<1> DEFINE flushed == Flushed(s.found, s.entry, cursor)
           appended == Flushed(s.found, line, cursor)
<1>1. /\ s.found \in Seq(LogLines) /\ s.entry \in LogLines
      /\ s.hasMore \in BOOLEAN /\ s.done \in BOOLEAN
    BY DEF Scans
<1>2. flushed \in Seq(LogLines) /\ appended \in Seq(LogLines)
    BY <1>1, FlushedType
<1>3. Len(flushed) \in Nat /\ Len(appended) \in Nat
    BY <1>2, LineTypes
<1> HIDE DEF flushed, appended
<1>4. NoEntry \in LogLines
    BY LineTypes DEF NoEntry, LogLines, Lines
<1>5. CASE s.done
    BY <1>5 DEF Scanned
<1>6. CASE ~s.done /\ line.ts # 0 /\ Len(flushed) >= limit
    <2>1. Scanned(s, line, last, cursor, limit) =
              [found |-> flushed, entry |-> NoEntry, hasMore |-> TRUE, done |-> TRUE]
        BY <1>3, <1>6 DEF Scanned, flushed
    <2> QED
        BY <1>2, <1>4, <2>1 DEF Scans
<1>7. CASE ~s.done /\ line.ts # 0 /\ Len(flushed) < limit
    <2>1. Scanned(s, line, last, cursor, limit) =
              [s EXCEPT !.found = flushed, !.entry = line]
        BY <1>3, <1>7 DEF Scanned, flushed
    <2> QED
        BY <1>2, <2>1 DEF Scans
<1>8. CASE ~s.done /\ line.ts = 0 /\ s.entry.ts # 0
    <2>1. Scanned(s, line, last, cursor, limit) = [s EXCEPT !.entry.hit = @ \/ line.hit]
        BY <1>8 DEF Scanned
    <2> QED
        BY <2>1 DEF Scans, LogLines, Lines
<1>9. CASE ~s.done /\ line.ts = 0 /\ s.entry.ts = 0
    <2>1. Scanned(s, line, last, cursor, limit) =
              [s EXCEPT !.found = appended,
                        !.hasMore = Len(appended) >= limit /\ ~last,
                        !.done = Len(appended) >= limit]
        BY <1>9 DEF Scanned, appended
    <2> DEFINE full == Len(appended) >= limit
               more == full /\ ~last
    <2>2. full \in BOOLEAN /\ more \in BOOLEAN
        OBVIOUS
    <2>3. Scanned(s, line, last, cursor, limit) =
              [s EXCEPT !.found = appended, !.hasMore = more, !.done = full]
        BY <2>1
    <2> HIDE DEF full, more
    <2> QED
        BY <1>2, <2>2, <2>3 DEF Scans
<1> QED
    BY <1>3, <1>5, <1>6, <1>7, <1>8, <1>9

\* The loop, after each line.
IsScan(g, lines, cursor, limit) ==
    /\ g \in [0 .. Len(lines) -> Scans]
    /\ g[0] = ScanStart
    /\ \A i \in 1 .. Len(lines) :
          g[i] = Scanned(g[i - 1], lines[i], i = Len(lines), cursor, limit)
    /\ Scan(lines, cursor, limit) = g[Len(lines)]

LEMMA ScanRuns ==
    ASSUME NEW lines \in Seq(LogLines), NEW cursor \in Times, NEW limit \in Nat
    PROVE  \E g : IsScan(g, lines, cursor, limit)
<1> DEFINE N == Len(lines)
           upTo[i \in 0 .. N] ==
             IF i = 0 THEN ScanStart
             ELSE Scanned(upTo[i - 1], lines[i], i = Len(lines), cursor, limit)
           round(s, i) == Scanned(s, lines[i], i = Len(lines), cursor, limit)
           F == [i \in 1 .. N |-> [s \in Scans |-> round(s, i)]]
<1>1. N \in Nat /\ \A i \in 1 .. N : lines[i] \in LogLines
    BY LineTypes
<1>2. ScanStart \in Scans
    <2>1. <<>> \in Seq(LogLines)
        BY EmptySeq
    <2> QED
        BY <2>1, LineTypes DEF ScanStart, NoEntry, Scans, LogLines, Lines
<1>3. \A s \in Scans, i \in 1 .. N : round(s, i) \in Scans
    BY <1>1, ScannedType
<1>4. Scan(lines, cursor, limit) = upTo[N]
    BY DEF Scan, ScanStart
<1> HIDE DEF N, round
<1>5. F \in [1 .. N -> [Scans -> Scans]]
    BY <1>3
<1>6. \A s \in Scans, i \in 1 .. N : F[i][s] = round(s, i)
    OBVIOUS
<1> HIDE DEF F
<1>7. PICK h : IsRun(h, Scans, N, ScanStart, F)
    BY <1>1, <1>2, <1>5, Runs
<1>8. ASSUME NEW i \in 1 .. N
      PROVE  h[i] = round(h[i - 1], i)
    <2>1. h[i] = F[i][h[i - 1]] /\ h[i - 1] \in Scans
        BY <1>1, <1>7 DEF IsRun
    <2> QED
        BY <1>6, <2>1
<1>9. h = [i \in 0 .. N |-> IF i = 0 THEN ScanStart ELSE round(h[i - 1], i)]
    <2>1. \A i \in 0 .. N : i = 0 \/ i \in 1 .. N
        BY <1>1
    <2>2. \A i \in 0 .. N : h[i] = IF i = 0 THEN ScanStart ELSE round(h[i - 1], i)
        BY <1>7, <1>8, <2>1 DEF IsRun
    <2> QED
        BY <1>7, <2>2 DEF IsRun
<1>10. upTo = [i \in 0 .. N |-> IF i = 0 THEN ScanStart ELSE round(upTo[i - 1], i)]
    BY <1>9 DEF round
<1> HIDE DEF upTo
<1>11. upTo[0] = ScanStart
    BY <1>1, <1>10
<1>12. ASSUME NEW i \in 1 .. N
       PROVE  upTo[i] = round(upTo[i - 1], i)
    BY <1>1, <1>10
<1>13. \A i \in 0 .. N : upTo[i] \in Scans
    <2> DEFINE S == {i \in 0 .. N : upTo[i] \in Scans}
    <2>1. 0 \in S
        BY <1>1, <1>2, <1>11
    <2>2. ASSUME NEW i \in S, i < N
          PROVE  i + 1 \in S
        <3>1. i + 1 \in 1 .. N /\ (i + 1) - 1 = i
            BY <1>1, <2>2
        <3>2. upTo[i + 1] = round(upTo[i], i + 1)
            BY <1>12, <3>1
        <3> QED
            BY <1>1, <1>3, <3>1, <3>2
    <2> HIDE DEF S
    <2>3. S \in SUBSET (0 .. N)
        BY DEF S
    <2>4. \A i \in 0 .. N : i \in S
        BY <1>1, <2>1, <2>2, <2>3, Rounds
    <2> QED
        BY <2>4 DEF S
<1>14. upTo \in [0 .. N -> Scans]
    BY <1>10, <1>13
<1>15. IsScan(upTo, lines, cursor, limit)
    BY <1>4, <1>11, <1>12, <1>14 DEF N, round, IsScan
<1> QED
    BY <1>15

\* No line from a to b has a timestamp.
Bare(lines, a, b) == \A k \in a .. b : lines[k].ts = 0

\* After i lines the file ends, or a line with a timestamp follows.
Ends(lines, i) == i = Len(lines) \/ lines[i + 1].ts # 0

LEMMA Between ==
    ASSUME NEW p \in Nat, NEW i \in Nat, NEW j \in Nat
    PROVE  /\ p <= i /\ p <= j /\ i + 1 \notin p + 1 .. j => j \in p .. i
           /\ j \in p .. i => \A k \in p + 1 .. j : k \in p + 1 .. i
           /\ j <= i /\ j # p /\ j \notin p + 1 .. i => j < p
OBVIOUS

\* An entry ends before the next line with a timestamp, or with the file.
LEMMA EntryEnds ==
    ASSUME NEW lines \in Seq(LogLines), NEW p \in DOMAIN lines, NEW i \in p .. Len(lines),
           Bare(lines, p + 1, i), Ends(lines, i)
    PROVE  /\ EntryAt(lines, p).ts = lines[p].ts /\ EntryAt(lines, p).id = lines[p].id
           /\ EntryAt(lines, p).hit <=> \E j \in p .. i : lines[j].hit
<1>1. /\ Len(lines) \in Nat /\ DOMAIN lines = 1 .. Len(lines)
      /\ p \in Nat /\ i \in Nat
    BY LineTypes
<1>2. ASSUME NEW j \in p .. Len(lines), Bare(lines, p + 1, j)
      PROVE  j \in p .. i
    <2>1. CASE i = Len(lines)
        BY <2>1
    <2>2. CASE lines[i + 1].ts # 0
        <3>1. i + 1 \notin p + 1 .. j
            BY <1>2, <2>2 DEF Bare
        <3>2. p <= i /\ p <= j /\ j \in Nat
            BY <1>1
        <3> QED
            BY <1>1, <3>1, <3>2, Between
    <2> QED
        BY <2>1, <2>2 DEF Ends
<1>3. ASSUME NEW j \in p .. i
      PROVE  j \in p .. Len(lines) /\ Bare(lines, p + 1, j)
    <2>1. j \in p .. Len(lines) /\ \A k \in p + 1 .. j : k \in p + 1 .. i
        <3>1. j \in Nat /\ j \in p .. Len(lines)
            BY <1>1
        <3> QED
            BY <1>1, <3>1, Between
    <2> QED
        BY <2>1 DEF Bare
<1>4. EntryAt(lines, p).hit
        <=> \E j \in p .. Len(lines) : lines[j].hit /\ Bare(lines, p + 1, j)
    BY DEF EntryAt, Bare
<1>5. EntryAt(lines, p).ts = lines[p].ts /\ EntryAt(lines, p).id = lines[p].id
    BY DEF EntryAt
<1> QED
    BY <1>2, <1>3, <1>4, <1>5

\* The entry under way after i lines.
UnderWay(entry, lines, i) ==
    IF entry.ts = 0
      THEN entry.hit = FALSE /\ Bare(lines, 1, i)
      ELSE \E p \in 1 .. i : /\ lines[p].ts = entry.ts /\ lines[p].id = entry.id
                             /\ Bare(lines, p + 1, i)
                             /\ entry.hit <=> \E j \in p .. i : lines[j].hit

\* What the loop keeps: while it goes on, all that ended before the entry under
\* way is found; when it has stopped, the limit is reached.
ScanOpen(s, lines, i, cursor, limit) ==
    /\ Len(s.found) < limit
    /\ UnderWay(s.entry, lines, i)
    /\ \A m \in DOMAIN s.found : s.found[m].ts # 0 => s.found[m].id < s.entry.id
    /\ \A e \in EntriesOf(lines) : e.hit /\ cursor < e.ts /\ e.id < s.entry.id
          => \E m \in DOMAIN s.found : s.found[m].id = e.id

ScanClosed(s, lines, cursor, limit) ==
    /\ Len(s.found) = limit
    /\ FileComplete(s.found, s.hasMore, EntriesOf(lines), cursor)

ScanOK(s, lines, i, cursor, limit) ==
    /\ s \in Scans
    /\ Len(s.found) <= limit
    /\ FileSound(s.found, EntriesOf(lines), cursor)
    /\ IF s.done THEN ScanClosed(s, lines, cursor, limit)
                 ELSE ScanOpen(s, lines, i, cursor, limit)

\* The entry under way ends: what is found then of the first i lines.
FlushOK(flushed, s, lines, i, cursor, limit) ==
    /\ flushed \in Seq(LogLines) /\ Len(flushed) <= limit
    /\ FileSound(flushed, EntriesOf(lines), cursor)
    /\ \A m \in DOMAIN flushed : flushed[m].ts # 0 => flushed[m].id <= s.entry.id
    /\ \A q \in 1 .. i : lines[q].ts # 0 =>
          LET e == EntryAt(lines, q)
          IN  e.hit /\ cursor < e.ts => \E m \in DOMAIN flushed : flushed[m].id = e.id

LEMMA FlushIsOK ==
    ASSUME NEW lines \in Seq(LogLines), Ascending(lines), NEW cursor \in Times,
           NEW limit \in Nat \ {0}, NEW i \in 0 .. Len(lines), NEW s,
           ScanOK(s, lines, i, cursor, limit), ~s.done,
           Ends(lines, i)
    PROVE  FlushOK(Flushed(s.found, s.entry, cursor), s, lines, i, cursor, limit)
<1> DEFINE E == EntriesOf(lines)
           found == s.found
           entry == s.entry
           flushed == Flushed(found, entry, cursor)
<1>1. /\ Len(lines) \in Nat /\ DOMAIN lines = 1 .. Len(lines)
      /\ \A q \in 1 .. Len(lines) : lines[q] \in LogLines
    BY LineTypes
<1>2. /\ found \in Seq(LogLines) /\ entry \in LogLines
      /\ Len(found) < limit /\ FileSound(found, E, cursor)
      /\ UnderWay(entry, lines, i)
      /\ \A m \in DOMAIN found : found[m].ts # 0 => found[m].id < entry.id
      /\ \A e \in E : e.hit /\ cursor < e.ts /\ e.id < entry.id
            => \E m \in DOMAIN found : found[m].id = e.id
    BY DEF ScanOK, ScanOpen, Scans
<1>3. /\ Len(found) \in Nat /\ DOMAIN found = 1 .. Len(found)
      /\ \A m \in DOMAIN found : /\ found[m].ts \in Nat /\ found[m].id \in Nat
                                 /\ found[m].ts = 0 <=> found[m].id = 0
      /\ entry.id \in Nat /\ (entry.ts = 0 <=> entry.id = 0)
    BY <1>2, LineTypes
<1>4. \A q \in DOMAIN lines : lines[q].ts # 0 => EntryAt(lines, q) \in E
    BY DEF EntriesOf, Heads
<1>5. \A q \in DOMAIN lines : /\ EntryAt(lines, q).ts = lines[q].ts
                              /\ EntryAt(lines, q).id = lines[q].id
    BY DEF EntryAt
<1> HIDE DEF E, found, entry
<1>6. CASE entry.ts = 0
    <2>1. flushed = found
        BY <1>2, <1>6 DEF Flushed, Accepts, UnderWay
    <2>2. \A q \in 1 .. i : lines[q].ts = 0
        BY <1>2, <1>6 DEF UnderWay, Bare
    <2>3. \A m \in DOMAIN found : found[m].ts # 0 => found[m].id <= entry.id
        BY <1>2, <1>3, <1>6
    <2> HIDE DEF flushed
    <2>4. /\ flushed \in Seq(LogLines) /\ Len(flushed) <= limit
          /\ FileSound(flushed, E, cursor)
          /\ \A m \in DOMAIN flushed : flushed[m].ts # 0 => flushed[m].id <= entry.id
        BY <1>2, <1>3, <2>1, <2>3
    <2>5. FlushOK(flushed, s, lines, i, cursor, limit)
        BY <2>2, <2>4 DEF FlushOK, E, entry
    <2> QED
        BY <2>5 DEF flushed, found, entry
<1>7. CASE entry.ts # 0
    <2>1. PICK p \in 1 .. i : /\ lines[p].ts = entry.ts /\ lines[p].id = entry.id
                              /\ Bare(lines, p + 1, i)
                              /\ entry.hit <=> \E j \in p .. i : lines[j].hit
        BY <1>2, <1>7 DEF UnderWay
    <2> DEFINE full == EntryAt(lines, p)
    <2>2. p \in DOMAIN lines /\ i \in p .. Len(lines)
        BY <1>1
    <2>3. full.ts = entry.ts /\ full.id = entry.id /\ (full.hit <=> entry.hit)
        BY <2>1, <2>2, EntryEnds
    <2>4. full \in E
        BY <1>4, <1>7, <2>1, <2>2
    <2>5. entry.ts \in Nat /\ entry.id \in Nat /\ cursor \in Nat /\ entry.hit \in BOOLEAN
        BY <1>2, LineTypes
    <2>6. full = [id |-> entry.id, ts |-> entry.ts, hit |-> full.hit]
        BY <2>3 DEF EntryAt
    <2>7. ASSUME NEW q \in 1 .. i, lines[q].ts # 0, q # p
          PROVE  EntryAt(lines, q) \in E /\ EntryAt(lines, q).id < entry.id
        <3>1. q \notin p + 1 .. i
            BY <2>1, <2>7 DEF Bare
        <3>2. q \in DOMAIN lines /\ q < p
            <4>1. i \in 0 .. Len(lines) /\ p \in 1 .. i /\ q \in 1 .. i /\ q # p
                BY <2>7
            <4>2. Len(lines) \in Nat /\ DOMAIN lines = 1 .. Len(lines)
                BY <1>1
            <4>3. i \in Nat /\ p \in Nat /\ q \in Nat /\ q <= i /\ q \in DOMAIN lines
                BY <4>1, <4>2
            <4> QED
                BY <3>1, <4>1, <4>3, Between
        <3> QED
            BY <1>4, <1>5, <1>7, <2>1, <2>2, <2>7, <3>2 DEF Ascending
    <2> HIDE DEF full
    <2>8. CASE Accepts(entry, cursor)
        <3>1. flushed = Append(found, entry)
            BY <2>8 DEF Flushed
        <3>2. entry.hit /\ cursor < entry.ts
            BY <1>7, <2>5, <2>8 DEF Accepts
        <3>3. full.hit = TRUE
            BY <2>3, <3>2 DEF full, EntryAt
        <3>4. [id |-> entry.id, ts |-> entry.ts, hit |-> TRUE] \in E
            BY <2>4, <2>6, <3>3
        <3>5. \A m \in DOMAIN found : found[m].id < entry.id
            BY <1>2, <1>3, <1>7, <2>5
        <3> HIDE DEF flushed
        <3>6. Longer(flushed, found, entry) /\ FileSound(flushed, E, cursor)
            BY <1>2, <3>1, <3>2, <3>4, <3>5, SoundAppend
        <3>7. /\ flushed \in Seq(LogLines) /\ Len(flushed) = Len(found) + 1
              /\ FileSound(flushed, E, cursor)
              /\ DOMAIN flushed = DOMAIN found \cup {Len(found) + 1}
              /\ flushed[Len(found) + 1] = entry
              /\ \A m \in DOMAIN found : flushed[m] = found[m]
            BY <3>6 DEF Longer
        <3>8. Len(flushed) <= limit
            BY <1>2, <1>3, <3>7
        <3>9. \A m \in DOMAIN flushed : flushed[m].ts # 0 => flushed[m].id <= entry.id
            BY <1>3, <2>5, <3>5, <3>7
        <3>10. ASSUME NEW q \in 1 .. i, lines[q].ts # 0,
                     EntryAt(lines, q).hit, cursor < EntryAt(lines, q).ts
              PROVE  \E m \in DOMAIN flushed : flushed[m].id = EntryAt(lines, q).id
            <4>1. CASE q = p
                BY <2>3, <3>7, <4>1 DEF full
            <4>2. CASE q # p
                <5>1. \E m \in DOMAIN found : found[m].id = EntryAt(lines, q).id
                    BY <1>2, <2>7, <3>10, <4>2
                <5> QED
                    BY <3>7, <5>1
            <4> QED
                BY <4>1, <4>2
        <3> QED
            BY <3>7, <3>8, <3>9, <3>10 DEF FlushOK, flushed, found, entry, E
    <2>9. CASE ~Accepts(entry, cursor)
        <3>1. flushed = found
            BY <2>9 DEF Flushed
        <3>2. ~(entry.hit /\ cursor < entry.ts)
            BY <2>5, <2>9 DEF Accepts
        <3> HIDE DEF flushed
        <3>3. \A m \in DOMAIN flushed : flushed[m].ts # 0 => flushed[m].id <= entry.id
            BY <1>2, <1>3, <2>5, <3>1
        <3>4. ASSUME NEW q \in 1 .. i, lines[q].ts # 0,
                     EntryAt(lines, q).hit, cursor < EntryAt(lines, q).ts
              PROVE  \E m \in DOMAIN flushed : flushed[m].id = EntryAt(lines, q).id
            <4>1. q # p
                BY <2>3, <3>2, <3>4 DEF full
            <4> QED
                BY <1>2, <2>7, <3>1, <3>4, <4>1
        <3>5. Len(flushed) <= limit
            BY <1>2, <1>3, <3>1
        <3> QED
            BY <1>2, <3>1, <3>3, <3>4, <3>5 DEF FlushOK, flushed, found, entry, E
    <2> QED
        BY <2>8, <2>9
<1> QED
    BY <1>6, <1>7

LEMMA ScanStarts ==
    ASSUME NEW lines \in Seq(LogLines), NEW cursor \in Times, NEW limit \in Nat \ {0}
    PROVE  ScanOK(ScanStart, lines, 0, cursor, limit)
<1>1. ScanStart \in Scans
    <2>1. <<>> \in Seq(LogLines)
        BY EmptySeq
    <2> QED
        BY <2>1, LineTypes DEF ScanStart, NoEntry, Scans, LogLines, Lines
<1>2. /\ ScanStart.found = <<>> /\ ScanStart.done = FALSE
      /\ ScanStart.entry.ts = 0 /\ ScanStart.entry.id = 0
      /\ ScanStart.entry.hit = FALSE
    BY DEF ScanStart, NoEntry
<1>3. UnderWay(ScanStart.entry, lines, 0)
    BY <1>2 DEF UnderWay, Bare
<1>4. \A e \in EntriesOf(lines) : ~(e.id < 0)
    BY LineTypes DEF EntriesOf, Heads, EntryAt
<1>5. Len(<<>>) = 0 /\ DOMAIN <<>> = {}
    BY EmptySeq
<1>6. ScanOpen(ScanStart, lines, 0, cursor, limit)
    BY <1>2, <1>3, <1>4, <1>5 DEF ScanOpen
<1> QED
    BY <1>1, <1>2, <1>5, <1>6 DEF ScanOK, FileSound

\* The next line begins an entry.
LEMMA ScanTimed ==
    ASSUME NEW lines \in Seq(LogLines), Ascending(lines), NEW cursor \in Times,
           NEW limit \in Nat \ {0}, NEW i \in 1 .. Len(lines), NEW s,
           ScanOK(s, lines, i - 1, cursor, limit), ~s.done, lines[i].ts # 0
    PROVE  ScanOK(Scanned(s, lines[i], i = Len(lines), cursor, limit), lines, i, cursor, limit)
<1> DEFINE line == lines[i]
           flushed == Flushed(s.found, s.entry, cursor)
           next == Scanned(s, line, i = Len(lines), cursor, limit)
<1>1. /\ Len(lines) \in Nat /\ DOMAIN lines = 1 .. Len(lines)
      /\ \A q \in 1 .. Len(lines) : /\ lines[q] \in LogLines
                                    /\ lines[q].ts \in Nat /\ lines[q].id \in Nat
                                    /\ lines[q].ts = 0 <=> lines[q].id = 0
    BY LineTypes
<1>2. /\ i \in Nat /\ i - 1 \in 0 .. Len(lines) /\ (i - 1) + 1 = i /\ i \in DOMAIN lines
      /\ line \in LogLines /\ line.ts \in Nat /\ line.id \in Nat /\ line.id # 0
    BY <1>1
<1>3. /\ s \in Scans /\ s.entry \in LogLines /\ s.done \in BOOLEAN
      /\ s.entry.ts \in Nat /\ s.entry.id \in Nat /\ (s.entry.ts = 0 <=> s.entry.id = 0)
    BY LineTypes DEF ScanOK, Scans
<1>4. FlushOK(flushed, s, lines, i - 1, cursor, limit)
    <2>1. Ends(lines, i - 1)
        BY <1>2 DEF Ends
    <2> QED
        BY <1>2, <2>1, FlushIsOK
<1>5. /\ flushed \in Seq(LogLines) /\ Len(flushed) \in Nat /\ DOMAIN flushed = 1 .. Len(flushed)
      /\ \A m \in DOMAIN flushed : /\ flushed[m].ts \in Nat /\ flushed[m].id \in Nat
                                   /\ flushed[m].ts = 0 <=> flushed[m].id = 0
    BY <1>4, LineTypes DEF FlushOK
<1>6. s.entry.id < line.id
    <2>1. CASE s.entry.ts = 0
        BY <1>2, <1>3, <2>1
    <2>2. CASE s.entry.ts # 0
        <3>1. PICK p \in 1 .. i - 1 : lines[p].id = s.entry.id
            BY <2>2 DEF ScanOK, ScanOpen, UnderWay
        <3>2. p \in DOMAIN lines /\ p < i
            BY <1>1, <1>2
        <3> QED
            BY <1>2, <3>1, <3>2 DEF Ascending
    <2> QED
        BY <2>1, <2>2
<1>7. ASSUME NEW m \in DOMAIN flushed
      PROVE  flushed[m].id < line.id
    <2>1. flushed[m].ts # 0 => flushed[m].id <= s.entry.id
        BY <1>4 DEF FlushOK
    <2>2. flushed[m].id \in Nat /\ (flushed[m].ts = 0 <=> flushed[m].id = 0)
        BY <1>5
    <2> HIDE DEF line, flushed
    <2>3. CASE flushed[m].ts = 0
        BY ONLY <1>2, <2>2, <2>3
    <2>4. CASE flushed[m].ts # 0
        BY ONLY <1>2, <1>3, <1>6, <2>1, <2>2, <2>4
    <2> QED
        BY ONLY <2>3, <2>4
<1>8. ASSUME NEW e \in EntriesOf(lines), e.hit, cursor < e.ts
      PROVE  (\E m \in DOMAIN flushed : flushed[m].id = e.id) \/ line.id <= e.id
    <2>1. PICK q \in DOMAIN lines : lines[q].ts # 0 /\ e = EntryAt(lines, q)
        BY DEF EntriesOf, Heads
    <2>2. e.id = lines[q].id
        BY <2>1 DEF EntryAt
    <2>3. q \in 1 .. i - 1 \/ q = i \/ i < q
        BY <1>1, <1>2
    <2>4. CASE q \in 1 .. i - 1
        BY <1>4, <1>8, <2>1, <2>4 DEF FlushOK
    <2>5. CASE q = i \/ i < q
        BY <1>1, <1>2, <2>1, <2>2, <2>5 DEF Ascending
    <2> QED
        BY <2>3, <2>4, <2>5
<1>9. next \in Scans
    BY <1>2, <1>3, ScannedType
<1> HIDE DEF flushed
<1>10. CASE Len(flushed) >= limit
    <2>1. next = [found |-> flushed, entry |-> NoEntry, hasMore |-> TRUE, done |-> TRUE]
        BY <1>3, <1>5, <1>10 DEF Scanned, flushed
    <2>2. Len(flushed) <= limit /\ FileSound(flushed, EntriesOf(lines), cursor)
        BY <1>4 DEF FlushOK
    <2>3. FileComplete(flushed, TRUE, EntriesOf(lines), cursor)
        <3>1. ASSUME NEW e \in EntriesOf(lines), line.id <= e.id
              PROVE  \A m \in DOMAIN flushed : flushed[m].id < e.id
            <4>1. e.ts \in Nat /\ e.id \in Nat
                BY <1>1 DEF EntriesOf, Heads, EntryAt
            <4> QED
                BY <1>2, <1>5, <1>7, <3>1, <4>1
        <3> QED
            BY <1>8, <3>1 DEF FileComplete
    <2> HIDE DEF next
    <2>4. next.found = flushed /\ next.hasMore = TRUE /\ next.done = TRUE
        BY <2>1
    <2>5. Len(flushed) = limit
        <3>1. Len(flushed) \in Nat /\ Len(flushed) >= limit /\ Len(flushed) <= limit
            BY <1>5, <1>10, <2>2
        <3> QED
            BY <3>1
    <2>6. ScanClosed(next, lines, cursor, limit)
        BY <2>3, <2>4, <2>5 DEF ScanClosed
    <2>7. ScanOK(next, lines, i, cursor, limit)
        BY <1>9, <2>2, <2>4, <2>6 DEF ScanOK
    <2> QED
        BY <2>7 DEF next
<1>11. CASE Len(flushed) < limit
    <2>1. next = [s EXCEPT !.found = flushed, !.entry = line]
        BY <1>3, <1>5, <1>11 DEF Scanned, flushed
    <2> HIDE DEF next, line
    <2>2. next.found = flushed /\ next.entry = line /\ next.done = FALSE
        BY <1>3, <2>1 DEF Scans
    <2>3. UnderWay(line, lines, i)
        <3>1. i \in 1 .. i /\ Bare(lines, i + 1, i) /\ \A j \in i .. i : j = i
            BY <1>2 DEF Bare
        <3>2. line.hit <=> \E j \in i .. i : lines[j].hit
            BY <1>2, <3>1 DEF line
        <3> QED
            BY <3>1, <3>2 DEF UnderWay, line
    <2>4. \A e \in EntriesOf(lines) : e.hit /\ cursor < e.ts /\ e.id < line.id
             => \E m \in DOMAIN flushed : flushed[m].id = e.id
        <3>1. \A e \in EntriesOf(lines) : e.ts \in Nat /\ e.id \in Nat
            BY <1>1 DEF EntriesOf, Heads, EntryAt
        <3> QED
            BY <1>2, <1>8, <3>1
    <2>5. Len(flushed) <= limit /\ FileSound(flushed, EntriesOf(lines), cursor)
        BY <1>4 DEF FlushOK
    <2>6. ScanOpen(next, lines, i, cursor, limit)
        BY <1>7, <1>11, <2>2, <2>3, <2>4 DEF ScanOpen
    <2>7. ScanOK(next, lines, i, cursor, limit)
        BY <1>9, <2>2, <2>5, <2>6 DEF ScanOK
    <2> QED
        BY <2>7 DEF next, line
<1> QED
    BY <1>5, <1>10, <1>11

\* It continues the entry under way.
LEMMA ScanContinued ==
    ASSUME NEW lines \in Seq(LogLines), NEW cursor \in Times,
           NEW limit \in Nat \ {0}, NEW i \in 1 .. Len(lines), NEW s,
           ScanOK(s, lines, i - 1, cursor, limit), ~s.done,
           lines[i].ts = 0, s.entry.ts # 0
    PROVE  ScanOK(Scanned(s, lines[i], i = Len(lines), cursor, limit), lines, i, cursor, limit)
<1> DEFINE line == lines[i]
           next == Scanned(s, line, i = Len(lines), cursor, limit)
<1>1. /\ Len(lines) \in Nat /\ i \in Nat /\ line \in LogLines
      /\ s \in Scans /\ s.entry \in LogLines /\ s.done \in BOOLEAN
    BY LineTypes DEF ScanOK, Scans
<1>2. next \in Scans
    BY <1>1, ScannedType
<1>3. next = [s EXCEPT !.entry.hit = @ \/ line.hit]
    BY DEF Scanned
<1> HIDE DEF next, line
<1>4. /\ next.found = s.found /\ next.done = s.done
      /\ next.entry.ts = s.entry.ts /\ next.entry.id = s.entry.id
      /\ next.entry.hit <=> s.entry.hit \/ line.hit
    BY <1>1, <1>3 DEF Scans, LogLines, Lines
<1>5. PICK p \in 1 .. i - 1 : /\ lines[p].ts = s.entry.ts /\ lines[p].id = s.entry.id
                              /\ Bare(lines, p + 1, i - 1)
                              /\ s.entry.hit <=> \E j \in p .. i - 1 : lines[j].hit
    BY DEF ScanOK, ScanOpen, UnderWay
<1>6. p \in 1 .. i /\ \A k \in p .. i : k \in p .. i - 1 \/ k = i
    BY <1>1
<1>7. Bare(lines, p + 1, i)
    <2>1. \A k \in p + 1 .. i : k \in p + 1 .. i - 1 \/ k = i
        BY <1>1
    <2> QED
        BY <1>5, <2>1 DEF Bare
<1>8. next.entry.hit <=> \E j \in p .. i : lines[j].hit
    <2>1. i \in p .. i /\ \A j \in p .. i - 1 : j \in p .. i
        BY <1>1
    <2> QED
        BY <1>4, <1>5, <1>6, <2>1 DEF line
<1>9. UnderWay(next.entry, lines, i)
    BY <1>4, <1>5, <1>6, <1>7, <1>8 DEF UnderWay
<1>10. ScanOpen(next, lines, i, cursor, limit)
    <2>1. ScanOpen(s, lines, i - 1, cursor, limit)
        BY DEF ScanOK
    <2> QED
        BY <1>4, <1>9, <2>1 DEF ScanOpen
<1>11. ScanOK(next, lines, i, cursor, limit)
    BY <1>2, <1>4, <1>10 DEF ScanOK
<1> QED
    BY <1>11 DEF next, line

\* It stands alone.
LEMMA ScanAlone ==
    ASSUME NEW lines \in Seq(LogLines), NEW cursor \in Times,
           NEW limit \in Nat \ {0}, NEW i \in 1 .. Len(lines), NEW s,
           ScanOK(s, lines, i - 1, cursor, limit), ~s.done,
           lines[i].ts = 0, s.entry.ts = 0
    PROVE  ScanOK(Scanned(s, lines[i], i = Len(lines), cursor, limit), lines, i, cursor, limit)
<1> DEFINE line == lines[i]
           E == EntriesOf(lines)
           appended == Flushed(s.found, line, cursor)
           full == Len(appended) >= limit
           more == full /\ ~(i = Len(lines))
           next == Scanned(s, line, i = Len(lines), cursor, limit)
<1>1. /\ Len(lines) \in Nat /\ i \in Nat /\ line \in LogLines
      /\ DOMAIN lines = 1 .. Len(lines)
      /\ s \in Scans /\ s.entry \in LogLines /\ s.done \in BOOLEAN
      /\ s.found \in Seq(LogLines) /\ s.entry.id = 0 /\ line.id = 0
    BY LineTypes DEF ScanOK, Scans
<1>2. next \in Scans
    BY <1>1, ScannedType
<1>3. next = [s EXCEPT !.found = appended, !.hasMore = more, !.done = full]
    BY DEF Scanned
<1>4. full \in BOOLEAN /\ more \in BOOLEAN
    OBVIOUS
<1>5. /\ Len(s.found) < limit /\ Len(s.found) \in Nat
      /\ FileSound(s.found, E, cursor)
      /\ \A m \in DOMAIN s.found : s.found[m].ts = 0 /\ s.found[m].id = 0
    <2>1. \A m \in DOMAIN s.found : /\ s.found[m].ts \in Nat /\ s.found[m].id \in Nat
                                    /\ s.found[m].ts = 0 <=> s.found[m].id = 0
        BY <1>1, LineTypes
    <2>2. Len(s.found) \in Nat
        BY <1>1, LineTypes
    <2> QED
        BY <1>1, <2>1, <2>2 DEF ScanOK, ScanOpen
<1>6. UnderWay(s.entry, lines, i)
    <2>1. Bare(lines, 1, i - 1) /\ s.entry.hit = FALSE
        BY DEF ScanOK, ScanOpen, UnderWay
    <2>2. \A k \in 1 .. i : k \in 1 .. i - 1 \/ k = i
        BY <1>1
    <2> QED
        BY <2>1, <2>2 DEF UnderWay, Bare
<1>7. /\ appended \in Seq(LogLines) /\ Len(appended) <= limit /\ Len(appended) \in Nat
      /\ FileSound(appended, E, cursor)
      /\ \A m \in DOMAIN appended : appended[m].ts = 0 /\ appended[m].id = 0
    <2>1. CASE Accepts(line, cursor)
        <3> DEFINE found == s.found
        <3>1. appended = Append(found, line)
            BY <2>1 DEF Flushed
        <3> HIDE DEF E, line, appended, full, more, next
        <3>2. line.ts = 0 /\ line.id = 0
            BY <1>1 DEF line
        <3>3. found \in Seq(LogLines) /\ line \in LogLines /\ FileSound(found, E, cursor)
            BY <1>1, <1>5
        <3>4. /\ Len(found) < limit /\ Len(found) \in Nat
              /\ \A m \in DOMAIN found : found[m].ts = 0 /\ found[m].id = 0
            BY <1>1, <1>5
        <3> HIDE DEF found
        <3>5. Longer(appended, found, line) /\ FileSound(appended, E, cursor)
            BY <3>1, <3>2, <3>3, SoundAppend
        <3> QED
            BY <3>2, <3>4, <3>5 DEF Longer
    <2>2. CASE ~Accepts(line, cursor)
        <3>1. appended = s.found
            BY <2>2 DEF Flushed
        <3> QED
            BY <1>1, <1>5, <3>1
    <2> QED
        BY <2>1, <2>2
<1>8. \A e \in E : e.ts \in Nat /\ e.id \in Nat /\ e.ts # 0 /\ e.id # 0
    BY LineTypes DEF EntriesOf, Heads, EntryAt
<1>9. i = Len(lines) => E = {}
    <2>1. Bare(lines, 1, i)
        BY <1>6 DEF UnderWay
    <2> QED
        BY <1>1, <2>1 DEF EntriesOf, Heads, Bare
<1> HIDE DEF appended, full, more, next, E
<1>10. next.found = appended /\ next.hasMore = more /\ next.done = full /\ next.entry = s.entry
    BY <1>1, <1>3 DEF Scans
<1>11. CASE full
    <2>1. Len(appended) = limit
        BY <1>7, <1>11 DEF full
    <2>2. FileComplete(appended, more, E, cursor)
        <3>1. CASE i = Len(lines)
            BY <1>9, <3>1 DEF FileComplete
        <3>2. CASE i # Len(lines)
            <4>1. more
                BY <1>11, <3>2 DEF more
            <4>2. \A e \in E, m \in DOMAIN appended : appended[m].id < e.id
                BY <1>7, <1>8
            <4> QED
                BY <4>1, <4>2 DEF FileComplete
        <3> QED
            BY <3>1, <3>2
    <2>3. ScanClosed(next, lines, cursor, limit)
        BY <1>10, <2>1, <2>2 DEF ScanClosed, E
    <2>4. ScanOK(next, lines, i, cursor, limit)
        BY <1>2, <1>7, <1>10, <1>11, <2>3 DEF ScanOK, E
    <2> QED
        BY <2>4 DEF next, line
<1>12. CASE ~full
    <2>1. Len(appended) < limit
        BY <1>7, <1>12 DEF full
    <2>2. \A e \in E : ~(e.id < 0)
        BY <1>8
    <2>3. ScanOpen(next, lines, i, cursor, limit)
        BY <1>1, <1>6, <1>7, <1>10, <2>1, <2>2 DEF ScanOpen, E
    <2>4. ScanOK(next, lines, i, cursor, limit)
        BY <1>2, <1>7, <1>10, <1>12, <2>3 DEF ScanOK, E
    <2> QED
        BY <2>4 DEF next, line
<1> QED
    BY <1>11, <1>12

LEMMA ScanIsOK ==
    ASSUME NEW lines \in Seq(LogLines), Ascending(lines), NEW cursor \in Times,
           NEW limit \in Nat \ {0}
    PROVE  ScanOK(Scan(lines, cursor, limit), lines, Len(lines), cursor, limit)
<1> DEFINE N == Len(lines)
<1>1. N \in Nat /\ N \in 0 .. N
    BY LineTypes
<1>2. PICK g : IsScan(g, lines, cursor, limit)
    BY ScanRuns
<1> DEFINE S == {i \in 0 .. N : ScanOK(g[i], lines, i, cursor, limit)}
<1>3. 0 \in S
    BY <1>1, <1>2, ScanStarts DEF IsScan
<1>4. ASSUME NEW k \in S, k < N
      PROVE  k + 1 \in S
    <2> DEFINE i == k + 1
               s == g[k]
    <2>1. i \in 1 .. N /\ i \in 0 .. N /\ i - 1 = k
        BY <1>1, <1>4
    <2>2. ScanOK(s, lines, i - 1, cursor, limit)
        BY <2>1
    <2>3. g[i] = Scanned(s, lines[i], i = N, cursor, limit)
        BY <1>2, <2>1 DEF IsScan
    <2>4. lines[i] \in LogLines
        BY <2>1, LineTypes
    <2> HIDE DEF s, i
    <2>5. CASE s.done
        <3>1. Scanned(s, lines[i], i = N, cursor, limit) = s
            BY <2>5 DEF Scanned
        <3>2. ScanOK(s, lines, i, cursor, limit)
            BY <2>2, <2>5 DEF ScanOK
        <3> QED
            BY <2>1, <2>3, <3>1, <3>2 DEF i
    <2>6. CASE ~s.done /\ lines[i].ts # 0
        BY <2>1, <2>2, <2>3, <2>6, ScanTimed DEF i
    <2>7. CASE ~s.done /\ lines[i].ts = 0 /\ s.entry.ts # 0
        BY <2>1, <2>2, <2>3, <2>7, ScanContinued DEF i
    <2>8. CASE ~s.done /\ lines[i].ts = 0 /\ s.entry.ts = 0
        BY <2>1, <2>2, <2>3, <2>8, ScanAlone DEF i
    <2> QED
        BY <2>5, <2>6, <2>7, <2>8
<1> HIDE DEF S
<1>5. S \in SUBSET (0 .. N)
    BY DEF S
<1>6. \A i \in 0 .. N : i \in S
    BY <1>1, <1>3, <1>4, <1>5, Rounds
<1>7. ScanOK(g[N], lines, N, cursor, limit)
    BY <1>1, <1>6 DEF S
<1> QED
    BY <1>2, <1>7 DEF IsScan

\* What searchFile returns.
LEMMA FileIsSearched ==
    ASSUME NEW lines \in Seq(LogLines), Ascending(lines), NEW cursor \in Times,
           NEW limit \in Nat \ {0}
    PROVE  LET r == SearchFile(lines, cursor, limit)
           IN  /\ FileResultFor(r, limit, EntriesOf(lines), cursor)
               /\ FileComplete(r.lines, r.hasMore, EntriesOf(lines), cursor)
<1> DEFINE E == EntriesOf(lines)
           s == Scan(lines, cursor, limit)
           found == Flushed(s.found, s.entry, cursor)
           r == SearchFile(lines, cursor, limit)
<1>1. ScanOK(s, lines, Len(lines), cursor, limit)
    BY ScanIsOK
<1>2. Len(lines) \in 0 .. Len(lines) /\ DOMAIN lines = 1 .. Len(lines)
    BY LineTypes
<1> HIDE DEF s
<1>3. CASE s.done
    <2>1. r = [lines |-> s.found, hasMore |-> s.hasMore]
        BY <1>3 DEF SearchFile, s
    <2> HIDE DEF r
    <2>2. /\ r.lines = s.found /\ r.hasMore = s.hasMore
          /\ s \in Scans /\ FileSound(s.found, E, cursor) /\ Len(s.found) <= limit
          /\ ScanClosed(s, lines, cursor, limit)
        BY <1>1, <1>3, <2>1 DEF ScanOK
    <2>3. r \in Results
        BY <2>1, <2>2 DEF Scans, Results
    <2>4. Len(s.found) = limit /\ FileComplete(s.found, s.hasMore, E, cursor)
        BY <2>2 DEF ScanClosed
    <2>5. FileResultFor(r, limit, E, cursor) /\ FileComplete(r.lines, r.hasMore, E, cursor)
        BY <2>2, <2>3, <2>4 DEF FileResultFor
    <2> QED
        BY <2>5 DEF r
<1>4. CASE ~s.done
    <2>1. FlushOK(found, s, lines, Len(lines), cursor, limit)
        BY <1>1, <1>2, <1>4, FlushIsOK DEF Ends
    <2> HIDE DEF found
    <2>2. /\ found \in Seq(LogLines) /\ Len(found) <= limit
          /\ FileSound(found, E, cursor)
        BY <2>1 DEF FlushOK
    <2>3. \A more : FileComplete(found, more, E, cursor)
        <3>1. ASSUME NEW e \in E, e.hit, cursor < e.ts
              PROVE  \E m \in DOMAIN found : found[m].id = e.id
            <4>1. PICK q \in DOMAIN lines : lines[q].ts # 0 /\ e = EntryAt(lines, q)
                BY DEF EntriesOf, Heads
            <4> QED
                BY <1>2, <2>1, <3>1, <4>1 DEF FlushOK
        <3> QED
            BY <3>1 DEF FileComplete
    <2>4. Len(found) \in Nat
        BY <2>2, LineTypes
    <2>5. CASE Len(found) >= limit
        <3>1. Len(found) = limit
            BY <2>2, <2>4, <2>5
        <3>2. SubSeq(found, 1, limit) = found
            <4> DEFINE cut == SubSeq(found, 1, limit)
            <4>1. /\ cut \in Seq(LogLines) /\ Len(cut) = limit
                  /\ \A m \in 1 .. limit : cut[m] = found[m]
                BY <2>2, <3>1, SubSeqProperties
            <4> HIDE DEF cut
            <4>2. cut = found
                BY <2>2, <3>1, <4>1, SeqEqual
            <4> QED
                BY <4>2 DEF cut
        <3>3. r = [lines |-> found, hasMore |-> TRUE]
            BY <1>4, <2>5, <3>2 DEF SearchFile, s, found
        <3> HIDE DEF r
        <3>4. r.lines = found /\ r.hasMore = TRUE /\ r \in Results
            BY <2>2, <3>3 DEF Results
        <3>5. FileResultFor(r, limit, E, cursor) /\ FileComplete(r.lines, r.hasMore, E, cursor)
            BY <2>2, <2>3, <3>1, <3>4 DEF FileResultFor
        <3> QED
            BY <3>5 DEF r
    <2>6. CASE ~(Len(found) >= limit)
        <3>1. r = [lines |-> found, hasMore |-> FALSE]
            BY <1>4, <2>6 DEF SearchFile, s, found
        <3> HIDE DEF r
        <3>2. r.lines = found /\ r.hasMore = FALSE /\ r \in Results
            BY <2>2, <3>1 DEF Results
        <3>3. FileResultFor(r, limit, E, cursor) /\ FileComplete(r.lines, r.hasMore, E, cursor)
            BY <2>2, <2>3, <3>2 DEF FileResultFor
        <3> QED
            BY <3>3 DEF r
    <2> QED
        BY <2>5, <2>6
<1> QED
    BY <1>3, <1>4
-----------------------------------------------------------------------------
(* The search of a node.                                                    *)

\* What is found of the entries of several files exists, each entry once ...
SoundFor(found, entries, cursor) ==
    \A i \in DOMAIN found : found[i].ts # 0 =>
        /\ cursor < found[i].ts
        /\ [id |-> found[i].id, ts |-> found[i].ts, hit |-> TRUE] \in entries
        /\ \A j \in 1 .. i - 1 : found[j].id # found[i].id

\* ... and an entry that is not found is no older than all of it, and on a later
\* page, unless a later one was read before it.
CompleteFor(found, hasMore, entries, cursor, overtaken) ==
    \A e \in entries : e.hit /\ cursor < e.ts =>
        \/ \E i \in DOMAIN found : found[i].id = e.id /\ found[i].ts = e.ts
        \/ /\ hasMore
           /\ e.id \in overtaken \/ \A i \in DOMAIN found : found[i].ts <= e.ts

\* What reading files up to a limit should give.
ResultFor(r, limit, entries, cursor) ==
    /\ r \in Results
    /\ Len(r.lines) <= limit
    /\ r.hasMore => Len(r.lines) = limit
    /\ SoundFor(r.lines, entries, cursor)

\* In a file, what is written earlier and found has a later timestamp only if it
\* overtakes.
LEMMA FileIsRead ==
    ASSUME NEW lines \in Seq(LogLines), Ascending(lines), NEW cursor \in Times,
           NEW limit \in Nat \ {0}, NEW overtaken, OvertakenIn(lines) \subseteq overtaken
    PROVE  LET r == SearchFile(lines, cursor, limit)
           IN  /\ ResultFor(r, limit, EntriesOf(lines), cursor)
               /\ CompleteFor(r.lines, r.hasMore, EntriesOf(lines), cursor, overtaken)
<1> DEFINE E == EntriesOf(lines)
           r == SearchFile(lines, cursor, limit)
           found == r.lines
<1>1. /\ FileResultFor(r, limit, E, cursor)
      /\ FileComplete(found, r.hasMore, E, cursor)
    BY FileIsSearched
<1> HIDE DEF r
<1>2. /\ found \in Seq(LogLines) /\ DOMAIN found = 1 .. Len(found) /\ Len(found) \in Nat
      /\ \A i \in DOMAIN found : /\ found[i].id \in Nat /\ found[i].ts \in Nat
                                 /\ found[i].ts = 0 <=> found[i].id = 0
      /\ FileSound(found, E, cursor)
    BY <1>1, LineTypes DEF FileResultFor, Results
<1>3. /\ DOMAIN lines = 1 .. Len(lines) /\ Len(lines) \in Nat
      /\ \A q \in DOMAIN lines : lines[q].id \in Nat /\ lines[q].ts \in Nat
    BY LineTypes
<1> HIDE DEF E, found
<1>4. SoundFor(found, E, cursor)
    <2>1. ASSUME NEW i \in DOMAIN found, NEW j \in 1 .. i - 1, found[j].id < found[i].id
          PROVE  found[j].id # found[i].id
        <3>1. j \in DOMAIN found
            BY <1>2
        <3> QED
            BY <1>2, <2>1, <3>1
    <2> QED
        BY <1>2, <2>1 DEF FileSound, SoundFor
<1>5. ASSUME NEW e \in E, NEW i \in DOMAIN found, found[i].id < e.id, e.id \notin overtaken
      PROVE  found[i].ts <= e.ts
    <2>1. PICK q \in Heads(lines) : e = EntryAt(lines, q)
        BY DEF E, EntriesOf
    <2>2. q \in DOMAIN lines /\ e.id = lines[q].id /\ e.ts = lines[q].ts
        BY <2>1 DEF EntryAt, Heads
    <2>3. CASE found[i].ts = 0
        BY <1>3, <2>2, <2>3
    <2>4. CASE found[i].ts # 0
        <3>1. [id |-> found[i].id, ts |-> found[i].ts, hit |-> TRUE] \in E
            BY <1>2, <2>4 DEF FileSound
        <3>2. PICK p \in Heads(lines) :
                  [id |-> found[i].id, ts |-> found[i].ts, hit |-> TRUE] = EntryAt(lines, p)
            BY <3>1 DEF E, EntriesOf
        <3>3. /\ p \in DOMAIN lines /\ lines[p].id = found[i].id
              /\ EntryAt(lines, p).ts = found[i].ts /\ EntryAt(lines, p).hit = TRUE
            BY <3>2 DEF EntryAt, Heads
        <3>4. lines[p].id < lines[q].id
            BY <1>5, <2>2, <3>3
        <3>5. p < q
            <4>1. q < p => lines[q].id < lines[p].id
                BY <2>2, <3>2, <3>3 DEF Ascending, Heads
            <4> QED
                BY <1>3, <2>2, <3>3, <3>4, <4>1
        <3>6. Overtakes(EntryAt(lines, p), lines[q]) => lines[q].id \in OvertakenIn(lines)
            BY <2>1, <3>2, <3>5 DEF OvertakenIn
        <3>7. ~Overtakes(EntryAt(lines, p), lines[q])
            BY <1>5, <2>2, <3>6
        <3>8. ~(found[i].ts > lines[q].ts)
            BY <3>3, <3>7 DEF Overtakes
        <3> QED
            BY <1>2, <1>3, <2>2, <3>8
    <2> QED
        BY <2>3, <2>4
<1>6. ASSUME NEW e \in E, NEW i \in DOMAIN found, found[i].id = e.id
      PROVE  found[i].ts = e.ts
    <2>1. PICK q \in Heads(lines) : e = EntryAt(lines, q)
        BY DEF E, EntriesOf
    <2>2. q \in DOMAIN lines /\ e.id = lines[q].id /\ e.ts = lines[q].ts /\ lines[q].ts # 0
        BY <2>1 DEF EntryAt, Heads
    <2>3. found[i].ts # 0
        <3>1. lines[q].id # 0
            BY <2>2, LineTypes
        <3> QED
            BY <1>2, <1>6, <2>2, <3>1
    <2>4. [id |-> found[i].id, ts |-> found[i].ts, hit |-> TRUE] \in E
        BY <1>2, <2>3 DEF FileSound
    <2>5. PICK p \in Heads(lines) :
              [id |-> found[i].id, ts |-> found[i].ts, hit |-> TRUE] = EntryAt(lines, p)
        BY <2>4 DEF E, EntriesOf
    <2>6. p \in DOMAIN lines /\ lines[p].id = lines[q].id /\ lines[p].ts = found[i].ts
        BY <1>6, <2>2, <2>5 DEF EntryAt, Heads
    <2>7. ~(p < q) /\ ~(q < p)
        BY <1>3, <2>1, <2>2, <2>5, <2>6 DEF Ascending, Heads
    <2>8. p = q
        BY <1>3, <2>2, <2>6, <2>7
    <2> QED
        BY <2>2, <2>6, <2>8
<1>7. CompleteFor(found, r.hasMore, E, cursor, overtaken)
    BY <1>1, <1>5, <1>6 DEF FileComplete, CompleteFor
<1>8. ResultFor(r, limit, E, cursor)
    BY <1>1, <1>4 DEF FileResultFor, ResultFor, found
<1> QED
    BY <1>7, <1>8 DEF r, E, found

\* Entries that are not the same.
Disjoint(D, E) == \A d \in D, e \in E : d.id # e.id

LEMMA SoundConcat ==
    ASSUME NEW a \in Seq(LogLines), NEW b \in Seq(LogLines), NEW D, NEW E, NEW cursor \in Times,
           SoundFor(a, D, cursor), SoundFor(b, E, cursor),
           Disjoint(D, E)
    PROVE  /\ SoundFor(a \o b, D \cup E, cursor)
           /\ \A m \in DOMAIN a : \E i \in DOMAIN (a \o b) : (a \o b)[i] = a[m]
           /\ \A m \in DOMAIN b : \E i \in DOMAIN (a \o b) : (a \o b)[i] = b[m]
           /\ \A i \in DOMAIN (a \o b) : \/ \E m \in DOMAIN a : (a \o b)[i] = a[m]
                                         \/ \E m \in DOMAIN b : (a \o b)[i] = b[m]
<1> DEFINE c == a \o b
           n == Len(a)
<1>1. /\ n \in Nat /\ DOMAIN a = 1 .. n /\ \A i \in 1 .. n : a[i] \in LogLines
      /\ Len(b) \in Nat /\ DOMAIN b = 1 .. Len(b) /\ \A i \in 1 .. Len(b) : b[i] \in LogLines
    BY LineTypes
<1>2. /\ c \in Seq(LogLines) /\ Len(c) = n + Len(b)
      /\ \A i \in 1 .. n + Len(b) : c[i] = IF i <= n THEN a[i] ELSE b[i - n]
    BY ConcatProperties
<1>3. DOMAIN c = 1 .. n + Len(b)
    BY <1>2, LineTypes
<1> HIDE DEF c, n
<1>4. \A i \in 1 .. n : i \in DOMAIN c /\ c[i] = a[i]
    BY <1>1, <1>2, <1>3
<1>5. \A i \in DOMAIN b : i + n \in DOMAIN c /\ c[i + n] = b[i]
    <2>1. ASSUME NEW i \in DOMAIN b
          PROVE  i + n \in DOMAIN c /\ ~(i + n <= n) /\ (i + n) - n = i
        BY <1>1, <1>3
    <2> QED
        BY <1>2, <1>3, <2>1
<1>6. \A i \in DOMAIN c : i \in 1 .. n \/ (i - n \in DOMAIN b /\ i \notin 1 .. n)
    BY <1>1, <1>3
<1>7. \A i \in DOMAIN c : i \notin 1 .. n => c[i] = b[i - n]
    BY <1>1, <1>2, <1>3
<1>8. ASSUME NEW i \in DOMAIN c, c[i].ts # 0
      PROVE  /\ cursor < c[i].ts
             /\ [id |-> c[i].id, ts |-> c[i].ts, hit |-> TRUE] \in D \cup E
             /\ \A j \in 1 .. i - 1 : c[j].id # c[i].id
    <2>1. CASE i \in 1 .. n
        <3>1. \A j \in 1 .. i - 1 : j \in 1 .. n
            BY <1>1, <2>1
        <3> QED
            BY <1>1, <1>4, <1>8, <2>1, <3>1 DEF SoundFor
    <2>2. CASE i \notin 1 .. n
        <3> DEFINE k == i - n
        <3>1. k \in DOMAIN b /\ c[i] = b[k] /\ k \in 1 .. Len(b)
            BY <1>1, <1>6, <1>7, <2>2
        <3>2. /\ cursor < b[k].ts
              /\ [id |-> b[k].id, ts |-> b[k].ts, hit |-> TRUE] \in E
              /\ \A j \in 1 .. k - 1 : b[j].id # b[k].id
            BY <1>8, <3>1 DEF SoundFor
        <3>3. ASSUME NEW j \in 1 .. n
              PROVE  a[j].id # b[k].id
            <4>1. a[j] \in LogLines /\ b[k] \in LogLines
                BY <1>1, <3>1
            <4>2. CASE a[j].ts = 0
                BY <1>8, <3>1, <4>1, <4>2, LineTypes
            <4>3. CASE a[j].ts # 0
                <5>1. [id |-> a[j].id, ts |-> a[j].ts, hit |-> TRUE] \in D
                    BY <1>1, <4>3 DEF SoundFor
                <5> QED
                    BY <3>2, <5>1 DEF Disjoint
            <4> QED
                BY <4>2, <4>3
        <3>4. \A j \in 1 .. i - 1 :
                 j \in 1 .. n \/ (j \in DOMAIN c /\ j \notin 1 .. n /\ j - n \in 1 .. k - 1)
            BY <1>1, <1>3, <2>2
        <3> QED
            BY <1>4, <1>7, <3>1, <3>2, <3>3, <3>4
    <2> QED
        BY <2>1, <2>2
<1>9. \A m \in DOMAIN a : \E i \in DOMAIN c : c[i] = a[m]
    BY <1>1, <1>4
<1>10. \A m \in DOMAIN b : \E i \in DOMAIN c : c[i] = b[m]
    BY <1>5
<1>11. \A i \in DOMAIN c : (\E m \in DOMAIN a : c[i] = a[m]) \/ \E m \in DOMAIN b : c[i] = b[m]
    BY <1>1, <1>4, <1>6, <1>7
<1> QED
    BY <1>8, <1>9, <1>10, <1>11 DEF SoundFor, c

\* A file with other entries, read after these.
FileAfter(lines, D, overtaken) ==
    /\ OvertakenIn(lines) \subseteq overtaken
    /\ Disjoint(D, EntriesOf(lines))
    /\ \A d \in D, e \in EntriesOf(lines) : Overtakes(d, e) => e.id \in overtaken

\* What Search does with the next file.
LEMMA ReadIsOK ==
    ASSUME NEW s, NEW f, f.lines \in Seq(LogLines), Ascending(f.lines),
           NEW cursor \in Times, NEW unreadable, NEW D,
           NEW overtaken, FileAfter(f.lines, D, overtaken),
           ResultFor(s, Limit, D, cursor)
    PROVE  LET r == Read(s, f, cursor, unreadable)
               E == D \cup EntriesOf(f.lines)
           IN  /\ ResultFor(r, Limit, E, cursor)
               /\ f \notin unreadable /\ CompleteFor(s.lines, s.hasMore, D, cursor, overtaken)
                     => CompleteFor(r.lines, r.hasMore, E, cursor, overtaken)
<1> DEFINE E == EntriesOf(f.lines)
           r == Read(s, f, cursor, unreadable)
           a == s.lines
<1>1. /\ s \in Results /\ a \in Seq(LogLines) /\ s.hasMore \in BOOLEAN
      /\ Len(a) \in Nat /\ DOMAIN a = 1 .. Len(a)
      /\ \A i \in DOMAIN a : a[i] \in LogLines /\ a[i].ts \in Nat
      /\ Len(a) <= Limit /\ Limit \in Nat \ {0}
      /\ SoundFor(a, D, cursor)
    BY LineTypes, LimitAssumption DEF ResultFor, Results
<1>2. s.hasMore => Len(a) = Limit
    BY DEF ResultFor
<1>3. \A e \in E : e.ts \in Nat
    BY LineTypes DEF EntriesOf, Heads, EntryAt
<1>4. ASSUME NEW e \in E, e.id \notin overtaken, NEW i \in DOMAIN a
      PROVE  a[i].ts <= e.ts
    <2>1. CASE a[i].ts = 0
        BY <1>3, <1>4, <2>1, LineTypes
    <2>2. CASE a[i].ts # 0
        <3>1. [id |-> a[i].id, ts |-> a[i].ts, hit |-> TRUE] \in D
            BY <1>1, <2>2 DEF SoundFor
        <3>2. ~(a[i].ts > e.ts)
            BY <1>4, <3>1 DEF Overtakes, FileAfter, E
        <3> QED
            BY <1>1, <1>3, <3>2
    <2> QED
        BY <2>1, <2>2
<1>5. SoundFor(a, D \cup E, cursor)
    BY <1>1 DEF SoundFor
<1> DEFINE n == Len(a)
<1>6. n \in Nat /\ n <= Limit /\ Limit \in Nat /\ Limit # 0 /\ n = Len(a)
    BY <1>1
<1> HIDE DEF E, a, n
<1>7. CASE Len(a) >= Limit
    <2>1. r = [s EXCEPT !.hasMore = TRUE]
        BY <1>7 DEF Read, a
    <2> HIDE DEF r
    <2>2. r.lines = a /\ r.hasMore = TRUE /\ r \in Results
        BY <1>1, <2>1 DEF Results, a
    <2>3. Len(a) = Limit
        BY <1>7, <1>6
    <2>4. ResultFor(r, Limit, D \cup E, cursor)
        BY <1>1, <1>5, <2>2, <2>3 DEF ResultFor
    <2>5. CompleteFor(a, s.hasMore, D, cursor, overtaken) => CompleteFor(a, TRUE, D \cup E, cursor, overtaken)
        BY <1>4 DEF CompleteFor
    <2> QED
        BY <2>2, <2>4, <2>5 DEF r, a, E
<1>8. CASE Len(a) < Limit /\ f \in unreadable
    <2>1. r = s
        BY <1>1, <1>8 DEF Read, a
    <2>2. ResultFor(s, Limit, D \cup E, cursor)
        BY <1>1, <1>2, <1>5 DEF ResultFor, a
    <2> QED
        BY <1>8, <2>1, <2>2 DEF r, E
<1>9. CASE Len(a) < Limit /\ f \notin unreadable
    <2> DEFINE left == Limit - Len(a)
               t == SearchFile(f.lines, cursor, left)
               b == t.lines
               c == a \o b
    <2>1. left \in Nat \ {0}
        BY <1>9, <1>6
    <2> HIDE DEF left
    <2>2. ResultFor(t, left, E, cursor) /\ CompleteFor(b, t.hasMore, E, cursor, overtaken)
        BY <2>1, FileIsRead DEF E, FileAfter
    <2>3. r = [lines |-> c, hasMore |-> s.hasMore \/ t.hasMore]
        BY <1>1, <1>9 DEF Read, a, left
    <2> HIDE DEF t, r
    <2>4. /\ b \in Seq(LogLines) /\ Len(b) \in Nat /\ Len(b) <= left
          /\ t.hasMore \in BOOLEAN /\ (t.hasMore => Len(b) = left)
          /\ SoundFor(b, E, cursor)
        BY <2>2, LineTypes DEF ResultFor, Results
    <2> HIDE DEF b
    <2>5. c \in Seq(LogLines) /\ Len(c) = Len(a) + Len(b)
        BY <1>1, <2>4, ConcatProperties
    <2>6. Disjoint(D, E)
        BY DEF E, FileAfter
    <2>7. /\ SoundFor(c, D \cup E, cursor)
          /\ \A m \in DOMAIN a : \E i \in DOMAIN c : c[i] = a[m]
          /\ \A m \in DOMAIN b : \E i \in DOMAIN c : c[i] = b[m]
          /\ \A i \in DOMAIN c : \/ \E m \in DOMAIN a : c[i] = a[m]
                                \/ \E m \in DOMAIN b : c[i] = b[m]
        BY <1>1, <2>4, <2>6, SoundConcat
    <2> HIDE DEF c
    <2>8. /\ r.lines = c /\ r.hasMore \in BOOLEAN
          /\ r.hasMore <=> s.hasMore \/ t.hasMore
          /\ r \in Results
        BY <1>1, <2>3, <2>4, <2>5 DEF Results
    <2>9. ~s.hasMore
        BY <1>1, <1>2, <1>9
    <2>10. Len(c) <= Limit /\ (r.hasMore => Len(c) = Limit)
        BY <1>1, <2>4, <2>5, <2>8, <2>9 DEF left
    <2>11. ResultFor(r, Limit, D \cup E, cursor)
        BY <2>7, <2>8, <2>10 DEF ResultFor
    <2>12. ASSUME CompleteFor(a, s.hasMore, D, cursor, overtaken),
                  NEW e \in D \cup E, e.hit, cursor < e.ts
           PROVE  \/ \E i \in DOMAIN c : c[i].id = e.id /\ c[i].ts = e.ts
                  \/ /\ r.hasMore
                     /\ e.id \in overtaken \/ \A i \in DOMAIN c : c[i].ts <= e.ts
        <3>1. CASE e \in D
            <4>1. \E m \in DOMAIN a : a[m].id = e.id /\ a[m].ts = e.ts
                BY <2>9, <2>12, <3>1 DEF CompleteFor
            <4> QED
                BY <2>7, <4>1
        <3>2. CASE e \in E
            <4>1. CASE \E m \in DOMAIN b : b[m].id = e.id /\ b[m].ts = e.ts
                BY <2>7, <4>1
            <4>2. CASE /\ t.hasMore
                       /\ e.id \in overtaken \/ \A m \in DOMAIN b : b[m].ts <= e.ts
                BY <1>4, <2>7, <2>8, <2>12, <3>2, <4>2
            <4> QED
                BY <2>2, <2>12, <3>2, <4>1, <4>2 DEF CompleteFor
        <3> QED
            BY <2>12, <3>1, <3>2
    <2>13. CompleteFor(a, s.hasMore, D, cursor, overtaken) => CompleteFor(c, r.hasMore, D \cup E, cursor, overtaken)
        BY <2>12 DEF CompleteFor
    <2> QED
        BY <2>8, <2>11, <2>13 DEF r, a, E
<1> QED
    BY <1>1, <1>7, <1>8, <1>9

LEMMA ReadType ==
    ASSUME NEW s \in Results, NEW f, f.lines \in Seq(LogLines), Ascending(f.lines),
           NEW cursor \in Times, NEW unreadable
    PROVE  Read(s, f, cursor, unreadable) \in Results
<1> DEFINE left == Limit - Len(s.lines)
           t == SearchFile(f.lines, cursor, left)
           n == Len(s.lines)
<1>1. s.lines \in Seq(LogLines) /\ s.hasMore \in BOOLEAN /\ n \in Nat
    BY LineTypes DEF Results
<1>2. Limit \in Nat
    BY LimitAssumption
<1>3. CASE n >= Limit
    BY <1>1, <1>3 DEF Read, Results
<1>4. CASE n < Limit
    <2> HIDE DEF n
    <2>1. Limit - n \in Nat \ {0}
        BY <1>1, <1>2, <1>4
    <2>2. left \in Nat \ {0}
        BY <2>1 DEF n
    <2> HIDE DEF left
    <2>3. FileResultFor(t, left, EntriesOf(f.lines), cursor)
        BY <2>2, FileIsSearched
    <2>4. Read(s, f, cursor, unreadable) =
              IF f \in unreadable THEN s
              ELSE [lines |-> s.lines \o t.lines, hasMore |-> s.hasMore \/ t.hasMore]
        BY <1>1, <1>2, <1>4 DEF Read, left, n
    <2> HIDE DEF t
    <2>5. t.lines \in Seq(LogLines) /\ t.hasMore \in BOOLEAN
        BY <2>3 DEF FileResultFor, Results
    <2>6. s.lines \o t.lines \in Seq(LogLines)
        BY <1>1, <2>5, ConcatProperties
    <2> QED
        BY <1>1, <2>4, <2>5, <2>6 DEF Results
<1> QED
    BY <1>1, <1>2, <1>3, <1>4

\* Files that are read in this order: they share no entry, and what is read after
\* a later timestamp is known.
Readable(list, overtaken) ==
    /\ \A i \in DOMAIN list : /\ list[i].lines \in Seq(LogLines)
                              /\ Ascending(list[i].lines)
                              /\ OvertakenIn(list[i].lines) \subseteq overtaken
    /\ \A i, j \in DOMAIN list : i < j =>
          \A d \in EntriesOf(list[i].lines), e \in EntriesOf(list[j].lines) :
              d.id # e.id /\ (Overtakes(d, e) => e.id \in overtaken)

\* The loop of Search, after each file.
IsSearch(g, list, cursor, unreadable) ==
    /\ g \in [0 .. Len(list) -> Results]
    /\ g[0] = NoPage
    /\ \A i \in 1 .. Len(list) : g[i] = Read(g[i - 1], list[i], cursor, unreadable)

OfNode(r, n) ==
    [lines |-> [i \in DOMAIN r.lines |-> [id |-> r.lines[i].id, ts |-> r.lines[i].ts,
                                          node |-> n]],
     hasMore |-> r.hasMore]

LEMMA NoPageType == NoPage \in Results /\ NoPage \in Pages /\ DOMAIN NoPage.lines = {}
                    /\ Len(NoPage.lines) = 0 /\ NoPage.hasMore = FALSE
<1>1. <<>> \in Seq(LogLines) /\ <<>> \in Seq(PageLines) /\ Len(<<>>) = 0 /\ DOMAIN <<>> = {}
    BY EmptySeq
<1> QED
    BY <1>1 DEF NoPage, Results, Pages

LEMMA SearchRuns ==
    ASSUME NEW n, NEW cursor \in Times, NEW unreadable,
           NEW overtaken, NEW T, ListFiles(n) \in Seq(T), Readable(ListFiles(n), overtaken)
    PROVE  \E g : /\ IsSearch(g, ListFiles(n), cursor, unreadable)
                  /\ Search(n, cursor, unreadable) = OfNode(g[Len(ListFiles(n))], n)
<1> DEFINE list == ListFiles(n)
           N == Len(list)
           upTo[i \in 0 .. N] ==
             IF i = 0 THEN NoPage ELSE Read(upTo[i - 1], list[i], cursor, unreadable)
           round(s, i) == Read(s, list[i], cursor, unreadable)
           F == [i \in 1 .. N |-> [s \in Results |-> round(s, i)]]
<1>1. N \in Nat /\ DOMAIN list = 1 .. N
    BY LenProperties
<1>2. NoPage \in Results
    BY NoPageType
<1>3. ASSUME NEW s \in Results, NEW i \in 1 .. N
      PROVE  round(s, i) \in Results
    <2>1. list[i].lines \in Seq(LogLines) /\ Ascending(list[i].lines)
        BY <1>1 DEF Readable
    <2> QED
        BY <2>1, ReadType
<1>4. Search(n, cursor, unreadable) = OfNode(upTo[N], n)
    BY DEF Search, OfNode
<1> HIDE DEF N, round, list
<1>5. F \in [1 .. N -> [Results -> Results]]
    BY <1>3
<1>6. \A s \in Results, i \in 1 .. N : F[i][s] = round(s, i)
    OBVIOUS
<1> HIDE DEF F
<1>7. PICK h : IsRun(h, Results, N, NoPage, F)
    BY <1>1, <1>2, <1>5, Runs
<1>8. ASSUME NEW i \in 1 .. N
      PROVE  h[i] = round(h[i - 1], i)
    <2>1. h[i] = F[i][h[i - 1]] /\ h[i - 1] \in Results
        BY <1>1, <1>7 DEF IsRun
    <2> QED
        BY <1>6, <2>1
<1>9. h = [i \in 0 .. N |-> IF i = 0 THEN NoPage ELSE round(h[i - 1], i)]
    <2>1. \A i \in 0 .. N : i = 0 \/ i \in 1 .. N
        BY <1>1
    <2>2. \A i \in 0 .. N : h[i] = IF i = 0 THEN NoPage ELSE round(h[i - 1], i)
        BY <1>7, <1>8, <2>1 DEF IsRun
    <2> QED
        BY <1>7, <2>2 DEF IsRun
<1>10. upTo = [i \in 0 .. N |-> IF i = 0 THEN NoPage ELSE round(upTo[i - 1], i)]
    BY <1>9 DEF round
<1> HIDE DEF upTo
<1>11. upTo[0] = NoPage
    BY <1>1, <1>10
<1>12. ASSUME NEW i \in 1 .. N
       PROVE  upTo[i] = round(upTo[i - 1], i)
    BY <1>1, <1>10
<1>13. \A i \in 0 .. N : upTo[i] \in Results
    <2> DEFINE S == {i \in 0 .. N : upTo[i] \in Results}
    <2>1. 0 \in S
        BY <1>1, <1>2, <1>11
    <2>2. ASSUME NEW i \in S, i < N
          PROVE  i + 1 \in S
        <3>1. i + 1 \in 1 .. N /\ (i + 1) - 1 = i
            BY <1>1, <2>2
        <3>2. upTo[i + 1] = round(upTo[i], i + 1)
            BY <1>12, <3>1
        <3> QED
            BY <1>1, <1>3, <3>1, <3>2
    <2> HIDE DEF S
    <2>3. S \in SUBSET (0 .. N)
        BY DEF S
    <2>4. \A i \in 0 .. N : i \in S
        BY <1>1, <2>1, <2>2, <2>3, Rounds
    <2> QED
        BY <2>4 DEF S
<1>14. upTo \in [0 .. N -> Results]
    BY <1>10, <1>13
<1>15. IsSearch(upTo, list, cursor, unreadable)
    BY <1>11, <1>12, <1>14 DEF N, round, IsSearch
<1> QED
    BY <1>4, <1>15 DEF N, list

\* The entries of the first i files.
UpTo(list, i) == UNION {EntriesOf(list[j].lines) : j \in 1 .. i}

\* What the loop keeps.
ReadOK(s, list, i, cursor, unreadable, overtaken) ==
    /\ ResultFor(s, Limit, UpTo(list, i), cursor)
    /\ unreadable = {} => CompleteFor(s.lines, s.hasMore, UpTo(list, i), cursor, overtaken)

LEMMA FilesAreSearched ==
    ASSUME NEW list, NEW T, list \in Seq(T), NEW overtaken, Readable(list, overtaken),
           NEW cursor \in Times, NEW unreadable,
           NEW g, IsSearch(g, list, cursor, unreadable)
    PROVE  ReadOK(g[Len(list)], list, Len(list), cursor, unreadable, overtaken)
<1> DEFINE N == Len(list)
           S == {i \in 0 .. N : ReadOK(g[i], list, i, cursor, unreadable, overtaken)}
<1>1. N \in Nat /\ DOMAIN list = 1 .. N
    BY LenProperties
<1>2. 0 \in S
    <2>1. UpTo(list, 0) = {}
        BY DEF UpTo
    <2>2. SoundFor(NoPage.lines, {}, cursor) /\ CompleteFor(NoPage.lines, FALSE, {}, cursor, overtaken)
        BY NoPageType DEF SoundFor, CompleteFor
    <2>3. ResultFor(NoPage, Limit, {}, cursor)
        BY <2>2, NoPageType, LimitAssumption DEF ResultFor
    <2>4. ReadOK(NoPage, list, 0, cursor, unreadable, overtaken)
        BY <2>1, <2>2, <2>3, NoPageType DEF ReadOK
    <2> QED
        BY <1>1, <2>4 DEF IsSearch
<1>3. ASSUME NEW k \in S, k < N
      PROVE  k + 1 \in S
    <2> DEFINE i == k + 1
               D == UpTo(list, k)
               f == list[i]
               s == g[k]
    <2>1. i \in 1 .. N /\ i \in 0 .. N /\ i - 1 = k /\ k \in 0 .. N
        BY <1>1, <1>3
    <2>2. ReadOK(s, list, k, cursor, unreadable, overtaken)
        BY <1>3
    <2>3. g[i] = Read(s, f, cursor, unreadable)
        BY <2>1 DEF IsSearch
    <2>4. f.lines \in Seq(LogLines) /\ Ascending(f.lines)
        BY <1>1, <2>1 DEF Readable
    <2>5. FileAfter(f.lines, D, overtaken)
        <3>1. \A j \in 1 .. k : j \in DOMAIN list /\ i \in DOMAIN list /\ j < i
            BY <1>1, <2>1
        <3> QED
            BY <1>1, <2>1, <3>1 DEF UpTo, Readable, FileAfter, Disjoint
    <2>6. UpTo(list, i) = D \cup EntriesOf(f.lines)
        <3>1. \A j : j \in 1 .. i <=> j \in 1 .. k \/ j = i
            BY <1>1, <2>1
        <3> HIDE DEF i
        <3> QED
            BY <3>1 DEF UpTo
    <2> HIDE DEF D, f, s, i, N
    <2>7. /\ ResultFor(g[i], Limit, UpTo(list, i), cursor)
          /\ f \notin unreadable /\ CompleteFor(s.lines, s.hasMore, D, cursor, overtaken)
                => CompleteFor(g[i].lines, g[i].hasMore, UpTo(list, i), cursor, overtaken)
        <3>1. ResultFor(s, Limit, D, cursor)
            BY <2>2 DEF ReadOK, D
        <3> QED
            BY <2>3, <2>4, <2>5, <2>6, <3>1, ReadIsOK
    <2>8. unreadable = {} => f \notin unreadable /\ CompleteFor(s.lines, s.hasMore, D, cursor, overtaken)
        BY <2>2 DEF ReadOK, D
    <2>9. ReadOK(g[i], list, i, cursor, unreadable, overtaken)
        BY <2>7, <2>8 DEF ReadOK
    <2> QED
        BY <2>1, <2>9 DEF i, N
<1> HIDE DEF S
<1>4. S \in SUBSET (0 .. N)
    BY DEF S
<1>5. \A i \in 0 .. N : i \in S
    BY <1>1, <1>2, <1>3, <1>4, Rounds
<1> QED
    BY <1>1, <1>5 DEF S

\* The files of a node, no two of the same name.
FilesOf(S) ==
    /\ S \in SUBSET Files
    /\ IsFiniteSet(S)
    /\ \A f \in S : f.lines \in Seq(LogLines)
    /\ \A f, g \in S : f.name = g.name => f = g

\* Entries are appended, each to one file.
InOrder(S, now) ==
    /\ \A f \in S : Ascending(f.lines)
    /\ \A f, g \in S : f # g =>
          \A d \in EntriesOf(f.lines), e \in EntriesOf(g.lines) : d.id # e.id
    /\ \A f \in S : \A i \in DOMAIN f.lines : f.lines[i].id <= now

OlderThan(S) == {p \in S \X S : Older(p[1], p[2])}

\* Their names order them.
LEMMA FilesAreOrdered ==
    ASSUME NEW S, FilesOf(S)
    PROVE  /\ Total(S, OlderThan(S))
           /\ \A f, g \in S : <<f, g>> \in OlderThan(S) <=> Older(f, g)
           /\ \A f \in S : Rank(S, OlderThan(S), f) = Cardinality({g \in S : Older(g, f)})
<1> DEFINE R == OlderThan(S)
<1>1. \A f \in S : /\ f.name \in [date : Nat, rotation : Nat, listed : Nat]
                    /\ f.name.date \in Nat /\ f.name.rotation \in Nat
                    /\ f.name.listed \in Nat
    BY NamesAssumption DEF FilesOf, Files
<1>2. \A f, g \in S : <<f, g>> \in R <=> Older(f, g)
    BY DEF OlderThan
<1> HIDE DEF R
<1>3. \A f \in S : ~Older(f, f)
    BY <1>1 DEF Older, Precedes
<1>4. ASSUME NEW f \in S, NEW g \in S, NEW h \in S, Older(f, g), Older(g, h)
      PROVE  Older(f, h)
    BY <1>1, <1>4 DEF Older, Precedes
<1>5. ASSUME NEW f \in S, NEW g \in S
      PROVE  f = g \/ Older(f, g) \/ Older(g, f)
    <2>1. f.name = g.name => f = g
        BY DEF FilesOf
    <2>2. /\ f.name.date = g.name.date /\ f.name.rotation = g.name.rotation
          /\ f.name.listed = g.name.listed
          => f.name = g.name
        BY <1>1
    <2> QED
        BY <1>1, <2>1, <2>2 DEF Older, Precedes
<1>6. Total(S, R)
    BY <1>2, <1>3, <1>4, <1>5 DEF Total
<1>7. ASSUME NEW f \in S
      PROVE  Rank(S, R, f) = Cardinality({g \in S : Older(g, f)})
    <2>1. {g \in S : <<g, f>> \in R} = {g \in S : Older(g, f)}
        BY <1>2
    <2> QED
        BY <2>1 DEF Rank
<1> QED
    BY <1>2, <1>6, <1>7 DEF R

\* listFiles gives all files, the oldest first.
LEMMA FilesAreListed ==
    ASSUME NEW n \in Nodes, FilesOf(files[n])
    PROVE  LET list == ListFiles(n)
           IN  /\ list \in Seq(files[n]) /\ DOMAIN list = 1 .. Len(list)
               /\ \A f \in files[n] : \E k \in DOMAIN list : list[k] = f
               /\ \A i, j \in DOMAIN list : i < j => Older(list[i], list[j])
<1> DEFINE S == files[n]
           R == OlderThan(S)
           N == Cardinality(S)
           list == ListFiles(n)
<1>1. /\ IsFiniteSet(S) /\ Total(S, R)
      /\ \A f, g \in S : <<f, g>> \in R <=> Older(f, g)
      /\ \A f \in S : Rank(S, R, f) = Cardinality({g \in S : Older(g, f)})
    BY FilesAreOrdered DEF FilesOf
<1>2. list = [k \in 1 .. N |-> CHOOSE f \in S : Cardinality({g \in S : Older(g, f)}) = k - 1]
    BY DEF ListFiles, Ordered
<1> HIDE DEF S, R, list
<1>3. ASSUME NEW k \in 1 .. N
      PROVE  list[k] \in S /\ Rank(S, R, list[k]) = k - 1
    <2>1. \E f \in S : Rank(S, R, f) = k - 1
        BY <1>1, Ranks
    <2>2. \E f \in S : Cardinality({g \in S : Older(g, f)}) = k - 1
        BY <1>1, <2>1
    <2>3. list[k] = CHOOSE f \in S : Cardinality({g \in S : Older(g, f)}) = k - 1
        BY <1>2
    <2>4. list[k] \in S /\ Cardinality({g \in S : Older(g, list[k])}) = k - 1
        BY <2>2, <2>3
    <2> QED
        BY <1>1, <2>4
<1>4. list \in [1 .. N -> S]
    BY <1>2, <1>3
<1>5. /\ list \in Seq(S) /\ Len(list) = N /\ DOMAIN list = 1 .. N
      /\ \A f \in S : \E k \in DOMAIN list : list[k] = f
      /\ \A i, j \in DOMAIN list : i < j => <<list[i], list[j]>> \in R
    <2>1. ByRank(list, S, R)
        BY <1>3, <1>4 DEF ByRank
    <2>2. IsFiniteSet(S) /\ Total(S, R)
        BY <1>1
    <2> HIDE DEF N
    <2>3. /\ list \in Seq(S) /\ Len(list) = Cardinality(S) /\ DOMAIN list = 1 .. Cardinality(S)
          /\ \A f \in S : \E k \in DOMAIN list : list[k] = f
          /\ \A i, j \in DOMAIN list : i < j => <<list[i], list[j]>> \in R
        BY <2>1, <2>2, Sorting
    <2> QED
        BY <2>3 DEF N
<1>6. ASSUME NEW i \in DOMAIN list, NEW j \in DOMAIN list, i < j
      PROVE  Older(list[i], list[j])
    BY <1>1, <1>3, <1>5, <1>6
<1> QED
    BY <1>5, <1>6 DEF S, list

\* A node's answer is made of its own lines, all of them up to the page's end
\* if no file was unreadable.
NodePage(r, n) ==
    /\ r \in Pages
    /\ Len(r.lines) <= Limit
    /\ r.hasMore => Len(r.lines) = Limit
    /\ \A i \in DOMAIN r.lines : r.lines[i].node = n

LEMMA NodeIsSearched ==
    ASSUME NEW n \in Nodes, FilesOf(files[n]), NEW now, InOrder(files[n], now),
           NEW cursor \in Times, NEW unreadable,
           NEW overtaken, Overtaken(n) \subseteq overtaken
    PROVE  LET r == Search(n, cursor, unreadable)
           IN  /\ NodePage(r, n)
               /\ SoundFor(r.lines, Entries(n), cursor)
               /\ unreadable = {} => CompleteFor(r.lines, r.hasMore, Entries(n), cursor, overtaken)
<1> DEFINE list == ListFiles(n)
           N == Len(list)
           S == files[n]
<1>1. /\ list \in Seq(S) /\ DOMAIN list = 1 .. N
      /\ \A f \in S : \E k \in DOMAIN list : list[k] = f
      /\ \A i, j \in DOMAIN list : i < j => Older(list[i], list[j])
    BY FilesAreListed
<1> HIDE DEF list
<1>2. \A k \in DOMAIN list : list[k] \in S
    BY <1>1, ElementOfSeq
<1>3. \A f \in S : f.lines \in Seq(LogLines) /\ ~Older(f, f)
    <2>1. \A f \in S : ~Older(f, f)
        BY FilesAreOrdered DEF Total
    <2> QED
        BY <2>1 DEF FilesOf
<1>4. Readable(list, overtaken)
    <2>1. \A i \in DOMAIN list : /\ list[i].lines \in Seq(LogLines)
                                 /\ Ascending(list[i].lines)
                                 /\ OvertakenIn(list[i].lines) \subseteq overtaken
        BY <1>2, <1>3 DEF InOrder, Overtaken
    <2>2. ASSUME NEW i \in DOMAIN list, NEW j \in DOMAIN list, i < j,
                 NEW d \in EntriesOf(list[i].lines), NEW e \in EntriesOf(list[j].lines)
          PROVE  d.id # e.id /\ (Overtakes(d, e) => e.id \in overtaken)
        <3> DEFINE f == list[i]
                   g == list[j]
        <3>1. f \in S /\ g \in S /\ Older(f, g) /\ f # g
            BY <1>1, <1>2, <1>3, <2>2
        <3>2. d.id # e.id
            BY <3>1 DEF InOrder
        <3>3. Overtakes(d, e) => e.id \in OvertakenBy(f, g)
            BY <3>1 DEF OvertakenBy, Older
        <3>4. OvertakenBy(f, g) \subseteq overtaken
            <4>1. <<f, g>> \in files[n] \X files[n]
                BY <3>1
            <4>2. OvertakenBy(f, g) \subseteq Overtaken(n)
                BY <4>1 DEF Overtaken
            <4> QED
                BY <4>2
        <3> QED
            BY <3>2, <3>3, <3>4
    <2> QED
        BY <2>1, <2>2 DEF Readable
<1>5. PICK g : /\ IsSearch(g, list, cursor, unreadable)
               /\ Search(n, cursor, unreadable) = OfNode(g[N], n)
    BY <1>1, <1>4, SearchRuns DEF list
<1> DEFINE s == g[N]
           r == OfNode(s, n)
<1>6. ReadOK(s, list, N, cursor, unreadable, overtaken)
    BY <1>1, <1>4, <1>5, FilesAreSearched
<1>7. UpTo(list, N) = Entries(n)
    BY <1>1, <1>2 DEF UpTo, Entries
<1> HIDE DEF N, s
<1>8. /\ s \in Results /\ Len(s.lines) <= Limit /\ (s.hasMore => Len(s.lines) = Limit)
      /\ SoundFor(s.lines, Entries(n), cursor)
    BY <1>6, <1>7 DEF ReadOK, ResultFor
<1>9. /\ s.lines \in Seq(LogLines) /\ s.hasMore \in BOOLEAN
      /\ Len(s.lines) \in Nat /\ DOMAIN s.lines = 1 .. Len(s.lines)
      /\ \A i \in DOMAIN s.lines : s.lines[i].ts \in Times /\ s.lines[i].id \in Ids
    BY <1>8, LineTypes DEF Results
<1>10. /\ r.lines = [i \in 1 .. Len(s.lines) |->
                        [id |-> s.lines[i].id, ts |-> s.lines[i].ts, node |-> n]]
       /\ r.hasMore = s.hasMore
       /\ r = [lines |-> r.lines, hasMore |-> r.hasMore]
    BY <1>9 DEF OfNode
<1> HIDE DEF r
<1>11. /\ r.lines \in Seq(PageLines) /\ Len(r.lines) = Len(s.lines)
       /\ DOMAIN r.lines = DOMAIN s.lines
       /\ \A i \in DOMAIN r.lines : /\ r.lines[i].ts = s.lines[i].ts
                                    /\ r.lines[i].id = s.lines[i].id
                                    /\ r.lines[i].node = n
    <2>1. r.lines \in [1 .. Len(s.lines) -> PageLines]
        BY <1>9, <1>10 DEF PageLines
    <2>2. r.lines \in Seq(PageLines) /\ Len(r.lines) = Len(s.lines)
        BY <1>9, <2>1, IsASeq, LenProperties
    <2> QED
        BY <1>9, <1>10, <2>2
<1>12. r \in Pages
    BY <1>9, <1>10, <1>11 DEF Pages
<1>13. NodePage(r, n)
    BY <1>8, <1>10, <1>11, <1>12 DEF NodePage
<1>14. SoundFor(r.lines, Entries(n), cursor)
    <2>1. \A i \in DOMAIN s.lines : \A j \in 1 .. i - 1 : j \in DOMAIN s.lines
        BY <1>9
    <2> QED
        BY <1>8, <1>11, <2>1 DEF SoundFor
<1>15. unreadable = {} => CompleteFor(r.lines, r.hasMore, Entries(n), cursor, overtaken)
    <2>1. unreadable = {} => CompleteFor(s.lines, s.hasMore, Entries(n), cursor, overtaken)
        BY <1>6, <1>7 DEF ReadOK
    <2>2. ASSUME CompleteFor(s.lines, s.hasMore, Entries(n), cursor, overtaken)
          PROVE  CompleteFor(r.lines, r.hasMore, Entries(n), cursor, overtaken)
        <3>1. ASSUME NEW e \in Entries(n), e.hit /\ cursor < e.ts
              PROVE  \/ \E i \in DOMAIN r.lines : r.lines[i].id = e.id /\ r.lines[i].ts = e.ts
                     \/ /\ r.hasMore
                        /\ \/ e.id \in overtaken
                           \/ \A i \in DOMAIN r.lines : r.lines[i].ts <= e.ts
            <4>1. \/ \E i \in DOMAIN s.lines : s.lines[i].id = e.id /\ s.lines[i].ts = e.ts
                  \/ /\ s.hasMore
                     /\ \/ e.id \in overtaken
                        \/ \A i \in DOMAIN s.lines : s.lines[i].ts <= e.ts
                BY <2>2, <3>1 DEF CompleteFor
            <4> QED
                BY <1>10, <1>11, <4>1
        <3> QED
            BY <3>1 DEF CompleteFor
    <2> QED
        BY <2>1, <2>2
<1> QED
    BY <1>5, <1>13, <1>14, <1>15 DEF r, s

-----------------------------------------------------------------------------
(* The merge.                                                               *)

At(got, p) == got[p[1]].lines[p[2]]

ComesFirst(got, p, q) ==
    \/ At(got, p).ts < At(got, q).ts
    \/ /\ At(got, p).ts = At(got, q).ts
       /\ p[1] < q[1] \/ (p[1] = q[1] /\ p[2] < q[2])

\* What the nodes may answer.
Got(got) == got \in [Nodes -> Pages] /\ \A n \in Nodes : NodePage(got[n], n)

LEMMA PageTypes ==
    /\ \A l \in PageLines : l.ts \in Nat /\ l.ts \in Times /\ l.id \in Ids /\ l.node \in Nodes
    /\ \A s \in Seq(PageLines) : /\ Len(s) \in Nat /\ DOMAIN s = 1 .. Len(s)
                                 /\ \A i \in DOMAIN s : s[i] \in PageLines
<1>1. ASSUME NEW s \in Seq(PageLines)
      PROVE  Len(s) \in Nat /\ DOMAIN s = 1 .. Len(s) /\ \A i \in DOMAIN s : s[i] \in PageLines
    <2>1. Len(s) \in Nat /\ DOMAIN s = 1 .. Len(s)
        BY LenProperties
    <2> QED
        BY <2>1, ElementOfSeq
<1>2. \A l \in PageLines : l.ts \in Nat /\ l.ts \in Times /\ l.id \in Ids /\ l.node \in Nodes
    BY LineTypes DEF PageLines
<1> QED
    BY <1>1, <1>2

LEMMA PlaceTypes ==
    ASSUME NEW got, Got(got)
    PROVE  /\ IsFiniteSet(Places(got))
           /\ \A n \in Nodes : \A i \in DOMAIN got[n].lines : <<n, i>> \in Places(got)
           /\ \A p \in Places(got) :
                 /\ p = <<p[1], p[2]>> /\ p[1] \in Nodes /\ p[2] \in DOMAIN got[p[1]].lines
                 /\ p[1] \in Nat /\ p[2] \in Nat
                 /\ At(got, p) \in PageLines /\ At(got, p).ts \in Nat
                 /\ At(got, p).node = p[1]
<1>1. ASSUME NEW n \in Nodes
      PROVE  /\ DOMAIN got[n].lines = 1 .. Len(got[n].lines)
             /\ DOMAIN got[n].lines \subseteq 1 .. Limit
             /\ \A i \in DOMAIN got[n].lines : /\ got[n].lines[i] \in PageLines
                                               /\ got[n].lines[i].node = n
    <2> DEFINE l == got[n].lines
    <2>1. l \in Seq(PageLines) /\ Len(l) <= Limit /\ \A i \in DOMAIN l : l[i].node = n
        BY DEF Got, Pages, NodePage
    <2> HIDE DEF l
    <2>2. Len(l) \in Nat /\ DOMAIN l = 1 .. Len(l) /\ \A i \in DOMAIN l : l[i] \in PageLines
        BY <2>1, PageTypes
    <2>3. 1 .. Len(l) \subseteq 1 .. Limit
        BY <2>1, <2>2, LimitAssumption
    <2> QED
        BY <2>1, <2>2, <2>3 DEF l
<1>2. \A n \in Nodes : \A i \in DOMAIN got[n].lines : <<n, i>> \in Places(got)
    BY DEF Places
<1>3. \A p \in Places(got) :
         p = <<p[1], p[2]>> /\ p[1] \in Nodes /\ p[2] \in DOMAIN got[p[1]].lines
    BY DEF Places
<1>4. IsFiniteSet(Places(got))
    <2>1. Places(got) \in SUBSET (Nodes \X (1 .. Limit))
        BY <1>1 DEF Places
    <2>2. IsFiniteSet(Nodes) /\ IsFiniteSet(1 .. Limit)
        BY BoundsAssumption, LimitAssumption, FS_Interval DEF Nodes
    <2>3. IsFiniteSet(Nodes \X (1 .. Limit))
        BY <2>2, FS_Product
    <2> QED
        BY <2>1, <2>3, FS_Subset
<1>5. \A p \in Places(got) : p[1] \in Nat /\ p[2] \in Nat
    <2>1. Nodes \subseteq Nat
        BY DEF Nodes
    <2> QED
        BY <1>1, <1>3, <2>1
<1>6. \A p \in Places(got) : At(got, p) \in PageLines /\ At(got, p).node = p[1]
    BY <1>1, <1>3 DEF At
<1>7. \A p \in Places(got) : At(got, p).ts \in Nat
    BY <1>6, PageTypes
<1> QED
    BY <1>2, <1>3, <1>4, <1>5, <1>6, <1>7

\* An order of all lines, by timestamp.
IsOrder(order, got) ==
    /\ order \in Seq(Places(got)) /\ DOMAIN order = 1 .. Len(order)
    /\ \A k \in DOMAIN order : order[k] \in Places(got)
    /\ \A p \in Places(got) : \E k \in DOMAIN order : order[k] = p
    /\ \A i, j \in DOMAIN order : i < j =>
          order[i] # order[j] /\ At(got, order[i]).ts <= At(got, order[j]).ts

IsInOrder(all, order, got) ==
    IsOrder(order, got) /\ all = [k \in DOMAIN order |-> At(got, order[k])]

LEMMA SortedIsOrdered ==
    ASSUME NEW got, Got(got)
    PROVE  \E order : IsInOrder(Sorted(got), order, got)
<1> DEFINE P == Places(got)
           R == {r \in P \X P : ComesFirst(got, r[1], r[2])}
           N == Cardinality(P)
           order == [k \in 1 .. N |->
                        CHOOSE p \in P : Cardinality({q \in P : ComesFirst(got, q, p)}) = k - 1]
<1>1. Sorted(got) = [k \in DOMAIN order |-> At(got, order[k])]
    BY DEF Sorted, Ordered, At, ComesFirst
<1>2. /\ IsFiniteSet(P)
      /\ \A p \in P : /\ p = <<p[1], p[2]>> /\ p[1] \in Nat /\ p[2] \in Nat
                      /\ At(got, p).ts \in Nat
    BY PlaceTypes
<1>3. \A p, q \in P : <<p, q>> \in R <=> ComesFirst(got, p, q)
    OBVIOUS
<1> HIDE DEF P, R
<1>4. \A p \in P : ~ComesFirst(got, p, p)
    BY <1>2 DEF ComesFirst
<1>5. ASSUME NEW p \in P, NEW q \in P, NEW r \in P, ComesFirst(got, p, q), ComesFirst(got, q, r)
      PROVE  ComesFirst(got, p, r)
    BY <1>2, <1>5 DEF ComesFirst
<1>6. ASSUME NEW p \in P, NEW q \in P
      PROVE  p = q \/ ComesFirst(got, p, q) \/ ComesFirst(got, q, p)
    <2>1. p[1] = q[1] /\ p[2] = q[2] => p = q
        BY <1>2
    <2> QED
        BY <1>2, <2>1 DEF ComesFirst
<1>7. Total(P, R)
    BY <1>3, <1>4, <1>5, <1>6 DEF Total
<1>8. ASSUME NEW p \in P
      PROVE  Rank(P, R, p) = Cardinality({q \in P : ComesFirst(got, q, p)})
    <2>1. {q \in P : <<q, p>> \in R} = {q \in P : ComesFirst(got, q, p)}
        BY <1>3
    <2> QED
        BY <2>1 DEF Rank
<1> HIDE DEF order
<1>9. ASSUME NEW k \in 1 .. N
      PROVE  order[k] \in P /\ Rank(P, R, order[k]) = k - 1
    <2>1. \E p \in P : Rank(P, R, p) = k - 1
        BY <1>2, <1>7, Ranks
    <2>2. \E p \in P : Cardinality({q \in P : ComesFirst(got, q, p)}) = k - 1
        BY <1>8, <2>1
    <2>3. order[k] = CHOOSE p \in P : Cardinality({q \in P : ComesFirst(got, q, p)}) = k - 1
        BY DEF order
    <2>4. order[k] \in P /\ Cardinality({q \in P : ComesFirst(got, q, order[k])}) = k - 1
        BY <2>2, <2>3
    <2> QED
        BY <1>8, <2>4
<1>10. ByRank(order, P, R)
    <2>1. order \in [1 .. N -> P]
        BY <1>9 DEF order
    <2> QED
        BY <1>9, <2>1 DEF ByRank
<1>11. /\ order \in Seq(P) /\ Len(order) = Cardinality(P)
       /\ DOMAIN order = 1 .. Cardinality(P)
       /\ \A p \in P : \E k \in DOMAIN order : order[k] = p
       /\ \A i, j \in DOMAIN order : i < j => <<order[i], order[j]>> \in R
    <2>1. IsFiniteSet(P)
        BY <1>2
    <2> HIDE DEF N
    <2> QED
        BY <1>7, <1>10, <2>1, Sorting
<1>12. \A k \in DOMAIN order : order[k] \in P
    BY <1>9, <1>11
<1>13. ASSUME NEW i \in DOMAIN order, NEW j \in DOMAIN order, i < j
       PROVE  order[i] # order[j] /\ At(got, order[i]).ts <= At(got, order[j]).ts
    <2>1. ComesFirst(got, order[i], order[j])
        BY <1>3, <1>11, <1>12, <1>13
    <2>2. order[i] # order[j]
        BY <1>4, <1>12, <2>1
    <2>3. At(got, order[i]).ts \in Nat /\ At(got, order[j]).ts \in Nat
        BY <1>2, <1>12
    <2> QED
        BY <2>1, <2>2, <2>3 DEF ComesFirst
<1>14. IsInOrder(Sorted(got), order, got)
    BY <1>1, <1>11, <1>12, <1>13 DEF IsInOrder, IsOrder, P
<1> QED
    BY <1>14

\* A page is the first of them, all unless there are more than it may have.
IsMerge(p, order, got) ==
    /\ IsOrder(order, got)
    /\ p \in Pages /\ Len(p.lines) <= Limit /\ Len(p.lines) <= Len(order)
    /\ DOMAIN p.lines = 1 .. Len(p.lines)
    /\ \A i \in DOMAIN p.lines : i \in DOMAIN order /\ p.lines[i] = At(got, order[i])
    /\ Len(p.lines) < Len(order) => p.hasMore /\ Len(p.lines) = Limit
    /\ SomeHasMore(got) => p.hasMore

LEMMA MergeIsOrdered ==
    ASSUME NEW got, Got(got)
    PROVE  \E order : IsMerge(Merged(got), order, got)
<1> DEFINE all == Sorted(got)
           p == Merged(got)
<1>1. PICK order : IsInOrder(all, order, got)
    BY SortedIsOrdered
<1> DEFINE N == Len(order)
<1> HIDE DEF all
<1>2. /\ order \in Seq(Places(got)) /\ DOMAIN order = 1 .. N /\ N \in Nat
      /\ \A k \in DOMAIN order : order[k] \in Places(got)
    BY <1>1, LenProperties DEF IsInOrder, IsOrder
<1> HIDE DEF N
<1>3. /\ all \in Seq(PageLines) /\ Len(all) = N /\ DOMAIN all = 1 .. N
      /\ \A k \in 1 .. N : all[k] = At(got, order[k])
    <2>1. \A k \in DOMAIN order : At(got, order[k]) \in PageLines
        BY <1>2, PlaceTypes
    <2>2. all = [k \in 1 .. N |-> At(got, order[k])]
        BY <1>1, <1>2 DEF IsInOrder
    <2>3. all \in [1 .. N -> PageLines] /\ \A k \in 1 .. N : all[k] = At(got, order[k])
        BY <1>2, <2>1, <2>2
    <2>4. all \in Seq(PageLines) /\ Len(all) = N /\ DOMAIN all = 1 .. N
        BY <1>2, <2>3, IsASeq, LenProperties
    <2> QED
        BY <2>3, <2>4
<1>4. Limit \in Nat
    BY LimitAssumption
<1>5. CASE N > Limit
    <2> DEFINE cut == SubSeq(all, 1, Limit)
    <2>1. /\ cut \in Seq(PageLines) /\ Len(cut) = Limit
          /\ \A i \in 1 .. Limit : cut[i] = all[i]
        <3>1. Limit <= Len(all) /\ 1 \in 1 .. Len(all) + 1 /\ Limit \in 1 - 1 .. Len(all)
            BY <1>2, <1>3, <1>4, <1>5
        <3>2. \A i \in 1 .. Limit - 1 + 1 : 1 + i - 1 = i
            BY <1>4
        <3> QED
            BY <1>3, <1>4, <3>1, <3>2, SubSeqProperties
    <2>2. p = [lines |-> cut, hasMore |-> TRUE]
        BY <1>3, <1>5 DEF Merged, all
    <2> HIDE DEF cut, p
    <2>3. p.lines = cut /\ p.hasMore = TRUE /\ p \in Pages
        BY <2>1, <2>2 DEF Pages
    <2>4. DOMAIN cut = 1 .. Limit /\ \A i \in 1 .. Limit : i \in 1 .. N
        BY <1>2, <1>4, <1>5, <2>1, LenProperties
    <2>5. \A i \in DOMAIN cut : i \in DOMAIN order /\ cut[i] = At(got, order[i])
        BY <1>2, <1>3, <2>1, <2>4
    <2>6. Len(cut) <= Limit /\ Len(cut) <= N
        BY <1>2, <1>4, <1>5, <2>1
    <2>7. IsMerge(p, order, got)
        BY <1>1, <2>1, <2>3, <2>4, <2>5, <2>6 DEF IsMerge, IsInOrder, N
    <2> QED
        BY <2>7 DEF p
<1>6. CASE ~(N > Limit)
    <2> DEFINE more == Len(all) > Limit \/ SomeHasMore(got)
    <2>1. p = [lines |-> all, hasMore |-> more] /\ more \in BOOLEAN /\ (more <=> SomeHasMore(got))
        BY <1>3, <1>6 DEF Merged, all
    <2> HIDE DEF p, more
    <2>2. p.lines = all /\ (p.hasMore <=> SomeHasMore(got)) /\ p \in Pages
        BY <1>3, <2>1 DEF Pages
    <2>3. Len(all) <= Limit /\ Len(all) <= N /\ ~(Len(all) < N)
        BY <1>2, <1>3, <1>4, <1>6
    <2>4. \A i \in DOMAIN all : i \in DOMAIN order /\ all[i] = At(got, order[i])
        BY <1>2, <1>3
    <2>5. IsMerge(p, order, got)
        BY <1>1, <1>3, <2>2, <2>3, <2>4 DEF IsMerge, IsInOrder, N
    <2> QED
        BY <2>5 DEF p
<1> QED
    BY <1>5, <1>6

EntriesIn(S) == UNION {EntriesOf(f.lines) : f \in S}

Sound(got, F, cursor) == \A n \in Nodes : SoundFor(got[n].lines, EntriesIn(F[n]), cursor)

\* A line with a timestamp has one place among all.
LEMMA OnePlace ==
    ASSUME NEW F, NEW got, Got(got), NEW cursor \in Times, Sound(got, F, cursor),
           NEW p \in Places(got), NEW q \in Places(got), p # q, At(got, q).ts # 0
    PROVE  At(got, p) # At(got, q)
<1> SUFFICES ASSUME At(got, p) = At(got, q)
             PROVE  FALSE
    OBVIOUS
<1>1. /\ p = <<p[1], p[2]>> /\ p[1] \in Nodes /\ p[2] \in DOMAIN got[p[1]].lines
      /\ q = <<q[1], q[2]>> /\ q[1] \in Nodes /\ q[2] \in DOMAIN got[q[1]].lines
      /\ p[2] \in Nat /\ q[2] \in Nat
      /\ At(got, p).node = p[1] /\ At(got, q).node = q[1]
    BY PlaceTypes
<1>2. p[1] = q[1]
    BY <1>1
<1> DEFINE found == got[p[1]].lines
<1>3. SoundFor(found, EntriesIn(F[p[1]]), cursor)
    BY <1>1 DEF Sound
<1>4. At(got, p) = found[p[2]] /\ At(got, q) = found[q[2]]
    BY <1>2 DEF At
<1>5. p[2] \in DOMAIN found /\ q[2] \in DOMAIN found /\ p[2] # q[2]
    BY <1>1, <1>2
<1>6. p[2] >= 1 /\ q[2] >= 1
    <2>1. DOMAIN found = 1 .. Len(found)
        BY <1>1, PageTypes DEF Got, Pages
    <2> QED
        BY <1>1, <1>5, <2>1
<1> HIDE DEF found
<1>7. p[2] \in 1 .. q[2] - 1 \/ q[2] \in 1 .. p[2] - 1
    BY <1>1, <1>5, <1>6
<1>8. found[p[2]].ts # 0 /\ found[q[2]].ts # 0 /\ found[p[2]].id = found[q[2]].id
    BY <1>4
<1> QED
    BY <1>3, <1>5, <1>7, <1>8 DEF SoundFor

\* What a page may show after a cursor.
Shows(lines, F, cursor) == \A i \in DOMAIN lines : lines[i].ts # 0 =>
    /\ cursor < lines[i].ts
    /\ [id |-> lines[i].id, ts |-> lines[i].ts, hit |-> TRUE] \in EntriesIn(F[lines[i].node])
    /\ \A j \in 1 .. i - 1 : lines[j].ts <= lines[i].ts /\ lines[j] # lines[i]

LEMMA MergeIsSound ==
    ASSUME NEW F, NEW got, Got(got), NEW cursor \in Times, Sound(got, F, cursor),
           NEW p, NEW order, IsMerge(p, order, got)
    PROVE  Shows(p.lines, F, cursor)
<1> SUFFICES ASSUME NEW i \in DOMAIN p.lines, p.lines[i].ts # 0
             PROVE  /\ cursor < p.lines[i].ts
                    /\ [id |-> p.lines[i].id, ts |-> p.lines[i].ts, hit |-> TRUE]
                          \in EntriesIn(F[p.lines[i].node])
                    /\ \A j \in 1 .. i - 1 :
                          p.lines[j].ts <= p.lines[i].ts /\ p.lines[j] # p.lines[i]
    BY DEF Shows
<1> DEFINE q == order[i]
<1>1. /\ IsOrder(order, got) /\ i \in DOMAIN order /\ p.lines[i] = At(got, q)
      /\ q \in Places(got)
    BY DEF IsMerge, IsOrder
<1>2. q[1] \in Nodes /\ q[2] \in DOMAIN got[q[1]].lines /\ At(got, q).node = q[1]
    BY <1>1, PlaceTypes
<1> HIDE DEF q
<1>3. /\ cursor < At(got, q).ts
      /\ [id |-> At(got, q).id, ts |-> At(got, q).ts, hit |-> TRUE] \in EntriesIn(F[q[1]])
    BY <1>1, <1>2 DEF Sound, SoundFor, At
<1>4. ASSUME NEW j \in 1 .. i - 1
      PROVE  p.lines[j].ts <= p.lines[i].ts /\ p.lines[j] # p.lines[i]
    <2>1. DOMAIN p.lines = 1 .. Len(p.lines) /\ Len(p.lines) \in Nat
        BY PageTypes DEF IsMerge, Pages
    <2>2. j \in DOMAIN p.lines /\ j < i
        BY <2>1
    <2>3. j \in DOMAIN order /\ p.lines[j] = At(got, order[j])
        BY <2>2 DEF IsMerge
    <2>4. /\ order[j] \in Places(got) /\ order[j] # q
          /\ At(got, order[j]).ts <= At(got, q).ts
        BY <1>1, <2>2, <2>3 DEF IsOrder, q
    <2>5. At(got, order[j]) # At(got, q)
        BY <1>1, <2>4, OnePlace
    <2> QED
        BY <1>1, <2>3, <2>4, <2>5
<1> QED
    BY <1>1, <1>2, <1>3, <1>4

\* Where a node found a full page, no page ends later: its lines cannot all be
\* among those before the last.
LEMMA FullNode ==
    ASSUME NEW got, Got(got), NEW order, NEW p, IsMerge(p, order, got),
           NEW n \in Nodes, Len(got[n].lines) = Limit, p.lines # <<>>,
           NEW t \in Nat, \A i \in DOMAIN got[n].lines : got[n].lines[i].ts <= t
    PROVE  p.lines[Len(p.lines)].ts <= t
<1> DEFINE N == Len(p.lines)
           S == 1 .. Limit
           T == 1 .. N - 1
<1>1. /\ p.lines \in Seq(PageLines) /\ N \in Nat /\ DOMAIN p.lines = 1 .. N
      /\ N <= Limit /\ Limit \in Nat /\ \A i \in DOMAIN p.lines : p.lines[i].ts \in Nat
    BY PageTypes, LimitAssumption DEF IsMerge, Pages
<1>2. N # 0
    BY <1>1, EmptySeq
<1>3. DOMAIN got[n].lines = 1 .. Limit
    BY PageTypes DEF Got, Pages
<1> HIDE DEF N
<1>4. /\ N \in DOMAIN p.lines /\ N \in DOMAIN order
      /\ p.lines[N] = At(got, order[N])
    <2>1. N \in 1 .. N
        BY <1>1, <1>2
    <2> QED
        BY <1>1, <2>1 DEF IsMerge
<1>5. SUFFICES ASSUME p.lines[N].ts > t
               PROVE  FALSE
    BY <1>1, <1>4 DEF N
<1>6. ASSUME NEW i \in S
      PROVE  \E k \in T : order[k] = <<n, i>>
    <2>1. <<n, i>> \in Places(got)
        BY <1>3, PlaceTypes
    <2>2. PICK k \in DOMAIN order : order[k] = <<n, i>>
        BY <2>1 DEF IsMerge, IsOrder
    <2>3. At(got, order[k]).ts <= t
        BY <1>3, <2>2 DEF At
    <2>4. DOMAIN order = 1 .. Len(order) /\ order \in Seq(Places(got))
        BY DEF IsMerge, IsOrder
    <2>5. Len(order) \in Nat /\ k \in Nat /\ k >= 1
        <3>1. Len(order) \in Nat
            BY <2>4, LenProperties
        <3> QED
            BY <2>4, <3>1
    <2>6. ASSUME k >= N
          PROVE  FALSE
        <3>1. At(got, order[N]).ts <= At(got, order[k]).ts
            <4>1. CASE k = N
                <5>1. At(got, order[N]).ts \in Nat
                    BY <1>1, <1>4
                <5> QED
                    BY <4>1, <5>1
            <4>2. CASE N < k
                BY <1>4, <4>2 DEF IsMerge, IsOrder
            <4> QED
                BY <1>1, <2>5, <2>6, <4>1, <4>2
        <3>2. At(got, order[k]).ts \in Nat /\ At(got, order[N]).ts \in Nat
            BY <1>1, <1>4, <2>1, <2>2, PlaceTypes
        <3> QED
            BY <1>4, <1>5, <2>3, <3>1, <3>2
    <2>7. k \in T
        BY <1>1, <2>5, <2>6
    <2> QED
        BY <2>2, <2>7
<1> DEFINE f == [i \in S |-> CHOOSE k \in T : order[k] = <<n, i>>]
<1>7. f \in [S -> T] /\ \A i \in S : order[f[i]] = <<n, i>>
    BY <1>6
<1> HIDE DEF f
<1>8. /\ IsFiniteSet(S) /\ IsFiniteSet(T) /\ Cardinality(T) < Cardinality(S)
    <2>1. /\ Limit \in Int /\ N - 1 \in Int /\ 1 \in Int
          /\ ~(1 > Limit) /\ Limit - 1 + 1 = Limit
          /\ (IF 1 > N - 1 THEN 0 ELSE (N - 1) - 1 + 1) = N - 1
        BY <1>1, <1>2
    <2>2. IsFiniteSet(S) /\ Cardinality(S) = Limit
        <3>1. /\ IsFiniteSet(1 .. Limit)
              /\ Cardinality(1 .. Limit) = IF 1 > Limit THEN 0 ELSE Limit - 1 + 1
            BY ONLY <2>1, FS_Interval
        <3> QED
            BY ONLY <2>1, <3>1 DEF S
    <2>3. IsFiniteSet(T) /\ Cardinality(T) = N - 1
        <3>1. /\ IsFiniteSet(1 .. N - 1)
              /\ Cardinality(1 .. N - 1) = IF 1 > N - 1 THEN 0 ELSE (N - 1) - 1 + 1
            BY ONLY <2>1, FS_Interval
        <3> QED
            BY ONLY <2>1, <3>1 DEF T
    <2> QED
        BY <1>1, <1>2, <2>2, <2>3
<1>9. PICK i \in S, j \in S : i # j /\ f[i] = f[j]
    <2>1. f \in [S -> T]
        BY <1>7
    <2> HIDE DEF S, T
    <2> QED
        BY <1>8, <2>1, FS_PigeonHole
<1> QED
    BY <1>7, <1>9

\* What of entries before its last line a page must show, after a cursor.
Covers(p, entries, n, cursor, overtaken) ==
    \A e \in entries :
        /\ e.hit
        /\ cursor < e.ts
        /\ p.hasMore => /\ p.lines # <<>> /\ e.ts < Last(p.lines).ts
                        /\ e.id \notin overtaken
        => LineOf(n, e) \in ToSet(p.lines)

LEMMA MergeIsComplete ==
    ASSUME NEW got, Got(got), NEW cursor \in Times,
           NEW p, NEW order, IsMerge(p, order, got), NEW overtaken,
           NEW n \in Nodes, NEW entries, \A e \in entries : e.ts \in Nat,
           CompleteFor(got[n].lines, got[n].hasMore, entries, cursor, overtaken)
    PROVE  Covers(p, entries, n, cursor, overtaken)
<1> SUFFICES ASSUME NEW e \in entries, e.hit, cursor < e.ts,
                    p.hasMore => /\ p.lines # <<>> /\ e.ts < Last(p.lines).ts
                                 /\ e.id \notin overtaken
             PROVE  LineOf(n, e) \in ToSet(p.lines)
    BY DEF Covers
<1> DEFINE N == Len(p.lines)
           found == got[n].lines
<1>1. /\ p.lines \in Seq(PageLines) /\ N \in Nat /\ DOMAIN p.lines = 1 .. N
      /\ N <= Limit /\ Limit \in Nat \ {0} /\ \A i \in DOMAIN p.lines : p.lines[i].ts \in Nat
    BY PageTypes, LimitAssumption DEF IsMerge, Pages
<1>2. p.lines # <<>> => Last(p.lines) = p.lines[N]
    BY DEF Last
<1>3. e.ts \in Nat /\ cursor \in Nat /\ e.ts # 0
    BY LineTypes
<1>4. ToSet(p.lines) = {p.lines[i] : i \in DOMAIN p.lines}
    BY DEF ToSet
<1> HIDE DEF N, found
<1>5. CASE \E i \in DOMAIN found : found[i].id = e.id /\ found[i].ts = e.ts
    <2>1. PICK i \in DOMAIN found : found[i].id = e.id /\ found[i].ts = e.ts
        BY <1>5
    <2>2. <<n, i>> \in Places(got)
        BY <2>1, PlaceTypes DEF found
    <2>3. PICK k \in DOMAIN order : order[k] = <<n, i>>
        BY <2>2 DEF IsMerge, IsOrder
    <2>4. At(got, order[k]) = LineOf(n, e)
        <3>1. /\ At(got, order[k]) \in PageLines /\ At(got, order[k]).node = n
              /\ At(got, order[k]).ts = e.ts /\ At(got, order[k]).id = e.id
            <4>1. At(got, <<n, i>>) = found[i]
                BY DEF At, found
            <4>2. At(got, <<n, i>>) \in PageLines /\ At(got, <<n, i>>).node = n
                BY <2>2, PlaceTypes
            <4> QED
                BY <2>1, <2>3, <4>1, <4>2
        <3> QED
            BY <3>1 DEF PageLines, LineOf
    <2>5. CASE k \in DOMAIN p.lines
        <3>1. p.lines[k] = LineOf(n, e)
            BY <2>4, <2>5 DEF IsMerge
        <3> QED
            BY <1>4, <2>5, <3>1
    <2>6. CASE k \notin DOMAIN p.lines
        <3>1. /\ DOMAIN order = 1 .. Len(order) /\ order \in Seq(Places(got))
              /\ N <= Len(order)
              /\ N < Len(order) => p.hasMore /\ N = Limit
            BY DEF IsMerge, IsOrder, N
        <3>2. Len(order) \in Nat
            BY <3>1, LenProperties
        <3>3. k \in Nat /\ N < k /\ N < Len(order)
            BY <1>1, <2>6, <3>1, <3>2
        <3>4. N \in DOMAIN p.lines /\ N \in DOMAIN order
            BY <1>1, <3>1, <3>2, <3>3
        <3>5. p.lines[N] = At(got, order[N]) /\ p.lines # <<>>
            BY <3>4, EmptySeq DEF IsMerge
        <3>6. At(got, order[N]).ts <= e.ts
            <4>1. IsOrder(order, got)
                BY DEF IsMerge
            <4>2. At(got, order[N]).ts <= At(got, order[k]).ts
                BY <3>3, <3>4, <4>1 DEF IsOrder
            <4> QED
                BY <2>4, <4>2 DEF LineOf
        <3>7. e.ts < p.lines[N].ts
            BY <1>2, <3>1, <3>3, <3>5
        <3> QED
            BY <1>1, <1>3, <3>4, <3>5, <3>6, <3>7
    <2> QED
        BY <2>5, <2>6
<1>6. CASE /\ got[n].hasMore
           /\ e.id \in overtaken \/ \A i \in DOMAIN found : found[i].ts <= e.ts
    <2>1. Len(found) = Limit
        BY <1>6 DEF Got, NodePage, found
    <2>2. p.hasMore
        BY <1>6 DEF IsMerge, SomeHasMore
    <2>3. p.lines # <<>> /\ e.ts < p.lines[N].ts /\ e.id \notin overtaken
        BY <1>2, <2>2
    <2>4. p.lines[N].ts <= e.ts
        BY <1>3, <1>6, <2>1, <2>3, FullNode DEF N, found
    <2>5. N \in DOMAIN p.lines
        <3>1. N # 0
            BY <1>1, <2>3, EmptySeq DEF N
        <3> QED
            BY <1>1, <3>1
    <2> QED
        BY <1>1, <1>3, <2>3, <2>4, <2>5
<1> QED
    BY <1>5, <1>6 DEF CompleteFor, found

-----------------------------------------------------------------------------
(* What an application writes.                                              *)

\* Entries are added that come after a time, and none is lost.
Grown(old, new, now, later) ==
    old \subseteq new /\ \A e \in new : e \in old \/ (now < e.id /\ e.id <= later)

\* The entry written last and its continuation lines leave those before alone.
LEMMA LinesGrow ==
    ASSUME NEW old \in Seq(LogLines), Ascending(old), NEW now \in Nat, NEW later \in Nat,
           \A i \in DOMAIN old : old[i].id <= now, now < later,
           NEW x \in Seq(LogLines), Len(x) # 0, x[1].id = later,
           \A i \in DOMAIN x : i # 1 => x[i].ts = 0
    PROVE  LET c == old \o x
           IN  /\ c \in Seq(LogLines) /\ Ascending(c)
               /\ \A i \in DOMAIN c : c[i].id <= later
               /\ Grown(EntriesOf(old), EntriesOf(c), now, later)
<1> DEFINE c == old \o x
           n == Len(old)
           w == Len(x)
<1>1. /\ n \in Nat /\ DOMAIN old = 1 .. n /\ w \in Nat /\ w # 0 /\ DOMAIN x = 1 .. w
      /\ \A i \in DOMAIN old : old[i].id \in Nat
    BY LineTypes
<1>2. /\ c \in Seq(LogLines) /\ Len(c) = n + w
      /\ \A i \in 1 .. n + w : c[i] = IF i <= n THEN old[i] ELSE x[i - n]
    BY ConcatProperties
<1>3. DOMAIN c = 1 .. n + w
    BY <1>2, LineTypes
<1> HIDE DEF c, n, w
<1>4. \A i \in 1 .. n : i \in DOMAIN c /\ c[i] = old[i]
    BY <1>1, <1>2, <1>3
<1>5. n + 1 \in DOMAIN c /\ c[n + 1].id = later /\ c[n + 1].ts # 0
    <2>1. n + 1 \in 1 .. n + w /\ ~(n + 1 <= n) /\ (n + 1) - n = 1
        BY <1>1
    <2>2. n + 1 \in DOMAIN c /\ c[n + 1].id = later
        BY <1>2, <1>3, <2>1
    <2>3. c[n + 1] \in LogLines /\ later # 0
        BY <1>2, <2>2, LineTypes
    <2> QED
        BY <2>2, <2>3, LineTypes
<1>6. ASSUME NEW i \in DOMAIN c, i \notin 1 .. n, i # n + 1
      PROVE  c[i].ts = 0 /\ c[i].id = 0
    <2>1. i \in 1 .. n + w /\ ~(i <= n) /\ i - n \in 1 .. w /\ i - n # 1
        BY <1>1, <1>3, <1>6
    <2>2. c[i].ts = 0
        BY <1>1, <1>2, <2>1
    <2> QED
        BY <1>2, <1>6, <2>2, LineTypes
<1>7. \A i \in DOMAIN c : c[i].id <= later
    <2>1. ASSUME NEW i \in DOMAIN c
          PROVE  c[i].id <= later
        <3>1. CASE i \in 1 .. n
            <4>1. c[i].id \in Nat /\ c[i].id <= now
                BY <1>1, <1>4, <3>1
            <4> QED
                BY <4>1
        <3>2. CASE i = n + 1
            BY <1>5, <3>2
        <3>3. CASE i \notin 1 .. n /\ i # n + 1
            BY <1>6, <3>3
        <3> QED
            BY <3>1, <3>2, <3>3
    <2> QED
        BY <2>1
<1>8. Ascending(c)
    <2>1. ASSUME NEW i \in DOMAIN c, NEW j \in DOMAIN c, i < j, c[j].ts # 0
          PROVE  c[i].id < c[j].id
        <3>1. j \in 1 .. n \/ j = n + 1
            BY <1>6, <2>1
        <3>2. CASE j \in 1 .. n
            <4>1. i \in 1 .. n
                BY <1>1, <1>3, <2>1, <3>2
            <4> QED
                BY <1>1, <1>4, <2>1, <3>2, <4>1 DEF Ascending
        <3>3. CASE j = n + 1
            <4>1. i \in 1 .. n
                BY <1>1, <1>3, <2>1, <3>3
            <4>2. c[i].id <= now /\ c[i].id \in Nat /\ c[j].id = later
                BY <1>1, <1>4, <1>5, <3>3, <4>1
            <4> QED
                BY <4>2
        <3> QED
            BY <3>1, <3>2, <3>3
    <2> QED
        BY <2>1 DEF Ascending
<1>9. ASSUME NEW i \in 1 .. n
      PROVE  EntryAt(c, i) = EntryAt(old, i)
    <2>1. ASSUME NEW j \in i .. n
          PROVE  /\ j \in i .. n + w /\ c[j] = old[j]
                 /\ Bare(c, i + 1, j) <=> Bare(old, i + 1, j)
        <3>1. j \in 1 .. n /\ \A k \in i + 1 .. j : k \in 1 .. n
            BY <1>1
        <3>2. j \in i .. n + w
            BY <1>1
        <3> QED
            BY <1>4, <3>1, <3>2 DEF Bare
    <2>2. ASSUME NEW j \in i .. n + w, Bare(c, i + 1, j)
          PROVE  j \in i .. n
        <3>1. n + 1 \notin i + 1 .. j
            BY <1>5, <2>2 DEF Bare
        <3> QED
            BY <1>1, <3>1
    <2>3. (\E j \in i .. n + w : c[j].hit /\ Bare(c, i + 1, j))
             <=> \E j \in i .. n : old[j].hit /\ Bare(old, i + 1, j)
        BY <2>1, <2>2
    <2>4. c[i] = old[i]
        BY <1>4
    <2>5. EntryAt(c, i) = [id |-> c[i].id, ts |-> c[i].ts,
                           hit |-> \E j \in i .. n + w : c[j].hit /\ Bare(c, i + 1, j)]
        BY <1>2 DEF EntryAt, Bare
    <2>6. EntryAt(old, i) = [id |-> old[i].id, ts |-> old[i].ts,
                             hit |-> \E j \in i .. n : old[j].hit /\ Bare(old, i + 1, j)]
        BY DEF EntryAt, Bare, n
    <2> QED
        BY <2>3, <2>4, <2>5, <2>6
<1>10. EntriesOf(old) \subseteq EntriesOf(c)
    BY <1>1, <1>4, <1>9 DEF EntriesOf, Heads
<1>11. ASSUME NEW e \in EntriesOf(c)
       PROVE  e \in EntriesOf(old) \/ (now < e.id /\ e.id <= later)
    <2>1. PICK i \in DOMAIN c : c[i].ts # 0 /\ e = EntryAt(c, i)
        BY DEF EntriesOf, Heads
    <2>2. CASE i \in 1 .. n
        BY <1>1, <1>4, <1>9, <2>1, <2>2 DEF EntriesOf, Heads
    <2>3. CASE i \notin 1 .. n
        <3>1. i = n + 1
            BY <1>6, <2>1, <2>3
        <3>2. e.id = later
            BY <1>5, <2>1, <3>1 DEF EntryAt
        <3> QED
            BY <3>2
    <2> QED
        BY <2>2, <2>3
<1> QED
    BY <1>2, <1>7, <1>8, <1>10, <1>11 DEF Grown, c

\* Where the entries of some files come from.
LEMMA EntryTypesIn ==
    ASSUME NEW S, FilesOf(S), NEW now, InOrder(S, now), NEW f \in S, NEW e \in EntriesOf(f.lines)
    PROVE  /\ e.ts \in Nat /\ e.ts # 0 /\ e.ts \in Times
           /\ e.id \in Nat /\ e.id \in Ids /\ e.id <= now
<1>1. PICK i \in DOMAIN f.lines : f.lines[i].ts # 0 /\ e = EntryAt(f.lines, i)
    BY DEF EntriesOf, Heads
<1>2. f.lines[i] \in LogLines /\ f.lines[i].id <= now
    BY LineTypes DEF FilesOf, InOrder
<1>3. e.id = f.lines[i].id /\ e.ts = f.lines[i].ts
    BY <1>1 DEF EntryAt
<1> QED
    BY <1>1, <1>2, <1>3, LineTypes

\* A file is replaced by one with more lines, or with another name.
LEMMA FileGrows ==
    ASSUME NEW S, FilesOf(S), NEW now \in Nat, NEW later \in Nat, now <= later,
           InOrder(S, now), NEW t \in S, NEW h \in Files, h.lines \in Seq(LogLines),
           \A g \in S : g # t => g.name # h.name,
           Ascending(h.lines), \A i \in DOMAIN h.lines : h.lines[i].id <= later,
           Grown(EntriesOf(t.lines), EntriesOf(h.lines), now, later)
    PROVE  LET T == (S \ {t}) \cup {h}
           IN  /\ FilesOf(T) /\ InOrder(T, later)
               /\ Grown(EntriesIn(S), EntriesIn(T), now, later)
<1> DEFINE T == (S \ {t}) \cup {h}
<1>1. \A f \in T : f = h \/ (f \in S /\ f # t)
    OBVIOUS
<1>2. FilesOf(T)
    <2>1. T \in SUBSET Files /\ \A f \in T : f.lines \in Seq(LogLines)
        BY DEF FilesOf
    <2>2. IsFiniteSet(T)
        <3>1. IsFiniteSet(S \ {t})
            BY FS_Subset DEF FilesOf
        <3> QED
            BY <3>1, FS_AddElement
    <2>3. \A f, g \in T : f.name = g.name => f = g
        BY DEF FilesOf
    <2> QED
        BY <2>1, <2>2, <2>3 DEF FilesOf
<1> HIDE DEF T
<1>3. ASSUME NEW g \in S, g # t, NEW d \in EntriesOf(h.lines), NEW e \in EntriesOf(g.lines)
      PROVE  d.id # e.id
    <2>1. CASE d \in EntriesOf(t.lines)
        BY <1>3, <2>1 DEF InOrder
    <2>2. CASE now < d.id
        <3>1. e.id \in Nat /\ e.id <= now
            BY <1>3, EntryTypesIn
        <3> QED
            BY <2>2, <3>1
    <2> QED
        BY <2>1, <2>2 DEF Grown
<1>4. InOrder(T, later)
    <2>1. \A f \in T : Ascending(f.lines)
        BY <1>1 DEF InOrder
    <2>2. ASSUME NEW f \in T, NEW i \in DOMAIN f.lines
          PROVE  f.lines[i].id <= later
        <3>1. CASE f \in S
            <4>1. f.lines[i].id \in Nat /\ f.lines[i].id <= now
                BY <3>1, LineTypes DEF InOrder, FilesOf
            <4> QED
                BY <4>1
        <3> QED
            BY <1>1, <2>2, <3>1
    <2>3. ASSUME NEW f \in T, NEW g \in T, f # g,
                 NEW d \in EntriesOf(f.lines), NEW e \in EntriesOf(g.lines)
          PROVE  d.id # e.id
        <3>1. CASE f \in S /\ f # t /\ g \in S /\ g # t
            BY <2>3, <3>1 DEF InOrder
        <3>2. CASE f = h /\ g \in S /\ g # t
            BY <1>3, <2>3, <3>2
        <3>3. CASE g = h /\ f \in S /\ f # t
            <4>1. e.id # d.id
                BY <1>3, <2>3, <3>3
            <4> QED
                BY <4>1
        <3> QED
            BY <1>1, <2>3, <3>1, <3>2, <3>3
    <2> QED
        BY <2>1, <2>2, <2>3 DEF InOrder
<1>5. Grown(EntriesIn(S), EntriesIn(T), now, later)
    BY DEF Grown, EntriesIn, T
<1> QED
    BY <1>2, <1>4, <1>5 DEF T

\* What Write makes of the files of a node.
LEMMA FilesGrow ==
    ASSUME NEW n \in Nodes, FilesOf(files[n]), InOrder(files[n], written),
           written \in Nat, written < MaxEntries,
           NEW w \in Writes, NEW f \in files[n], NEW t \in 1 .. MaxTime
    PROVE  LET h == [f EXCEPT !.lines = @ \o [i \in DOMAIN w |->
                        [id |-> IF i = 1 THEN written + 1 ELSE 0,
                         ts |-> IF i = 1 THEN t ELSE 0, hit |-> w[i]]]]
               T == (files[n] \ {f}) \cup {h}
           IN  /\ FilesOf(T) /\ InOrder(T, written + 1)
               /\ Grown(EntriesIn(files[n]), EntriesIn(T), written, written + 1)
<1> DEFINE S == files[n]
           x == [i \in DOMAIN w |-> [id |-> IF i = 1 THEN written + 1 ELSE 0,
                                     ts |-> IF i = 1 THEN t ELSE 0, hit |-> w[i]]]
           h == [f EXCEPT !.lines = @ \o x]
<1>1. f \in Files /\ f.lines \in Seq(LogLines)
    BY DEF FilesOf
<1>2. w \in Seq(BOOLEAN) /\ Len(w) \in Nat /\ Len(w) # 0 /\ DOMAIN w = 1 .. Len(w)
    <2>1. w \in Seq(BOOLEAN) /\ w # <<>>
        BY WritesAssumption
    <2> QED
        BY <2>1, EmptySeq, LenProperties
<1>3. /\ written + 1 \in Ids /\ written + 1 \in Nat /\ written + 1 # 0 /\ 0 \in Ids
      /\ t \in Times /\ t # 0 /\ 0 \in Times
    BY BoundsAssumption DEF Times, Ids
<1>4. /\ x \in Seq(LogLines) /\ Len(x) # 0 /\ x[1].id = written + 1
      /\ \A i \in DOMAIN x : i # 1 => x[i].ts = 0
    <2>1. \A i \in DOMAIN w : w[i] \in BOOLEAN
        BY <1>2, ElementOfSeq
    <2>2. \A i \in DOMAIN w : x[i] \in LogLines
        BY <1>3, <2>1 DEF Lines, LogLines
    <2>3. x \in Seq(LogLines) /\ Len(x) = Len(w)
        <3>1. x \in [1 .. Len(w) -> LogLines]
            BY <1>2, <2>2
        <3> QED
            BY <1>2, <3>1, IsASeq, LenProperties
    <2>4. 1 \in DOMAIN w
        BY <1>2
    <2> QED
        BY <1>2, <2>3, <2>4
<1> HIDE DEF x
<1> DEFINE c == f.lines \o x
<1>5. /\ c \in Seq(LogLines) /\ Ascending(c)
      /\ \A i \in DOMAIN c : c[i].id <= written + 1
      /\ Grown(EntriesOf(f.lines), EntriesOf(c), written, written + 1)
    <2>1. Ascending(f.lines) /\ \A i \in DOMAIN f.lines : f.lines[i].id <= written
        BY DEF InOrder
    <2>2. written < written + 1
        OBVIOUS
    <2> QED
        BY <1>1, <1>3, <1>4, <2>1, <2>2, LinesGrow
<1>6. h = [f EXCEPT !.lines = c]
    OBVIOUS
<1> HIDE DEF h, c
<1>7. h \in Files /\ h.name = f.name /\ h.lines = c
    <2>1. c \in Seq(Lines)
        <3>1. LogLines \subseteq Lines
            BY DEF LogLines
        <3> QED
            BY <1>5, <3>1, LenProperties, ElementOfSeq, IsASeq
    <2> QED
        BY <1>1, <1>6, <2>1 DEF Files
<1>8. \A g \in S : g # f => g.name # h.name
    BY <1>7 DEF FilesOf
<1>9. written <= written + 1
    OBVIOUS
<1>10. LET T == (S \ {f}) \cup {h}
       IN  /\ FilesOf(T) /\ InOrder(T, written + 1)
           /\ Grown(EntriesIn(S), EntriesIn(T), written, written + 1)
    <2>1. FilesOf(S) /\ InOrder(S, written) /\ f \in S /\ written + 1 \in Nat
        OBVIOUS
    <2>2. h.lines \in Seq(LogLines) /\ Ascending(h.lines)
        BY <1>5, <1>7
    <2>3. \A i \in DOMAIN h.lines : h.lines[i].id <= written + 1
        BY <1>5, <1>7
    <2>4. Grown(EntriesOf(f.lines), EntriesOf(h.lines), written, written + 1)
        BY <1>5, <1>7
    <2> HIDE DEF S
    <2> QED
        BY <1>7, <1>8, <1>9, <2>1, <2>2, <2>3, <2>4, FileGrows
<1> QED
    BY <1>10 DEF h, x

\* What WriteBanner makes of them.
LEMMA BannerIsAdded ==
    ASSUME NEW n \in Nodes, FilesOf(files[n]), InOrder(files[n], written), written \in Nat,
           NEW f \in files[n], f.lines = <<>>
    PROVE  LET h == [f EXCEPT !.lines = <<[id |-> 0, ts |-> 0, hit |-> TRUE]>>]
               T == (files[n] \ {f}) \cup {h}
           IN  /\ FilesOf(T) /\ InOrder(T, written)
               /\ Grown(EntriesIn(files[n]), EntriesIn(T), written, written)
<1> DEFINE S == files[n]
           l == [id |-> 0, ts |-> 0, hit |-> TRUE]
           c == <<l>>
           h == [f EXCEPT !.lines = c]
<1>1. f \in Files
    BY DEF FilesOf
<1>2. c \in Seq(LogLines) /\ c \in Seq(Lines) /\ DOMAIN c = {1} /\ c[1].ts = 0 /\ c[1].id = 0
    <2>1. l \in Lines /\ l \in LogLines
        BY LineTypes DEF Lines, LogLines
    <2> QED
        BY <2>1
<1>3. EntriesOf(c) = {} /\ EntriesOf(f.lines) = {}
    BY <1>2, EmptySeq DEF EntriesOf, Heads
<1>4. Ascending(c) /\ \A i \in DOMAIN c : c[i].id <= written
    BY <1>2 DEF Ascending
<1> HIDE DEF c
<1>5. h \in Files /\ h.name = f.name /\ h.lines = c
    BY <1>1, <1>2 DEF Files
<1>6. Grown(EntriesOf(f.lines), EntriesOf(h.lines), written, written)
    BY <1>3, <1>5 DEF Grown
<1> HIDE DEF h
<1>7. \A g \in S : g # f => g.name # h.name
    BY <1>5 DEF FilesOf
<1>8. LET T == (S \ {f}) \cup {h}
      IN  /\ FilesOf(T) /\ InOrder(T, written)
          /\ Grown(EntriesIn(S), EntriesIn(T), written, written)
    <2>1. FilesOf(S) /\ InOrder(S, written) /\ f \in S /\ written <= written
        OBVIOUS
    <2>2. h.lines \in Seq(LogLines) /\ Ascending(h.lines)
        BY <1>2, <1>4, <1>5
    <2>3. \A i \in DOMAIN h.lines : h.lines[i].id <= written
        BY <1>4, <1>5
    <2> HIDE DEF S
    <2> QED
        BY <1>5, <1>6, <1>7, <2>1, <2>2, <2>3, FileGrows
<1> QED
    BY <1>8 DEF h, c

\* What Rename makes of them.
LEMMA FileIsRenamed ==
    ASSUME NEW n \in Nodes, FilesOf(files[n]), InOrder(files[n], written), written \in Nat,
           NEW f \in files[n], NEW m \in FreeNames(n)
    PROVE  LET T == (files[n] \ {f}) \cup {[f EXCEPT !.name = m]}
           IN  /\ FilesOf(T) /\ InOrder(T, written)
               /\ Grown(EntriesIn(files[n]), EntriesIn(T), written, written)
<1> DEFINE S == files[n]
           h == [f EXCEPT !.name = m]
<1>1. f \in Files /\ f.lines \in Seq(LogLines)
    BY DEF FilesOf
<1>2. h \in Files /\ h.name = m /\ h.lines = f.lines
    BY <1>1 DEF Files, FreeNames
<1> HIDE DEF h
<1>3. \A g \in S : g.name # h.name
    BY <1>2 DEF FreeNames
<1>4. Ascending(h.lines) /\ \A i \in DOMAIN h.lines : h.lines[i].id <= written
    BY <1>2 DEF InOrder
<1>5. Grown(EntriesOf(f.lines), EntriesOf(h.lines), written, written)
    BY <1>2 DEF Grown
<1>6. LET T == (S \ {f}) \cup {h}
      IN  /\ FilesOf(T) /\ InOrder(T, written)
          /\ Grown(EntriesIn(S), EntriesIn(T), written, written)
    <2>1. FilesOf(S) /\ InOrder(S, written) /\ f \in S /\ written <= written
        OBVIOUS
    <2>2. h.lines \in Seq(LogLines)
        BY <1>1, <1>2
    <2> HIDE DEF S
    <2> QED
        BY <1>2, <1>3, <1>4, <1>5, <2>1, <2>2, FileGrows
<1> QED
    BY <1>6 DEF h

\* What NewFile makes of them.
LEMMA FileIsAdded ==
    ASSUME NEW n \in Nodes, FilesOf(files[n]), InOrder(files[n], written),
           NEW m \in FreeNames(n)
    PROVE  LET T == files[n] \cup {[name |-> m, lines |-> <<>>]}
           IN  /\ FilesOf(T) /\ InOrder(T, written)
               /\ Grown(EntriesIn(files[n]), EntriesIn(T), written, written)
<1> DEFINE S == files[n]
           h == [name |-> m, lines |-> <<>>]
           T == S \cup {h}
<1>1. /\ h \in Files /\ h.lines \in Seq(LogLines) /\ h.name = m
      /\ DOMAIN h.lines = {} /\ EntriesOf(h.lines) = {}
    BY EmptySeq DEF Files, FreeNames, EntriesOf, Heads
<1> HIDE DEF h
<1>2. \A g \in S : g.name # h.name
    BY <1>1 DEF FreeNames
<1>3. FilesOf(T)
    <2>1. IsFiniteSet(T)
        BY FS_AddElement DEF FilesOf
    <2>2. T \in SUBSET Files /\ \A f \in T : f.lines \in Seq(LogLines)
        BY <1>1 DEF FilesOf
    <2>3. \A f, g \in T : f.name = g.name => f = g
        BY <1>2 DEF FilesOf
    <2> QED
        BY <2>1, <2>2, <2>3 DEF FilesOf
<1>4. InOrder(T, written)
    BY <1>1 DEF InOrder, Ascending
<1>5. Grown(EntriesIn(S), EntriesIn(T), written, written)
    BY <1>1 DEF Grown, EntriesIn
<1> QED
    BY <1>3, <1>4, <1>5 DEF T, h

-----------------------------------------------------------------------------
(* The invariant.                                                           *)

\* The files of a node have different names, and entries stand in them in the
\* order in which they were appended.
FilesOK(F, now) ==
    /\ F \in [Nodes -> SUBSET Files]
    /\ \A n \in Nodes : FilesOf(F[n]) /\ InOrder(F[n], now)

\* The entries of some files when a search was sent.
Known(S, at) == {e \in EntriesIn(S) : e.id <= at}

RestOK ==
    /\ written \in Ids
    /\ loading \in BOOLEAN
    /\ after \in Times
    /\ waiting \subseteq Nodes
    /\ page \in Pages
    /\ Len(page.lines) <= Limit
    /\ askedAt \in Ids /\ askedAt <= written
    /\ whole \subseteq Nodes \ waiting
    /\ late \subseteq Ids
    /\ shown \subseteq PageLines

\* What a node answered stays true while the applications write on.
AnswersOK ==
    /\ Got(answers)
    /\ Sound(answers, files, after)
    /\ loading => \A n \in whole :
          CompleteFor(answers[n].lines, answers[n].hasMore, Known(files[n], askedAt), after,
                      late)

\* And so does the page that is made of the answers.
PageOK == ~loading =>
    /\ Shows(page.lines, files, after)
    /\ \A n \in whole : Covers(page, Known(files[n], askedAt), n, after, late)

\* The earlier pages end where the search goes on.
ShownOK == \A l \in shown : l.ts <= after

Inv == FilesOK(files, written) /\ RestOK /\ AnswersOK /\ PageOK /\ ShownOK

LEMMA EntryTypes ==
    ASSUME NEW F, NEW now, FilesOK(F, now), NEW n \in Nodes, NEW e \in EntriesIn(F[n])
    PROVE  /\ e.ts \in Nat /\ e.ts # 0 /\ e.ts \in Times
           /\ e.id \in Nat /\ e.id \in Ids /\ e.id <= now
<1>1. PICK f \in F[n] : e \in EntriesOf(f.lines)
    BY DEF EntriesIn
<1>2. FilesOf(F[n]) /\ InOrder(F[n], now)
    BY DEF FilesOK
<1> QED
    BY <1>1, <1>2, EntryTypesIn

Growth(F, G, now, later) == \A n \in Nodes :
    Grown(EntriesIn(F[n]), EntriesIn(G[n]), now, later)

\* One node's files grow.
LEMMA NodeGrows ==
    ASSUME NEW F, NEW now \in Nat, NEW later \in Nat, FilesOK(F, now), now <= later,
           NEW n \in Nodes, NEW T, FilesOf(T), InOrder(T, later),
           Grown(EntriesIn(F[n]), EntriesIn(T), now, later)
    PROVE  LET G == [F EXCEPT ![n] = T]
           IN  FilesOK(G, later) /\ Growth(F, G, now, later)
<1> DEFINE G == [F EXCEPT ![n] = T]
<1>1. \A m \in Nodes : G[m] = IF m = n THEN T ELSE F[m]
    BY DEF FilesOK
<1>2. G \in [Nodes -> SUBSET Files]
    BY DEF FilesOK, FilesOf
<1> HIDE DEF G
<1>3. ASSUME NEW m \in Nodes, m # n
      PROVE  InOrder(F[m], later)
    <2>1. FilesOf(F[m]) /\ InOrder(F[m], now)
        BY DEF FilesOK
    <2>2. ASSUME NEW f \in F[m], NEW i \in DOMAIN f.lines
          PROVE  f.lines[i].id <= later
        <3>1. f.lines \in Seq(LogLines) /\ f.lines[i].id <= now
            BY <2>1 DEF FilesOf, InOrder
        <3>2. f.lines[i].id \in Nat
            BY <3>1, LineTypes
        <3> QED
            BY <3>1, <3>2
    <2> QED
        BY <2>1, <2>2 DEF InOrder
<1>4. Growth(F, G, now, later)
    BY <1>1 DEF Growth, Grown
<1>5. FilesOK(G, later)
    BY <1>1, <1>2, <1>3 DEF FilesOK
<1> QED
    BY <1>4, <1>5 DEF G

\* Nothing that was in the files is gone.
LEMMA GrowthAdds ==
    ASSUME NEW F, NEW G, NEW now, NEW later, Growth(F, G, now, later)
    PROVE  \A n \in Nodes : EntriesIn(F[n]) \subseteq EntriesIn(G[n])
BY DEF Growth, Grown

\* What was found stays.
LEMMA SoundStays ==
    ASSUME NEW F, NEW G, NEW got, NEW cursor, Sound(got, F, cursor),
           \A n \in Nodes : EntriesIn(F[n]) \subseteq EntriesIn(G[n])
    PROVE  Sound(got, G, cursor)
BY DEF Sound, SoundFor

LEMMA ShownStays ==
    ASSUME NEW F, NEW G, NEW lines \in Seq(PageLines), NEW cursor, Shows(lines, F, cursor),
           \A n \in Nodes : EntriesIn(F[n]) \subseteq EntriesIn(G[n])
    PROVE  Shows(lines, G, cursor)
<1>1. \A i \in DOMAIN lines : lines[i].node \in Nodes
    BY PageTypes
<1> QED
    BY <1>1 DEF Shows

\* What is to be found stays: new entries come after the question.
LEMMA KnownStays ==
    ASSUME NEW F, NEW G, NEW now \in Nat, NEW later, Growth(F, G, now, later),
           FilesOK(G, later), NEW at \in Nat, at <= now, NEW n \in Nodes
    PROVE  Known(G[n], at) = Known(F[n], at)
<1>1. EntriesIn(F[n]) \subseteq EntriesIn(G[n])
    BY GrowthAdds
<1>2. ASSUME NEW e \in EntriesIn(G[n]), e.id <= at
      PROVE  e \in EntriesIn(F[n])
    <2>1. e \in EntriesIn(F[n]) \/ (now < e.id /\ e.id <= later)
        BY DEF Growth, Grown
    <2>2. e.id \in Nat
        BY EntryTypes
    <2> QED
        BY <1>2, <2>1, <2>2
<1> QED
    BY <1>1, <1>2 DEF Known

LEMMA NoAnswers ==
    ASSUME NEW got, got = [n \in Nodes |-> NoPage], NEW F, NEW cursor
    PROVE  Got(got) /\ Sound(got, F, cursor)
<1>1. 0 <= Limit
    BY LimitAssumption
<1>2. Got(got)
    BY <1>1, NoPageType DEF Got, NodePage
<1>3. \A n \in Nodes : DOMAIN got[n].lines = {}
    BY NoPageType
<1> QED
    BY <1>2, <1>3 DEF Sound, SoundFor

LEMMA InvInit == Init => Inv
<1> SUFFICES ASSUME Init PROVE Inv
    OBVIOUS
<1> USE DEF Init
<1>1. FilesOf({}) /\ InOrder({}, written)
    BY FS_EmptySet DEF FilesOf, InOrder
<1>2. FilesOK(files, written)
    BY <1>1 DEF FilesOK
<1>3. 0 \in Times /\ 0 \in Ids /\ 0 <= Limit
    BY LineTypes, LimitAssumption
<1>4. RestOK
    <2>1. page \in Pages /\ Len(page.lines) <= Limit
        BY <1>3, NoPageType
    <2>2. askedAt <= written
        OBVIOUS
    <2> QED
        BY <1>3, <2>1, <2>2 DEF RestOK
<1>5. Got(answers)
    BY NoPageType, <1>3 DEF Got, NodePage
<1>6. AnswersOK
    BY <1>5, NoPageType DEF AnswersOK, Sound, SoundFor
<1>7. PageOK
    BY NoPageType DEF PageOK, Shows
<1> QED
    BY <1>2, <1>4, <1>6, <1>7 DEF Inv, ShownOK

\* What a write leaves of the invariant: all of it.
LEMMA WriteKeeps ==
    ASSUME Inv, NEW n \in Nodes, NEW T,
           written' \in Ids, written <= written', FilesOf(T), InOrder(T, written'),
           Grown(EntriesIn(files[n]), EntriesIn(T), written, written'),
           files' = [files EXCEPT ![n] = T], UNCHANGED searchVars
    PROVE  Inv'
<1> USE DEF searchVars
<1>1. /\ written \in Nat /\ written' \in Nat /\ askedAt \in Nat /\ askedAt <= written /\ after \in Nat
      /\ askedAt <= written'
    <2>1. written \in Nat /\ written' \in Nat /\ askedAt \in Nat /\ askedAt <= written /\ after \in Nat
        BY LineTypes DEF Inv, RestOK
    <2> QED
        BY <2>1
<1>2. FilesOK(files', written') /\ Growth(files, files', written, written')
    BY <1>1, NodeGrows DEF Inv
<1>3. whole \subseteq Nodes /\ page.lines \in Seq(PageLines)
    BY DEF Inv, RestOK, Pages
<1>4. /\ Sound(answers, files, after) => Sound(answers, files', after)
      /\ Shows(page.lines, files, after) => Shows(page.lines, files', after)
      /\ \A m \in Nodes : Known(files'[m], askedAt) = Known(files[m], askedAt)
    <2> DEFINE G == files'
               later == written'
               lines == page.lines
    <2>1. /\ FilesOK(G, later) /\ Growth(files, G, written, later)
          /\ lines \in Seq(PageLines)
          /\ written \in Nat /\ askedAt \in Nat /\ askedAt <= written
        BY <1>1, <1>2, <1>3 DEF Inv
    <2> HIDE DEF G, later, lines, Inv
    <2>2. /\ Sound(answers, files, after) => Sound(answers, G, after)
          /\ Shows(lines, files, after) => Shows(lines, G, after)
          /\ \A m \in Nodes : Known(G[m], askedAt) = Known(files[m], askedAt)
        <3>1. \A m \in Nodes : EntriesIn(files[m]) \subseteq EntriesIn(G[m])
            BY <2>1, GrowthAdds
        <3>2. Sound(answers, files, after) => Sound(answers, G, after)
            BY <3>1, SoundStays
        <3>3. Shows(lines, files, after) => Shows(lines, G, after)
            BY <2>1, <3>1, ShownStays
        <3>4. ASSUME NEW m \in Nodes
              PROVE  Known(G[m], askedAt) = Known(files[m], askedAt)
            BY <2>1, KnownStays
        <3> QED
            BY <3>2, <3>3, <3>4
    <2> QED
        BY <2>2 DEF G, lines
<1>5. RestOK'
    BY <1>1 DEF Inv, RestOK
<1>6. AnswersOK'
    BY <1>3, <1>4 DEF Inv, AnswersOK
<1>7. PageOK'
    BY <1>3, <1>4 DEF Inv, PageOK
<1>8. ShownOK'
    BY DEF Inv, ShownOK
<1> QED
    BY <1>2, <1>5, <1>6, <1>7, <1>8 DEF Inv

LEMMA WriteStep ==
    ASSUME Inv, NEW n \in Nodes, Write(n)
    PROVE  Inv'
<1>1. PICK w \in Writes, f \in files[n], t \in 1 .. MaxTime :
         /\ written < MaxEntries
         /\ written' = written + 1
         /\ files' = [files EXCEPT ![n] =
                (@ \ {f}) \cup
                {[f EXCEPT !.lines = @ \o [i \in DOMAIN w |->
                     [id |-> IF i = 1 THEN written + 1 ELSE 0,
                      ts |-> IF i = 1 THEN t ELSE 0, hit |-> w[i]]]]}]
         /\ UNCHANGED searchVars
    BY DEF Write
<1> DEFINE h == [f EXCEPT !.lines = @ \o [i \in DOMAIN w |->
                    [id |-> IF i = 1 THEN written + 1 ELSE 0,
                     ts |-> IF i = 1 THEN t ELSE 0, hit |-> w[i]]]]
           T == (files[n] \ {f}) \cup {h}
<1>2. written \in Nat /\ written' \in Ids /\ written <= written'
    BY <1>1, BoundsAssumption DEF Inv, RestOK, Ids
<1>3. files' = [files EXCEPT ![n] = T]
    BY <1>1
<1>4. FilesOf(files[n]) /\ InOrder(files[n], written)
    BY DEF Inv, FilesOK
<1>5. /\ FilesOf(T) /\ InOrder(T, written + 1)
      /\ Grown(EntriesIn(files[n]), EntriesIn(T), written, written + 1)
    BY <1>1, <1>2, <1>4, FilesGrow
<1> HIDE DEF T
<1> QED
    BY <1>1, <1>2, <1>3, <1>5, WriteKeeps

\* The steps that write no entry.
LEMMA NameKeeps ==
    ASSUME Inv, NEW n \in Nodes, NEW T, FilesOf(T), InOrder(T, written),
           Grown(EntriesIn(files[n]), EntriesIn(T), written, written),
           files' = [files EXCEPT ![n] = T], written' = written, UNCHANGED searchVars
    PROVE  Inv'
<1>1. written \in Ids /\ written \in Nat /\ written <= written
    BY LineTypes DEF Inv, RestOK
<1> QED
    BY <1>1, WriteKeeps

LEMMA BannerStep ==
    ASSUME Inv, NEW n \in Nodes, WriteBanner(n)
    PROVE  Inv'
<1>1. PICK f \in files[n] :
         /\ f.lines = <<>> /\ written' = written /\ UNCHANGED searchVars
         /\ files' = [files EXCEPT ![n] =
                (@ \ {f}) \cup
                {[f EXCEPT !.lines = <<[id |-> 0, ts |-> 0, hit |-> TRUE]>>]}]
    BY DEF WriteBanner
<1> DEFINE T == (files[n] \ {f}) \cup
                {[f EXCEPT !.lines = <<[id |-> 0, ts |-> 0, hit |-> TRUE]>>]}
<1>2. FilesOf(files[n]) /\ InOrder(files[n], written) /\ written \in Nat
    BY LineTypes DEF Inv, FilesOK, RestOK
<1>3. /\ FilesOf(T) /\ InOrder(T, written)
      /\ Grown(EntriesIn(files[n]), EntriesIn(T), written, written)
    BY <1>1, <1>2, BannerIsAdded
<1>4. files' = [files EXCEPT ![n] = T]
    BY <1>1
<1> HIDE DEF T
<1> QED
    BY <1>1, <1>3, <1>4, NameKeeps

LEMMA NewFileStep ==
    ASSUME Inv, NEW n \in Nodes, NewFile(n)
    PROVE  Inv'
<1>1. PICK m \in FreeNames(n) :
         /\ files' = [files EXCEPT ![n] = @ \cup {[name |-> m, lines |-> <<>>]}]
         /\ written' = written /\ UNCHANGED searchVars
    BY DEF NewFile
<1> DEFINE T == files[n] \cup {[name |-> m, lines |-> <<>>]}
<1>2. FilesOf(files[n]) /\ InOrder(files[n], written)
    BY DEF Inv, FilesOK
<1>3. /\ FilesOf(T) /\ InOrder(T, written)
      /\ Grown(EntriesIn(files[n]), EntriesIn(T), written, written)
    BY <1>2, FileIsAdded
<1>4. files' = [files EXCEPT ![n] = T]
    BY <1>1
<1> HIDE DEF T
<1> QED
    BY <1>1, <1>3, <1>4, NameKeeps

LEMMA RenameStep ==
    ASSUME Inv, NEW n \in Nodes, Rename(n)
    PROVE  Inv'
<1>1. PICK f \in files[n], m \in FreeNames(n) :
         /\ files' = [files EXCEPT ![n] = (@ \ {f}) \cup {[f EXCEPT !.name = m]}]
         /\ written' = written /\ UNCHANGED searchVars
    BY DEF Rename
<1> DEFINE T == (files[n] \ {f}) \cup {[f EXCEPT !.name = m]}
<1>2. FilesOf(files[n]) /\ InOrder(files[n], written) /\ written \in Nat
    BY LineTypes DEF Inv, FilesOK, RestOK
<1>3. /\ FilesOf(T) /\ InOrder(T, written)
      /\ Grown(EntriesIn(files[n]), EntriesIn(T), written, written)
    BY <1>2, FileIsRenamed
<1>4. files' = [files EXCEPT ![n] = T]
    BY <1>1
<1> HIDE DEF T
<1> QED
    BY <1>1, <1>3, <1>4, NameKeeps

\* A search starts with nothing found, after all that earlier pages show.
LEMMA AskStep ==
    ASSUME Inv, NEW cursor \in Times, Ask(cursor), shown' \subseteq PageLines,
           \A l \in shown' : l.ts <= cursor
    PROVE  Inv'
<1> USE DEF Ask, logVars
<1>1. written \in Nat /\ 0 <= Limit
    BY LineTypes, LimitAssumption DEF Inv, RestOK
<1>2. FilesOK(files', written')
    BY DEF Inv
<1>3. RestOK'
    BY <1>1 DEF Inv, RestOK
<1>4. Got(answers')
    BY <1>1, NoPageType DEF Got, NodePage
<1>5. AnswersOK'
    <2>1. \A n \in Nodes : SoundFor(answers'[n].lines, EntriesIn(files'[n]), after')
        BY NoPageType DEF SoundFor
    <2> QED
        BY <1>4, <2>1 DEF AnswersOK, Sound
<1>6. PageOK'
    BY DEF PageOK
<1>7. ShownOK'
    BY DEF ShownOK
<1> QED
    BY <1>2, <1>3, <1>5, <1>6, <1>7 DEF Inv

LEMMA NewSearchStep == Inv /\ NewSearch => Inv'
<1> SUFFICES ASSUME Inv, NewSearch PROVE Inv'
    OBVIOUS
<1> QED
    BY LineTypes, AskStep DEF NewSearch

LEMMA LoadMoreStep == Inv /\ LoadMore => Inv'
<1> SUFFICES ASSUME Inv, LoadMore PROVE Inv'
    OBVIOUS
<1> DEFINE lines == page.lines
           N == Len(lines)
           cursor == Last(lines).ts
<1>1. /\ ~loading /\ lines # <<>> /\ cursor # 0 /\ Ask(cursor)
      /\ shown' = shown \cup {l \in ToSet(lines) : l.ts # 0}
    BY DEF LoadMore, Timed
<1>2. /\ N \in Nat /\ DOMAIN lines = 1 .. N
      /\ \A i \in DOMAIN lines : lines[i] \in PageLines /\ lines[i].ts \in Nat
    BY PageTypes DEF Inv, RestOK, Pages
<1>3. Shows(lines, files, after) /\ after \in Nat /\ shown \subseteq PageLines
    BY <1>1, LineTypes DEF Inv, PageOK, RestOK
<1>4. Last(lines) = lines[N]
    BY <1>1 DEF Last
<1>5. ToSet(lines) = {lines[i] : i \in DOMAIN lines}
    BY DEF ToSet
<1> HIDE DEF lines
<1>6. N \in DOMAIN lines
    <2>1. N # 0
        <3>1. lines \in Seq(PageLines)
            BY DEF lines, Inv, RestOK, Pages
        <3> QED
            BY <1>1, <3>1, EmptySeq
    <2> QED
        BY <1>2, <2>1
<1>7. cursor \in Times /\ cursor \in Nat /\ after < cursor
    BY <1>1, <1>2, <1>3, <1>4, <1>6, PageTypes DEF Shows
<1>8. ASSUME NEW i \in DOMAIN lines
      PROVE  lines[i].ts <= cursor
    <2>1. i = N \/ i \in 1 .. N - 1
        BY <1>2
    <2>2. CASE i \in 1 .. N - 1
        <3>1. lines[i].ts <= lines[N].ts
            BY <1>1, <1>3, <1>4, <1>6, <2>2 DEF Shows
        <3> QED
            BY <1>2, <1>4, <1>7, <3>1
    <2> QED
        BY <1>4, <1>7, <2>1, <2>2
<1>9. ASSUME NEW l \in shown
      PROVE  l.ts <= cursor
    <2>1. l.ts \in Nat /\ l.ts <= after
        BY <1>3, PageTypes DEF Inv, ShownOK
    <2> QED
        BY <1>3, <1>7, <2>1
<1>10. shown' \subseteq PageLines /\ \A l \in shown' : l.ts <= cursor
    BY <1>1, <1>2, <1>3, <1>5, <1>8, <1>9
<1> HIDE DEF cursor
<1> QED
    BY <1>1, <1>7, <1>10, AskStep

LEMMA OvertakenIds ==
    ASSUME NEW n \in Nodes, FilesOf(files[n]), NEW now, InOrder(files[n], now)
    PROVE  Overtaken(n) \subseteq Ids
<1>1. ASSUME NEW f \in files[n]
      PROVE  OvertakenIn(f.lines) \subseteq Ids
    <2>1. \A i \in DOMAIN f.lines : f.lines[i].id \in Ids
        BY LineTypes DEF FilesOf
    <2> QED
        BY <2>1 DEF OvertakenIn, Heads
<1>2. ASSUME NEW f \in files[n], NEW g \in files[n]
      PROVE  OvertakenBy(f, g) \subseteq Ids
    <2>1. \A e \in EntriesOf(g.lines) : e.id \in Ids
        BY EntryTypesIn
    <2> QED
        BY <2>1 DEF OvertakenBy
<1>3. ASSUME NEW x \in Overtaken(n)
      PROVE  x \in Ids
    <2>1. \/ \E f \in files[n] : x \in OvertakenIn(f.lines)
          \/ \E p \in files[n] \X files[n] : x \in OvertakenBy(p[1], p[2])
        BY DEF Overtaken
    <2> QED
        BY <1>1, <1>2, <2>1
<1> QED
    BY <1>3

LEMMA AnswerStep ==
    ASSUME Inv, NEW n \in Nodes, Answer(n)
    PROVE  Inv'
<1> USE DEF logVars
<1>1. PICK unreadable :
         /\ answers' = [answers EXCEPT ![n] = Search(n, after, unreadable)]
         /\ whole' = IF unreadable = {} THEN whole \cup {n} ELSE whole
         /\ late' = IF unreadable = {} THEN late \cup Overtaken(n) ELSE late
    BY DEF Answer
<1>2. /\ loading /\ waiting' = waiting \ {n}
      /\ files' = files /\ written' = written /\ loading' = loading /\ after' = after
      /\ page' = page /\ askedAt' = askedAt /\ shown' = shown
    BY DEF Answer
<1> DEFINE r == Search(n, after, unreadable)
<1>3. /\ after \in Times /\ FilesOf(files[n]) /\ InOrder(files[n], written)
      /\ whole \subseteq Nodes
    BY DEF Inv, FilesOK, RestOK
<1>4. /\ NodePage(r, n)
      /\ SoundFor(r.lines, Entries(n), after)
      /\ unreadable = {} => CompleteFor(r.lines, r.hasMore, Entries(n), after, late')
    <2>1. /\ NodePage(r, n) /\ SoundFor(r.lines, Entries(n), after)
          /\ unreadable = {} =>
                CompleteFor(r.lines, r.hasMore, Entries(n), after, Overtaken(n))
        BY <1>3, NodeIsSearched
    <2>2. unreadable = {} => Overtaken(n) \subseteq late'
        BY <1>1
    <2> QED
        BY <2>1, <2>2 DEF CompleteFor
<1>5. Entries(n) = EntriesIn(files[n])
    BY DEF Entries, EntriesIn
<1> HIDE DEF r
<1>6. answers' = [answers EXCEPT ![n] = r]
    BY <1>1 DEF r
<1>7. /\ Got(answers) /\ Sound(answers, files, after)
      /\ \A m \in whole : CompleteFor(answers[m].lines, answers[m].hasMore,
                                      Known(files[m], askedAt), after, late)
    BY <1>2 DEF Inv, AnswersOK
<1>8. \A m \in Nodes : answers'[m] = IF m = n THEN r ELSE answers[m]
    BY <1>6, <1>7 DEF Got
<1>9. Got(answers')
    BY <1>4, <1>6, <1>7, <1>8 DEF Got, NodePage
<1>10. Sound(answers', files, after)
    BY <1>4, <1>5, <1>7, <1>8 DEF Sound
<1>11. ASSUME NEW m \in whole'
       PROVE  CompleteFor(answers'[m].lines, answers'[m].hasMore,
                          Known(files[m], askedAt), after, late')
    <2>1. CASE m # n
        <3>1. m \in whole /\ m \in Nodes
            BY <1>1, <1>3, <1>11, <2>1
        <3>2. answers'[m] = answers[m]
            BY <1>8, <2>1, <3>1
        <3>3. CompleteFor(answers[m].lines, answers[m].hasMore,
                          Known(files[m], askedAt), after, late)
            BY <1>7, <3>1
        <3>4. late \subseteq late'
            BY <1>1
        <3> QED
            BY <3>2, <3>3, <3>4 DEF CompleteFor
    <2>2. CASE m = n /\ unreadable = {}
        <3>1. CompleteFor(r.lines, r.hasMore, Known(files[n], askedAt), after, late')
            BY <1>4, <1>5, <2>2 DEF CompleteFor, Known
        <3> QED
            BY <1>8, <2>2, <3>1
    <2>3. CASE m = n /\ unreadable # {}
        <3>1. n \in waiting
            BY DEF Answer
        <3> QED
            BY <1>1, <1>11, <2>3, <3>1 DEF Inv, RestOK
    <2> QED
        BY <2>1, <2>2, <2>3
<1>12. AnswersOK'
    BY <1>2, <1>9, <1>10, <1>11 DEF AnswersOK
<1>13. whole' \subseteq Nodes \ waiting'
    BY <1>1, <1>2 DEF Inv, RestOK
<1>14. late' \subseteq Ids
    <2>1. Overtaken(n) \subseteq Ids
        BY <1>3, OvertakenIds
    <2> QED
        BY <1>1, <2>1 DEF Inv, RestOK
<1> QED
    BY <1>2, <1>12, <1>13, <1>14 DEF Inv, RestOK, PageOK, ShownOK

LEMMA NodeFailsStep ==
    ASSUME Inv, NEW n \in Nodes, NodeFails(n)
    PROVE  Inv'
BY DEF NodeFails, logVars, Inv, RestOK, AnswersOK, PageOK, ShownOK

LEMMA MergeStep == Inv /\ Merge => Inv'
<1> SUFFICES ASSUME Inv, Merge PROVE Inv'
    OBVIOUS
<1>1. /\ loading /\ loading' = FALSE /\ page' = Merged(answers)
      /\ files' = files /\ written' = written /\ after' = after /\ waiting' = waiting
      /\ answers' = [n \in Nodes |-> NoPage] /\ askedAt' = askedAt /\ whole' = whole /\ shown' = shown
      /\ late' = late
    BY DEF Merge, logVars
<1> DEFINE p == Merged(answers)
<1>2. /\ Got(answers) /\ Sound(answers, files, after) /\ after \in Times
      /\ FilesOK(files, written) /\ whole \subseteq Nodes
    BY DEF Inv, AnswersOK, RestOK, FilesOK
<1>3. PICK order : IsMerge(p, order, answers)
    BY <1>2, MergeIsOrdered
<1> HIDE DEF p
<1>4. p \in Pages /\ Len(p.lines) <= Limit
    BY <1>3 DEF IsMerge
<1>5. Shows(p.lines, files, after)
    BY <1>2, <1>3, MergeIsSound
<1>6. ASSUME NEW n \in whole
      PROVE  Covers(p, Known(files[n], askedAt), n, after, late)
    <2> DEFINE entries == Known(files[n], askedAt)
    <2>1. n \in Nodes /\ entries \in SUBSET EntriesIn(files[n])
        BY <1>2 DEF Known
    <2>2. \A e \in entries : e.ts \in Nat
        BY <1>2, <2>1, EntryTypes
    <2>3. CompleteFor(answers[n].lines, answers[n].hasMore, entries, after, late)
        BY <1>1 DEF Inv, AnswersOK
    <2> HIDE DEF entries
    <2>4. Covers(p, entries, n, after, late)
        BY <1>2, <1>3, <2>1, <2>2, <2>3, MergeIsComplete
    <2> QED
        BY <2>4 DEF entries
<1>7. PageOK'
    BY <1>1, <1>5, <1>6 DEF PageOK, p
<1>8. RestOK'
    BY <1>1, <1>4 DEF Inv, RestOK, p
<1>9. AnswersOK'
    <2>1. Got(answers') /\ Sound(answers', files', after')
        BY <1>1, NoAnswers
    <2> QED
        BY <1>1, <2>1 DEF AnswersOK
<1> QED
    BY <1>1, <1>7, <1>8, <1>9 DEF Inv, ShownOK

LEMMA QueryFailsStep == Inv /\ QueryFails => Inv'
<1> SUFFICES ASSUME Inv, QueryFails PROVE Inv'
    OBVIOUS
<1>1. /\ page' = NoPage /\ whole' = {} /\ loading' = FALSE /\ waiting' = {}
      /\ files' = files /\ written' = written /\ after' = after
      /\ answers' = [n \in Nodes |-> NoPage] /\ askedAt' = askedAt /\ shown' = shown
      /\ late' = {}
    BY DEF QueryFails, logVars
<1>2. page' \in Pages /\ Len(page'.lines) <= Limit /\ DOMAIN page'.lines = {}
    <2>1. 0 <= Limit
        BY LimitAssumption
    <2> QED
        BY <1>1, <2>1, NoPageType
<1>3. RestOK'
    BY <1>1, <1>2 DEF Inv, RestOK
<1>4. PageOK'
    BY <1>1, <1>2 DEF PageOK, Shows
<1>5. AnswersOK'
    <2>1. Got(answers') /\ Sound(answers', files', after')
        BY <1>1, NoAnswers
    <2> QED
        BY <1>1, <2>1 DEF AnswersOK
<1> QED
    BY <1>1, <1>3, <1>4, <1>5 DEF Inv, ShownOK

\* Every step keeps the invariant.
LEMMA InvStep == Inv /\ [Next]_vars => Inv'
<1> SUFFICES ASSUME Inv, [Next]_vars PROVE Inv'
    OBVIOUS
<1>1. ASSUME NEW n \in Nodes, \/ Write(n) \/ WriteBanner(n) \/ NewFile(n) \/ Rename(n)
                              \/ Answer(n) \/ NodeFails(n)
      PROVE  Inv'
    BY <1>1, WriteStep, BannerStep, NewFileStep, RenameStep, AnswerStep, NodeFailsStep
<1>2. CASE NewSearch \/ LoadMore \/ Merge \/ QueryFails
    BY <1>2, NewSearchStep, LoadMoreStep, MergeStep, QueryFailsStep
<1>3. CASE UNCHANGED vars
    BY <1>3 DEF vars, logVars, searchVars, Inv, RestOK, AnswersOK, PageOK, ShownOK
<1> QED
    BY <1>1, <1>2, <1>3 DEF Next

LEMMA Invariance == Spec => []Inv
<1> QED
    BY InvInit, InvStep, PTL DEF Spec

-----------------------------------------------------------------------------
(* What the invariant says of the pages.                                    *)

LEMMA TypesFollow == Inv => TypeOK
<1> SUFFICES ASSUME Inv PROVE TypeOK
    OBVIOUS
<1>1. files \in [Nodes -> SUBSET Files] /\ answers \in [Nodes -> Pages]
    BY DEF Inv, FilesOK, AnswersOK, Got
<1> QED
    BY <1>1 DEF Inv, RestOK, TypeOK

LEMMA SoundFollows == Inv => PageIsSound
<1> SUFFICES ASSUME Inv, ~loading, NEW i \in DOMAIN page.lines, page.lines[i].ts # 0
             PROVE  /\ [id |-> page.lines[i].id, ts |-> page.lines[i].ts, hit |-> TRUE]
                          \in Entries(page.lines[i].node)
                    /\ page.lines[i] \notin shown
                    /\ \A j \in 1 .. i - 1 :
                          page.lines[j].ts <= page.lines[i].ts /\ page.lines[j] # page.lines[i]
    BY DEF PageIsSound
<1> DEFINE l == page.lines[i]
<1>1. /\ after < l.ts
      /\ [id |-> l.id, ts |-> l.ts, hit |-> TRUE] \in EntriesIn(files[l.node])
      /\ \A j \in 1 .. i - 1 : page.lines[j].ts <= l.ts /\ page.lines[j] # l
    BY DEF Inv, PageOK, Shows
<1>2. Entries(l.node) = EntriesIn(files[l.node])
    BY DEF Entries, EntriesIn
<1>3. l.ts \in Nat /\ after \in Nat
    BY PageTypes, LineTypes DEF Inv, RestOK, Pages
<1>4. l \notin shown
    <2>1. \A m \in shown : m.ts <= after
        BY DEF Inv, ShownOK
    <2> QED
        BY <1>1, <1>3, <2>1
<1> QED
    BY <1>1, <1>2, <1>4

LEMMA CompleteFollows == Inv => PageIsComplete
<1> SUFFICES ASSUME Inv, ~loading, NEW n \in whole, NEW e \in Entries(n),
                    e.hit, after < e.ts, e.id <= askedAt,
                    page.hasMore => /\ page.lines # <<>> /\ e.ts < Last(page.lines).ts
                                    /\ e.id \notin late
             PROVE  LineOf(n, e) \in ToSet(page.lines)
    BY DEF PageIsComplete
<1>1. e \in Known(files[n], askedAt)
    BY DEF Entries, EntriesIn, Known
<1>2. Covers(page, Known(files[n], askedAt), n, after, late)
    BY DEF Inv, PageOK
<1> QED
    BY <1>1, <1>2 DEF Covers

\* The state has its type; the page shown is never longer than the limit the
\* panel asked for (log-history.service.ts:140).
THEOREM TypeInvariant == Spec => []TypeOK
<1> QED
    BY Invariance, TypesFollow, PTL

\* What a page shows was written and asked for, is in the order of time, and is
\* on the page once and on no earlier page of the search, for any number of nodes
\* and of files on each, any timestamps and any size of the page: the cursor that
\* SearchPanel.tsx:84 takes from the last line, the filter of reader.go:535 on it
\* and the merge's cut fit together, however the applications write and rename
\* their files between two pages.
THEOREM PagesAreSound == Spec => []PageIsSound
<1> QED
    BY Invariance, SoundFollows, PTL

\* An entry that a node had when the search was sent is on the page, if it comes
\* before the last line and its node did not read it after a later one; if there
\* is no more, every entry after the cursor is.  A node that stops at its limit
\* (reader.go:242) fills the merged page alone, so the cut of
\* log-history.service.ts:140 comes no later than what it did not send.  Nothing
\* is assumed of timestamps or of the order of files (reader.go:90).
THEOREM PagesAreComplete == Spec => []PageIsComplete
<1> QED
    BY Invariance, CompleteFollows, PTL

-----------------------------------------------------------------------------
(* From page to page.                                                       *)

LEMMA LastLine ==
    ASSUME NEW lines \in Seq(PageLines), lines # <<>>
    PROVE  /\ Len(lines) \in DOMAIN lines /\ Last(lines) = lines[Len(lines)]
           /\ Last(lines).ts \in Nat /\ Last(lines).node \in Nodes
<1>1. Len(lines) # 0
    BY EmptySeq
<1>2. Len(lines) \in DOMAIN lines
    BY <1>1, PageTypes
<1>3. Last(lines) = lines[Len(lines)]
    BY DEF Last
<1> QED
    BY <1>2, <1>3, PageTypes

\* The cursor of the next page is later than that of the page, and written.
LEMMA CursorIsLater ==
    ASSUME Inv, ~loading, page.lines # <<>>, Last(page.lines).ts # 0
    PROVE  /\ after < Last(page.lines).ts
           /\ \E n \in Nodes : \E e \in EntriesIn(files[n]) : e.ts = Last(page.lines).ts
<1> DEFINE lines == page.lines
<1>1. lines \in Seq(PageLines) /\ Shows(lines, files, after)
    BY DEF Inv, RestOK, Pages, PageOK
<1> HIDE DEF lines
<1>2. /\ Len(lines) \in DOMAIN lines /\ Last(lines) = lines[Len(lines)]
      /\ Last(lines).node \in Nodes /\ Last(lines).ts # 0
    BY <1>1, LastLine DEF lines
<1>3. /\ after < Last(lines).ts
      /\ [id |-> Last(lines).id, ts |-> Last(lines).ts, hit |-> TRUE]
            \in EntriesIn(files[Last(lines).node])
    BY <1>1, <1>2 DEF Shows
<1> QED
    BY <1>2, <1>3 DEF lines

\* Only a step of the search can pass an entry over.
LEMMA SearchUnchanged ==
    ASSUME NEW n, NEW e, Found(n, e) \/ Ahead(e), UNCHANGED <<loading, after, page, shown>>
    PROVE  Found(n, e)' \/ Ahead(e)'
BY DEF Found, Ahead

LEMMA SkipStep ==
    ASSUME Inv, Inv', [Next]_vars, NEW n \in Nodes, NEW e \in Entries(n),
           e.hit, e.id <= askedAt, Found(n, e) \/ Ahead(e), ~loading' => n \in whole'
    PROVE  Found(n, e)' \/ Ahead(e)' \/ PassedOver(e)'
<1>1. e \in EntriesIn(files[n])
    BY DEF Entries, EntriesIn
<1>2. e.ts \in Nat /\ e.ts # 0
    BY <1>1, EntryTypes DEF Inv
<1>3. ASSUME NEW m \in Nodes, \/ Write(m) \/ WriteBanner(m) \/ NewFile(m) \/ Rename(m)
                              \/ Answer(m) \/ NodeFails(m)
      PROVE  Found(n, e)' \/ Ahead(e)'
    <2>1. UNCHANGED <<loading, after, page, shown>>
        BY <1>3 DEF Write, WriteBanner, NewFile, Rename, Answer, NodeFails, searchVars
    <2> QED
        BY <2>1, SearchUnchanged
<1>4. CASE NewSearch
    <2>1. loading' = TRUE /\ after' = 0
        BY <1>4 DEF NewSearch, Ask
    <2> QED
        BY <1>2, <2>1 DEF Ahead
<1>5. CASE LoadMore
    <2>1. /\ ~loading /\ page.hasMore /\ page.lines # <<>>
          /\ loading' = TRUE /\ after' = Last(page.lines).ts
          /\ shown' = shown \cup {l \in ToSet(page.lines) : l.ts # 0}
        BY <1>5 DEF LoadMore, Timed, Ask
    <2>2. CASE Found(n, e)
        <3>1. LineOf(n, e) \in shown \cup ToSet(page.lines) /\ LineOf(n, e).ts # 0
            BY <1>2, <2>1, <2>2 DEF Found, LineOf
        <3> QED
            BY <2>1, <3>1 DEF Found, LineOf
    <2>3. CASE Ahead(e)
        BY <2>1, <2>3 DEF Ahead
    <2> QED
        BY <2>2, <2>3
<1>6. CASE Merge
    <2>1. loading /\ ~loading' /\ UNCHANGED <<files, after, askedAt, whole, late, shown>>
        BY <1>6 DEF Merge, logVars
    <2>2. CASE Found(n, e)
        BY <2>1, <2>2 DEF Found, LineOf
    <2>3. CASE Ahead(e)
        <3>1. after < e.ts /\ e \in Known(files[n], askedAt)
            BY <1>1, <2>1, <2>3 DEF Ahead, Known
        <3>2. Covers(page', Known(files[n], askedAt), n, after, late)
            BY <2>1 DEF Inv, PageOK
        <3>3. CASE page'.hasMore => /\ page'.lines # <<>> /\ e.ts < Last(page'.lines).ts
                                    /\ e.id \notin late
            <4>1. LineOf(n, e) \in ToSet(page'.lines)
                BY <3>1, <3>2, <3>3 DEF Covers
            <4> QED
                BY <2>1, <4>1 DEF Found, LineOf
        <3>4. CASE page'.hasMore /\ page'.lines = <<>>
            BY <2>1, <3>4 DEF Ahead
        <3>5. CASE /\ page'.hasMore /\ page'.lines # <<>>
                   /\ ~(e.ts < Last(page'.lines).ts) \/ e.id \in late
            <4>1. Last(page'.lines).ts \in Nat
                <5>1. page'.lines \in Seq(PageLines)
                    BY DEF Inv, RestOK, Pages
                <5> QED
                    BY <3>5, <5>1, LastLine
            <4>2. \/ Last(page'.lines).ts < e.ts
                  \/ Last(page'.lines).ts = e.ts \/ e.id \in late
                BY <1>2, <3>5, <4>1
            <4> QED
                BY <2>1, <3>5, <4>2 DEF Ahead, PassedOver
        <3> QED
            BY <3>3, <3>4, <3>5
    <2> QED
        BY <2>2, <2>3
<1>7. CASE QueryFails
    BY <1>7 DEF QueryFails
<1>8. CASE UNCHANGED vars
    <2>1. UNCHANGED <<loading, after, page, shown>>
        BY <1>8 DEF vars, searchVars
    <2> QED
        BY <2>1, SearchUnchanged
<1> QED
    BY <1>3, <1>4, <1>5, <1>6, <1>7, <1>8 DEF Next

\* No step of a search passes an entry over but for the two kinds that
\* NothingIsSkipped names: the answers of the nodes, the cut of
\* log-history.service.ts:140 and the cursor SearchPanel.tsx:84 takes from what
\* is left lose only the entries tied with the last line of a page
\* (reader.go:535) and those read after a later one (reader.go:90), for any
\* number of pages.  With PagesAreComplete, which speaks of one page, that says
\* what of a whole search is complete.
THEOREM SearchSkipsNothing == Spec => NothingIsSkipped
<1>1. Inv /\ Inv' /\ [Next]_vars =>
        [ \A n \in Nodes : \A e \in Entries(n) :
            /\ e.hit /\ e.id <= askedAt
            /\ Found(n, e) \/ Ahead(e)
            /\ ~loading' => n \in whole'
            => Found(n, e)' \/ Ahead(e)' \/ PassedOver(e)' ]_vars
    BY SkipStep
<1> QED
    BY <1>1, Invariance, PTL DEF Spec, NothingIsSkipped

\* Each page asked for starts later than the one before, at the timestamp of an
\* entry of some node, so that a search can only go on while there is something
\* to go on to: the cursor of SearchPanel.tsx:84 never stands still or goes back.
CursorAdvances ==
    [][ LoadMore => /\ after < after'
                    /\ \E n \in Nodes : \E e \in Entries(n) : e.ts = after' ]_vars

LEMMA AdvanceStep ==
    ASSUME Inv, LoadMore
    PROVE  after < after' /\ \E n \in Nodes : \E e \in Entries(n) : e.ts = after'
<1>1. /\ ~loading /\ page.lines # <<>> /\ Last(page.lines).ts # 0
      /\ after' = Last(page.lines).ts
    BY DEF LoadMore, Timed, Ask
<1>2. after < after' /\ \E n \in Nodes : \E e \in EntriesIn(files[n]) : e.ts = after'
    BY <1>1, CursorIsLater
<1>3. \A n \in Nodes : Entries(n) = EntriesIn(files[n])
    BY DEF Entries, EntriesIn
<1> QED
    BY <1>2, <1>3

\* The cursor of "Load more" (SearchPanel.tsx:84) moves on with every page, from
\* entry to entry: what keeps a search from going round in circles.
THEOREM CursorMovesOn == Spec => CursorAdvances
<1>1. Inv /\ [Next]_vars =>
        [LoadMore => /\ after < after'
                     /\ \E n \in Nodes : \E e \in Entries(n) : e.ts = after']_vars
    BY AdvanceStep
<1> QED
    BY <1>1, Invariance, PTL DEF Spec, CursorAdvances
================================================================================
