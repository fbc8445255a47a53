-------------------------- MODULE StatusFeedProofs --------------------------
(***************************************************************************)
(* Theorems about StatusFeed for every length of the stream, page and      *)
(* number of failures: each entry once, no point of the gap missed, and a  *)
(* mark that moves forward.                                                *)
(*                                                                         *)
(* A poll reads the live entries first and what was trimmed only later.    *)
(* What carries the argument is therefore how the entries it holds stand   *)
(* to the mark and to what has been trimmed since (ReadSound), and that an *)
(* entry that no write has archived yet was either trimmed or delivered    *)
(* when the mark passes it (Delivered).                                    *)
(***************************************************************************)
EXTENDS StatusFeed, FiniteSetTheorems, SequenceTheorems, WellFoundedInduction, TLAPS

Reads == [pc : {"idle", "oldest", "getSince", "respond"}, live : Seq(Nat), oldest : Nat]

\* The type invariant
FeedTypeOK ==
  /\ kinds \in Seq({"beat", "answer"})
  /\ trimmed \in 0 .. LastId /\ archived \in 0 .. LastId
  /\ points \in Seq([ts : Nat, sid : Nat])
  /\ mark \in NoMark .. LastId /\ from \in Int
  /\ got \in Seq(Nat) /\ read \in Reads
  /\ left \in [fault : 0 .. MaxFaults, loss : 0 .. MaxLosses]
  /\ LastId <= MaxEntries
  /\ ~Archiving => archived = 0 /\ points = <<>> /\ read.pc \in {"idle", "respond"}

\* The runs of the archive are in order and apart.
PointsSound ==
  /\ \A j \in DOMAIN points : points[j].ts <= points[j].sid /\ points[j].sid <= archived
  /\ \A i, j \in DOMAIN points : i < j => points[i].sid < points[j].ts

\* A poll holds consecutive entries after the mark, which leave out none but
\* trimmed ones; those that it asks the archive for are older.
ReadSound ==
  read.pc # "idle" =>
    /\ mark # NoMark
    /\ \A i \in DOMAIN read.live : read.live[i] = read.live[1] + i - 1 /\ read.live[i] <= LastId
    /\ read.live # <<>> =>
         /\ read.live[1] > mark /\ (read.live[1] = mark + 1 \/ read.live[1] <= trimmed + 1)
         /\ read.pc = "getSince" => read.live[1] <= read.oldest
         /\ read.pc = "respond" /\ Archiving /\ left.fault = MaxFaults => read.live[1] = mark + 1
    /\ read.pc = "getSince" => read.oldest > mark

\* What the phone has passed, neither trimmed nor archived, it has got.
Delivered ==
  mark # NoMark =>
    \A e \in Ids : e > trimmed /\ e > archived /\ from < e /\ e <= mark =>
      \E m \in DOMAIN got : got[m] = e

\* Without the archive what the phone got is in order, up to its mark.
GotInOrder ==
  ~Archiving => /\ InOrder
                /\ mark # NoMark => \A m \in DOMAIN got : got[m] <= mark

\* With the archive, while nothing failed
Filled ==
  mark # NoMark /\ left.fault = MaxFaults =>
    \A j \in DOMAIN points :
      from < points[j].ts /\ points[j].ts <= mark /\ points[j].ts \notin late =>
        \E m \in DOMAIN got : points[j].ts <= got[m] /\ got[m] <= points[j].sid

FeedInv ==
  /\ FeedTypeOK /\ PointsSound /\ ReadSound /\ Delivered /\ GotInOrder /\ Filled

-----------------------------------------------------------------------------
(* Parts of sequences                                                      *)

LessThan == OpToRel(<, Nat)

LEMMA LargestExists ==
  ASSUME NEW S \in SUBSET Nat, NEW b \in Nat, S # {}, \A t \in S : t <= b
  PROVE  \E m \in S : \A t \in S : t <= m
<1> DEFINE T == {b - t : t \in S}
<1>1. T \subseteq Nat /\ T # {}
  <2>1. \A t \in S : b - t \in Nat
    OBVIOUS
  <2>2. PICK t \in S : TRUE
    OBVIOUS
  <2> QED BY <2>1, <2>2
<1>2. IsWellFoundedOn(LessThan, Nat)
  BY NatLessThanWellFounded, Zenon DEF LessThan
<1>3. PICK x \in T : \A y \in T : ~(<<y, x>> \in LessThan)
  BY <1>1, <1>2, WFMin
<1>4. PICK m \in S : x = b - m
  BY <1>3
<1>5. \A p, q \in Nat : p < q => <<p, q>> \in LessThan
  BY Zenon DEF LessThan, OpToRel
<1>6. \A t \in S : t <= m
  <2> SUFFICES ASSUME NEW t \in S, m < t PROVE FALSE
    OBVIOUS
  <2>1. t \in Nat /\ m \in Nat /\ t <= b /\ m <= b
    OBVIOUS
  <2>2. b - t \in Nat /\ b - m \in Nat /\ b - t < b - m
    BY <2>1
  <2>3. b - t \in T
    OBVIOUS
  <2> QED BY <1>3, <1>4, <1>5, <2>2, <2>3
<1> QED BY <1>6

\* The first n elements of s
LEMMA FirstOfIsPrefix ==
  ASSUME NEW S, NEW s \in Seq(S), NEW n \in Nat
  PROVE  /\ FirstOf(s, n) \in Seq(S)
         /\ Len(FirstOf(s, n)) = IF Len(s) < n THEN Len(s) ELSE n
         /\ \A i \in 1 .. Len(FirstOf(s, n)) : FirstOf(s, n)[i] = s[i]
<1> DEFINE m == IF Len(s) < n THEN Len(s) ELSE n
<1>1. m \in Nat /\ m <= Len(s) /\ Len(s) \in Nat /\ \A i \in 1 .. m : s[i] \in S
  BY ElementOfSeq
<1> HIDE DEF m
<1>2. /\ SubSeq(s, 1, m) \in Seq(S)
      /\ Len(SubSeq(s, 1, m)) = IF 1 <= m THEN m - 1 + 1 ELSE 0
      /\ \A i \in 1 .. m - 1 + 1 : SubSeq(s, 1, m)[i] = s[1 + i - 1]
  BY <1>1, SubSeqProperties
<1>3. Len(SubSeq(s, 1, m)) = m /\ \A i \in 1 .. m : SubSeq(s, 1, m)[i] = s[i]
  BY <1>1, <1>2
<1> QED BY <1>2, <1>3 DEF FirstOf, m

\* The ids from a on are consecutive and none is greater than b.
LEMMA FirstIdsAreConsecutive ==
  ASSUME NEW a \in Nat \ {0}, NEW b \in Nat, NEW n \in Nat
  PROVE  /\ FirstIds(a, b, n) \in Seq(Nat)
         /\ \A i \in 1 .. Len(FirstIds(a, b, n)) :
              FirstIds(a, b, n)[i] = a + i - 1 /\ FirstIds(a, b, n)[i] <= b
<1> DEFINE c == IF b < a + n THEN b ELSE a + n - 1
           f == [i \in 1 .. b |-> i]
<1>1. c \in Nat /\ c <= b /\ \A i \in a .. c : f[i] = i /\ i \in Nat
  OBVIOUS
<1> HIDE DEF c, f
<1>2. /\ SubSeq(f, a, c) \in Seq(Nat)
      /\ Len(SubSeq(f, a, c)) = IF a <= c THEN c - a + 1 ELSE 0
      /\ \A i \in 1 .. c - a + 1 : SubSeq(f, a, c)[i] = f[a + i - 1]
  BY <1>1, SubSeqProperties
<1>3. \A i \in 1 .. Len(SubSeq(f, a, c)) : i \in 1 .. c - a + 1 /\ a + i - 1 \in a .. c
  BY <1>1, <1>2
<1>4. \A i \in 1 .. Len(SubSeq(f, a, c)) : SubSeq(f, a, c)[i] = a + i - 1 /\ a + i - 1 <= b
  BY <1>1, <1>2, <1>3
<1> QED BY <1>2, <1>4 DEF FirstIds, c, f

\* The change-points up to t are the first ones.
LEMMA UpToCounts ==
  ASSUME FeedInv, NEW t \in Int
  PROVE  UpTo(t) \in 0 .. Len(points) /\ \A j \in DOMAIN points : points[j].ts <= t <=> j <= UpTo(t)
<1>1. /\ DOMAIN points = 1 .. Len(points) /\ Len(points) \in Nat
      /\ \A j \in DOMAIN points : points[j].ts \in Nat /\ points[j].sid \in Nat
      /\ \A j \in DOMAIN points : points[j].ts <= points[j].sid
      /\ \A i, j \in DOMAIN points : i < j => points[i].sid < points[j].ts
  <2>1. points \in Seq([ts : Nat, sid : Nat])
    BY DEF FeedInv, FeedTypeOK
  <2>2. DOMAIN points = 1 .. Len(points) /\ Len(points) \in Nat
    BY <2>1
  <2>3. \A j \in DOMAIN points : points[j] \in [ts : Nat, sid : Nat]
    BY <2>1, <2>2, ElementOfSeq
  <2> QED BY <2>2, <2>3 DEF FeedInv, PointsSound
<1>2. \A i, j \in DOMAIN points : i < j => points[i].ts < points[j].ts
  BY <1>1
<1> DEFINE S == {n \in 0 .. Len(points) : n = 0 \/ points[n].ts <= t}
<1>3. PICK m \in S : \A n \in S : n <= m
  <2>1. S \in SUBSET Nat /\ 0 \in S /\ \A n \in S : n <= Len(points)
    BY <1>1
  <2> HIDE DEF S
  <2> QED BY <1>1, <2>1, LargestExists
<1>4. \A j \in DOMAIN points : points[j].ts <= t <=> j <= m
  <2> SUFFICES ASSUME NEW j \in DOMAIN points PROVE points[j].ts <= t <=> j <= m
    OBVIOUS
  <2>1. points[j].ts <= t => j <= m
    BY <1>1, <1>3
  <2>2. ASSUME j <= m PROVE points[j].ts <= t
    <3>1. m \in DOMAIN points /\ points[m].ts <= t
      BY <1>1, <2>2
    <3>2. CASE j = m
      BY <3>1, <3>2
    <3>3. CASE j # m
      <4>1. points[j].ts < points[m].ts
        BY <1>1, <1>2, <2>2, <3>1, <3>3
      <4> QED BY <1>1, <3>1, <4>1
    <3> QED BY <3>2, <3>3
  <2> QED BY <2>1, <2>2
<1>5. UpTo(t) = m
  <2>1. {j \in DOMAIN points : points[j].ts <= t} = 1 .. m
    BY <1>1, <1>3, <1>4
  <2>2. m \in Nat
    BY <1>1, <1>3
  <2>3. Cardinality(1 .. m) = m
    BY <2>2, FS_Interval
  <2> QED BY <2>1, <2>3 DEF UpTo
<1> QED BY <1>1, <1>3, <1>4, <1>5

-----------------------------------------------------------------------------
(* What a poll reads and answers                                           *)

\* The numbers that are compared
LEMMA Numbers ==
  ASSUME FeedInv
  PROVE  /\ trimmed \in Nat /\ trimmed <= LastId /\ archived \in Nat /\ archived <= LastId
         /\ LastId \in Nat /\ LastId <= MaxEntries /\ MaxEntries \in Nat
         /\ MaxCount \in Nat \ {0} /\ MaxLen \in Nat \ {0} /\ NoMark = -1
         /\ mark \in Int /\ mark <= LastId /\ (mark # NoMark => mark \in Nat) /\ from \in Int
         /\ DOMAIN points = 1 .. Len(points) /\ Len(points) \in Nat
         /\ \A j \in DOMAIN points : points[j].ts \in Nat /\ points[j].sid \in Nat
         /\ DOMAIN got = 1 .. Len(got) /\ Len(got) \in Nat
         /\ \A m \in DOMAIN got : got[m] \in Nat
         /\ read \in Reads /\ read.live \in Seq(Nat) /\ read.oldest \in Nat
         /\ DOMAIN read.live = 1 .. Len(read.live) /\ Len(read.live) \in Nat
         /\ \A i \in DOMAIN read.live : read.live[i] \in Nat
<1>1. /\ kinds \in Seq({"beat", "answer"}) /\ trimmed \in 0 .. LastId /\ archived \in 0 .. LastId
      /\ points \in Seq([ts : Nat, sid : Nat]) /\ mark \in NoMark .. LastId /\ from \in Int
      /\ got \in Seq(Nat) /\ read \in Reads /\ LastId <= MaxEntries
  BY DEF FeedInv, FeedTypeOK
<1>2. LastId \in Nat
  BY <1>1 DEF LastId
<1>3. read.live \in Seq(Nat) /\ read.oldest \in Nat
  BY <1>1 DEF Reads
<1>4. /\ DOMAIN points = 1 .. Len(points) /\ Len(points) \in Nat
      /\ DOMAIN got = 1 .. Len(got) /\ Len(got) \in Nat
      /\ DOMAIN read.live = 1 .. Len(read.live) /\ Len(read.live) \in Nat
  BY <1>1, <1>3
<1>5. /\ \A j \in DOMAIN points : points[j] \in [ts : Nat, sid : Nat]
      /\ \A m \in DOMAIN got : got[m] \in Nat
      /\ \A i \in DOMAIN read.live : read.live[i] \in Nat
  BY <1>1, <1>3, <1>4, ElementOfSeq
<1> QED BY SMTT(30), <1>1, <1>2, <1>3, <1>4, <1>5, FeedAssumption DEF NoMark

\* The live read
LEMMA LiveIsConsecutive ==
  ASSUME FeedInv, mark # NoMark
  PROVE  /\ Live \in Seq(Nat) /\ DOMAIN Live = 1 .. Len(Live) /\ Len(Live) \in Nat
         /\ \A i \in DOMAIN Live : Live[i] = Live[1] + i - 1 /\ Live[i] <= LastId
         /\ Live # <<>> => Live[1] = Larger(mark, trimmed) + 1
<1> DEFINE a == Larger(mark, trimmed) + 1
<1>1. a \in Nat \ {0} /\ LastId \in Nat /\ MaxCount + 1 \in Nat
  <2>1. mark \in Nat /\ trimmed \in Nat /\ LastId \in Nat /\ MaxCount \in Nat
    BY Numbers
  <2> QED BY <2>1 DEF Larger
<1>2. /\ FirstIds(a, LastId, MaxCount + 1) \in Seq(Nat)
      /\ \A i \in 1 .. Len(FirstIds(a, LastId, MaxCount + 1)) :
           /\ FirstIds(a, LastId, MaxCount + 1)[i] = a + i - 1
           /\ FirstIds(a, LastId, MaxCount + 1)[i] <= LastId
  <2> HIDE DEF a
  <2> QED BY <1>1, FirstIdsAreConsecutive
<1>3. /\ Live \in Seq(Nat) /\ \A i \in 1 .. Len(Live) : Live[i] = a + i - 1 /\ Live[i] <= LastId
  BY <1>2 DEF Live
<1>4. DOMAIN Live = 1 .. Len(Live) /\ Len(Live) \in Nat /\ (Live # <<>> => 1 \in 1 .. Len(Live))
  BY <1>3
<1> HIDE DEF a
<1>5. \A i \in 1 .. Len(Live) : 1 \in 1 .. Len(Live)
  BY <1>4
<1>6. 1 \in 1 .. Len(Live) => Live[1] = a
  BY <1>1, <1>3
<1> QED BY <1>1, <1>3, <1>4, <1>5, <1>6 DEF a

\* The messages of an answer are a part of the backfill, or all of it and a
\* part of the live entries.
LEMMA MessagesArePrefix ==
  ASSUME FeedInv, NEW b \in Seq(Nat), NEW s, s = FirstOf(Combined(b), MaxCount)
  PROVE  /\ s \in Seq(Nat) /\ Len(s) \in Nat /\ Len(b) \in Nat /\ Len(s) <= MaxCount
         /\ \A i \in 1 .. Len(s) :
              /\ i <= Len(b) => s[i] = b[i]
              /\ i > Len(b) => /\ i - Len(b) \in DOMAIN read.live
                               /\ s[i] = read.live[i - Len(b)]
<1>1. read.live \in Seq(Nat) /\ MaxCount \in Nat /\ Len(read.live) \in Nat
      /\ DOMAIN read.live = 1 .. Len(read.live)
  BY Numbers
<1>2. PICK p \in Seq(Nat) : /\ p = FirstOf(read.live, MaxCount)
                            /\ Len(p) <= Len(read.live)
                            /\ \A i \in 1 .. Len(p) : p[i] = read.live[i]
  BY <1>1, FirstOfIsPrefix
<1>3. PICK c \in Seq(Nat) : c = b \o p
  BY ConcatProperties
<1>4. /\ Len(c) = Len(b) + Len(p) /\ Len(b) \in Nat /\ Len(p) \in Nat
      /\ \A i \in 1 .. Len(c) : c[i] = IF i <= Len(b) THEN b[i] ELSE p[i - Len(b)]
  BY <1>3
<1>5. s = FirstOf(c, MaxCount)
  BY <1>2, <1>3 DEF Combined
<1>6. /\ s \in Seq(Nat) /\ Len(s) = (IF Len(c) < MaxCount THEN Len(c) ELSE MaxCount)
      /\ \A i \in 1 .. Len(s) : s[i] = c[i]
  BY <1>1, <1>5, FirstOfIsPrefix
<1>7. Len(s) \in Nat /\ Len(s) <= MaxCount /\ Len(s) <= Len(c)
  BY <1>1, <1>4, <1>6
<1> QED
  <2> SUFFICES ASSUME NEW i \in 1 .. Len(s)
               PROVE  /\ i <= Len(b) => s[i] = b[i]
                      /\ i > Len(b) => /\ i - Len(b) \in DOMAIN read.live
                                       /\ s[i] = read.live[i - Len(b)]
    BY <1>4, <1>6, <1>7
  <2>1. i \in 1 .. Len(c) /\ s[i] = c[i]
    BY <1>4, <1>6, <1>7
  <2>2. CASE i <= Len(b)
    BY <1>4, <2>1, <2>2
  <2>3. CASE i > Len(b)
    <3>0. PICK k \in Int : k = i - Len(b)
      BY <1>4
    <3>1. k \in 1 .. Len(p) /\ k \in DOMAIN read.live
      <4>1. Len(c) = Len(b) + Len(p) /\ Len(b) \in Nat /\ Len(p) \in Nat /\ i \in 1 .. Len(c)
        BY <1>4, <2>1
      <4>2. k \in 1 .. Len(p)
        BY <2>3, <3>0, <4>1
      <4>3. Len(p) <= Len(read.live) /\ DOMAIN read.live = 1 .. Len(read.live)
        BY <1>1, <1>2
      <4> QED BY SMTT(30), <1>1, <4>1, <4>2, <4>3
    <3>2. s[i] = p[k] /\ ~(i <= Len(b))
      BY <1>4, <2>1, <2>3, <3>0
    <3>3. p[k] = read.live[k]
      BY <1>2, <3>1
    <3> QED BY <3>0, <3>1, <3>2, <3>3
  <2> QED BY <1>4, <2>2, <2>3

\* The points of the gap, oldest first: all of them unless the page is full.
LEMMA BackfillIsGap ==
  ASSUME FeedInv, read.pc = "getSince"
  PROVE  /\ Backfill \in Seq(Nat) /\ Len(Backfill) \in Nat /\ UpTo(mark) \in Nat
         /\ \A i \in 1 .. Len(Backfill) :
              /\ UpTo(mark) + i \in DOMAIN points /\ Backfill[i] = points[UpTo(mark) + i].sid
         /\ Len(Backfill) <= MaxCount =>
              \A j \in DOMAIN points :
                j > UpTo(mark) + Len(Backfill) => points[j].ts >= read.oldest
<1> DEFINE a == UpTo(mark)
           c == UpTo(read.oldest - 1)
           L == Len(points)
           r == SubSeq(points, a + 1, L)
           g == FirstOf(PointsSince, c - a)
<1>1. /\ mark \in Int /\ read.oldest \in Nat /\ read.oldest > mark /\ L \in Nat
      /\ DOMAIN points = 1 .. L /\ points \in Seq([ts : Nat, sid : Nat])
      /\ \A j \in DOMAIN points : points[j] \in [ts : Nat, sid : Nat]
      /\ MaxCount \in Nat
  <2>1. points \in Seq([ts : Nat, sid : Nat])
    BY DEF FeedInv, FeedTypeOK
  <2>2. \A j \in 1 .. L : points[j] \in [ts : Nat, sid : Nat]
    BY <2>1, ElementOfSeq
  <2> QED BY <2>1, <2>2, Numbers DEF FeedInv, ReadSound
<1>2. /\ a \in 0 .. L /\ \A j \in DOMAIN points : points[j].ts <= mark <=> j <= a
      /\ c \in 0 .. L /\ \A j \in DOMAIN points : points[j].ts <= read.oldest - 1 <=> j <= c
  <2>1. read.oldest - 1 \in Int /\ mark \in Int
    BY <1>1
  <2> HIDE DEF c, L
  <2>2. a \in 0 .. Len(points) /\ \A j \in DOMAIN points : points[j].ts <= mark <=> j <= a
    BY <2>1, UpToCounts
  <2>3. /\ UpTo(read.oldest - 1) \in 0 .. Len(points)
        /\ \A j \in DOMAIN points :
             points[j].ts <= read.oldest - 1 <=> j <= UpTo(read.oldest - 1)
    BY <2>1, UpToCounts
  <2> QED BY <2>2, <2>3 DEF c, L
<1>2a. DOMAIN points = 1 .. L /\ L \in Nat /\ mark \in Int /\ read.oldest \in Nat
       /\ read.oldest > mark /\ \A j \in DOMAIN points : points[j].ts \in Nat
  BY <1>1
<1> HIDE DEF a, c, L, r, g
<1>3. a <= c
  <2>1. CASE a = 0
    BY <1>2, <2>1
  <2>2. CASE a # 0
    <3>1. a \in DOMAIN points /\ points[a].ts <= mark /\ points[a].ts \in Nat
      BY <1>2, <1>2a, <2>2
    <3>2. points[a].ts <= read.oldest - 1
      BY <1>2a, <3>1
    <3> QED BY <1>2, <3>1, <3>2
  <2> QED BY <2>1, <2>2
<1>4. /\ r \in Seq([ts : Nat, sid : Nat]) /\ Len(r) = L - a
      /\ \A i \in 1 .. L - a : r[i] = points[a + i]
  <2>1. \A i \in a + 1 .. L : points[i] \in [ts : Nat, sid : Nat]
    <3>1. \A i \in a + 1 .. L : i \in DOMAIN points
      BY <1>2, <1>2a
    <3> QED BY <1>1, <3>1
  <2>2. a + 1 \in Int /\ L \in Int
    BY <1>1, <1>2
  <2>3. /\ r \in Seq([ts : Nat, sid : Nat])
        /\ Len(r) = IF a + 1 <= L THEN L - (a + 1) + 1 ELSE 0
        /\ \A i \in 1 .. L - (a + 1) + 1 : r[i] = points[(a + 1) + i - 1]
    BY <2>1, <2>2, SubSeqProperties DEF r
  <2>4. Len(r) = L - a
    BY <1>1, <1>2, <2>3
  <2>5. ASSUME NEW i \in 1 .. L - a PROVE r[i] = points[a + i]
    <3>1. i \in 1 .. L - (a + 1) + 1 /\ (a + 1) + i - 1 = a + i
      BY <1>1, <1>2
    <3> QED BY <2>3, <3>1
  <2> QED BY <2>3, <2>4, <2>5
<1>5. PICK p \in Seq([ts : Nat, sid : Nat]) :
        /\ p = PointsSince
        /\ Len(p) = IF L - a < MaxCount + 1 THEN L - a ELSE MaxCount + 1
        /\ \A i \in 1 .. Len(p) : p[i] = r[i]
  <2>1. PointsSince = FirstOf(r, MaxCount + 1) /\ MaxCount + 1 \in Nat
    BY <1>1 DEF PointsSince, r, a, L
  <2>2. PICK q : q = FirstOf(r, MaxCount + 1)
    OBVIOUS
  <2>3. /\ q \in Seq([ts : Nat, sid : Nat])
        /\ Len(q) = IF Len(r) < MaxCount + 1 THEN Len(r) ELSE MaxCount + 1
        /\ \A i \in 1 .. Len(q) : q[i] = r[i]
    BY <1>4, <2>1, <2>2, FirstOfIsPrefix
  <2>4. Len(r) = L - a
    BY <1>4
  <2> QED BY <2>1, <2>2, <2>3, <2>4
<1>6. /\ g \in Seq([ts : Nat, sid : Nat])
      /\ Len(g) = (IF Len(p) < c - a THEN Len(p) ELSE c - a)
      /\ \A i \in 1 .. Len(g) : g[i] = p[i]
  <2>1. c - a \in Nat
    BY <1>1, <1>2, <1>3
  <2> QED BY <1>5, <2>1, FirstOfIsPrefix DEF g
<1>7. Len(g) \in Nat /\ Len(g) <= Len(p) /\ Len(p) <= L - a /\ DOMAIN g = 1 .. Len(g)
  BY <1>1, <1>2, <1>3, <1>5, <1>6
<1>8. \A i \in 1 .. Len(g) : a + i \in DOMAIN points /\ g[i] = points[a + i]
  <2> SUFFICES ASSUME NEW i \in 1 .. Len(g) PROVE a + i \in DOMAIN points /\ g[i] = points[a + i]
    OBVIOUS
  <2>1. i \in 1 .. Len(p) /\ i \in 1 .. L - a
    BY <1>1, <1>2, <1>7
  <2>2. a + i \in DOMAIN points
    BY <1>1, <1>2, <2>1
  <2> QED BY <1>4, <1>5, <1>6, <2>1, <2>2
<1>9. Backfill = [i \in 1 .. Len(g) |-> g[i].sid]
  BY <1>7 DEF Backfill, g, c, a
<1>10. \A i \in 1 .. Len(g) : g[i].sid \in Nat
  BY <1>1, <1>8
<1>11. Backfill \in Seq(Nat) /\ Len(Backfill) = Len(g)
  BY <1>7, <1>9, <1>10
<1>12. \A i \in 1 .. Len(Backfill) : Backfill[i] = points[a + i].sid
  BY <1>8, <1>9, <1>11
<1>13. ASSUME Len(g) <= MaxCount, NEW j \in DOMAIN points, j > a + Len(g)
       PROVE  points[j].ts >= read.oldest
  <2>1. Len(g) = c - a
    <3>1. Len(p) < c - a => Len(p) = L - a \/ Len(p) = MaxCount + 1
      BY <1>5
    <3>2. Len(p) < c - a => Len(g) = Len(p)
      BY <1>6
    <3>3. c - a <= L - a /\ ~(L - a < c - a)
      BY <1>1, <1>2
    <3>4. ~(Len(g) = MaxCount + 1)
      BY <1>1, <1>13
    <3> QED BY <1>6, <3>1, <3>2, <3>3, <3>4
  <2>2. j > c /\ j \in Nat
    BY <1>1, <1>2, <1>13, <2>1
  <2>3. ~(points[j].ts <= read.oldest - 1) /\ points[j].ts \in Nat
    BY <1>1, <1>2, <2>2
  <2> QED BY <1>1, <2>3
<1> QED BY <1>1, <1>2, <1>7, <1>8, <1>11, <1>12, <1>13 DEF a

-----------------------------------------------------------------------------
(* The invariant                                                           *)

LEMMA FeedInitial == Init => FeedInv
<1> SUFFICES ASSUME Init PROVE FeedInv
  OBVIOUS
<1>1. /\ kinds = <<>> /\ trimmed = 0 /\ points = <<>> /\ archived = 0 /\ mark = -1 /\ from = -1
      /\ read = Idle /\ got = <<>> /\ LastId = 0
      /\ left = [fault |-> MaxFaults, loss |-> MaxLosses]
  BY DEF Init, NoMark, LastId
<1>2. Idle \in Reads /\ Idle.pc = "idle"
  BY DEF Idle, Reads
<1>3. left \in [fault : 0 .. MaxFaults, loss : 0 .. MaxLosses]
  BY <1>1, FeedAssumption
<1>4. FeedTypeOK
  BY <1>1, <1>2, <1>3, FeedAssumption DEF FeedTypeOK, NoMark
<1> QED
  BY <1>1, <1>2, <1>4
     DEF FeedInv, PointsSound, ReadSound, Delivered, GotInOrder, InOrder, Filled, NoMark

\* A fault that happened does not go away.
LEMMA FaultsCount ==
  ASSUME FeedInv, left.fault > 0, left' = [left EXCEPT !.fault = @ - 1]
  PROVE  /\ left' \in [fault : 0 .. MaxFaults, loss : 0 .. MaxLosses]
         /\ left'.fault # MaxFaults
<1>1. left \in [fault : 0 .. MaxFaults, loss : 0 .. MaxLosses]
  BY DEF FeedInv, FeedTypeOK
<1>2. left'.fault = left.fault - 1 /\ left'.loss = left.loss
  BY <1>1
<1> QED BY <1>1, <1>2, FeedAssumption

\* The stream grows and its oldest entries go; or Redis loses them all.
LEMMA StreamStep ==
  ASSUME FeedInv, (\E kind \in {"beat", "answer"} : AddControllerMessage(kind)) \/ LoseData
  PROVE  FeedInv'
<1>1. /\ UNCHANGED <<points, archived, late, mark, from, got, read>>
      /\ kinds' \in Seq({"beat", "answer"}) /\ LastId' \in LastId .. MaxEntries
      /\ trimmed' \in trimmed .. LastId' /\ trimmed' \in Nat
      /\ left' \in [fault : 0 .. MaxFaults, loss : 0 .. MaxLosses] /\ left'.fault = left.fault
      /\ \A e \in Ids' : e > trimmed' /\ e <= mark => e \in Ids
  <2>1. /\ kinds \in Seq({"beat", "answer"})
        /\ left \in [fault : 0 .. MaxFaults, loss : 0 .. MaxLosses]
    BY DEF FeedInv, FeedTypeOK
  <2>1a. /\ trimmed \in Nat /\ LastId \in Nat /\ trimmed <= LastId /\ LastId <= MaxEntries
         /\ MaxEntries \in Nat /\ MaxLen \in Nat \ {0} /\ mark \in Int /\ mark <= LastId
    BY Numbers
  <2>2. ASSUME NEW kind \in {"beat", "answer"}, AddControllerMessage(kind) PROVE  <1>1!:
    <3>1. kinds' = Append(kinds, kind) /\ LastId < MaxEntries
          /\ UNCHANGED <<points, archived, late, mark, from, got, read, left>>
          /\ trimmed' \in trimmed .. Larger(trimmed, LastId + 1 - MaxLen)
      BY <2>2 DEF AddControllerMessage, phone
    <3>2. kinds' \in Seq({"beat", "answer"}) /\ LastId' = LastId + 1
      BY <2>1, <3>1 DEF LastId
    <3>3. LastId' \in LastId .. MaxEntries
      BY <2>1a, <3>1, <3>2
    <3>4. trimmed' \in trimmed .. LastId' /\ trimmed' \in Nat
      <4>1. Larger(trimmed, LastId + 1 - MaxLen) <= LastId + 1
            /\ Larger(trimmed, LastId + 1 - MaxLen) \in Int
        BY <2>1a DEF Larger
      <4> QED BY <2>1a, <3>1, <3>2, <4>1
    <3>5. \A e \in Ids' : e > trimmed' /\ e <= mark => e \in Ids
      BY <2>1a, <3>2 DEF Ids
    <3> QED BY <2>1, <3>1, <3>2, <3>3, <3>4, <3>5
  <2>3. ASSUME LoseData PROVE  <1>1!:
    <3>1. /\ UNCHANGED <<kinds, points, archived, late, mark, from, got, read>> /\ trimmed' = LastId
          /\ left.loss > 0 /\ left' = [left EXCEPT !.loss = @ - 1] /\ LastId' = LastId
      BY <2>3 DEF LoseData, phone, LastId
    <3>2. left' \in [fault : 0 .. MaxFaults, loss : 0 .. MaxLosses] /\ left'.fault = left.fault
      <4>1. left'.loss = left.loss - 1 /\ left'.fault = left.fault
        BY <2>1, <3>1
      <4> QED BY <2>1, <3>1, <4>1, FeedAssumption
    <3>3. trimmed' \in trimmed .. LastId' /\ trimmed' \in Nat /\ LastId' \in LastId .. MaxEntries
      BY <2>1a, <3>1
    <3> QED BY <2>1, <3>1, <3>2, <3>3 DEF Ids
  <2> QED BY <2>2, <2>3
<1>2. FeedTypeOK'
  <2>1. archived' \in 0 .. LastId' /\ mark' \in NoMark .. LastId' /\ trimmed' \in 0 .. LastId'
    <3>1. archived \in Nat /\ archived <= LastId /\ trimmed \in Nat /\ LastId \in Nat
          /\ mark \in NoMark .. LastId /\ NoMark \in Int /\ MaxEntries \in Nat
      BY Numbers DEF FeedInv, FeedTypeOK
    <3> QED BY <1>1, <3>1
  <2>2. LastId' <= MaxEntries
    <3>1. LastId \in Nat /\ MaxEntries \in Nat
      BY Numbers
    <3> QED BY <1>1, <3>1
  <2> QED BY <1>1, <2>1, <2>2 DEF FeedInv, FeedTypeOK
<1>3. PointsSound' /\ GotInOrder' /\ Filled'
  BY <1>1 DEF FeedInv, PointsSound, GotInOrder, InOrder, Filled
<1>4. ReadSound'
  <2> SUFFICES ASSUME read.pc # "idle" PROVE ReadSound'
    BY <1>1 DEF ReadSound
  <2>1. /\ mark # NoMark
        /\ \A i \in DOMAIN read.live : read.live[i] = read.live[1] + i - 1 /\ read.live[i] <= LastId
        /\ read.live # <<>> =>
             /\ read.live[1] > mark /\ (read.live[1] = mark + 1 \/ read.live[1] <= trimmed + 1)
             /\ read.pc = "getSince" => read.live[1] <= read.oldest
             /\ read.pc = "respond" /\ Archiving /\ left.fault = MaxFaults => read.live[1] = mark + 1
        /\ read.pc = "getSince" => read.oldest > mark
    BY DEF FeedInv, ReadSound
  <2>1a. LastId \in Nat /\ MaxEntries \in Nat /\ trimmed \in Nat /\ LastId <= LastId'
         /\ trimmed <= trimmed' /\ LastId' \in Nat
    <3>1. LastId \in Nat /\ MaxEntries \in Nat /\ trimmed \in Nat
      BY Numbers
    <3> QED BY <1>1, <3>1
  <2>2. \A i \in DOMAIN read.live : read.live[i] <= LastId'
    <3>1. \A i \in DOMAIN read.live : read.live[i] \in Nat /\ read.live[i] <= LastId
      BY <2>1, Numbers
    <3> QED BY <2>1a, <3>1
  <2>3. read.live # <<>> => read.live[1] = mark + 1 \/ read.live[1] <= trimmed' + 1
    <3>1. read.live # <<>> => read.live[1] \in Nat
      <4>1. read.live \in Seq(Nat) /\ DOMAIN read.live = 1 .. Len(read.live)
            /\ \A i \in DOMAIN read.live : read.live[i] \in Nat
        BY Numbers
      <4>2. read.live # <<>> => 1 \in DOMAIN read.live
        BY <4>1
      <4> QED BY <4>1, <4>2
    <3> QED BY <1>1, <2>1, <2>1a, <3>1
  <2> QED BY <1>1, <2>1, <2>2, <2>3 DEF ReadSound
<1>5. Delivered'
  <2> SUFFICES ASSUME mark # NoMark, NEW e \in Ids', e > trimmed', e > archived, from < e, e <= mark
               PROVE  \E m \in DOMAIN got : got[m] = e
    BY <1>1 DEF Delivered
  <2>1. e \in Ids /\ e > trimmed
    BY SMTT(30), <1>1, Numbers DEF Ids
  <2> QED BY <2>1 DEF FeedInv, Delivered
<1> QED BY <1>2, <1>3, <1>4, <1>5 DEF FeedInv

\* The next entry's write is over: what was delivered before it was archived
\* is in the point that it makes or extends.
LEMMA ArchiveStep ==
  ASSUME FeedInv, Archive \/ ArchiveFails
  PROVE  FeedInv'
<1>1. /\ Archiving /\ archived \in Nat /\ archived < LastId /\ archived' = archived + 1
      /\ late' = (IF archived < trimmed THEN late \cup {archived + 1} ELSE late)
      /\ UNCHANGED <<kinds, trimmed, mark, from, got, read>> /\ LastId' = LastId
      /\ LastId \in Nat /\ trimmed \in Nat
  BY Numbers DEF Archive, ArchiveFails, Archived, phone, LastId
<1>2. /\ left' \in [fault : 0 .. MaxFaults, loss : 0 .. MaxLosses]
      /\ left'.fault = MaxFaults => left' = left /\ Archive
  <2>1. CASE Archive
    BY <2>1 DEF Archive, FeedInv, FeedTypeOK
  <2>2. CASE ArchiveFails
    BY <2>2, FaultsCount DEF ArchiveFails
  <2> QED BY <2>1, <2>2
<1>3. /\ points \in Seq([ts : Nat, sid : Nat])
      /\ \A j \in DOMAIN points : /\ points[j] \in [ts : Nat, sid : Nat]
                                  /\ points[j].ts <= points[j].sid /\ points[j].sid <= archived
      /\ \A i, j \in DOMAIN points : i < j => points[i].sid < points[j].ts
  <2>1. points \in Seq([ts : Nat, sid : Nat])
    BY DEF FeedInv, FeedTypeOK
  <2>2. \A j \in 1 .. Len(points) : points[j] \in [ts : Nat, sid : Nat]
    BY <2>1, ElementOfSeq
  <2> QED BY <2>1, <2>2 DEF FeedInv, PointsSound
<1>4. DOMAIN points = 1 .. Len(points) /\ Len(points) \in Nat
  BY <1>3
<1> DEFINE e == archived + 1
<1>5. CASE points' = points
  <2>1. FeedTypeOK'
    BY <1>1, <1>2, <1>5 DEF FeedInv, FeedTypeOK
  <2>2. PointsSound'
    BY <1>1, <1>3, <1>5 DEF PointsSound
  <2>3. ReadSound' /\ GotInOrder'
    BY <1>1, <1>2 DEF FeedInv, ReadSound, GotInOrder
  <2>4. Delivered'
    BY <1>1 DEF FeedInv, Delivered, Ids
  <2>5. Filled'
    <3>1. late \subseteq late'
      BY <1>1
    <3> QED BY <1>1, <1>2, <1>5, <3>1 DEF FeedInv, Filled
  <2> QED BY <2>1, <2>2, <2>3, <2>4, <2>5 DEF FeedInv
<1>6. ASSUME left' = left, NEW p \in [ts : Nat, sid : Nat], p.sid = e,
             \/ /\ points' = Append(points, p) /\ p.ts = e
             \/ /\ points # <<>> /\ p.ts = points[Len(points)].ts
                /\ points' = [points EXCEPT ![Len(points)] = p]
      PROVE  FeedInv'
  <2> DEFINE n == Len(points')
  <2>1. /\ points' \in Seq([ts : Nat, sid : Nat]) /\ n \in Nat \ {0} /\ DOMAIN points' = 1 .. n
        /\ points'[n] = p
        /\ \A j \in DOMAIN points' \ {n} : j < n /\ j \in DOMAIN points /\ points'[j] = points[j]
        /\ n \in DOMAIN points => n = Len(points) /\ p.ts = points[n].ts
        /\ n \notin DOMAIN points => p.ts = e
    <3>1. CASE points' = Append(points, p) /\ p.ts = e
      <4>1. points \in Seq([ts : Nat, sid : Nat])
        BY <1>3
      <4>2. /\ points' \in Seq([ts : Nat, sid : Nat]) /\ Len(points') = Len(points) + 1
            /\ \A j \in 1 .. Len(points) : points'[j] = points[j]
            /\ points'[Len(points) + 1] = p
        BY <3>1, <4>1, AppendProperties
      <4>3. DOMAIN points' = 1 .. n
        BY <4>2
      <4>4. n = Len(points) + 1 /\ Len(points) \in Nat /\ DOMAIN points = 1 .. Len(points)
        BY <1>4, <4>2
      <4>5. n \notin DOMAIN points /\ n \in Nat \ {0} /\ 1 .. n \ {n} = DOMAIN points
            /\ \A j \in DOMAIN points : j < n
        BY <4>4
      <4> QED BY <3>1, <4>2, <4>3, <4>4, <4>5
    <3>2. CASE /\ points # <<>> /\ p.ts = points[Len(points)].ts
               /\ points' = [points EXCEPT ![Len(points)] = p]
      <4>1. points \in Seq([ts : Nat, sid : Nat]) /\ Len(points) \in DOMAIN points
        BY <1>3, <1>4, <3>2
      <4>2. /\ points' \in Seq([ts : Nat, sid : Nat]) /\ Len(points') = Len(points)
            /\ DOMAIN points' = DOMAIN points
            /\ \A j \in DOMAIN points \ {Len(points)} : points'[j] = points[j]
            /\ points'[Len(points)] = p
        BY <3>2, <4>1
      <4> QED BY <1>4, <3>2, <4>1, <4>2
    <3> QED BY <1>6, <3>1, <3>2
  <2> HIDE DEF n
  <2>2. FeedTypeOK'
    BY <1>1, <1>2, <2>1 DEF FeedInv, FeedTypeOK
  <2>3. PointsSound'
    <3>1. p.ts <= p.sid /\ p.sid <= archived'
      BY SMTT(30), <1>1, <1>3, <1>6, <2>1
    <3>2. \A j \in DOMAIN points' : points'[j].ts <= points'[j].sid /\ points'[j].sid <= archived'
      <4>1. ASSUME NEW j \in DOMAIN points' \ {n}
            PROVE  points'[j].ts <= points'[j].sid /\ points'[j].sid <= archived'
        <5>1. /\ points'[j] = points[j] /\ points[j] \in [ts : Nat, sid : Nat]
              /\ points[j].ts <= points[j].sid /\ points[j].sid <= archived
          BY <1>3, <2>1
        <5>2. points[j].sid \in Nat
          BY <5>1
        <5> QED BY <1>1, <5>1, <5>2
      <4> QED BY <2>1, <3>1, <4>1
    <3>3. \A j \in DOMAIN points' \ {n} : points[j].sid < p.ts
      BY SMTT(30), <1>1, <1>3, <2>1
    <3>4. ASSUME NEW i \in DOMAIN points', NEW j \in DOMAIN points', i < j
          PROVE  points'[i].sid < points'[j].ts
      <4>1. i # n
        BY <2>1, <3>4
      <4>2. CASE j = n
        BY <2>1, <3>3, <4>1, <4>2
      <4>3. CASE j # n
        BY <1>3, <2>1, <3>4, <4>1, <4>3
      <4> QED BY <4>2, <4>3
    <3> QED BY <3>2, <3>4 DEF PointsSound
  <2>4. ReadSound' /\ GotInOrder'
    BY <1>1, <1>6 DEF FeedInv, ReadSound, GotInOrder
  <2>5. Delivered'
    BY <1>1 DEF FeedInv, Delivered, Ids
  <2>6. Filled'
    <3> SUFFICES ASSUME mark # NoMark, left.fault = MaxFaults, NEW j \in DOMAIN points',
                        from < points'[j].ts, points'[j].ts <= mark, points'[j].ts \notin late'
                 PROVE  \E m \in DOMAIN got : points'[j].ts <= got[m] /\ got[m] <= points'[j].sid
      BY <1>1, <1>6 DEF Filled
    <3>1. CASE j \in DOMAIN points
      <4>1. points'[j].ts = points[j].ts /\ points[j].sid <= points'[j].sid
            /\ points[j].ts \in Nat /\ points[j].sid \in Nat /\ points'[j].sid \in Nat
        BY <1>1, <1>3, <1>6, <2>1, <3>1
      <4>2. points'[j].ts \notin late
        BY <1>1
      <4>3. PICK m \in DOMAIN got : points[j].ts <= got[m] /\ got[m] <= points[j].sid
        BY <3>1, <4>1, <4>2 DEF FeedInv, Filled
      <4>4. got[m] \in Nat
        BY Numbers
      <4> QED BY <4>1, <4>3, <4>4
    <3>2. CASE j \notin DOMAIN points
      <4>1. points'[j].ts = e /\ points'[j].sid = e
        BY <1>6, <2>1, <3>2
      <4>2. e > trimmed /\ e > archived /\ e \in Ids
        BY <1>1, <4>1 DEF Ids
      <4>3. PICK m \in DOMAIN got : got[m] = e
        BY <4>1, <4>2 DEF FeedInv, Delivered
      <4>4. e \in Nat
        BY <1>1
      <4> QED BY <4>1, <4>3, <4>4
    <3> QED BY <3>1, <3>2
  <2> QED BY <2>2, <2>3, <2>4, <2>5, <2>6 DEF FeedInv
<1>7. CASE ArchiveFails
  BY <1>5, <1>7 DEF ArchiveFails
<1>8. CASE Archive
  <2>1. e \in Nat /\ left' = left /\ archived' = e
    BY <1>1, <1>8 DEF Archive
  <2>2. CASE points' = Append(points, [ts |-> e, sid |-> e])
    <3>1. PICK p \in [ts : Nat, sid : Nat] : p = [ts |-> e, sid |-> e]
      BY <2>1
    <3>2. p.ts = e /\ p.sid = e /\ points' = Append(points, p)
      BY <2>2, <3>1
    <3> QED BY <1>6, <2>1, <3>2
  <2>3. CASE points # <<>> /\ points' = [points EXCEPT ![Len(points)].sid = e]
    <3>1. points[Len(points)] \in [ts : Nat, sid : Nat]
      BY <1>3, <1>4, <2>3
    <3>2. PICK p \in [ts : Nat, sid : Nat] : p = [points[Len(points)] EXCEPT !.sid = e]
      BY <2>1, <3>1
    <3>3. p.ts = points[Len(points)].ts /\ p.sid = e
      BY <3>1, <3>2
    <3>4. points' = [points EXCEPT ![Len(points)] = p]
      BY <2>3, <3>2
    <3> QED BY <1>6, <2>1, <2>3, <3>3, <3>4
  <2> QED BY <1>5, <1>8, <2>1, <2>2, <2>3 DEF Archive
<1> QED BY <1>7, <1>8

LEMMA PhoneStep ==
  ASSUME FeedInv, Bootstrap \/ PhoneRestart \/ UNCHANGED vars
  PROVE  FeedInv'
<1>1. CASE Bootstrap
  <2>1. /\ mark = NoMark /\ trimmed < LastId /\ mark' = LastId /\ from' = LastId /\ got' = <<>>
        /\ UNCHANGED <<kinds, trimmed, points, archived, late, read, left>> /\ LastId' = LastId
    BY <1>1 DEF Bootstrap, server, LastId
  <2>2. LastId \in Nat /\ NoMark = -1
    BY Numbers
  <2>3. FeedTypeOK'
    BY <2>1, <2>2 DEF FeedInv, FeedTypeOK
  <2>4. read.pc = "idle" /\ PointsSound'
    BY <2>1 DEF FeedInv, ReadSound, PointsSound
  <2>5. ReadSound' /\ GotInOrder' /\ Delivered' /\ Filled'
    <3>1. \A t \in Nat : ~(LastId < t /\ t <= LastId)
      BY <2>2
    <3>2. \A j \in DOMAIN points : points[j].ts \in Nat
      BY Numbers
    <3> QED BY <2>1, <2>4, <3>1, <3>2 DEF ReadSound, GotInOrder, InOrder, Delivered, Filled, Ids
  <2> QED BY <2>3, <2>4, <2>5 DEF FeedInv
<1>2. CASE PhoneRestart
  <2>1. /\ mark' = NoMark /\ read' = Idle
        /\ UNCHANGED <<kinds, trimmed, points, archived, late, from, got, left>> /\ LastId' = LastId
    BY <1>2 DEF PhoneRestart, server, LastId
  <2>2. LastId \in Nat /\ NoMark = -1
    BY Numbers
  <2>3. read' \in Reads /\ read'.pc = "idle"
    BY <2>1 DEF Reads, Idle
  <2>4. FeedTypeOK'
    BY <2>1, <2>2, <2>3 DEF FeedInv, FeedTypeOK
  <2> QED
    BY <2>1, <2>3, <2>4
       DEF FeedInv, PointsSound, ReadSound, GotInOrder, InOrder, Delivered, Filled
<1>3. CASE UNCHANGED vars
  BY <1>3
     DEF FeedInv, FeedTypeOK, PointsSound, ReadSound, GotInOrder, InOrder, Delivered, Filled, vars,
         server, phone, LastId, Ids
<1> QED BY <1>1, <1>2, <1>3

\* A poll that goes on touches nothing but itself.
LEMMA PollKeeps ==
  ASSUME FeedInv, UNCHANGED <<server, phone>>, read' \in Reads, ReadSound',
         ~Archiving => read'.pc \in {"idle", "respond"},
         left' \in [fault : 0 .. MaxFaults, loss : 0 .. MaxLosses],
         left'.fault = MaxFaults => left' = left
  PROVE  FeedInv'
<1>1. UNCHANGED <<kinds, trimmed, points, archived, late, mark, from, got>> /\ LastId' = LastId
  BY DEF server, phone, LastId
<1>2. FeedTypeOK'
  BY <1>1 DEF FeedInv, FeedTypeOK
<1>3. PointsSound' /\ GotInOrder' /\ Delivered' /\ Filled'
  BY <1>1 DEF FeedInv, PointsSound, GotInOrder, InOrder, Delivered, Filled, Ids
<1> QED BY <1>2, <1>3 DEF FeedInv

LEMMA PollStep ==
  ASSUME FeedInv, ReadLive \/ ReadOldest \/ BackfillFails \/ FailRead
  PROVE  FeedInv'
<1>1. /\ left \in [fault : 0 .. MaxFaults, loss : 0 .. MaxLosses] /\ read \in Reads
      /\ trimmed \in Nat /\ LastId \in Nat /\ LastId <= MaxEntries /\ MaxEntries \in Nat
      /\ trimmed <= LastId /\ mark \in Int /\ mark <= LastId
  BY Numbers DEF FeedInv, FeedTypeOK
<1>2. CASE ReadLive
  <2>1. /\ read.pc = "idle" /\ mark # NoMark /\ UNCHANGED <<server, phone, left>>
        /\ read' = [read EXCEPT !.pc = IF Archiving THEN "oldest" ELSE "respond", !.live = Live]
    BY <1>2 DEF ReadLive
  <2>2. /\ Live \in Seq(Nat) /\ DOMAIN Live = 1 .. Len(Live) /\ Len(Live) \in Nat
        /\ \A i \in DOMAIN Live : Live[i] = Live[1] + i - 1 /\ Live[i] <= LastId
        /\ Live # <<>> => Live[1] = Larger(mark, trimmed) + 1
    BY <2>1, LiveIsConsecutive
  <2>3. /\ read' \in Reads /\ read'.live = Live
        /\ read'.pc = IF Archiving THEN "oldest" ELSE "respond"
    BY <1>1, <2>1, <2>2 DEF Reads
  <2>4. Larger(mark, trimmed) + 1 > mark
        /\ (Larger(mark, trimmed) + 1 = mark + 1 \/ Larger(mark, trimmed) + 1 <= trimmed + 1)
    BY <1>1 DEF Larger
  <2>5. UNCHANGED <<trimmed, mark>> /\ LastId' = LastId
    BY <2>1 DEF server, phone, LastId
  <2>6. ReadSound'
    BY <2>1, <2>2, <2>3, <2>4, <2>5 DEF ReadSound
  <2> QED BY <1>1, <2>1, <2>3, <2>6, PollKeeps
<1>3. CASE ReadOldest
  <2>1. /\ read.pc = "oldest" /\ UNCHANGED <<server, phone, left>>
        /\ UNCHANGED <<trimmed, mark>> /\ LastId' = LastId
    BY <1>3 DEF ReadOldest, server, phone, LastId
  <2>2. /\ mark # NoMark
        /\ \A i \in DOMAIN read.live : read.live[i] = read.live[1] + i - 1 /\ read.live[i] <= LastId
        /\ read.live # <<>> =>
             read.live[1] > mark /\ (read.live[1] = mark + 1 \/ read.live[1] <= trimmed + 1)
    BY <2>1 DEF FeedInv, ReadSound
  <2>3. read.live # <<>> => read.live[1] \in Nat /\ read.live[1] <= LastId
    <3>1. read.live \in Seq(Nat) /\ DOMAIN read.live = 1 .. Len(read.live)
          /\ \A i \in DOMAIN read.live : read.live[i] \in Nat
      BY Numbers
    <3>2. read.live # <<>> => 1 \in DOMAIN read.live
      BY <3>1
    <3> QED BY <2>2, <3>1, <3>2
  <2>4. CASE trimmed < LastId /\ mark > trimmed /\ read' = [read EXCEPT !.pc = "respond"]
    <3>1. read' \in Reads /\ read'.live = read.live /\ read'.pc = "respond"
      BY <1>1, <2>4 DEF Reads
    <3>2. read.live # <<>> => read.live[1] = mark + 1
      BY <1>1, <2>2, <2>3, <2>4
    <3>3. ReadSound'
      BY <2>1, <2>2, <3>1, <3>2 DEF ReadSound
    <3> QED BY <1>1, <2>1, <3>1, <3>3, PollKeeps
  <2>5. ASSUME NEW o \in Nat, read' = [read EXCEPT !.pc = "getSince", !.oldest = o], o > mark,
               read.live # <<>> => read.live[1] <= o
        PROVE  FeedInv'
    <3>1. read' \in Reads /\ read'.live = read.live /\ read'.pc = "getSince" /\ read'.oldest = o
      BY <1>1, <2>5 DEF Reads
    <3>2. ReadSound'
      BY <2>1, <2>2, <2>5, <3>1 DEF ReadSound
    <3>3. Archiving
      BY <2>1 DEF FeedInv, FeedTypeOK
    <3> QED BY <1>1, <2>1, <3>1, <3>2, <3>3, PollKeeps
  <2>6. CASE trimmed < LastId /\ mark <= trimmed
             /\ read' = [read EXCEPT !.pc = "getSince", !.oldest = trimmed + 1]
    <3>1. trimmed + 1 \in Nat /\ trimmed + 1 > mark
          /\ (read.live # <<>> => read.live[1] <= trimmed + 1)
      BY <1>1, <2>2, <2>3, <2>6
    <3> QED BY <2>5, <2>6, <3>1
  <2>7. CASE trimmed = LastId
             /\ read' = [read EXCEPT !.pc = "getSince", !.oldest = MaxEntries + 1]
    <3>1. MaxEntries + 1 \in Nat /\ MaxEntries + 1 > mark
          /\ (read.live # <<>> => read.live[1] <= MaxEntries + 1)
      BY <1>1, <2>3
    <3> QED BY <2>5, <2>7, <3>1
  <2> QED BY <1>3, <2>4, <2>6, <2>7 DEF ReadOldest
<1>4. CASE BackfillFails
  <2>1. /\ read.pc \in {"oldest", "getSince"} /\ UNCHANGED <<server, phone>>
        /\ UNCHANGED <<trimmed, mark>> /\ LastId' = LastId
        /\ left.fault > 0 /\ left' = [left EXCEPT !.fault = @ - 1]
        /\ read' = [read EXCEPT !.pc = "respond"]
    BY <1>4 DEF BackfillFails, server, phone, LastId
  <2>2. read' \in Reads /\ read'.live = read.live /\ read'.pc = "respond"
    BY <1>1, <2>1 DEF Reads
  <2>3. left' \in [fault : 0 .. MaxFaults, loss : 0 .. MaxLosses] /\ left'.fault # MaxFaults
    BY <2>1, FaultsCount
  <2>4. ReadSound'
    BY <2>1, <2>2, <2>3 DEF FeedInv, ReadSound
  <2> QED BY <2>1, <2>2, <2>3, <2>4, PollKeeps
<1>5. CASE FailRead
  <2>1. /\ UNCHANGED <<server, phone>> /\ read' = Idle
        /\ left.fault > 0 /\ left' = [left EXCEPT !.fault = @ - 1]
    BY <1>5 DEF FailRead
  <2>2. read' \in Reads /\ read'.pc = "idle"
    BY <2>1 DEF Reads, Idle
  <2>3. left' \in [fault : 0 .. MaxFaults, loss : 0 .. MaxLosses] /\ left'.fault # MaxFaults
    BY <2>1, FaultsCount
  <2>4. ReadSound'
    BY <2>2 DEF ReadSound
  <2> QED BY <2>1, <2>2, <2>3, <2>4, PollKeeps
<1> QED BY <1>2, <1>3, <1>4, <1>5

-----------------------------------------------------------------------------
(* The answer                                                              *)

\* Every message is after the mark, and the live ones among them are the
\* next of the stream, but for trimmed ones.
LEMMA MessagesAreNew ==
  ASSUME FeedInv, read.pc \in {"respond", "getSince"},
         NEW b \in Seq(Nat), read.pc = "respond" => b = <<>>, read.pc = "getSince" => b = Backfill,
         NEW s, s = FirstOf(Combined(b), MaxCount)
  PROVE  /\ \A i \in 1 .. Len(b) : mark < b[i] /\ b[i] <= archived
         /\ \A i \in 1 .. Len(s) : mark < s[i] /\ s[i] <= LastId
         /\ \A i \in 1 .. Len(s), e \in Nat :
              i > Len(b) /\ read.live[1] <= e /\ e <= s[i] => \E m \in 1 .. Len(s) : s[m] = e
<1>1. /\ s \in Seq(Nat) /\ Len(s) \in Nat /\ Len(b) \in Nat /\ Len(s) <= MaxCount
      /\ \A i \in 1 .. Len(s) :
           /\ i <= Len(b) => s[i] = b[i]
           /\ i > Len(b) => i - Len(b) \in DOMAIN read.live /\ s[i] = read.live[i - Len(b)]
  BY MessagesArePrefix
<1>2. /\ mark \in Nat /\ archived \in Nat /\ archived <= LastId /\ LastId \in Nat
      /\ DOMAIN read.live = 1 .. Len(read.live) /\ Len(read.live) \in Nat
      /\ \A i \in DOMAIN read.live : /\ read.live[i] \in Nat /\ read.live[i] <= LastId
                                     /\ read.live[i] = read.live[1] + i - 1
      /\ read.live # <<>> => read.live[1] > mark
  BY Numbers DEF FeedInv, ReadSound
<1>3. \A i \in 1 .. Len(b) : mark < b[i] /\ b[i] <= archived /\ b[i] \in Nat
  <2>1. CASE read.pc = "respond"
    BY <2>1
  <2>2. CASE read.pc = "getSince"
    <3> SUFFICES ASSUME NEW i \in 1 .. Len(b) PROVE mark < b[i] /\ b[i] <= archived /\ b[i] \in Nat
      OBVIOUS
    <3>0. /\ UpTo(mark) \in Nat /\ i \in Nat \ {0} /\ UpTo(mark) + i \in DOMAIN points
          /\ b[i] = points[UpTo(mark) + i].sid
      <4>1. b = Backfill /\ i \in 1 .. Len(Backfill)
        BY <2>2
      <4>2. /\ UpTo(mark) \in Nat /\ Len(Backfill) \in Nat
            /\ \A k \in 1 .. Len(Backfill) :
                 UpTo(mark) + k \in DOMAIN points /\ Backfill[k] = points[UpTo(mark) + k].sid
        BY <2>2, BackfillIsGap
      <4>3. i \in Nat \ {0}
        BY <4>1, <4>2
      <4> QED BY <4>1, <4>2, <4>3
    <3>1. PICK j \in Int : j = UpTo(mark) + i
      BY <3>0
    <3>2. j \in DOMAIN points /\ b[i] = points[j].sid /\ j > UpTo(mark)
      BY <3>0, <3>1
    <3>3. points[j].ts > mark
      <4>1. UpTo(mark) \in 0 .. Len(points) /\ (points[j].ts <= mark <=> j <= UpTo(mark))
        BY <1>2, <3>2, UpToCounts
      <4>2. points[j].ts \in Nat
        BY <3>2, Numbers
      <4> QED BY <1>2, <3>1, <3>2, <4>1, <4>2
    <3>4. points[j].ts <= points[j].sid /\ points[j].sid <= archived
          /\ points[j].ts \in Nat /\ points[j].sid \in Nat
      BY <3>2, Numbers DEF FeedInv, PointsSound
    <3> QED BY <1>2, <3>2, <3>3, <3>4
  <2> QED BY <2>1, <2>2
<1>4. \A i \in DOMAIN read.live : read.live[i] > mark
  <2> SUFFICES ASSUME NEW i \in DOMAIN read.live PROVE read.live[i] > mark
    OBVIOUS
  <2>1. read.live # <<>> /\ 1 \in DOMAIN read.live /\ i \in Nat /\ i >= 1
    BY <1>2
  <2>2. read.live[1] \in Nat /\ read.live[i] = read.live[1] + i - 1 /\ read.live[1] > mark
    BY <1>2, <2>1
  <2> QED BY <1>2, <2>1, <2>2
<1>5. \A i \in 1 .. Len(s) : mark < s[i] /\ s[i] <= LastId
  <2> SUFFICES ASSUME NEW i \in 1 .. Len(s) PROVE mark < s[i] /\ s[i] <= LastId
    OBVIOUS
  <2>1. CASE i <= Len(b)
    <3>1. i \in 1 .. Len(b) /\ s[i] = b[i]
      BY <1>1, <2>1
    <3> QED BY <1>2, <1>3, <3>1
  <2>2. CASE i > Len(b)
    BY <1>1, <1>2, <1>4, <2>2
  <2> QED BY <1>1, <2>1, <2>2
<1>6. ASSUME NEW i \in 1 .. Len(s), NEW e \in Nat, i > Len(b), read.live[1] <= e, e <= s[i]
      PROVE  \E m \in 1 .. Len(s) : s[m] = e
  <2>0. Len(s) \in Nat /\ Len(b) \in Nat /\ i \in Nat /\ i <= Len(s)
    BY <1>1
  <2>1. PICK k \in Int : k = i - Len(b)
    BY <2>0
  <2>2. k \in DOMAIN read.live /\ s[i] = read.live[k]
    BY <1>1, <1>6, <2>1
  <2>3. 1 \in DOMAIN read.live /\ read.live[1] \in Nat /\ read.live[k] = read.live[1] + k - 1
    BY SMTT(30), <1>2, <2>2
  <2>4. PICK l \in Int : l = e - read.live[1] + 1
    BY <2>3
  <2>5. l \in 1 .. k
    BY <1>6, <2>2, <2>3, <2>4
  <2>6. l \in DOMAIN read.live /\ read.live[l] = e
    <3>1. l \in DOMAIN read.live
      BY <1>2, <2>2, <2>5
    <3>2. read.live[l] = read.live[1] + l - 1
      BY <1>2, <3>1
    <3> QED BY SMTT(30), <2>3, <2>4, <3>1, <3>2
  <2>7. Len(b) + l \in 1 .. Len(s) /\ Len(b) + l > Len(b) /\ (Len(b) + l) - Len(b) = l
    BY <1>6, <2>0, <2>1, <2>5
  <2>8. s[Len(b) + l] = read.live[l]
    BY <1>1, <2>7
  <2> QED BY <2>6, <2>7, <2>8
<1> QED BY <1>3, <1>5, <1>6

\* The points that the answer's mark passes have a message in it.
LEMMA GapIsAnswered ==
  ASSUME FeedInv, left.fault = MaxFaults, read.pc \in {"respond", "getSince"},
         NEW b \in Seq(Nat), read.pc = "respond" => b = <<>>, read.pc = "getSince" => b = Backfill,
         NEW s, s = FirstOf(Combined(b), MaxCount), Len(s) > 0,
         NEW j \in DOMAIN points, mark < points[j].ts, points[j].ts <= s[Len(s)]
  PROVE  \E i \in 1 .. Len(s) : points[j].ts <= s[i] /\ s[i] <= points[j].sid
<1> DEFINE n == Len(s)
           t == points[j].ts
<1>1. /\ s \in Seq(Nat) /\ n \in Nat /\ Len(b) \in Nat /\ n <= MaxCount
      /\ \A i \in 1 .. n :
           /\ i <= Len(b) => s[i] = b[i]
           /\ i > Len(b) => i - Len(b) \in DOMAIN read.live /\ s[i] = read.live[i - Len(b)]
  BY MessagesArePrefix
<1>2. /\ t \in Nat /\ points[j].sid \in Nat /\ t <= points[j].sid /\ mark \in Nat
      /\ MaxCount \in Nat /\ n \in 1 .. n
  <2>1. t <= points[j].sid /\ mark # NoMark
    BY DEF FeedInv, ReadSound, PointsSound
  <2>2. t \in Nat /\ points[j].sid \in Nat /\ mark \in Nat /\ MaxCount \in Nat
    BY <2>1, Numbers
  <2>3. n \in Nat /\ n > 0
    BY <1>1
  <2> QED BY <2>1, <2>2, <2>3
<1>3. \A i \in 1 .. n, e \in Nat :
        i > Len(b) /\ read.live[1] <= e /\ e <= s[i] => \E m \in 1 .. n : s[m] = e
  BY MessagesAreNew
<1>4. ASSUME n > Len(b), read.live[1] <= t
      PROVE  \E i \in 1 .. n : t <= s[i] /\ s[i] <= points[j].sid
  <2>1. PICK m \in 1 .. n : s[m] = t
    BY <1>2, <1>3, <1>4
  <2> QED BY <1>2, <2>1
<1>5. CASE read.pc = "respond"
  <2>1. Len(b) = 0 /\ n > Len(b)
    BY <1>1, <1>5
  <2>2. Archiving
    BY DEF FeedInv, FeedTypeOK
  <2>3. n - Len(b) \in DOMAIN read.live
    BY <1>1, <1>2, <2>1
  <2>4. read.live # <<>>
    BY <2>3
  <2>5. read.live[1] = mark + 1
    BY <1>5, <2>2, <2>4 DEF FeedInv, ReadSound
  <2> QED BY <1>2, <1>4, <2>1, <2>5
<1>6. CASE read.pc = "getSince"
  <2> DEFINE a == UpTo(mark)
  <2>1. /\ a \in Nat /\ j > a
        /\ \A i \in 1 .. Len(b) : a + i \in DOMAIN points /\ b[i] = points[a + i].sid
        /\ Len(b) <= MaxCount => \A k \in DOMAIN points : k > a + Len(b) => points[k].ts >= read.oldest
    <3>1. a \in 0 .. Len(points) /\ (points[j].ts <= mark <=> j <= a)
      BY <1>2, UpToCounts
    <3>2. j \in Nat
      BY Numbers
    <3> QED BY <1>2, <1>6, <3>1, <3>2, BackfillIsGap
  <2> HIDE DEF a
  <2>2. j \in Nat
    BY Numbers
  <2>3. CASE j - a <= n /\ j - a <= Len(b)
    <3>1. PICK i \in 1 .. n : i = j - a /\ i <= Len(b)
      BY <1>1, <2>1, <2>2, <2>3
    <3>2. i \in 1 .. Len(b) /\ a + i = j
      BY <1>1, <2>1, <2>2, <3>1
    <3>3. s[i] = points[j].sid
      BY <1>1, <2>1, <3>1, <3>2
    <3> QED BY <1>2, <3>3
  <2>4. CASE n <= Len(b) /\ j - a > n
    <3>1. s[n] = points[a + n].sid /\ a + n \in DOMAIN points
      <4>1. n \in 1 .. Len(b) /\ s[n] = b[n]
        BY <1>1, <1>2, <2>4
      <4> QED BY <2>1, <4>1
    <3>2. a + n < j
      BY <1>1, <2>1, <2>2, <2>4
    <3>3. points[a + n].sid < points[j].ts
      BY <3>1, <3>2 DEF FeedInv, PointsSound
    <3>4. points[a + n].sid \in Nat
      BY <3>1, Numbers
    <3> QED BY <1>2, <3>1, <3>3, <3>4
  <2>5. CASE n > Len(b) /\ j - a > Len(b)
    <3>1. j > a + Len(b) /\ Len(b) <= MaxCount
      BY <1>1, <1>2, <2>1, <2>2, <2>5
    <3>2. t >= read.oldest
      BY <2>1, <3>1
    <3>3. n - Len(b) \in DOMAIN read.live
      BY <1>1, <1>2, <2>5
    <3>4. read.live # <<>>
      BY <3>3
    <3>5. read.live[1] <= read.oldest /\ read.live[1] \in Nat /\ read.oldest \in Nat
      <4>1. 1 \in DOMAIN read.live
        BY SMTT(30), <3>3, Numbers
      <4> QED BY <1>6, <3>4, <4>1, Numbers DEF FeedInv, ReadSound
    <3> QED BY <1>2, <1>4, <2>5, <3>2, <3>5
  <2> QED BY <1>1, <2>1, <2>2, <2>3, <2>4, <2>5
<1> QED BY <1>5, <1>6

\* The phone takes the answer: the mark is that of its last message.
LEMMA TakenStep ==
  ASSUME FeedInv, read.pc \in {"respond", "getSince"}, UNCHANGED <<server, from, left>>,
         NEW b \in Seq(Nat), read.pc = "respond" => b = <<>>, read.pc = "getSince" => b = Backfill,
         NEW s, s = FirstOf(Combined(b), MaxCount),
         read' = Idle, got' = got \o s, mark' = NewMark(s)
  PROVE  FeedInv' /\ mark' >= mark /\ (Len(got') > Len(got) => mark' > mark)
<1>1. /\ s \in Seq(Nat) /\ Len(s) \in Nat /\ Len(b) \in Nat
      /\ \A i \in 1 .. Len(s) : i <= Len(b) => s[i] = b[i]
  BY MessagesArePrefix
<1>2. /\ \A i \in 1 .. Len(b) : mark < b[i] /\ b[i] <= archived
      /\ \A i \in 1 .. Len(s) : mark < s[i] /\ s[i] <= LastId
      /\ \A i \in 1 .. Len(s), e \in Nat :
           i > Len(b) /\ read.live[1] <= e /\ e <= s[i] => \E m \in 1 .. Len(s) : s[m] = e
  <2>1. read.pc \in {"respond", "getSince"} /\ b \in Seq(Nat)
        /\ (read.pc = "respond" => b = <<>>) /\ (read.pc = "getSince" => b = Backfill)
    OBVIOUS
  <2>2. \A i \in 1 .. Len(b) : mark < b[i] /\ b[i] <= archived
    BY <2>1, MessagesAreNew
  <2>3. \A i \in 1 .. Len(s) : mark < s[i] /\ s[i] <= LastId
    BY <2>1, MessagesAreNew
  <2>4. \A i \in 1 .. Len(s), e \in Nat :
          i > Len(b) /\ read.live[1] <= e /\ e <= s[i] => \E m \in 1 .. Len(s) : s[m] = e
    BY <2>1, MessagesAreNew
  <2> QED BY <2>2, <2>3, <2>4
<1>3. /\ mark # NoMark /\ mark \in Nat /\ LastId \in Nat /\ mark <= LastId
      /\ trimmed \in Nat /\ archived \in Nat
      /\ got \in Seq(Nat) /\ DOMAIN got = 1 .. Len(got) /\ Len(got) \in Nat
      /\ \A m \in DOMAIN got : got[m] \in Nat
  BY Numbers DEF FeedInv, ReadSound, FeedTypeOK
<1>3a. mark \in Nat /\ LastId \in Nat /\ trimmed \in Nat /\ archived \in Nat /\ Len(got) \in Nat
       /\ Len(s) \in Nat /\ Len(b) \in Nat
  BY <1>1, <1>3
<1>4. UNCHANGED <<kinds, trimmed, points, archived, late>> /\ LastId' = LastId /\ Ids' = Ids
  BY DEF server, LastId, Ids
<1>5. \A i \in 1 .. Len(s) : s[i] \in Nat
  BY <1>1, ElementOfSeq
<1>6. /\ got' \in Seq(Nat) /\ Len(got') = Len(got) + Len(s) /\ DOMAIN got' = 1 .. Len(got) + Len(s)
      /\ \A m \in 1 .. Len(got) + Len(s) : got'[m] = IF m <= Len(got) THEN got[m] ELSE s[m - Len(got)]
  <2>1. /\ got' \in Seq(Nat) /\ Len(got') = Len(got) + Len(s)
        /\ \A m \in 1 .. Len(got) + Len(s) : got'[m] = IF m <= Len(got) THEN got[m] ELSE s[m - Len(got)]
    BY <1>1, <1>3, ConcatProperties
  <2> QED BY <2>1
<1>7. /\ \A m \in DOMAIN got : m \in DOMAIN got' /\ got'[m] = got[m]
      /\ \A i \in 1 .. Len(s) : Len(got) + i \in DOMAIN got' /\ got'[Len(got) + i] = s[i]
      /\ \A m \in DOMAIN got' \ DOMAIN got : m - Len(got) \in 1 .. Len(s) /\ got'[m] = s[m - Len(got)]
  <2>1. \A m \in DOMAIN got : m \in DOMAIN got' /\ got'[m] = got[m]
    <3> SUFFICES ASSUME NEW m \in DOMAIN got PROVE m \in DOMAIN got' /\ got'[m] = got[m]
      OBVIOUS
    <3>1. m \in 1 .. Len(got) + Len(s) /\ m <= Len(got)
      BY <1>1, <1>3
    <3> QED BY <1>6, <3>1
  <2>2. ASSUME NEW i \in 1 .. Len(s) PROVE Len(got) + i \in DOMAIN got' /\ got'[Len(got) + i] = s[i]
    <3>1. PICK m \in Nat : m = Len(got) + i
      BY <1>1, <1>3
    <3>2. m \in 1 .. Len(got) + Len(s) /\ ~(m <= Len(got)) /\ m - Len(got) = i
      BY <1>1, <1>3, <3>1
    <3> QED BY <1>6, <3>1, <3>2
  <2>3. ASSUME NEW m \in DOMAIN got' \ DOMAIN got
        PROVE  m - Len(got) \in 1 .. Len(s) /\ got'[m] = s[m - Len(got)]
    <3>1. m \in 1 .. Len(got) + Len(s) /\ ~(m <= Len(got)) /\ m - Len(got) \in 1 .. Len(s)
      BY <1>1, <1>3, <1>6
    <3> QED BY <1>6, <3>1
  <2> QED BY <2>1, <2>2, <2>3
<1>8. mark' = IF s = <<>> THEN mark ELSE s[Len(s)]
  BY DEF NewMark, Last
<1>9. /\ s # <<>> => Len(s) \in 1 .. Len(s)
      /\ s = <<>> => Len(s) = 0
  BY <1>1
<1>10. mark' \in Nat /\ mark' >= mark /\ mark' <= LastId /\ (Len(s) > 0 => mark' > mark)
  <2>1. CASE s = <<>>
    BY <1>3, <1>8, <1>9, <2>1
  <2>2. CASE s # <<>>
    BY <1>2, <1>3, <1>5, <1>8, <1>9, <2>2
  <2> QED BY <2>1, <2>2
<1>11. read' \in Reads /\ read'.pc = "idle"
  BY DEF Idle, Reads
<1>12. FeedTypeOK'
  <2>1. mark' \in NoMark .. LastId'
    BY <1>4, <1>10 DEF NoMark
  <2> QED BY <1>4, <1>6, <1>11, <2>1 DEF FeedInv, FeedTypeOK
<1>13. PointsSound' /\ ReadSound'
  BY <1>4, <1>11 DEF FeedInv, PointsSound, ReadSound
<1>14. Delivered'
  <2> SUFFICES ASSUME NEW e \in Ids, e > trimmed, e > archived, from < e, e <= mark'
               PROVE  \E m \in DOMAIN got' : got'[m] = e
    BY <1>4 DEF Delivered
  <2>1. e \in Nat
    BY DEF Ids
  <2>2. CASE e <= mark
    <3>1. PICK m \in DOMAIN got : got[m] = e
      BY <1>3, <2>2 DEF FeedInv, Delivered
    <3> QED BY <1>7, <3>1
  <2>3. CASE e > mark
    <3>1. s # <<>> /\ e <= s[Len(s)] /\ Len(s) \in 1 .. Len(s)
      BY <1>3, <1>8, <1>9, <2>1, <2>3
    <3>2. Len(s) > Len(b)
      <4>1. ASSUME Len(s) <= Len(b) PROVE FALSE
        <5>1. s[Len(s)] = b[Len(s)] /\ Len(s) \in 1 .. Len(b)
          <6>1. Len(s) \in 1 .. Len(b)
            BY <1>3a, <3>1, <4>1
          <6> QED BY <1>1, <3>1, <4>1, <6>1
        <5>2. b[Len(s)] <= archived /\ s[Len(s)] \in Nat
          BY <1>2, <1>5, <3>1, <5>1
        <5> QED BY <1>3, <2>1, <3>1, <5>1, <5>2
      <4> QED BY <1>1, <4>1
    <3>3. read.live[1] <= e
      <4>1. Len(s) - Len(b) \in DOMAIN read.live
        BY <3>1, <3>2, MessagesArePrefix
      <4>2. 1 \in DOMAIN read.live /\ read.live # <<>> /\ read.live[1] \in Nat
        <5>1. /\ DOMAIN read.live = 1 .. Len(read.live) /\ Len(read.live) \in Nat
              /\ \A i \in DOMAIN read.live : read.live[i] \in Nat
          BY Numbers
        <5>2. 1 \in DOMAIN read.live
          BY <4>1, <5>1
        <5> QED BY <5>1, <5>2
      <4>3. read.live[1] = mark + 1 \/ read.live[1] <= trimmed + 1
        BY <4>2 DEF FeedInv, ReadSound
      <4> QED BY <1>3, <2>1, <2>3, <4>2, <4>3
    <3>4. PICK m \in 1 .. Len(s) : s[m] = e
      BY <1>2, <2>1, <3>1, <3>2, <3>3
    <3> QED BY <1>7, <3>4
  <2> QED BY <1>3, <2>1, <2>2, <2>3
<1>15. Filled'
  <2> SUFFICES ASSUME left.fault = MaxFaults, NEW j \in DOMAIN points, from < points[j].ts,
                      points[j].ts <= mark', points[j].ts \notin late
               PROVE  \E m \in DOMAIN got' : points[j].ts <= got'[m] /\ got'[m] <= points[j].sid
    BY <1>4 DEF Filled
  <2>1. points[j].ts \in Nat
    BY Numbers
  <2>2. CASE points[j].ts <= mark
    <3>1. PICK m \in DOMAIN got : points[j].ts <= got[m] /\ got[m] <= points[j].sid
      BY <1>3, <2>2 DEF FeedInv, Filled
    <3> QED BY <1>7, <3>1
  <2>3. CASE mark < points[j].ts
    <3>1. Len(s) > 0 /\ points[j].ts <= s[Len(s)]
      BY <1>3, <1>8, <1>9, <2>1, <2>3
    <3>2. PICK i \in 1 .. Len(s) : points[j].ts <= s[i] /\ s[i] <= points[j].sid
      BY <2>3, <3>1, GapIsAnswered
    <3> QED BY <1>7, <3>2
  <2>4. points[j].ts <= mark \/ mark < points[j].ts
    BY <1>3a, <2>1
  <2> QED BY <2>2, <2>3, <2>4
<1>16. GotInOrder'
  <2> SUFFICES ASSUME ~Archiving
               PROVE  InOrder' /\ \A m \in DOMAIN got' : got'[m] <= mark'
    BY DEF GotInOrder
  <2>1. read.pc = "respond" /\ b = <<>> /\ Len(b) = 0
    BY DEF FeedInv, FeedTypeOK
  <2>2. /\ \A m, n \in DOMAIN got : m < n => got[m] < got[n]
        /\ \A m \in DOMAIN got : got[m] <= mark
    BY <1>3 DEF FeedInv, GotInOrder, InOrder
  <2>3. \A k, l \in 1 .. Len(s) : k < l => s[k] < s[l]
    <3> SUFFICES ASSUME NEW k \in 1 .. Len(s), NEW l \in 1 .. Len(s), k < l PROVE s[k] < s[l]
      OBVIOUS
    <3>1. /\ k \in DOMAIN read.live /\ s[k] = read.live[k]
          /\ l \in DOMAIN read.live /\ s[l] = read.live[l]
      <4>1. k > Len(b) /\ l > Len(b) /\ k - Len(b) = k /\ l - Len(b) = l
        BY <2>1
      <4>2. \A i \in 1 .. Len(s) :
              i > Len(b) => i - Len(b) \in DOMAIN read.live /\ s[i] = read.live[i - Len(b)]
        BY SMTT(30), MessagesArePrefix
      <4> QED BY <4>1, <4>2
    <3>2. read.live[k] = read.live[1] + k - 1 /\ read.live[l] = read.live[1] + l - 1
      BY <2>1, <3>1 DEF FeedInv, ReadSound
    <3>3. 1 \in DOMAIN read.live /\ read.live[1] \in Nat
      <4>1. /\ DOMAIN read.live = 1 .. Len(read.live) /\ Len(read.live) \in Nat
            /\ \A i \in DOMAIN read.live : read.live[i] \in Nat
        BY Numbers
      <4>2. 1 \in DOMAIN read.live
        BY <3>1, <4>1
      <4> QED BY <4>1, <4>2
    <3> QED BY <3>1, <3>2, <3>3
  <2>4. \A m \in DOMAIN got' : got'[m] <= mark'
    <3> SUFFICES ASSUME NEW m \in DOMAIN got' PROVE got'[m] <= mark'
      OBVIOUS
    <3>1. CASE m \in DOMAIN got
      <4>1. got'[m] = got[m] /\ got[m] \in Nat /\ got[m] <= mark
        BY <1>3, <1>7, <2>2, <3>1
      <4> QED BY <1>3, <1>10, <4>1
    <3>2. CASE m \notin DOMAIN got
      <4>1. PICK i \in 1 .. Len(s) : got'[m] = s[i]
        BY <1>7, <3>2
      <4>2. mark' = s[Len(s)] /\ Len(s) \in 1 .. Len(s)
        BY <1>8, <1>9, <4>1
      <4>3. i = Len(s) \/ i < Len(s)
        BY <1>3a
      <4>4. s[i] \in Nat /\ s[Len(s)] \in Nat /\ (i < Len(s) => s[i] < s[Len(s)])
        BY <1>5, <2>3, <4>2
      <4> QED BY <4>1, <4>2, <4>3, <4>4
    <3> QED BY <3>1, <3>2
  <2>5. InOrder'
    <3> SUFFICES ASSUME NEW m \in DOMAIN got', NEW n \in DOMAIN got', m < n
                 PROVE  got'[m] < got'[n]
      BY DEF InOrder
    <3>1. CASE n \in DOMAIN got
      <4>1. m \in DOMAIN got
        BY <1>3, <1>6, <3>1
      <4> QED BY <1>7, <2>2, <3>1, <4>1
    <3>2. CASE n \notin DOMAIN got /\ m \in DOMAIN got
      <4>1. PICK i \in 1 .. Len(s) : got'[n] = s[i]
        BY <1>7, <3>2
      <4>2. got'[m] = got[m] /\ got[m] <= mark /\ got[m] \in Nat
        BY <1>3, <1>7, <2>2, <3>2
      <4>3. mark < s[i] /\ s[i] \in Nat
        BY <1>2, <1>5
      <4> QED BY <1>3a, <4>1, <4>2, <4>3
    <3>3. CASE n \notin DOMAIN got /\ m \notin DOMAIN got
      <4>1. PICK k \in 1 .. Len(s), l \in 1 .. Len(s) : k = m - Len(got) /\ l = n - Len(got)
        BY <1>7, <3>3
      <4>2. got'[m] = s[k] /\ got'[n] = s[l]
        BY <1>7, <3>3, <4>1
      <4>3. k < l
        BY <1>3, <1>6, <4>1
      <4> QED BY <2>3, <4>2, <4>3
    <3> QED BY <3>1, <3>2, <3>3
  <2> QED BY <2>4, <2>5
<1> QED BY <1>3, <1>6, <1>9, <1>10, <1>12, <1>13, <1>14, <1>15, <1>16 DEF FeedInv

LEMMA AnswerStep ==
  ASSUME FeedInv, Respond \/ GetSince
  PROVE  FeedInv' /\ mark' >= mark /\ (Len(got') > Len(got) => mark' > mark)
<1>1. PICK b \in Seq(Nat) : /\ Answer(b) /\ read.pc \in {"respond", "getSince"}
                            /\ read.pc = "respond" => b = <<>>
                            /\ read.pc = "getSince" => b = Backfill
  <2>1. CASE Respond
    <3>1. read.pc = "respond" /\ Answer(<<>>) /\ <<>> \in Seq(Nat)
      BY <2>1 DEF Respond
    <3> QED BY <3>1
  <2>2. CASE GetSince
    <3>1. read.pc = "getSince" /\ Backfill \in Seq(Nat) /\ Answer(Backfill)
      BY <2>2, BackfillIsGap DEF GetSince
    <3> QED BY <3>1
  <2> QED BY <2>1, <2>2
<1>2. PICK s : s = FirstOf(Combined(b), MaxCount)
  OBVIOUS
<1>3. read' = Idle /\ UNCHANGED <<server, from>>
  BY <1>1 DEF Answer
<1>4. CASE got' = got \o s /\ mark' = NewMark(s) /\ UNCHANGED left
  BY <1>1, <1>2, <1>3, <1>4, TakenStep
<1>5. CASE /\ left.fault > 0 /\ left' = [left EXCEPT !.fault = @ - 1]
           /\ UNCHANGED <<got, mark>>
  <2>1. left' \in [fault : 0 .. MaxFaults, loss : 0 .. MaxLosses] /\ left'.fault # MaxFaults
    BY <1>5, FaultsCount
  <2>2. read' \in Reads /\ read'.pc = "idle"
    BY <1>3 DEF Idle, Reads
  <2>3. UNCHANGED <<server, phone>> /\ ReadSound'
    BY <1>3, <1>5, <2>2 DEF phone, ReadSound
  <2>4. FeedInv'
    BY <2>1, <2>2, <2>3, PollKeeps
  <2>5. mark \in Int /\ Len(got) \in Nat
    BY Numbers
  <2> QED BY <1>5, <2>4, <2>5
<1> QED BY <1>1, <1>2, <1>4, <1>5 DEF Answer

LEMMA FeedStep == FeedInv /\ [Next]_vars => FeedInv'
BY StreamStep, ArchiveStep, PhoneStep, PollStep, AnswerStep DEF Next, Poll, BootstrapNothing

LEMMA FeedInvariant == Spec => []FeedInv
BY FeedInitial, FeedStep, PTL DEF Spec

-----------------------------------------------------------------------------
(* Theorems                                                                *)

\* Every variable of StatusFeed has its type.
THEOREM FeedTypeCorrect == Spec => []FeedTypeOK
<1>1. FeedInv => FeedTypeOK
  BY DEF FeedInv
<1> QED BY <1>1, FeedInvariant, PTL

\* getControllerMessagesSince without the archive: the phone gets each
\* retained entry behind its mark exactly once and in order, whatever polls
\* fail and however the stream is trimmed between and within them.
THEOREM EachOnceCorrect == ASSUME Archiving = FALSE PROVE Spec => []EachOnce
<1>1. FeedInv => EachOnce
  <2> SUFFICES ASSUME FeedInv PROVE InOrder /\ NothingSkipped
    BY DEF EachOnce
  <2>1. InOrder
    BY DEF FeedInv, GotInOrder
  <2>2. ASSUME mark # NoMark, NEW i \in Ids, i > trimmed, from < i, i <= mark
        PROVE  i \in Range(got)
    <3>1. archived = 0 /\ i > 0
      BY DEF FeedInv, FeedTypeOK, Ids
    <3>2. PICK m \in DOMAIN got : got[m] = i
      BY <2>2, <3>1 DEF FeedInv, Delivered
    <3> QED BY <3>2 DEF Range
  <2> QED BY <2>1, <2>2 DEF NothingSkipped
<1> QED BY <1>1, FeedInvariant, PTL

\* The reconnect fallback (FR-7) of backfillFromArchive: a message from the
\* run of each change-point that the mark passes.
THEOREM GapCorrect == Spec => []GapIsFilled
<1>1. FeedInv => GapIsFilled
  <2> SUFFICES ASSUME FeedInv, mark # NoMark, left.fault = MaxFaults, NEW j \in DOMAIN points,
                      from < points[j].ts, points[j].ts <= mark, points[j].ts \notin late
               PROVE  \E i \in Range(got) : i \in points[j].ts .. points[j].sid
    BY DEF GapIsFilled
  <2>1. PICK m \in DOMAIN got : points[j].ts <= got[m] /\ got[m] <= points[j].sid
    BY DEF FeedInv, Filled
  <2>2. got[m] \in points[j].ts .. points[j].sid /\ got[m] \in Range(got)
    BY <2>1, Numbers DEF Range
  <2> QED BY <2>2
<1> QED BY <1>1, FeedInvariant, PTL

\* The highWaterMark of an answer with messages lies behind the mark that the
\* phone sent, even when Redis lost its data between the reads of the poll.
THEOREM MarkCorrect == Spec => MarkAdvances
<1>1. ASSUME FeedInv, [Next]_vars, Len(got') > Len(got) PROVE mark' > mark
  <2>1. Len(got) \in Nat
    BY Numbers
  <2>2. ~(got' = got) /\ ~(got' = <<>>)
    BY <1>1, <2>1
  <2>3. Respond \/ GetSince
    BY <1>1, <2>2
       DEF Next, Poll, AddControllerMessage, Archive, ArchiveFails, Archived, Bootstrap,
           BootstrapNothing, PhoneRestart, ReadLive, ReadOldest, BackfillFails, FailRead, LoseData,
           vars, phone
  <2> QED BY <1>1, <2>3, AnswerStep
<1>2. FeedInv /\ [Next]_vars => [Len(got') > Len(got) => mark' > mark]_vars
  BY <1>1
<1> QED BY <1>2, FeedInvariant, PTL DEF Spec, MarkAdvances
=============================================================================
