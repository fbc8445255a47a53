--------------------------- MODULE DashboardProofs ---------------------------
(***************************************************************************)
(* Theorems about what the dashboard shows, for inputs of any size: the    *)
(* filters, the merged history and the pages of Views, the pictures of     *)
(* Charts, and the archive's answers and the joined history of Analytics.  *)
(*                                                                         *)
(* Each of these modules computes an answer in one step, so its invariant  *)
(* (ViewsInv, ChartInv, AnalyticsInv) says what an input is and that an    *)
(* answer is that of its input; the work is in the lemmas about what is    *)
(* computed.  Lists are sets in order (Lists): an element stands where the *)
(* number of elements before it says.  The binary search of the strip is a *)
(* recursive function; that it exists and finds the latest sample is       *)
(* proved by the shortest interval for which it does not (SearchExists,    *)
(* SearchFacts).  The change-points stand for the heartbeats because a     *)
(* reading cannot change without a new run (PointHolds), and the samples   *)
(* of a chart are told apart by their instants (ReadingApart).  Two        *)
(* neighbouring samples of the line are joined once, in the first span     *)
(* that ends after the second (LineTrue); its gradient never goes back and *)
(* has at each temperature the colour of the band (GradientTrue).          *)
(***************************************************************************)
EXTENDS Views, Analytics, FiniteSetTheorems, SequenceTheorems, TLAPS

-----------------------------------------------------------------------------
(* Sets in order *)

\* R is a strict total order of the finite set S.
Orders(R, S) ==
  /\ IsFiniteSet(S)
  /\ \A x \in S : <<x, x>> \notin R
  /\ \A x, y, z \in S : <<x, y>> \in R /\ <<y, z>> \in R => <<x, z>> \in R
  /\ \A x, y \in S : x = y \/ <<x, y>> \in R \/ <<y, x>> \in R

\* The elements of S before x
Below(S, R, x) == {y \in S : <<y, x>> \in R}

\* f is the sequence of the elements of S in the order R.
Lists(f, S, R) ==
  /\ Cardinality(S) \in Nat
  /\ f \in [1 .. Cardinality(S) -> S]
  /\ \A x \in S : \E i \in DOMAIN f : f[i] = x
  /\ \A i, j \in DOMAIN f : i < j <=> <<f[i], f[j]>> \in R

\* The number of elements before x tells the elements apart and is any number
\* from 0 to one less than there are.
LEMMA RankFacts ==
  ASSUME NEW S, NEW R, Orders(R, S)
  PROVE  /\ Cardinality(S) \in Nat
         /\ \A x \in S : Cardinality(Below(S, R, x)) \in 0 .. Cardinality(S) - 1
         /\ \A x, y \in S : <<x, y>> \in R <=> Cardinality(Below(S, R, x)) < Cardinality(Below(S, R, y))
         /\ \A i \in 1 .. Cardinality(S) : \E x \in S : Cardinality(Below(S, R, x)) = i - 1
<1> DEFINE n == Cardinality(S)
           rank(x) == Cardinality(Below(S, R, x))
<1>1. IsFiniteSet(S) /\ n \in Nat
  BY FS_CardinalityType DEF Orders
<1>2. ASSUME NEW x \in S
      PROVE  IsFiniteSet(Below(S, R, x)) /\ rank(x) \in 0 .. n - 1
  <2>1. Below(S, R, x) \in SUBSET (S \ {x}) /\ IsFiniteSet(S \ {x}) /\ Cardinality(S \ {x}) = n - 1
    BY <1>1, FS_RemoveElement DEF Below, Orders
  <2>2. IsFiniteSet(Below(S, R, x)) /\ rank(x) <= n - 1
    BY <2>1, FS_Subset
  <2>3. QED  BY <2>2, <1>1, FS_CardinalityType
<1>3. ASSUME NEW x \in S, NEW y \in S, <<x, y>> \in R
      PROVE  rank(x) < rank(y)
  <2>1. Below(S, R, x) \in SUBSET Below(S, R, y)
    BY <1>3 DEF Below, Orders
  <2>2. x \in Below(S, R, y) /\ x \notin Below(S, R, x)
    BY <1>3 DEF Below, Orders
  <2>3. rank(x) <= rank(y) /\ rank(x) # rank(y)
    BY <1>2, <2>1, <2>2, FS_Subset
  <2>4. QED  BY <2>3, <1>2
<1>4. \A x, y \in S : <<x, y>> \in R <=> rank(x) < rank(y)
  <2> SUFFICES ASSUME NEW x \in S, NEW y \in S, rank(x) < rank(y)
               PROVE  <<x, y>> \in R
    BY <1>3
  <2>1. rank(x) \in Int /\ rank(y) \in Int
    BY <1>2
  <2>2. x # y /\ ~(rank(y) < rank(x))
    BY <2>1
  <2>3. QED  BY <2>2, <1>3 DEF Orders
<1> DEFINE f == [x \in S |-> rank(x)]
           T == 0 .. n - 1
<1>5. f \in Injection(S, T)
  <2>1. f \in [S -> T]
    BY <1>2
  <2>2. ASSUME NEW x \in S, NEW y \in S, f[x] = f[y]
        PROVE  x = y
    <3>1. rank(x) = rank(y) /\ rank(x) \in Int
      BY <2>2, <1>2
    <3>2. <<x, y>> \notin R /\ <<y, x>> \notin R
      BY <3>1, <1>3
    <3>3. QED  BY <3>2 DEF Orders
  <2>3. QED  BY <2>1, <2>2 DEF Injection, IsInjective
<1>6. IsFiniteSet(T) /\ Cardinality(T) = n
  <2>1. \A a, b \in Int : /\ IsFiniteSet(a .. b)
                          /\ Cardinality(a .. b) = IF a > b THEN 0 ELSE b - a + 1
    BY FS_Interval
  <2> DEFINE m == n - 1
  <2>2. 0 \in Int /\ m \in Int
    BY <1>1
  <2> HIDE DEF n
  <2>3. m = n - 1 /\ n \in Nat
    BY <1>1
  <2> HIDE DEF m
  <2>4. IsFiniteSet(0 .. m) /\ Cardinality(0 .. m) = IF 0 > m THEN 0 ELSE m - 0 + 1
    BY <2>1, <2>2
  <2>5. (IF 0 > m THEN 0 ELSE m - 0 + 1) = n
    BY <2>2, <2>3
  <2>6. T = 0 .. m
    BY <2>3
  <2>7. QED  BY <2>4, <2>5, <2>6
<1>7. f \in Surjection(S, T)
  BY <1>5, <1>6, FS_Injection
<1>8. ASSUME NEW i \in 1 .. n
      PROVE  \E x \in S : rank(x) = i - 1
  <2>1. i - 1 \in T
    BY <1>1
  <2>2. \E x \in S : f[x] = i - 1
    BY <1>7, <2>1 DEF Surjection
  <2>3. QED  BY <2>2
<1>9. QED  BY <1>1, <1>2, <1>4, <1>8

\* Whatever puts each element where its rank says lists the set in order.
LEMMA ByRank ==
  ASSUME NEW S, NEW R, Orders(R, S), NEW f, f = [i \in 1 .. Cardinality(S) |-> f[i]],
         \A i \in 1 .. Cardinality(S) :
           (\E x \in S : Cardinality(Below(S, R, x)) = i - 1)
             => f[i] \in S /\ Cardinality(Below(S, R, f[i])) = i - 1
  PROVE  Lists(f, S, R)
<1> DEFINE n == Cardinality(S)
           rank(x) == Cardinality(Below(S, R, x))
<1>1. /\ n \in Nat
      /\ \A x \in S : rank(x) \in 0 .. n - 1
      /\ \A x, y \in S : <<x, y>> \in R <=> rank(x) < rank(y)
      /\ \A i \in 1 .. n : \E x \in S : rank(x) = i - 1
  BY RankFacts
<1>2. \A i \in 1 .. n : f[i] \in S /\ rank(f[i]) = i - 1
  BY <1>1
<1>3. f \in [1 .. n -> S]
  BY <1>2
<1>4. ASSUME NEW x \in S
      PROVE  \E i \in DOMAIN f : f[i] = x
  <2>1. rank(x) + 1 \in 1 .. n
    BY <1>1
  <2>2. PICK i \in 1 .. n : i = rank(x) + 1
    BY <2>1
  <2>3. f[i] \in S /\ rank(f[i]) = rank(x) /\ rank(x) \in Int
    BY <1>1, <1>2, <2>2
  <2>4. <<f[i], x>> \notin R /\ <<x, f[i]>> \notin R
    BY <2>3, <1>1
  <2>5. f[i] = x
    BY <2>3, <2>4 DEF Orders
  <2>6. QED  BY <2>5, <1>3
<1>5. ASSUME NEW i \in DOMAIN f, NEW j \in DOMAIN f
      PROVE  i < j <=> <<f[i], f[j]>> \in R
  <2>1. i \in 1 .. n /\ j \in 1 .. n
    BY <1>3
  <2>2. f[i] \in S /\ f[j] \in S /\ rank(f[i]) = i - 1 /\ rank(f[j]) = j - 1
    BY <1>2, <2>1
  <2>3. <<f[i], f[j]>> \in R <=> rank(f[i]) < rank(f[j])
    BY <2>2, <1>1
  <2>4. QED  BY <2>1, <2>2, <2>3
<1>6. QED  BY <1>1, <1>3, <1>4, <1>5 DEF Lists

\* An order on indices or instants
Lesser(S) == {e \in S \X S : e[1] < e[2]}

LEMMA AscendingLists ==
  ASSUME NEW S, IsFiniteSet(S), S \subseteq Int
  PROVE  /\ Cardinality(S) \in Nat
         /\ Ascending(S) \in [1 .. Cardinality(S) -> S]
         /\ \A x \in S : \E i \in DOMAIN Ascending(S) : Ascending(S)[i] = x
         /\ \A i, j \in DOMAIN Ascending(S) : i < j <=> Ascending(S)[i] < Ascending(S)[j]
<1> DEFINE R == Lesser(S)
           f == Ascending(S)
<1>1. Orders(R, S)
  BY DEF Orders, Lesser
<1>2. \A x \in S : Below(S, R, x) = {y \in S : y < x}
  BY DEF Below, Lesser
<1>3. f = [i \in 1 .. Cardinality(S) |-> CHOOSE x \in S : Cardinality({y \in S : y < x}) = i - 1]
  BY DEF Ascending, InOrder
<1>4. ASSUME NEW i \in 1 .. Cardinality(S), \E x \in S : Cardinality(Below(S, R, x)) = i - 1
      PROVE  f[i] \in S /\ Cardinality(Below(S, R, f[i])) = i - 1
  <2>1. \E x \in S : Cardinality({y \in S : y < x}) = i - 1
    BY <1>2, <1>4
  <2>2. f[i] = CHOOSE x \in S : Cardinality({y \in S : y < x}) = i - 1
    BY <1>3
  <2>3. f[i] \in S /\ Cardinality({y \in S : y < f[i]}) = i - 1
    BY <2>1, <2>2
  <2>4. QED  BY <2>3, <1>2
<1>5. f = [i \in 1 .. Cardinality(S) |-> f[i]]
  BY <1>3
<1>6. Lists(f, S, R)
  <2> HIDE DEF f, R
  <2> QED  BY <1>1, <1>4, <1>5, ByRank
<1>7. \A i, j \in DOMAIN f : <<f[i], f[j]>> \in R <=> f[i] < f[j]
  BY <1>6 DEF Lists, Lesser
<1>8. QED  BY <1>6, <1>7 DEF Lists

-----------------------------------------------------------------------------
(* Filters *)

\* The parts of texts and of what the search bar writes
Parts == Words \cup Ops \cup {"70", "80"}

\* A value that was read and written out reads as it did, and it does not
\* become an operator.
LEMMA LiteralTwice ==
  ASSUME NEW parts \in Seq(Parts)
  PROVE  LET written == Literal(parts).parts
         IN  /\ written \in Seq(Parts) /\ Len(written) = Len(parts)
             /\ Literal(written) = Literal(parts)
             /\ written = parts \/ (Len(written) = 1 /\ written[1] \in {"70", "80"})
<1>1. CASE Len(parts) = 1 /\ parts[1] \in DOMAIN Numeral
  <2>1. parts[1] \in {"70", "070", "80"}
    BY <1>1 DEF Numeral
  <2>2. PICK s \in {"70", "80"} : Literal(parts) = Typed("number", <<s>>)
                                  /\ Written[Numeral[s]] = s /\ Written[Numeral[parts[1]]] = s
    BY <1>1, <2>1 DEF Literal, Numeral, Written
  <2>3. Literal(<<s>>) = Typed("number", <<s>>)
    BY <2>2 DEF Literal, Numeral
  <2>4. Literal(parts).parts = <<s>> /\ <<s>> \in Seq(Parts) /\ Len(<<s>>) = 1 /\ <<s>>[1] = s
    BY <2>2 DEF Typed, Parts
  <2>5. QED  BY <1>1, <2>2, <2>3, <2>4
<1>2. CASE ~(Len(parts) = 1 /\ parts[1] \in DOMAIN Numeral)
  BY <1>2 DEF Literal, Typed
<1>3. QED  BY <1>1, <1>2

\* What is written out splits into the operator and the value again.
LEMMA SplitAgain ==
  ASSUME NEW op \in Ops, NEW text \in Seq(Parts), text # <<>>
  PROVE  /\ Split(<<op>> \o text) = [op |-> op, text |-> text]
         /\ text[1] \notin Ops => Split(text) = [op |-> "eq", text |-> text]
<1> DEFINE rhs == <<op>> \o text
<1>1. /\ rhs \in Seq(Parts) /\ Len(rhs) = Len(text) + 1 /\ rhs[1] = op
      /\ \A i \in 1 .. Len(text) : rhs[i + 1] = text[i]
  <2>1. op \in Parts
    BY DEF Parts
  <2>2. <<op>> \in Seq(Parts) /\ Len(<<op>>) = 1 /\ <<op>>[1] = op
    BY <2>1
  <2>3. QED  BY <2>2, ConcatProperties, LenProperties
<1>2. Len(text) >= 1
  OBVIOUS
<1>3. rhs # <<"exists">> /\ Len(rhs) > 1
  BY <1>1, <1>2
<1>4. Tail(rhs) = text
  BY <1>1, <1>2
<1>5. text[1] \notin Ops => text # <<"exists">>
  BY DEF Ops
<1>6. QED  BY <1>1, <1>3, <1>4, <1>5 DEF Split

\* The server reads from the query what the search bar read from the text.
LEMMA QueryKeepsFilter ==
  ASSUME NEW rhs \in Seq(Parts), rhs # <<>>,
         ~(rhs[1] = "exists" /\ Len(rhs) > 1),
         ~(rhs[1] = "eq" /\ Len(rhs) > 1 /\ rhs[2] \in Ops)
  PROVE  ParamFilter(FilterQuery(TypedFilter(rhs))) = ParamFilter(rhs)
<1> DEFINE f == TypedFilter(rhs)
           sent == FilterQuery(f)
<1>1. CASE rhs = <<"exists">>
  <2>1. sent = <<"exists">>
    BY <1>1 DEF TypedFilter, Split, FilterQuery
  <2>2. QED  BY <1>1, <2>1
<1>2. CASE rhs # <<"exists">> /\ Len(rhs) > 1 /\ rhs[1] \in Ops
  <2> DEFINE op == rhs[1]  text == Tail(rhs)
  <2>1. text \in Seq(Parts) /\ text # <<>> /\ text[1] = rhs[2]
    <3>1. text \in Seq(Parts) /\ Len(text) = Len(rhs) - 1 /\ \A i \in 1 .. Len(text) : text[i] = rhs[i + 1]
      BY <1>2, HeadTailProperties
    <3>2. Len(text) >= 1
      BY <1>2, <3>1
    <3> HIDE DEF text
    <3>3. text[1] = rhs[1 + 1] /\ 1 + 1 = 2
      BY <3>1, <3>2
    <3>4. QED  BY <3>1, <3>2, <3>3
  <2>2. Split(rhs) = [op |-> op, text |-> text] /\ op \in Ops /\ op # "exists"
    BY <1>2 DEF Split
  <2>3. rhs = <<op>> \o text
    BY <1>2
  <2>4. CASE op = "contains"
    <3>1. f = [op |-> "contains", value |-> Typed("string", text)]
      BY <2>2, <2>4 DEF TypedFilter
    <3>2. f.op = "contains" /\ f.value.parts = text
      BY <3>1 DEF Typed
    <3>3. sent = rhs
      <4> HIDE DEF f
      <4> QED  BY <2>3, <2>4, <3>2 DEF FilterQuery
    <3>4. QED  BY <3>3
  <2>5. CASE op # "contains"
    <3> DEFINE written == Literal(text).parts
    <3>1. f = [op |-> op, value |-> Literal(text)]
      BY <2>2, <2>5 DEF TypedFilter
    <3>2. /\ written \in Seq(Parts) /\ Len(written) = Len(text)
          /\ Literal(written) = Literal(text)
          /\ written = text \/ (Len(written) = 1 /\ written[1] \in {"70", "80"})
      BY <2>1, LiteralTwice
    <3>3. written # <<>>
      BY <2>1, <3>2
    <3>4. Split(sent) = [op |-> op, text |-> written]
      <4>1. CASE op = "eq"
        <5>1. sent = written
          BY <3>1, <4>1 DEF FilterQuery
        <5>2. written[1] \notin Ops
          BY <1>2, <2>1, <3>2, <4>1 DEF Ops
        <5>3. QED  BY <2>2, <3>2, <3>3, <4>1, <5>1, <5>2, SplitAgain
      <4>2. CASE op # "eq"
        <5>1. sent = <<op>> \o written
          BY <2>2, <3>1, <4>2 DEF FilterQuery
        <5>2. QED  BY <2>2, <3>2, <3>3, <5>1, SplitAgain
      <4>3. QED  BY <4>1, <4>2
    <3>5. ParamFilter(sent) = [op |-> op, value |-> Literal(written)]
      BY <2>2, <2>5, <3>4 DEF ParamFilter
    <3>6. ParamFilter(rhs) = [op |-> op, value |-> Literal(text)]
      BY <2>2, <2>5 DEF ParamFilter
    <3>7. QED  BY <3>2, <3>5, <3>6
  <2>6. QED  BY <2>4, <2>5
<1>3. CASE rhs # <<"exists">> /\ ~(Len(rhs) > 1 /\ rhs[1] \in Ops)
  <2> DEFINE written == Literal(rhs).parts
  <2>1. Split(rhs) = [op |-> "eq", text |-> rhs]
    BY <1>3 DEF Split
  <2>2. f = [op |-> "eq", value |-> Literal(rhs)]
    BY <2>1 DEF TypedFilter
  <2>3. sent = written
    BY <2>2 DEF FilterQuery
  <2>4. /\ Literal(written) = Literal(rhs) /\ Len(written) = Len(rhs)
        /\ written = rhs \/ (Len(written) = 1 /\ written[1] \in {"70", "80"})
    BY LiteralTwice
  <2>5. Split(written) = [op |-> "eq", text |-> written]
    BY <2>1, <2>4 DEF Split
  <2>6. ParamFilter(sent) = [op |-> "eq", value |-> Literal(written)]
    BY <2>3, <2>5 DEF ParamFilter
  <2>7. ParamFilter(rhs) = [op |-> "eq", value |-> Literal(rhs)]
    BY <2>1 DEF ParamFilter
  <2>8. QED  BY <2>4, <2>6, <2>7
<1>4. QED  BY <1>1, <1>2, <1>3

LEMMA TextFacts ==
  ASSUME NEW rhs \in Texts
  PROVE  rhs \in Seq(Parts) /\ rhs # <<>>
<1>1. PICK n \in 1 .. MaxParts : rhs \in [1 .. n -> Words]
  BY DEF Texts
<1>2. rhs \in [1 .. n -> Parts] /\ n \in Nat \ {0}
  BY <1>1, ViewsAssumption DEF Parts
<1>3. rhs \in Seq(Parts) /\ Len(rhs) = n
  BY <1>2
<1>4. QED  BY <1>1, <1>3

-----------------------------------------------------------------------------
(* Merging two streams *)

LEMMA InjectionBound ==
  ASSUME NEW n \in Nat, NEW T, IsFiniteSet(T), NEW f \in [1 .. n -> T],
         \A i, j \in 1 .. n : f[i] = f[j] => i = j
  PROVE  n <= Cardinality(T)
<1>1. f \in Injection(1 .. n, T)
  BY DEF Injection, IsInjective
<1>2. Cardinality(1 .. n) = n
  BY FS_Interval
<1>3. QED  BY <1>1, <1>2, FS_Injection

LEMMA ElementsFinite ==
  ASSUME NEW n \in Nat, NEW f, DOMAIN f = 1 .. n
  PROVE  IsFiniteSet({f[i] : i \in 1 .. n}) /\ Cardinality({f[i] : i \in 1 .. n}) <= n
<1> DEFINE T == {f[i] : i \in 1 .. n}
           g == [i \in 1 .. n |-> f[i]]
<1>1. g \in Surjection(1 .. n, T)
  BY DEF Surjection
<1>2. IsFiniteSet(1 .. n) /\ Cardinality(1 .. n) = n
  BY FS_Interval
<1>3. QED  BY <1>1, <1>2, FS_Surjection

Directions == {"fw2mobile", "mobile2fw"}
Message == [dir : Directions, seq : Nat, ms : Nat, match : BOOLEAN]

\* s is a stream of messages, oldest first.
IsStream(s, dir) ==
  /\ s \in Seq(Message)
  /\ \A i \in 1 .. Len(s) : s[i].dir = dir /\ s[i].seq = i
  /\ \A i, j \in 1 .. Len(s) : i < j => s[i].ms <= s[j].ms

\* a is taken before b from two streams that are merged, newest first.
Comes(all, i, j) == all[i].ms > all[j].ms \/ (all[i].ms = all[j].ms /\ i < j)

LEMMA NewestFacts ==
  ASSUME NEW s \in Seq(Message), NEW count \in Nat
  PROVE  LET F == NewestOf(s, count)
         IN  /\ F \in Seq(Message)
             /\ Len(F) = IF count < Len(s) THEN count ELSE Len(s)
             /\ \A i \in 1 .. Len(F) : F[i] = s[Len(s) - i + 1] /\ Len(s) - i + 1 \in 1 .. Len(s)
<1> DEFINE r == [i \in 1 .. Len(s) |-> s[Len(s) - i + 1]]
           m == IF count < Len(s) THEN count ELSE Len(s)
           F == SubSeq(r, 1, m)
<1>1. Len(s) \in Nat /\ m \in Nat /\ m <= Len(s)
  BY LenProperties
<1>2. \A i \in 1 .. Len(s) : Len(s) - i + 1 \in 1 .. Len(s)
  BY <1>1
<1>3. r \in [1 .. Len(s) -> Message]
  BY <1>2, ElementOfSeq
<1>4. r \in Seq(Message) /\ Len(r) = Len(s)
  BY <1>1, <1>3
<1>5. F \in Seq(Message) /\ Len(F) = m /\ \A i \in 1 .. m : F[i] = r[1 + i - 1]
  <2> HIDE DEF r, m
  <2> QED  BY <1>1, <1>4, SubSeqProperties
<1>6. \A i \in 1 .. m : i \in 1 .. Len(s) /\ 1 + i - 1 = i
  BY <1>1
<1>7. \A i \in 1 .. m : F[i] = s[Len(s) - i + 1]
  <2> HIDE DEF F, m
  <2> QED  BY <1>5, <1>6
<1>8. NewestOf(s, count) = F
  BY DEF NewestOf, Reverse
<1>9. QED
  <2> HIDE DEF F, r
  <2> QED  BY <1>1, <1>2, <1>5, <1>6, <1>7, <1>8

LEMMA MergedFacts ==
  ASSUME NEW first \in Seq(Message), NEW second \in Seq(Message)
  PROVE  LET all == first \o second
             D == 1 .. Len(all)
         IN  \E at \in [D -> D] :
               /\ Merged(first, second) = [k \in D |-> all[at[k]]]
               /\ \A x \in D : \E k \in D : at[k] = x
               /\ \A i, j \in D : i < j <=> Comes(all, at[i], at[j])
<1> DEFINE all == first \o second
           D == 1 .. Len(all)
           R == {e \in D \X D : Comes(all, e[1], e[2])}
           at == InOrder(D, LAMBDA i, j : all[i].ms > all[j].ms \/ (all[i].ms = all[j].ms /\ i < j))
<1>1. all \in Seq(Message) /\ Len(all) \in Nat /\ DOMAIN all = D
  BY ConcatProperties, LenProperties
<1>2. \A i \in D : all[i].ms \in Nat
  <2>1. \A i \in D : all[i] \in Message
    BY <1>1, ElementOfSeq
  <2>2. QED  BY <2>1 DEF Message
<1> HIDE DEF all
<1>3. IsFiniteSet(D) /\ Cardinality(D) = Len(all)
  <2>1. \A n \in Nat : IsFiniteSet(1 .. n) /\ Cardinality(1 .. n) = n
    BY FS_Interval
  <2>2. QED  BY <1>1, <2>1
<1>4. Orders(R, D)
  <2>1. IsFiniteSet(D)
    BY <1>3
  <2>2. \A x \in D : <<x, x>> \notin R
    BY <1>1, <1>2 DEF Comes
  <2>3. ASSUME NEW x \in D, NEW y \in D, NEW z \in D, <<x, y>> \in R, <<y, z>> \in R
        PROVE  <<x, z>> \in R
    <3>1. Comes(all, x, y) /\ Comes(all, y, z)
      BY <2>3
    <3>2. all[x].ms \in Nat /\ all[y].ms \in Nat /\ all[z].ms \in Nat /\ x \in Nat /\ y \in Nat /\ z \in Nat
      BY <1>1, <1>2
    <3>3. Comes(all, x, z)
      BY <3>1, <3>2 DEF Comes
    <3>4. QED  BY <3>3
  <2>4. ASSUME NEW x \in D, NEW y \in D
        PROVE  x = y \/ <<x, y>> \in R \/ <<y, x>> \in R
    <3>1. all[x].ms \in Nat /\ all[y].ms \in Nat /\ x \in Nat /\ y \in Nat
      BY <1>1, <1>2
    <3>2. x = y \/ Comes(all, x, y) \/ Comes(all, y, x)
      BY <3>1 DEF Comes
    <3>3. QED  BY <3>2
  <2>5. QED  BY <2>1, <2>2, <2>3, <2>4 DEF Orders
<1>5. \A x \in D : Below(D, R, x) = {y \in D : all[y].ms > all[x].ms \/ (all[y].ms = all[x].ms /\ y < x)}
  BY DEF Below, Comes
<1>6. at = [i \in D |-> CHOOSE x \in D :
              Cardinality({y \in D : all[y].ms > all[x].ms \/ (all[y].ms = all[x].ms /\ y < x)}) = i - 1]
  BY <1>3 DEF InOrder
<1>7. ASSUME NEW i \in D, \E x \in D : Cardinality(Below(D, R, x)) = i - 1
      PROVE  at[i] \in D /\ Cardinality(Below(D, R, at[i])) = i - 1
  <2>1. \E x \in D : Cardinality({y \in D : all[y].ms > all[x].ms \/ (all[y].ms = all[x].ms /\ y < x)}) = i - 1
    BY <1>5, <1>7
  <2>2. at[i] = CHOOSE x \in D :
                  Cardinality({y \in D : all[y].ms > all[x].ms \/ (all[y].ms = all[x].ms /\ y < x)}) = i - 1
    BY <1>6
  <2>3. /\ at[i] \in D
        /\ Cardinality({y \in D : all[y].ms > all[at[i]].ms \/ (all[y].ms = all[at[i]].ms /\ y < at[i])}) = i - 1
    <3> HIDE DEF at, D
    <3> QED  BY <2>1, <2>2
  <2>4. QED  BY <2>3, <1>5
<1>8. at = [i \in D |-> at[i]]
  BY <1>6
<1>9. Lists(at, D, R)
  <2>1. D = 1 .. Cardinality(D)
    BY <1>3
  <2> HIDE DEF at, R, D
  <2> QED  BY <2>1, <1>4, <1>7, <1>8, ByRank
<1>10. at \in [D -> D] /\ \A x \in D : \E k \in D : at[k] = x
  <2> HIDE DEF at, R
  <2> QED  BY <1>9, <1>3 DEF Lists
<1>11. \A i, j \in D : i < j <=> Comes(all, at[i], at[j])
  <2>1. \A i, j \in D : i < j <=> <<at[i], at[j]>> \in R
    <3> HIDE DEF at, R
    <3> QED  BY <1>9, <1>3, <1>10 DEF Lists
  <2> HIDE DEF at
  <2>2. QED  BY <2>1, <1>10
<1>12. Merged(first, second) = [k \in D |-> all[at[k]]]
  BY <1>1 DEF Merged, all
<1>13. QED
  <2> HIDE DEF at
  <2> QED  BY <1>10, <1>11, <1>12 DEF all

\* Older(a, b) of the property
Older(a, b) == a.ms < b.ms \/ (a.dir = b.dir /\ a.seq < b.seq)

\* The newest messages of one stream, newest first: a message that was cut off
\* is older than all of them, and there are as many as were asked for.
LEMMA StreamCut ==
  ASSUME NEW dir, NEW s, IsStream(s, dir), NEW count \in Nat
  PROVE  LET F == NewestOf(s, count)
         IN  /\ F \in Seq(Message)
             /\ \A i \in 1 .. Len(F) : F[i] \in ToSet(s) /\ F[i].dir = dir
             /\ \A i, j \in 1 .. Len(F) : i < j => F[i].seq > F[j].seq /\ F[i].ms >= F[j].ms
             /\ \A b \in ToSet(s) :
                  \/ \E i \in 1 .. Len(F) : F[i] = b
                  \/ /\ Len(F) = count
                     /\ \A i \in 1 .. Len(F) : F[i].seq > b.seq /\ F[i].ms >= b.ms
<1> DEFINE F == NewestOf(s, count)
           n == Len(s)
<1>1. s \in Seq(Message) /\ n \in Nat /\ DOMAIN s = 1 .. n
  BY LenProperties DEF IsStream
<1>2. /\ F \in Seq(Message)
      /\ Len(F) = IF count < n THEN count ELSE n
      /\ \A i \in 1 .. Len(F) : F[i] = s[n - i + 1] /\ n - i + 1 \in 1 .. n
  BY <1>1, NewestFacts
<1> HIDE DEF F
<1>3. Len(F) \in Nat
  BY <1>1, <1>2
<1>4. \A i \in 1 .. n : s[i] \in Message /\ s[i].ms \in Nat
  <2>1. \A i \in 1 .. n : s[i] \in Message
    BY <1>1, ElementOfSeq
  <2>2. QED  BY <2>1 DEF Message
<1>5. ASSUME NEW i \in 1 .. Len(F)
      PROVE  F[i] \in ToSet(s) /\ F[i].dir = dir /\ F[i].seq = n - i + 1
  <2>1. PICK k \in 1 .. n : k = n - i + 1 /\ F[i] = s[k]
    BY <1>2
  <2>2. s[k].dir = dir /\ s[k].seq = k
    BY DEF IsStream
  <2>3. s[k] \in ToSet(s)
    BY <1>1 DEF ToSet
  <2>4. QED  BY <2>1, <2>2, <2>3
<1>6. ASSUME NEW i \in 1 .. Len(F), NEW k \in 1 .. n, k < n - i + 1
      PROVE  F[i].seq > s[k].seq /\ F[i].ms >= s[k].ms
  <2>1. F[i] = s[n - i + 1] /\ n - i + 1 \in 1 .. n
    BY <1>2
  <2>2. PICK l \in 1 .. n : l = n - i + 1
    BY <2>1
  <2>3. s[l].seq = l /\ s[k].seq = k /\ s[k].ms <= s[l].ms
    BY <1>6, <2>2 DEF IsStream
  <2>4. QED  BY <1>1, <1>4, <1>6, <2>1, <2>2, <2>3
<1>7. ASSUME NEW i \in 1 .. Len(F), NEW j \in 1 .. Len(F), i < j
      PROVE  F[i].seq > F[j].seq /\ F[i].ms >= F[j].ms
  <2>1. F[j] = s[n - j + 1] /\ n - j + 1 \in 1 .. n
    BY <1>2
  <2>2. PICK k \in 1 .. n : k = n - j + 1
    BY <2>1
  <2>3. k < n - i + 1
    BY <1>1, <1>3, <1>7, <2>2
  <2>4. QED  BY <1>6, <2>1, <2>2, <2>3
<1>8. ASSUME NEW b \in ToSet(s), ~\E i \in 1 .. Len(F) : F[i] = b
      PROVE  Len(F) = count /\ \A i \in 1 .. Len(F) : F[i].seq > b.seq /\ F[i].ms >= b.ms
  <2>1. PICK k \in 1 .. n : s[k] = b
    BY <1>1 DEF ToSet
  <2>2. ~(n - k + 1 \in 1 .. Len(F))
    <3>1. ASSUME NEW i \in 1 .. Len(F), i = n - k + 1
          PROVE  FALSE
      <4>1. n - i + 1 = k
        BY <1>1, <3>1
      <4>2. F[i] = b
        BY <1>2, <2>1, <4>1
      <4>3. QED  BY <1>8, <4>2
    <3>2. QED  BY <3>1
  <2>3. n - k + 1 > Len(F)
    BY <1>1, <1>3, <2>2
  <2>4. Len(F) = count
    <3>1. n > Len(F)
      BY <1>1, <1>3, <2>3
    <3>2. count < n => Len(F) = count
      BY <1>2
    <3>3. ~(count < n) => Len(F) = n
      BY <1>2
    <3>4. QED  BY <1>1, <1>3, <3>1, <3>2, <3>3
  <2>5. \A i \in 1 .. Len(F) : k < n - i + 1
    BY <1>1, <1>3, <2>3
  <2>6. QED  BY <1>6, <2>1, <2>4, <2>5
<1>9. QED  BY <1>2, <1>5, <1>7, <1>8 DEF F

\* b is older than every message of its direction in s, and there are as many
\* of these as were asked for.
CutOff(s, b, count) ==
  /\ \A i \in 1 .. Len(s) : s[i].dir = b.dir => s[i].seq > b.seq /\ s[i].ms >= b.ms
  /\ \E g \in [1 .. count -> 1 .. Len(s)] :
       /\ \A k, l \in 1 .. count : g[k] = g[l] => k = l
       /\ \A k \in 1 .. count : s[g[k]].dir = b.dir

\* The two streams, one after the other: where a message comes before another
\* of its own direction, it is the newer one.
LEMMA JoinedFacts ==
  ASSUME NEW up, NEW down, IsStream(up, "fw2mobile"), IsStream(down, "mobile2fw"), NEW count \in Nat
  PROVE  LET all == NewestOf(up, count) \o NewestOf(down, count)
             U == ToSet(up) \cup ToSet(down)
         IN  /\ all \in Seq(Message)
             /\ \A i \in 1 .. Len(all) : all[i] \in U
             /\ \A i, j \in 1 .. Len(all) : i < j /\ all[i].dir = all[j].dir =>
                  all[i].seq > all[j].seq /\ all[i].ms >= all[j].ms
             /\ \A b \in U : (\E i \in 1 .. Len(all) : all[i] = b) \/ CutOff(all, b, count)
<1> DEFINE F == NewestOf(up, count)
           G == NewestOf(down, count)
           all == F \o G
           U == ToSet(up) \cup ToSet(down)
           f == Len(F)
           m == Len(G)
           n == Len(all)
           Cut(S, b) == /\ Len(S) = count
                        /\ \A i \in 1 .. Len(S) : S[i].seq > b.seq /\ S[i].ms >= b.ms
<1>1. /\ F \in Seq(Message)
      /\ \A i \in 1 .. f : F[i] \in ToSet(up) /\ F[i].dir = "fw2mobile"
      /\ \A i, j \in 1 .. f : i < j => F[i].seq > F[j].seq /\ F[i].ms >= F[j].ms
      /\ \A b \in ToSet(up) : (\E i \in 1 .. f : F[i] = b) \/ Cut(F, b)
  BY StreamCut
<1>2. /\ G \in Seq(Message)
      /\ \A i \in 1 .. m : G[i] \in ToSet(down) /\ G[i].dir = "mobile2fw"
      /\ \A i, j \in 1 .. m : i < j => G[i].seq > G[j].seq /\ G[i].ms >= G[j].ms
      /\ \A b \in ToSet(down) : (\E i \in 1 .. m : G[i] = b) \/ Cut(G, b)
  BY StreamCut
<1>3. /\ \A b \in ToSet(up) : b.dir = "fw2mobile"
      /\ \A b \in ToSet(down) : b.dir = "mobile2fw"
  BY DEF ToSet, IsStream
<1> HIDE DEF F, G
<1>4. /\ all \in Seq(Message) /\ n = f + m /\ f \in Nat /\ m \in Nat
      /\ \A i \in 1 .. f : all[i] = F[i]
      /\ \A i \in 1 .. m : all[f + i] = G[i]
  <2>1. f \in Nat /\ m \in Nat
    BY <1>1, <1>2, LenProperties
  <2>2. n = f + m
    BY <1>1, <1>2, ConcatProperties
  <2>3. \A i \in 1 .. f : all[i] = F[i]
    BY <1>1, <1>2, <2>1
  <2>4. ASSUME NEW i \in 1 .. m
        PROVE  all[f + i] = G[i]
    <3>1. f + i \in 1 .. f + m /\ ~(f + i <= f) /\ f + i - f = i
      BY <2>1
    <3>2. QED  BY <1>1, <1>2, <3>1
  <2>5. QED  BY <1>1, <1>2, <2>1, <2>2, <2>3, <2>4, ConcatProperties
<1> HIDE DEF all
<1>5. ASSUME NEW i \in 1 .. n
      PROVE  \/ i \in 1 .. f /\ all[i] = F[i] /\ all[i].dir = "fw2mobile" /\ all[i] \in ToSet(up)
             \/ \E k \in 1 .. m : i = f + k /\ all[i] = G[k] /\ all[i].dir = "mobile2fw" /\ all[i] \in ToSet(down)
  <2>1. CASE i <= f
    <3>1. i \in 1 .. f
      BY <1>4, <2>1
    <3>2. QED  BY <1>1, <1>4, <3>1
  <2>2. CASE ~(i <= f)
    <3>1. i - f \in 1 .. m /\ f + (i - f) = i
      BY <1>4, <2>2
    <3>2. PICK k \in 1 .. m : f + k = i
      BY <3>1
    <3>3. QED  BY <1>2, <1>4, <3>2
  <2>3. QED  BY <2>1, <2>2
<1>6. \A i \in 1 .. n : all[i] \in U
  BY <1>5
<1>7. ASSUME NEW i \in 1 .. n, NEW j \in 1 .. n, i < j, all[i].dir = all[j].dir
      PROVE  all[i].seq > all[j].seq /\ all[i].ms >= all[j].ms
  <2>1. CASE all[i].dir = "fw2mobile"
    <3>1. i \in 1 .. f /\ j \in 1 .. f /\ all[i] = F[i] /\ all[j] = F[j]
      BY <1>5, <1>7, <2>1
    <3>2. QED  BY <1>1, <1>7, <3>1
  <2>2. CASE all[i].dir = "mobile2fw"
    <3>1. PICK k \in 1 .. m : i = f + k /\ all[i] = G[k]
      BY <1>5, <2>2
    <3>2. PICK l \in 1 .. m : j = f + l /\ all[j] = G[l]
      BY <1>5, <1>7, <2>2
    <3>3. k < l
      BY <1>4, <1>7, <3>1, <3>2
    <3>4. QED  BY <1>2, <3>1, <3>2, <3>3
  <2>3. QED  BY <1>5, <2>1, <2>2
<1>8. ASSUME NEW b \in U, ~\E i \in 1 .. n : all[i] = b
      PROVE  /\ \A i \in 1 .. n : all[i].dir = b.dir => all[i].seq > b.seq /\ all[i].ms >= b.ms
             /\ \E g \in [1 .. count -> 1 .. n] :
                  /\ \A k, l \in 1 .. count : g[k] = g[l] => k = l
                  /\ \A k \in 1 .. count : all[g[k]].dir = b.dir
  <2>1. CASE b \in ToSet(up)
    <3> DEFINE g == [k \in 1 .. count |-> k]
    <3>1. Cut(F, b)
      <4>1. \A i \in 1 .. f : i \in 1 .. n
        BY <1>4
      <4>2. ~\E i \in 1 .. f : F[i] = b
        BY <1>4, <1>8, <4>1
      <4> HIDE DEF Cut
      <4>3. QED  BY <1>1, <2>1, <4>2
    <3>2. count = f /\ b.dir = "fw2mobile"
      BY <1>3, <2>1, <3>1
    <3>3. \A i \in 1 .. n : all[i].dir = b.dir => all[i].seq > b.seq /\ all[i].ms >= b.ms
      BY <1>5, <3>1, <3>2
    <3>4. \A k \in 1 .. count : k \in 1 .. n /\ all[k].dir = b.dir
      BY <1>1, <1>4, <3>2
    <3>5. g \in [1 .. count -> 1 .. n] /\ \A k, l \in 1 .. count : g[k] = g[l] => k = l
      BY <3>4
    <3>6. \A k \in 1 .. count : all[g[k]].dir = b.dir
      BY <3>4
    <3> HIDE DEF g
    <3>7. QED  BY <3>3, <3>5, <3>6
  <2>2. CASE b \in ToSet(down)
    <3> DEFINE g == [k \in 1 .. count |-> f + k]
    <3>1. Cut(G, b)
      <4>1. \A i \in 1 .. m : f + i \in 1 .. n
        BY <1>4
      <4>2. ~\E i \in 1 .. m : G[i] = b
        BY <1>4, <1>8, <4>1
      <4> HIDE DEF Cut
      <4>3. QED  BY <1>2, <2>2, <4>2
    <3>2. count = m /\ b.dir = "mobile2fw"
      BY <1>3, <2>2, <3>1
    <3>3. \A i \in 1 .. n : all[i].dir = b.dir => all[i].seq > b.seq /\ all[i].ms >= b.ms
      BY <1>5, <3>1, <3>2
    <3>4. \A k \in 1 .. count : f + k \in 1 .. n /\ all[f + k].dir = b.dir
      <4>1. \A k \in 1 .. m : f + k \in 1 .. n
        BY <1>4
      <4>2. QED  BY <1>2, <1>4, <3>2, <4>1
    <3>5. g \in [1 .. count -> 1 .. n] /\ \A k, l \in 1 .. count : g[k] = g[l] => k = l
      BY <3>4, <1>4
    <3>6. \A k \in 1 .. count : all[g[k]].dir = b.dir
      BY <3>4
    <3> HIDE DEF g
    <3>7. QED  BY <3>3, <3>5, <3>6
  <2>3. QED  BY <2>1, <2>2
<1>9. \A b \in U : (\E i \in 1 .. n : all[i] = b) \/ CutOff(all, b, count)
  BY <1>8 DEF CutOff
<1>10. QED  BY <1>4, <1>6, <1>7, <1>9 DEF all, F, G

\* The merged list: every message once, none before an older one, and what is
\* not in it is older than what is in it of its stream.
LEMMA MergedStreams ==
  ASSUME NEW up, NEW down, IsStream(up, "fw2mobile"), IsStream(down, "mobile2fw"), NEW count \in Nat
  PROVE  LET m == Merged(NewestOf(up, count), NewestOf(down, count))
             U == ToSet(up) \cup ToSet(down)
         IN  /\ m \in Seq(Message)
             /\ \A i \in 1 .. Len(m) : m[i] \in U
             /\ \A i, j \in 1 .. Len(m) : m[i] = m[j] => i = j
             /\ \A i, j \in 1 .. Len(m) : i < j => m[i].ms >= m[j].ms /\ ~Older(m[i], m[j])
             /\ \A b \in U : (\E i \in 1 .. Len(m) : m[i] = b) \/ CutOff(m, b, count)
<1> DEFINE F == NewestOf(up, count)
           G == NewestOf(down, count)
           all == F \o G
           U == ToSet(up) \cup ToSet(down)
           m == Merged(F, G)
           D == 1 .. Len(all)
<1>1. /\ all \in Seq(Message)
      /\ \A i \in D : all[i] \in U
      /\ \A i, j \in D : i < j /\ all[i].dir = all[j].dir => all[i].seq > all[j].seq /\ all[i].ms >= all[j].ms
      /\ \A b \in U : (\E i \in D : all[i] = b) \/ CutOff(all, b, count)
  BY JoinedFacts
<1>2. F \in Seq(Message) /\ G \in Seq(Message)
  BY StreamCut
<1>3. PICK at \in [D -> D] :
        /\ m = [k \in D |-> all[at[k]]]
        /\ \A x \in D : \E k \in D : at[k] = x
        /\ \A i, j \in D : i < j <=> Comes(all, at[i], at[j])
  BY <1>2, MergedFacts
<1> HIDE DEF all, m, U
<1>4. /\ Len(all) \in Nat
      /\ \A i \in D : all[i] \in Message /\ all[i].ms \in Nat /\ all[i].seq \in Nat
  <2>1. \A i \in D : all[i] \in Message
    BY <1>1, ElementOfSeq
  <2>2. QED  BY <1>1, <2>1, LenProperties DEF Message
<1>5. m \in Seq(Message) /\ Len(m) = Len(all) /\ \A k \in D : m[k] = all[at[k]] /\ at[k] \in D
  <2>1. m \in [D -> Message]
    BY <1>3, <1>4
  <2>2. m \in Seq(Message) /\ Len(m) = Len(all)
    BY <1>4, <2>1
  <2>3. \A k \in D : m[k] = all[at[k]] /\ at[k] \in D
    BY <1>3
  <2>4. QED  BY <2>2, <2>3
<1>6. \A i, j \in D : all[i] = all[j] => i = j
  <2> SUFFICES ASSUME NEW i \in D, NEW j \in D, i < j, all[i] = all[j]
               PROVE  FALSE
    BY <1>4
  <2>1. all[i].seq > all[j].seq /\ all[i].seq \in Nat
    BY <1>1, <1>4
  <2>2. QED  BY <2>1
<1>7. ASSUME NEW i \in D, NEW j \in D, m[i] = m[j]
      PROVE  i = j
  <2>1. at[i] = at[j]
    BY <1>5, <1>6, <1>7
  <2>2. ~Comes(all, at[i], at[j])
    BY <1>4, <1>5, <2>1 DEF Comes
  <2>3. ~(i < j) /\ ~(j < i)
    BY <1>3, <2>1, <2>2
  <2>4. QED  BY <1>4, <2>3
<1>8. ASSUME NEW i \in D, NEW j \in D, i < j
      PROVE  m[i].ms >= m[j].ms /\ ~Older(m[i], m[j])
  <2> DEFINE p == at[i]
             q == at[j]
  <2>1. p \in D /\ q \in D /\ m[i] = all[p] /\ m[j] = all[q]
    BY <1>5
  <2>2. Comes(all, p, q)
    BY <1>3, <1>8
  <2>3. all[p].ms \in Nat /\ all[q].ms \in Nat /\ all[p].seq \in Nat /\ all[q].seq \in Nat
    BY <1>4, <2>1
  <2> HIDE DEF p, q
  <2>4. all[p].ms >= all[q].ms
    BY <2>2, <2>3 DEF Comes
  <2>5. ASSUME all[p].dir = all[q].dir, all[p].seq < all[q].seq
        PROVE  FALSE
    <3>1. ~(p < q)
      BY <1>1, <2>1, <2>3, <2>5
    <3>2. p # q
      BY <2>3, <2>5
    <3>3. q < p
      BY <1>4, <2>1, <3>1, <3>2
    <3>4. all[q].ms >= all[p].ms
      BY <1>1, <2>1, <2>5, <3>3
    <3>5. QED  BY <2>2, <2>3, <3>1, <3>4 DEF Comes
  <2>6. ~Older(all[p], all[q])
    BY <2>3, <2>4, <2>5 DEF Older
  <2>7. QED  BY <2>1, <2>4, <2>6
<1>9. ASSUME NEW x \in D
      PROVE  \E k \in D : at[k] = x /\ m[k] = all[x]
  BY <1>3, <1>5
<1>10. ASSUME NEW b \in U, ~\E i \in D : m[i] = b
       PROVE  /\ \A i \in D : m[i].dir = b.dir => m[i].seq > b.seq /\ m[i].ms >= b.ms
              /\ \E g \in [1 .. count -> D] :
                   /\ \A k, l \in 1 .. count : g[k] = g[l] => k = l
                   /\ \A k \in 1 .. count : m[g[k]].dir = b.dir
  <2>1. ~\E i \in D : all[i] = b
    BY <1>9, <1>10
  <2>2. \A i \in D : all[i].dir = b.dir => all[i].seq > b.seq /\ all[i].ms >= b.ms
    BY <1>1, <2>1 DEF CutOff
  <2>3. PICK g \in [1 .. count -> D] :
          /\ \A k, l \in 1 .. count : g[k] = g[l] => k = l
          /\ \A k \in 1 .. count : all[g[k]].dir = b.dir
    BY <1>1, <2>1 DEF CutOff
  <2>4. ASSUME NEW i \in D, m[i].dir = b.dir
        PROVE  m[i].seq > b.seq /\ m[i].ms >= b.ms
    <3>1. at[i] \in D /\ m[i] = all[at[i]]
      BY <1>5
    <3>2. PICK x \in D : m[i] = all[x]
      BY <3>1
    <3>3. QED  BY <2>2, <2>4, <3>2
  <2> DEFINE where(x) == CHOOSE k \in D : at[k] = x
             h == [k \in 1 .. count |-> where(g[k])]
  <2>5. \A x \in D : where(x) \in D /\ at[where(x)] = x
    BY <1>3
  <2>6. h \in [1 .. count -> D] /\ \A k \in 1 .. count : at[h[k]] = g[k]
    <3> HIDE DEF where
    <3> QED  BY <2>3, <2>5
  <2> HIDE DEF h
  <2>7. ASSUME NEW k \in 1 .. count, NEW l \in 1 .. count, h[k] = h[l]
        PROVE  k = l
    <3>1. g[k] = g[l]
      BY <2>6, <2>7
    <3>2. QED  BY <2>3, <3>1
  <2>8. ASSUME NEW k \in 1 .. count
        PROVE  m[h[k]].dir = b.dir
    <3>1. h[k] \in D /\ at[h[k]] = g[k]
      BY <2>6
    <3>2. m[h[k]] = all[g[k]]
      BY <1>5, <3>1
    <3>3. QED  BY <2>3, <3>2
  <2>9. QED  BY <2>4, <2>6, <2>7, <2>8
<1>11. \A i \in D : m[i] \in U
  BY <1>1, <1>5
<1>12. D = 1 .. Len(m)
  BY <1>5
<1>13. \A b \in U : (\E i \in D : m[i] = b) \/ CutOff(m, b, count)
  BY <1>10, <1>12 DEF CutOff
<1> HIDE DEF D
<1>14. QED  BY <1>5, <1>7, <1>8, <1>11, <1>12, <1>13 DEF m, F, G, U

\* s has the messages of m at the positions `at', in their order.
Picks(s, m, at) ==
  /\ s \in Seq(Message)
  /\ at \in [1 .. Len(s) -> 1 .. Len(m)]
  /\ \A k \in 1 .. Len(s) : s[k] = m[at[k]]
  /\ \A i, j \in 1 .. Len(s) : i < j => at[i] < at[j]

\* The messages that match, in the order of the list.
LEMMA MatchingFacts ==
  ASSUME NEW m \in Seq(Message)
  PROVE  \E at : /\ Picks(Matching(m), m, at)
                 /\ \A p \in 1 .. Len(m) : m[p].match => \E k \in 1 .. Len(Matching(m)) : at[k] = p
<1> DEFINE S == {k \in DOMAIN m : m[k].match}
           at == Ascending(S)
           n == Cardinality(S)
           s == Matching(m)
<1>1. Len(m) \in Nat /\ DOMAIN m = 1 .. Len(m) /\ \A i \in 1 .. Len(m) : m[i] \in Message
  BY LenProperties, ElementOfSeq
<1>2. IsFiniteSet(S) /\ S \subseteq Int /\ S \subseteq 1 .. Len(m)
  <2>1. IsFiniteSet(1 .. Len(m))
    BY <1>1, FS_Interval
  <2>2. S \subseteq 1 .. Len(m)
    BY <1>1
  <2>3. QED  BY <2>1, <2>2, <1>1, FS_Subset
<1>3. /\ n \in Nat /\ at \in [1 .. n -> S]
      /\ \A x \in S : \E i \in DOMAIN at : at[i] = x
      /\ \A i, j \in DOMAIN at : i < j <=> at[i] < at[j]
  <2> HIDE DEF S
  <2> QED  BY <1>2, AscendingLists
<1>4. at \in [1 .. n -> 1 .. Len(m)] /\ DOMAIN at = 1 .. n
  BY <1>2, <1>3
<1>5. s = [k \in 1 .. n |-> m[at[k]]]
  <2>1. s = [k \in DOMAIN at |-> m[at[k]]]
    BY DEF Matching
  <2>2. QED  BY <2>1, <1>4
<1>6. \A p \in 1 .. Len(m) : m[p].match => p \in S
  BY <1>1
<1> HIDE DEF at, n, S, s
<1>7. [k \in 1 .. n |-> m[at[k]]] \in [1 .. n -> Message]
  BY <1>1, <1>4
<1>8. s \in Seq(Message) /\ Len(s) = n
  BY <1>3, <1>5, <1>7
<1>9. \A k \in 1 .. n : s[k] = m[at[k]]
  BY <1>5
<1>10. Picks(s, m, at)
  BY <1>3, <1>4, <1>8, <1>9 DEF Picks
<1>11. \A p \in 1 .. Len(m) : m[p].match => \E k \in 1 .. Len(s) : at[k] = p
  BY <1>3, <1>4, <1>6, <1>8
<1>12. QED  BY <1>10, <1>11 DEF s

\* s is the first messages of m, or the first that match.
IsAnswer(s, m, count, filtered) ==
  \E at :
    /\ Picks(s, m, at) /\ Len(s) \in 0 .. count
    /\ ~filtered => /\ Len(s) = count \/ Len(s) = Len(m)
                    /\ \A k \in 1 .. Len(s) : at[k] = k
    /\ filtered => \A p \in 1 .. Len(m) : m[p].match =>
         \/ \E k \in 1 .. Len(s) : at[k] = p
         \/ Len(s) = count /\ \A k \in 1 .. Len(s) : at[k] < p

LEMMA AnswerFacts ==
  ASSUME NEW m \in Seq(Message), NEW count \in Nat, NEW filtered \in BOOLEAN
  PROVE  LET kept == IF filtered THEN Matching(m) ELSE m
         IN  IsAnswer(SubSeq(kept, 1, IF count < Len(kept) THEN count ELSE Len(kept)), m, count, filtered)
<1> DEFINE kept == IF filtered THEN Matching(m) ELSE m
           n == Len(kept)
           c == IF count < n THEN count ELSE n
           answer == SubSeq(kept, 1, c)
<1>1. Len(m) \in Nat
  BY LenProperties
<1>2. \E at : /\ Picks(kept, m, at)
              /\ ~filtered => n = Len(m) /\ \A k \in 1 .. n : at[k] = k
              /\ filtered => \A p \in 1 .. Len(m) : m[p].match => \E k \in 1 .. n : at[k] = p
  <2>1. CASE filtered
    <3>1. kept = Matching(m)
      BY <2>1
    <3> HIDE DEF kept
    <3>2. PICK at : /\ Picks(kept, m, at)
                    /\ \A p \in 1 .. Len(m) : m[p].match => \E k \in 1 .. n : at[k] = p
      BY <3>1, MatchingFacts
    <3>3. QED  BY <2>1, <3>2
  <2>2. CASE ~filtered
    <3> DEFINE id == [k \in 1 .. Len(m) |-> k]
    <3>1. kept = m
      BY <2>2
    <3>2. id \in [1 .. Len(m) -> 1 .. Len(m)] /\ \A k \in 1 .. Len(m) : id[k] = k
      OBVIOUS
    <3> HIDE DEF kept, id
    <3>3. Picks(m, m, id)
      BY <1>1, <3>2 DEF Picks
    <3>4. QED  BY <2>2, <3>1, <3>2, <3>3
  <2>3. QED  BY <2>1, <2>2
<1>3. PICK whole : /\ Picks(kept, m, whole)
                   /\ ~filtered => n = Len(m) /\ \A k \in 1 .. n : whole[k] = k
                   /\ filtered => \A p \in 1 .. Len(m) : m[p].match => \E k \in 1 .. n : whole[k] = p
  BY <1>2
<1> HIDE DEF kept
<1> DEFINE at == [k \in 1 .. c |-> whole[k]]
<1>4. /\ kept \in Seq(Message) /\ n \in Nat
      /\ whole \in [1 .. n -> 1 .. Len(m)]
      /\ \A k \in 1 .. n : kept[k] = m[whole[k]]
      /\ \A i, j \in 1 .. n : i < j => whole[i] < whole[j]
  BY <1>3, LenProperties DEF Picks
<1> HIDE DEF n
<1>5. c \in 0 .. count /\ c <= n /\ c \in Nat /\ (c = count \/ c = n)
  BY <1>4
<1>6. answer \in Seq(Message) /\ Len(answer) = c /\ \A k \in 1 .. c : answer[k] = kept[1 + k - 1]
  <2> HIDE DEF c
  <2> QED  BY <1>4, <1>5, SubSeqProperties DEF n
<1> HIDE DEF c, answer
<1>7. \A k \in 1 .. c : k \in 1 .. n /\ 1 + k - 1 = k
  BY <1>4, <1>5
<1>8. at \in [1 .. c -> 1 .. Len(m)] /\ \A k \in 1 .. c : at[k] = whole[k]
  BY <1>4, <1>7
<1> HIDE DEF at
<1>9. Picks(answer, m, at)
  BY <1>4, <1>6, <1>7, <1>8 DEF Picks
<1>10. ~filtered => \A k \in 1 .. c : at[k] = k
  BY <1>3, <1>7, <1>8
<1>11. ~filtered => c = count \/ c = Len(m)
  BY <1>3, <1>5
<1>12. ASSUME filtered, NEW p \in 1 .. Len(m), m[p].match
       PROVE  \/ \E k \in 1 .. c : at[k] = p
              \/ c = count /\ \A k \in 1 .. c : at[k] < p
  <2>1. PICK k \in 1 .. n : whole[k] = p
    BY <1>3, <1>12
  <2>2. CASE k <= c
    <3>1. k \in 1 .. c
      BY <1>5, <2>2
    <3>2. QED  BY <1>8, <2>1, <3>1
  <2>3. CASE ~(k <= c)
    <3>1. c = count
      BY <1>4, <1>5, <2>3
    <3>2. \A l \in 1 .. c : l < k /\ l \in 1 .. n
      BY <1>4, <1>5, <2>3
    <3>3. \A l \in 1 .. c : at[l] < p
      BY <1>4, <1>8, <2>1, <3>2
    <3>4. QED  BY <3>1, <3>3
  <2>4. QED  BY <2>2, <2>3
<1>13. IsAnswer(answer, m, count, filtered)
  BY <1>5, <1>6, <1>9, <1>10, <1>11, <1>12 DEF IsAnswer
<1>14. QED  BY <1>13 DEF answer, c, n, kept

\* What HistoryIsNewest says of a request and its answer
Newest(up, down, count, filtered, answer) ==
  LET all == ToSet(up) \cup ToSet(down)
      shown == ToSet(answer)
  IN  /\ \A i, j \in DOMAIN answer : i < j => ~Older(answer[i], answer[j])
      /\ Len(answer) = Cardinality(shown) /\ Len(answer) <= count
      /\ ~filtered => /\ Len(answer) = count \/ shown = all
                      /\ \A a \in shown, b \in all \ shown : ~Older(a, b)
      /\ filtered => \A b \in all :
           b.match /\ Cardinality({a \in all : a.ms >= b.ms}) <= count => b \in shown

LEMMA HistoryTrue ==
  ASSUME NEW up, NEW down, IsStream(up, "fw2mobile"), IsStream(down, "mobile2fw"),
         NEW count \in Nat, NEW filtered \in BOOLEAN
  PROVE  Newest(up, down, count, filtered, HistoryAnswer(up, down, count, filtered))
<1> DEFINE m == Merged(NewestOf(up, count), NewestOf(down, count))
           U == ToSet(up) \cup ToSet(down)
           n == Len(m)
           s == HistoryAnswer(up, down, count, filtered)
           c == Len(s)
           shown == ToSet(s)
<1>1. /\ m \in Seq(Message)
      /\ \A i \in 1 .. n : m[i] \in U
      /\ \A i, j \in 1 .. n : m[i] = m[j] => i = j
      /\ \A i, j \in 1 .. n : i < j => m[i].ms >= m[j].ms /\ ~Older(m[i], m[j])
      /\ \A b \in U : (\E i \in 1 .. n : m[i] = b) \/ CutOff(m, b, count)
  BY MergedStreams
<1>2. IsAnswer(s, m, count, filtered)
  <2> HIDE DEF m
  <2>1. IsAnswer(LET kept == IF filtered THEN Matching(m) ELSE m
                 IN  SubSeq(kept, 1, IF count < Len(kept) THEN count ELSE Len(kept)), m, count, filtered)
    BY <1>1, AnswerFacts
  <2>2. QED  BY <2>1 DEF HistoryAnswer, m
<1>3. IsFiniteSet(U) /\ \A b \in U : b \in Message /\ b.ms \in Nat /\ b.seq \in Nat
  <2>1. /\ up \in Seq(Message) /\ down \in Seq(Message)
        /\ Len(up) \in Nat /\ Len(down) \in Nat /\ DOMAIN up = 1 .. Len(up) /\ DOMAIN down = 1 .. Len(down)
    BY LenProperties DEF IsStream
  <2>2. IsFiniteSet(ToSet(up)) /\ IsFiniteSet(ToSet(down))
    BY <2>1, ElementsFinite DEF ToSet
  <2>3. \A b \in U : b \in Message
    BY <2>1, ElementOfSeq DEF ToSet
  <2>4. QED  BY <2>2, <2>3, FS_Union DEF Message
<1> HIDE DEF m, U, s
<1>4. PICK at : /\ Picks(s, m, at) /\ c \in 0 .. count
                /\ ~filtered => /\ c = count \/ c = n
                                /\ \A k \in 1 .. c : at[k] = k
                /\ filtered => \A p \in 1 .. n : m[p].match =>
                     \/ \E k \in 1 .. c : at[k] = p
                     \/ c = count /\ \A k \in 1 .. c : at[k] < p
  BY <1>2 DEF IsAnswer
<1>5. /\ s \in Seq(Message) /\ c \in Nat /\ n \in Nat /\ c <= count /\ DOMAIN s = 1 .. c
      /\ at \in [1 .. c -> 1 .. n]
      /\ \A k \in 1 .. c : s[k] = m[at[k]] /\ at[k] \in 1 .. n
      /\ \A i, j \in 1 .. c : i < j => at[i] < at[j]
  BY <1>1, <1>4, LenProperties DEF Picks
<1>6. shown = {s[k] : k \in 1 .. c}
  BY <1>5 DEF ToSet
<1>7. \A i, j \in 1 .. c : i < j => ~Older(s[i], s[j])
  BY <1>1, <1>5
<1>8. \A i, j \in 1 .. c : s[i] = s[j] => i = j
  <2> SUFFICES ASSUME NEW i \in 1 .. c, NEW j \in 1 .. c, i < j, s[i] = s[j]
               PROVE  FALSE
    BY <1>5
  <2>1. at[i] = at[j] /\ at[i] \in 1 .. n /\ at[i] < at[j]
    BY <1>1, <1>5
  <2>2. QED  BY <1>5, <2>1
<1>9. IsFiniteSet(shown) /\ Cardinality(shown) = c
  <2>1. IsFiniteSet(shown) /\ Cardinality(shown) <= c
    <3> HIDE DEF shown, c
    <3>1. c \in Nat /\ DOMAIN s = 1 .. c
      BY <1>5
    <3>2. QED  BY <1>6, <3>1, ElementsFinite
  <2>2. s \in [1 .. c -> shown]
    BY <1>5, <1>6
  <2>3. c <= Cardinality(shown)
    <3> HIDE DEF shown, c
    <3> QED  BY <1>5, <1>8, <2>1, <2>2, InjectionBound
  <2>4. QED  BY <1>5, <2>1, <2>3, FS_CardinalityType
<1>10. ASSUME NEW b \in U, ~\E i \in 1 .. n : m[i] = b
       PROVE  /\ \A i \in 1 .. n : m[i].dir = b.dir => m[i].seq > b.seq /\ m[i].ms >= b.ms
              /\ \E g \in [1 .. count -> 1 .. n] :
                   /\ \A k, l \in 1 .. count : g[k] = g[l] => k = l
                   /\ \A k \in 1 .. count : m[g[k]].dir = b.dir
  BY <1>1, <1>10 DEF CutOff
<1>11. \A i \in 1 .. n : m[i].ms \in Nat /\ m[i].seq \in Nat
  BY <1>1, <1>3
<1>12. ASSUME ~filtered
       PROVE  /\ c = count \/ shown = U
              /\ \A a \in shown, b \in U \ shown : ~Older(a, b)
  <2>1. ASSUME NEW k \in 1 .. c
        PROVE  at[k] = k /\ k \in 1 .. n /\ s[k] = m[k]
    <3>1. at[k] = k
      BY <1>4, <1>12
    <3>2. at[k] \in 1 .. n /\ s[k] = m[at[k]]
      BY <1>5
    <3>3. QED  BY <3>1, <3>2
  <2>2. ASSUME c # count
        PROVE  shown = U
    <3>1. c = n
      BY <1>4, <1>12, <2>2
    <3>2. shown \subseteq U
      BY <1>1, <1>6, <2>1
    <3>3. ASSUME NEW b \in U, ~\E i \in 1 .. n : m[i] = b
          PROVE  FALSE
      <4>1. PICK g \in [1 .. count -> 1 .. n] : \A k, l \in 1 .. count : g[k] = g[l] => k = l
        BY <1>10, <3>3
      <4>2. IsFiniteSet(1 .. n) /\ Cardinality(1 .. n) = n
        <5>1. \A k \in Nat : IsFiniteSet(1 .. k) /\ Cardinality(1 .. k) = k
          BY FS_Interval
        <5>2. QED  BY <1>5, <5>1
      <4>3. count <= n
        BY <4>1, <4>2, InjectionBound
      <4>4. QED  BY <1>5, <2>2, <3>1, <4>3
    <3>4. U \subseteq shown
      BY <1>6, <2>1, <3>1, <3>3
    <3>5. QED  BY <3>2, <3>4
  <2>3. ASSUME NEW a \in shown, NEW b \in U, b \notin shown, Older(a, b)
        PROVE  FALSE
    <3>1. PICK i \in 1 .. c : a = m[i] /\ i \in 1 .. n
      BY <1>6, <2>1
    <3>2. CASE \E j \in 1 .. n : m[j] = b
      <4>1. PICK j \in 1 .. n : m[j] = b
        BY <3>2
      <4>2. ~(j <= c)
        <5>1. j <= c => j \in 1 .. c
          BY <1>5
        <5>2. QED  BY <5>1, <1>6, <2>1, <2>3, <4>1
      <4>3. i < j
        BY <1>5, <3>1, <4>2
      <4>4. QED  BY <1>1, <2>3, <3>1, <4>1, <4>3
    <3>3. CASE ~\E j \in 1 .. n : m[j] = b
      <4>1. /\ \A k \in 1 .. n : m[k].dir = b.dir => m[k].seq > b.seq /\ m[k].ms >= b.ms
            /\ \E g \in [1 .. count -> 1 .. n] :
                 /\ \A k, l \in 1 .. count : g[k] = g[l] => k = l
                 /\ \A k \in 1 .. count : m[g[k]].dir = b.dir
        BY <1>10, <3>3
      <4>2. PICK g \in [1 .. count -> 1 .. n] :
              /\ \A k, l \in 1 .. count : g[k] = g[l] => k = l
              /\ \A k \in 1 .. count : m[g[k]].dir = b.dir
        BY <4>1
      <4>3. b.ms \in Nat /\ b.seq \in Nat /\ a.ms \in Nat /\ a.seq \in Nat
        BY <1>3, <1>11, <3>1
      <4>4. a.dir # b.dir
        <5>1. a.dir = b.dir => a.seq > b.seq /\ a.ms >= b.ms
          BY <3>1, <4>1
        <5>2. QED  BY <2>3, <4>3, <5>1 DEF Older
      <4>5. a.ms < b.ms
        BY <2>3, <4>4 DEF Older
      <4>6. ASSUME NEW k \in 1 .. count
            PROVE  g[k] \in 1 .. i - 1
        <5>1. g[k] \in 1 .. n /\ m[g[k]].ms >= b.ms /\ m[g[k]].ms \in Nat
          BY <1>11, <4>1, <4>2
        <5>2. m[g[k]].ms > m[i].ms
          <6>1. m[i].ms \in Nat /\ m[i].ms < b.ms
            BY <3>1, <4>3, <4>5
          <6>2. \A x, y, z \in Nat : x < y /\ z >= y => z > x
            OBVIOUS
          <6>3. QED  BY <4>3, <5>1, <6>1, <6>2
        <5>3. ~(i < g[k]) /\ i # g[k]
          BY <1>1, <1>11, <3>1, <5>1, <5>2
        <5>4. QED  BY <1>5, <3>1, <5>1, <5>3
      <4>7. g \in [1 .. count -> 1 .. i - 1]
        BY <4>2, <4>6
      <4>8. IsFiniteSet(1 .. i - 1) /\ Cardinality(1 .. i - 1) = i - 1
        <5>1. i - 1 \in Nat
          BY <1>5
        <5>2. \A k \in Nat : IsFiniteSet(1 .. k) /\ Cardinality(1 .. k) = k
          BY FS_Interval
        <5>3. QED  BY <5>1, <5>2
      <4>9. count <= i - 1
        <5> DEFINE T == 1 .. i - 1
        <5>1. g \in [1 .. count -> T] /\ IsFiniteSet(T) /\ Cardinality(T) = i - 1
          BY <4>7, <4>8
        <5> HIDE DEF T
        <5>2. count <= Cardinality(T)
          BY <4>2, <5>1, InjectionBound
        <5>3. QED  BY <5>1, <5>2
      <4>10. QED  BY <1>5, <3>1, <4>9
    <3>4. QED  BY <3>2, <3>3
  <2>4. QED  BY <2>2, <2>3
<1>13. ASSUME filtered, NEW b \in U, b.match, Cardinality({a \in U : a.ms >= b.ms}) <= count
       PROVE  b \in shown
  <2> DEFINE W == {a \in U : a.ms >= b.ms}
  <2>1. IsFiniteSet(W) /\ Cardinality(W) \in Nat /\ b \in W /\ b.ms \in Nat
    <3>1. W \subseteq U
      OBVIOUS
    <3>2. IsFiniteSet(W)
      <4> HIDE DEF W
      <4> QED  BY <1>3, <3>1, FS_Subset
    <3>3. b.ms >= b.ms /\ b.ms \in Nat
      BY <1>3
    <3>4. QED  BY <3>2, <3>3, FS_CardinalityType
  <2>2. CASE ~\E i \in 1 .. n : m[i] = b
    <3>1. PICK g \in [1 .. count -> 1 .. n] :
            /\ \A k, l \in 1 .. count : g[k] = g[l] => k = l
            /\ \A k \in 1 .. count : m[g[k]].dir = b.dir
      BY <1>10, <2>2
    <3>2. \A k \in 1 .. count : m[g[k]].ms >= b.ms
      BY <1>10, <2>2, <3>1
    <3> DEFINE h == [k \in 1 .. count |-> m[g[k]]]
    <3>3. h \in [1 .. count -> W \ {b}]
      BY <1>1, <2>2, <3>1, <3>2
    <3>4. \A k, l \in 1 .. count : h[k] = h[l] => k = l
      BY <1>1, <3>1
    <3>5. IsFiniteSet(W \ {b}) /\ Cardinality(W \ {b}) = Cardinality(W) - 1
      <4> HIDE DEF W
      <4> QED  BY <2>1, FS_RemoveElement
    <3>6. count <= Cardinality(W) - 1
      <4> HIDE DEF h, W
      <4> QED  BY <3>3, <3>4, <3>5, InjectionBound
    <3>7. QED  BY <1>13, <2>1, <3>6
  <2>3. CASE \E i \in 1 .. n : m[i] = b
    <3>1. PICK p \in 1 .. n : m[p] = b
      BY <2>3
    <3>2. CASE \E k \in 1 .. c : at[k] = p
      BY <1>5, <1>6, <3>1, <3>2
    <3>3. CASE ~\E k \in 1 .. c : at[k] = p
      <4>1. c = count /\ \A k \in 1 .. c : at[k] < p
        BY <1>4, <1>13, <3>1, <3>3
      <4> DEFINE h == [k \in 1 .. count |-> s[k]]
      <4>2. ASSUME NEW k \in 1 .. count
            PROVE  s[k] \in W \ {b}
        <5>1. s[k] = m[at[k]] /\ at[k] \in 1 .. n /\ at[k] < p
          BY <1>5, <4>1
        <5>2. m[at[k]].ms >= b.ms /\ m[at[k]] \in U
          BY <1>1, <3>1, <5>1
        <5>3. m[at[k]] # b
          BY <1>1, <1>5, <3>1, <5>1
        <5>4. QED  BY <5>1, <5>2, <5>3
      <4>3. h \in [1 .. count -> W \ {b}]
        BY <4>2
      <4>4. \A k, l \in 1 .. count : h[k] = h[l] => k = l
        BY <1>8, <4>1
      <4>5. IsFiniteSet(W \ {b}) /\ Cardinality(W \ {b}) = Cardinality(W) - 1
        <5> HIDE DEF W
        <5> QED  BY <2>1, FS_RemoveElement
      <4>6. count <= Cardinality(W) - 1
        <5> HIDE DEF h, W
        <5> QED  BY <4>3, <4>4, <4>5, InjectionBound
      <4>7. QED  BY <1>13, <2>1, <4>6
    <3>4. QED  BY <3>2, <3>3
  <2>4. QED  BY <2>2, <2>3
<1>14. Newest(up, down, count, filtered, s)
  <2>1. \A i, j \in DOMAIN s : i < j => ~Older(s[i], s[j])
    BY <1>5, <1>7
  <2>2. Len(s) = Cardinality(shown) /\ Len(s) <= count
    BY <1>5, <1>9
  <2> HIDE DEF shown
  <2>3. QED  BY <2>1, <2>2, <1>12, <1>13 DEF Newest, shown, U
<1>15. QED  BY <1>14 DEF s

-----------------------------------------------------------------------------
(* Pages *)

LEMMA ProductGrows ==
  ASSUME NEW a \in Nat, NEW b \in Nat, NEW p \in Nat, a < b
  PROVE  a * p + p <= b * p /\ a * p \in Nat /\ b * p \in Nat
<1>1. PICK d \in Nat : b = a + 1 + d
  <2>1. b - a - 1 \in Nat /\ b = a + 1 + (b - a - 1)
    OBVIOUS
  <2>2. QED  BY <2>1
<1>2. d * p \in Nat /\ a * p \in Nat /\ b * p \in Nat
  <2>1. \A x, y \in Nat : x * y \in Nat
    OBVIOUS
  <2>2. QED  BY <2>1
<1>3. b * p = a * p + p + d * p
  BY <1>1
<1>4. QED  BY <1>2, <1>3

LEMMA DivFacts ==
  ASSUME NEW n \in Nat, NEW p \in Nat \ {0}
  PROVE  n \div p \in Nat /\ (n \div p) * p <= n /\ n < (n \div p) * p + p
<1>1. n \div p \in Nat
  OBVIOUS
<1>2. p * (n \div p) <= n
  OBVIOUS
<1>3. n < p * (n \div p) + p
  OBVIOUS
<1>4. p * (n \div p) = (n \div p) * p
  BY <1>1
<1>5. QED  BY <1>1, <1>2, <1>3, <1>4

\* Machines with a raised beacon first, then by number.
Precedes(a, b) == IF a.beacon # b.beacon THEN a.beacon ELSE a.id < b.id

\* The rows of a list: numbered machines, each once.
AreRows(rows) ==
  /\ IsFiniteSet(rows)
  /\ \A r \in rows : r.id \in Nat /\ r.beacon \in BOOLEAN
  /\ \A a, b \in rows : a.id = b.id => a = b

LEMMA ListedFacts ==
  ASSUME NEW rows, AreRows(rows)
  PROVE  LET list == Listed(rows)
             S == {r \in rows : r.found}
         IN  \E n \in Nat :
               /\ list \in [1 .. n -> S]
               /\ \A r \in S : \E i \in 1 .. n : list[i] = r
               /\ \A i, j \in 1 .. n : i < j <=> Precedes(list[i], list[j])
<1> DEFINE S == {r \in rows : r.found}
           list == Listed(rows)
           R == {e \in S \X S : Precedes(e[1], e[2])}
           n == Cardinality(S)
<1>1. IsFiniteSet(S) /\ n \in Nat
  <2>1. S \subseteq rows /\ IsFiniteSet(rows)
    BY DEF AreRows
  <2> HIDE DEF S
  <2>2. IsFiniteSet(S)
    BY <2>1, FS_Subset
  <2>3. QED  BY <2>2, FS_CardinalityType
<1>2. \A a \in S : a.id \in Nat /\ a.beacon \in BOOLEAN
  BY DEF AreRows
<1>3. \A a, b \in S : a.id = b.id => a = b
  BY DEF AreRows
<1>4. \A a, b \in S : <<a, b>> \in R <=> Precedes(a, b)
  OBVIOUS
<1> HIDE DEF R
<1>5. Orders(R, S)
  <2>1. \A x \in S : ~Precedes(x, x)
    BY <1>2 DEF Precedes
  <2>2. ASSUME NEW x \in S, NEW y \in S, NEW z \in S, Precedes(x, y), Precedes(y, z)
        PROVE  Precedes(x, z)
    <3>1. x.id \in Nat /\ y.id \in Nat /\ z.id \in Nat
      BY <1>2
    <3>2. x.id < y.id /\ y.id < z.id => x.id < z.id
      BY <3>1
    <3>3. x.beacon \in BOOLEAN /\ y.beacon \in BOOLEAN /\ z.beacon \in BOOLEAN
      BY <1>2
    <3>4. QED  BY <2>2, <3>2, <3>3, Zenon DEF Precedes
  <2>3. ASSUME NEW x \in S, NEW y \in S, x # y
        PROVE  Precedes(x, y) \/ Precedes(y, x)
    <3>1. x.id < y.id \/ y.id < x.id
      BY <1>2, <1>3, <2>3
    <3>2. x.beacon \in BOOLEAN /\ y.beacon \in BOOLEAN
      BY <1>2
    <3>3. QED  BY <3>1, <3>2, Zenon DEF Precedes
  <2> HIDE DEF S
  <2>4. QED  BY <1>1, <1>4, <2>1, <2>2, <2>3 DEF Orders
<1>6. \A x \in S : Below(S, R, x) = {y \in S : IF y.beacon # x.beacon THEN y.beacon ELSE y.id < x.id}
  BY <1>4 DEF Below, Precedes
<1>7. list = [i \in 1 .. n |-> CHOOSE x \in S :
                Cardinality({y \in S : IF y.beacon # x.beacon THEN y.beacon ELSE y.id < x.id}) = i - 1]
  BY DEF Listed, InOrder
<1>8. ASSUME NEW i \in 1 .. n, \E x \in S : Cardinality(Below(S, R, x)) = i - 1
      PROVE  list[i] \in S /\ Cardinality(Below(S, R, list[i])) = i - 1
  <2> HIDE DEF S
  <2>1. \E x \in S : Cardinality({y \in S : IF y.beacon # x.beacon THEN y.beacon ELSE y.id < x.id}) = i - 1
    BY <1>6, <1>8
  <2>2. list[i] = CHOOSE x \in S :
                    Cardinality({y \in S : IF y.beacon # x.beacon THEN y.beacon ELSE y.id < x.id}) = i - 1
    BY <1>7
  <2> HIDE DEF list
  <2>3. list[i] \in S /\ Cardinality({y \in S : IF y.beacon # list[i].beacon THEN y.beacon ELSE y.id < list[i].id}) = i - 1
    BY <2>1, <2>2
  <2>4. QED  BY <2>3, <1>6
<1>9. list = [i \in 1 .. n |-> list[i]]
  BY <1>7
<1>10. Lists(list, S, R)
  <2> HIDE DEF list, S
  <2> QED  BY <1>5, <1>8, <1>9, ByRank
<1>11. \A i, j \in DOMAIN list : <<list[i], list[j]>> \in R <=> Precedes(list[i], list[j])
  <2> HIDE DEF list, S
  <2> QED  BY <1>4, <1>10 DEF Lists
<1>12. list \in [1 .. n -> S] /\ \A r \in S : \E i \in 1 .. n : list[i] = r
  <2> HIDE DEF list, S
  <2> QED  BY <1>10 DEF Lists
<1>13. \A i, j \in 1 .. n : i < j <=> Precedes(list[i], list[j])
  <2> HIDE DEF list, S
  <2> QED  BY <1>10, <1>11 DEF Lists
<1> HIDE DEF n
<1>14. QED  BY <1>1, <1>12, <1>13

\* A page of a list: as many rows as there is place for, from where the page
\* starts.
LEMMA PageFacts ==
  ASSUME NEW n \in Nat, NEW q \in 0 .. PageCount(n) - 1
  PROVE  /\ SafePage(q, n) = q
         /\ q * PageSize \in Nat /\ q * PageSize <= n
         /\ n > 0 => q * PageSize < n
<1>1. PageSize \in Nat /\ PageSize > 0
  BY ViewsAssumption
<1>2. PageCount(n) \in Nat /\ q \in Nat /\ q < PageCount(n)
  <2>1. CASE n = 0
    BY <2>1 DEF PageCount
  <2>2. CASE n # 0
    <3>1. n + PageSize - 1 \in Nat
      BY <1>1, <2>2
    <3>2. (n + PageSize - 1) \div PageSize \in Nat
      BY <1>1, <3>1, DivFacts
    <3>3. PageCount(n) \in Nat
      BY <2>2, <3>2 DEF PageCount
    <3>4. QED  BY <3>3
  <2>3. QED  BY <2>1, <2>2
<1>3. SafePage(q, n) = q
  BY <1>2 DEF SafePage
<1>4. CASE n = 0
  <2>1. q = 0
    BY <1>2, <1>4 DEF PageCount
  <2>2. q * PageSize = 0
    BY <1>1, <2>1
  <2>3. QED  BY <1>3, <1>4, <2>2
<1>5. CASE n # 0
  <2> DEFINE c == PageCount(n)
  <2>1. n + PageSize - 1 \in Nat /\ c = (n + PageSize - 1) \div PageSize
    BY <1>1, <1>5 DEF PageCount
  <2>2. c * PageSize <= n + PageSize - 1
    BY <1>1, <2>1, DivFacts
  <2> HIDE DEF c
  <2>3. c \in Nat /\ q \in Nat /\ q < c
    BY <1>2 DEF c
  <2>4. q * PageSize + PageSize <= c * PageSize /\ q * PageSize \in Nat /\ c * PageSize \in Nat
    BY <1>1, <2>3, ProductGrows
  <2>5. q * PageSize < n
    BY <1>1, <2>2, <2>4
  <2>6. QED  BY <1>3, <2>4, <2>5
<1>6. QED  BY <1>4, <1>5

\* Every place of the list is on a page.
LEMMA PlaceOfRow ==
  ASSUME NEW n \in Nat, NEW i \in 1 .. n
  PROVE  \E q \in 0 .. PageCount(n) - 1 : \E k \in 1 .. PageSize : i = q * PageSize + k
<1>1. PageSize \in Nat /\ PageSize > 0 /\ i - 1 \in Nat /\ n + PageSize - 1 \in Nat /\ n # 0
  BY ViewsAssumption
<1> DEFINE q == (i - 1) \div PageSize
           c == (n + PageSize - 1) \div PageSize
<1>2. q \in Nat /\ q * PageSize <= i - 1 /\ i - 1 < q * PageSize + PageSize
  BY <1>1, DivFacts
<1>3. c \in Nat /\ c * PageSize <= n + PageSize - 1 /\ n + PageSize - 1 < c * PageSize + PageSize
  BY <1>1, DivFacts
<1>4. c = PageCount(n)
  BY <1>1 DEF PageCount
<1> HIDE DEF q, c
<1>5. q * PageSize \in Nat /\ c * PageSize \in Nat
  <2>1. \A x, y \in Nat : x * y \in Nat
    OBVIOUS
  <2>2. QED  BY <1>1, <1>2, <1>3, <2>1
<1>6. q < c
  <2>1. CASE c < q
    <3>1. c * PageSize + PageSize <= q * PageSize
      BY <1>1, <1>2, <1>3, <2>1, ProductGrows
    <3>2. QED  BY <1>1, <1>2, <1>3, <1>5, <3>1
  <2>2. CASE c = q
    BY <1>1, <1>2, <1>3, <1>5, <2>2
  <2>3. QED  BY <1>2, <1>3, <2>1, <2>2
<1>7. q \in 0 .. PageCount(n) - 1
  BY <1>2, <1>3, <1>4, <1>6
<1>8. i - q * PageSize \in 1 .. PageSize /\ i = q * PageSize + (i - q * PageSize)
  BY <1>1, <1>2, <1>5
<1>9. QED  BY <1>7, <1>8

\* The rows that a page shows are those at its places of the list.
LEMMA VisiblePage ==
  ASSUME NEW rows, NEW n \in Nat, NEW S, Listed(rows) \in [1 .. n -> S],
         NEW q \in 0 .. PageCount(n) - 1
  PROVE  LET V == VisibleRows(rows, q)
         IN  /\ V \in Seq(S) /\ Len(V) \in 0 .. PageSize /\ (n > 0 => Len(V) > 0)
             /\ q * PageSize \in Nat
             /\ \A k \in 1 .. Len(V) : q * PageSize + k \in 1 .. n /\ V[k] = Listed(rows)[q * PageSize + k]
             /\ \A k \in 1 .. PageSize : q * PageSize + k \in 1 .. n => k \in 1 .. Len(V)
<1> DEFINE list == Listed(rows)
           start == q * PageSize
           last == IF start + PageSize < n THEN start + PageSize ELSE n
           V == SubSeq(list, start + 1, last)
<1>1. PageSize \in Nat /\ PageSize > 0
  BY ViewsAssumption
<1>2. SafePage(q, n) = q /\ start \in Nat /\ start <= n /\ (n > 0 => start < n)
  BY PageFacts
<1>3. Len(list) = n
  <2> HIDE DEF list
  <2>1. list \in [1 .. n -> S]
    BY DEF list
  <2>2. list \in Seq(S)
    BY <2>1
  <2>3. QED  BY <2>1, <2>2, LenProperties
<1>4. VisibleRows(rows, q) = V
  BY <1>2, <1>3 DEF VisibleRows
<1> HIDE DEF start
<1>5. last \in Nat /\ last <= n /\ start <= last /\ last <= start + PageSize /\ (n > 0 => start < last)
      /\ \A k \in 1 .. PageSize : start + k \in 1 .. n => start + k <= last
  BY <1>1, <1>2
<1> HIDE DEF last
<1>6. \A i \in start + 1 .. last : i \in 1 .. n /\ list[i] \in S
  BY <1>2, <1>5
<1> HIDE DEF list
<1>7. /\ V \in Seq(S)
      /\ Len(V) = IF start + 1 <= last THEN last - (start + 1) + 1 ELSE 0
      /\ \A i \in 1 .. last - (start + 1) + 1 : V[i] = list[start + 1 + i - 1]
  BY <1>2, <1>5, <1>6, SubSeqProperties
<1>8. Len(V) = last - start
  <2>1. start + 1 <= last => Len(V) = last - (start + 1) + 1
    BY <1>7
  <2>2. ~(start + 1 <= last) => Len(V) = 0
    BY <1>7
  <2> HIDE DEF V
  <2>3. QED  BY <1>2, <1>5, <2>1, <2>2
<1> HIDE DEF V
<1>9. ASSUME NEW k \in 1 .. Len(V)
      PROVE  start + k \in 1 .. n /\ V[k] = list[start + k]
  <2>1. k \in 1 .. last - (start + 1) + 1 /\ start + 1 + k - 1 = start + k /\ start + k \in 1 .. n
    BY <1>2, <1>5, <1>8
  <2>2. QED  BY <1>7, <2>1
<1>10. ASSUME NEW k \in 1 .. PageSize, start + k \in 1 .. n
       PROVE  k \in 1 .. Len(V)
  BY <1>1, <1>2, <1>5, <1>8, <1>10
<1>11. Len(V) \in 0 .. PageSize /\ (n > 0 => Len(V) > 0)
  BY <1>1, <1>2, <1>5, <1>8
<1>12. QED  BY <1>2, <1>4, <1>7, <1>9, <1>10, <1>11 DEF start, list

\* What PageIsShown says of the rows and of what is visible
PagesAreTrue(rows, visible) ==
  LET list == Listed(rows)
      pages == [p \in 1 .. PageCount(Len(list)) |-> VisibleRows(rows, p - 1)]
  IN  /\ list # <<>> => visible # <<>>
      /\ visible \in ToSet(pages)
      /\ \A r \in rows : r.found =>
           \E p \in DOMAIN pages, k \in 1 .. PageSize :
             /\ k \in DOMAIN pages[p] /\ pages[p][k] = r
             /\ \A q \in DOMAIN pages : \A l \in DOMAIN pages[q] :
                  pages[q][l] = r => q = p /\ l = k
      /\ \A i, j \in DOMAIN pages : \A a \in ToSet(pages[i]), b \in ToSet(pages[j]) :
           i < j /\ b.beacon => a.beacon

LEMMA ListTrue ==
  ASSUME NEW rows, AreRows(rows), NEW page \in Nat
  PROVE  PagesAreTrue(rows, VisibleRows(rows, page))
<1> DEFINE list == Listed(rows)
           S == {r \in rows : r.found}
<1>1. PICK n \in Nat :
        /\ list \in [1 .. n -> S]
        /\ \A r \in S : \E i \in 1 .. n : list[i] = r
        /\ \A i, j \in 1 .. n : i < j <=> Precedes(list[i], list[j])
  BY ListedFacts
<1> DEFINE c == PageCount(n)
           pages == [p \in 1 .. c |-> VisibleRows(rows, p - 1)]
           at(p, k) == (p - 1) * PageSize + k
<1>2. list \in Seq(S) /\ Len(list) = n
  <2> HIDE DEF list, S
  <2>1. list \in Seq(S)
    BY <1>1
  <2>2. QED  BY <1>1, <2>1, LenProperties
<1>3. \A a \in S : a.id \in Nat /\ a.beacon \in BOOLEAN
  BY DEF AreRows
<1>4. c \in Nat /\ c > 0 /\ PageSize \in Nat /\ PageSize > 0
  <2>1. PageSize \in Nat /\ PageSize > 0
    BY ViewsAssumption
  <2>2. CASE n = 0
    BY <2>1, <2>2 DEF PageCount
  <2>3. CASE n # 0
    <3>1. 1 \in 1 .. n
      BY <2>3
    <3>2. PICK q \in 0 .. PageCount(n) - 1 : TRUE
      BY <3>1, PlaceOfRow
    <3>3. n + PageSize - 1 \in Nat
      BY <2>1, <2>3
    <3>4. PageCount(n) \in Nat
      BY <2>1, <2>3, <3>3, DivFacts DEF PageCount
    <3>5. QED  BY <2>1, <3>2, <3>4
  <2>4. QED  BY <2>2, <2>3
<1>5. ASSUME NEW p \in 1 .. c
      PROVE  /\ pages[p] = VisibleRows(rows, p - 1)
             /\ pages[p] \in Seq(S) /\ Len(pages[p]) \in 0 .. PageSize /\ (n > 0 => Len(pages[p]) > 0)
             /\ DOMAIN pages[p] = 1 .. Len(pages[p])
             /\ (p - 1) * PageSize \in Nat
             /\ \A k \in 1 .. Len(pages[p]) : at(p, k) \in 1 .. n /\ pages[p][k] = list[at(p, k)]
             /\ \A k \in 1 .. PageSize : at(p, k) \in 1 .. n => k \in 1 .. Len(pages[p])
  <2>1. pages[p] = VisibleRows(rows, p - 1)
    OBVIOUS
  <2>2. PICK q \in 0 .. PageCount(n) - 1 : q = p - 1
    BY <1>4
  <2> HIDE DEF pages, S
  <2>3. LET V == VisibleRows(rows, q)
        IN  /\ V \in Seq(S) /\ Len(V) \in 0 .. PageSize /\ (n > 0 => Len(V) > 0)
            /\ q * PageSize \in Nat
            /\ \A k \in 1 .. Len(V) : q * PageSize + k \in 1 .. n /\ V[k] = Listed(rows)[q * PageSize + k]
            /\ \A k \in 1 .. PageSize : q * PageSize + k \in 1 .. n => k \in 1 .. Len(V)
    BY <1>1, VisiblePage
  <2>4. pages[p] = VisibleRows(rows, q)
    BY <2>1, <2>2
  <2>5. pages[p] \in Seq(S)
    BY <2>3, <2>4
  <2>6. DOMAIN pages[p] = 1 .. Len(pages[p])
    BY <2>5, LenProperties
  <2>7. QED  BY <2>1, <2>2, <2>3, <2>4, <2>5, <2>6
<1>6. \A i, j \in 1 .. n : list[i] = list[j] => i = j
  <2> SUFFICES ASSUME NEW i \in 1 .. n, NEW j \in 1 .. n, i < j, list[i] = list[j]
               PROVE  FALSE
    BY <1>1
  <2>1. Precedes(list[i], list[i]) /\ list[i] \in S
    BY <1>1
  <2>2. list[i].id \in Nat
    BY <1>3, <2>1
  <2>3. QED  BY <2>1, <2>2 DEF Precedes
<1> HIDE DEF pages, list, c
<1>7. DOMAIN pages = 1 .. c
  BY DEF pages
<1>8. ASSUME NEW i \in 1 .. c, NEW j \in 1 .. c, i < j,
             NEW k \in 1 .. Len(pages[i]), NEW l \in 1 .. Len(pages[j])
      PROVE  at(i, k) < at(j, l)
  <2>1. (i - 1) * PageSize + PageSize <= (j - 1) * PageSize
    <3>1. i - 1 \in Nat /\ j - 1 \in Nat /\ i - 1 < j - 1
      BY <1>4, <1>8
    <3>2. QED  BY <1>4, <3>1, ProductGrows
  <2>2. (i - 1) * PageSize \in Nat /\ (j - 1) * PageSize \in Nat
    BY <1>5
  <2>3. k <= PageSize /\ k \in Nat /\ l \in Nat /\ l > 0
    <3>1. Len(pages[i]) \in 0 .. PageSize /\ Len(pages[j]) \in 0 .. PageSize
      BY <1>5
    <3>2. QED  BY <1>4, <3>1
  <2>4. QED  BY <1>4, <2>1, <2>2, <2>3
<1>9. ASSUME NEW r \in rows, r.found
      PROVE  \E p \in DOMAIN pages, k \in 1 .. PageSize :
               /\ k \in DOMAIN pages[p] /\ pages[p][k] = r
               /\ \A q \in DOMAIN pages : \A l \in DOMAIN pages[q] :
                    pages[q][l] = r => q = p /\ l = k
  <2>1. PICK i \in 1 .. n : list[i] = r
    BY <1>1, <1>9
  <2>2. PICK b \in 0 .. PageCount(n) - 1 : \E k \in 1 .. PageSize : i = b * PageSize + k
    BY PlaceOfRow
  <2>3. PICK k \in 1 .. PageSize : i = b * PageSize + k
    BY <2>2
  <2>4. PICK p \in 1 .. c : b = p - 1
    <3>1. b + 1 \in 1 .. c /\ b = (b + 1) - 1
      BY <1>4 DEF c
    <3>2. QED  BY <3>1
  <2>5. at(p, k) = i
    BY <2>3, <2>4
  <2>6. k \in 1 .. Len(pages[p]) /\ pages[p][k] = r
    BY <1>5, <2>1, <2>5
  <2>7. ASSUME NEW q \in 1 .. c, NEW l \in 1 .. Len(pages[q]), pages[q][l] = r
        PROVE  q = p /\ l = k
    <3>1. at(q, l) = i
      <4>1. at(q, l) \in 1 .. n /\ pages[q][l] = list[at(q, l)]
        BY <1>5
      <4> HIDE DEF at
      <4>2. QED  BY <1>6, <2>1, <2>7, <4>1
    <3>2. q = p
      <4>1. ~(q < p)
        BY <1>8, <2>5, <2>6, <3>1
      <4>2. ~(p < q)
        BY <1>8, <2>5, <2>6, <3>1
      <4>3. QED  BY <1>4, <4>1, <4>2
    <3>3. (p - 1) * PageSize \in Nat /\ Len(pages[p]) \in Nat
      <4>1. Len(pages[p]) \in 0 .. PageSize
        BY <1>5
      <4>2. QED  BY <1>4, <1>5, <4>1
    <3>4. (p - 1) * PageSize + l = (p - 1) * PageSize + k
      BY <2>5, <3>1, <3>2
    <3>5. l \in Nat /\ k \in Nat
      BY <1>4, <3>2, <3>3
    <3>6. QED  BY <3>2, <3>3, <3>4, <3>5
  <2>8. k \in DOMAIN pages[p] /\ pages[p][k] = r
    BY <1>5, <2>6
  <2>9. \A q \in DOMAIN pages : \A l \in DOMAIN pages[q] : pages[q][l] = r => q = p /\ l = k
    BY <1>5, <1>7, <2>7
  <2>10. QED  BY <1>7, <2>8, <2>9
<1>10. ASSUME NEW i \in DOMAIN pages, NEW j \in DOMAIN pages, NEW a \in ToSet(pages[i]), NEW b \in ToSet(pages[j]),
              i < j, b.beacon
       PROVE  a.beacon
  <2>1. PICK k \in 1 .. Len(pages[i]) : pages[i][k] = a
    BY <1>5, <1>7 DEF ToSet
  <2>2. PICK l \in 1 .. Len(pages[j]) : pages[j][l] = b
    BY <1>5, <1>7 DEF ToSet
  <2>3. at(i, k) \in 1 .. n /\ at(j, l) \in 1 .. n /\ a = list[at(i, k)] /\ b = list[at(j, l)]
    BY <1>5, <1>7, <2>1, <2>2
  <2>4. at(i, k) < at(j, l)
    BY <1>7, <1>8, <1>10
  <2>5. Precedes(a, b)
    BY <1>1, <2>3, <2>4
  <2>6. a \in S /\ b \in S
    BY <1>1, <2>3
  <2>7. a.beacon \in BOOLEAN /\ b.beacon \in BOOLEAN
    BY <1>3, <2>6
  <2>8. QED  BY <1>10, <2>5, <2>7, Zenon DEF Precedes
<1> DEFINE visible == VisibleRows(rows, page)
<1>11. \E p \in 1 .. c : visible = pages[p]
  <2> DEFINE q == SafePage(page, n)
  <2>1. q \in 0 .. c - 1 /\ SafePage(q, n) = q
    BY <1>4 DEF SafePage, c
  <2>2. visible = VisibleRows(rows, q)
    BY <1>2, <2>1 DEF VisibleRows, list
  <2> HIDE DEF q
  <2>3. PICK p \in 1 .. c : q = p - 1
    <3>1. q + 1 \in 1 .. c /\ q = (q + 1) - 1
      BY <1>4, <2>1
    <3>2. QED  BY <3>1
  <2>4. visible = pages[p]
    BY <1>5, <2>2, <2>3
  <2>5. QED  BY <2>4
<1>12. visible \in ToSet(pages)
  BY <1>7, <1>11 DEF ToSet
<1>13. list # <<>> => visible # <<>>
  <2> HIDE DEF visible
  <2>1. PICK p \in 1 .. c : visible = pages[p]
    BY <1>11
  <2>2. list # <<>> => n > 0
    BY <1>2
  <2>3. n > 0 => Len(visible) > 0
    BY <1>5, <2>1
  <2>4. QED  BY <2>2, <2>3
<1>14. pages = [p \in 1 .. PageCount(Len(list)) |-> VisibleRows(rows, p - 1)]
  BY <1>2 DEF pages, c
<1> HIDE DEF visible
<1>15. PagesAreTrue(rows, visible)
  BY <1>9, <1>10, <1>12, <1>13, <1>14 DEF PagesAreTrue, list
<1>16. QED  BY <1>15 DEF visible

-----------------------------------------------------------------------------
(* What the lists show, in every reachable state *)

LEMMA StreamsAreStreams ==
  ASSUME NEW dir \in Directions, NEW s \in Streams(dir)
  PROVE  IsStream(s, dir)
<1>1. PICK n \in 0 .. MaxStream : s \in {StreamOf(dir, ms, match) : ms \in Rising(n), match \in SUBSET (1 .. n)}
  BY DEF Streams
<1>2. PICK ms \in Rising(n) : \E match \in SUBSET (1 .. n) : s = StreamOf(dir, ms, match)
  BY <1>1
<1>3. PICK match \in SUBSET (1 .. n) : s = StreamOf(dir, ms, match)
  BY <1>2
<1>4. n \in Nat /\ ms \in [1 .. n -> 0 .. LastMs] /\ \A i, j \in 1 .. n : i < j => ms[i] <= ms[j]
  BY <1>1, <1>2, ViewsAssumption DEF Rising
<1>5. ASSUME NEW i \in 1 .. n
      PROVE  s[i] \in Message /\ s[i].dir = dir /\ s[i].seq = i /\ s[i].ms = ms[i]
  <2>1. s[i] = [dir |-> dir, seq |-> i, ms |-> ms[i], match |-> i \in match]
    BY <1>3, <1>4 DEF StreamOf
  <2>2. i \in Nat /\ ms[i] \in Nat /\ (i \in match) \in BOOLEAN
    BY <1>4
  <2>3. QED  BY <2>1, <2>2 DEF Message
<1>6. s \in [1 .. n -> Message]
  BY <1>3, <1>4, <1>5 DEF StreamOf
<1>7. s \in Seq(Message) /\ Len(s) = n
  BY <1>4, <1>6
<1>8. QED  BY <1>4, <1>5, <1>7 DEF IsStream

\* A history request, and the request with its answer
HistoryRecord(kind, up, down, count, filtered, answer) ==
  [kind |-> kind, up |-> up, down |-> down, count |-> count, filtered |-> filtered, answer |-> answer]

ListRecord(kind, page, visible, rows) ==
  [kind |-> kind, page |-> page, visible |-> visible, rows |-> rows]

\* The invariant: what was asked for is as it was, and what is answered is
\* computed from it.
ViewsInv ==
  \/ \E rhs \in Texts : view = [kind |-> "filter", rhs |-> rhs]
  \/ \E rhs \in Texts : view = [kind |-> "filtered", rhs |-> rhs, sent |-> FilterQuery(TypedFilter(rhs))]
  \/ \E up, down : \E count \in Nat, f \in BOOLEAN :
       /\ IsStream(up, "fw2mobile") /\ IsStream(down, "mobile2fw")
       /\ \/ view = HistoryRecord("history", up, down, count, f, <<>>)
          \/ view = HistoryRecord("read", up, down, count, f, HistoryAnswer(up, down, count, f))
  \/ \E rows : \E page \in Nat :
       /\ AreRows(rows)
       /\ \/ view = ListRecord("list", page, <<>>, rows)
          \/ view = ListRecord("shown", page, VisibleRows(rows, page), rows)

LEMMA ViewsInitial == ViewsInit => ViewsInv
<1>1. ASSUME NEW up \in Streams("fw2mobile"), NEW down \in Streams("mobile2fw"), NEW n \in 1 .. MaxCount, NEW f \in BOOLEAN,
             view = [kind |-> "history", up |-> up, down |-> down, count |-> n, filtered |-> f, answer |-> <<>>]
      PROVE  ViewsInv
  <2>1. IsStream(up, "fw2mobile") /\ IsStream(down, "mobile2fw")
    BY StreamsAreStreams DEF Directions
  <2>2. n \in Nat
    BY ViewsAssumption
  <2>3. view = HistoryRecord("history", up, down, n, f, <<>>)
    BY <1>1 DEF HistoryRecord
  <2>4. QED  BY <2>1, <2>2, <2>3 DEF ViewsInv
<1>2. ASSUME NEW beacon \in [1 .. MaxRows -> BOOLEAN], NEW found \in [1 .. MaxRows -> BOOLEAN], NEW page \in 0 .. MaxRows,
             view = [kind |-> "list", page |-> page, visible |-> <<>>,
                     rows |-> {[id |-> i, beacon |-> beacon[i], found |-> found[i]] : i \in 1 .. MaxRows}]
      PROVE  ViewsInv
  <2> DEFINE row == [i \in 1 .. MaxRows |-> [id |-> i, beacon |-> beacon[i], found |-> found[i]]]
             rows == {row[i] : i \in 1 .. MaxRows}
  <2>1. MaxRows \in Nat /\ page \in Nat
    BY ViewsAssumption
  <2>2. view = ListRecord("list", page, <<>>, rows)
    BY <1>2 DEF ListRecord
  <2>3. \A i \in 1 .. MaxRows : row[i].id = i /\ row[i].beacon = beacon[i]
    OBVIOUS
  <2>4. DOMAIN row = 1 .. MaxRows
    OBVIOUS
  <2> HIDE DEF row
  <2>5. IsFiniteSet(rows)
    BY <2>1, <2>4, ElementsFinite
  <2>6. AreRows(rows)
    <3>1. \A r \in rows : r.id \in Nat /\ r.beacon \in BOOLEAN
      BY <2>1, <2>3
    <3>2. \A a, b \in rows : a.id = b.id => a = b
      BY <2>3
    <3> HIDE DEF rows
    <3>3. QED  BY <2>5, <3>1, <3>2 DEF AreRows
  <2> HIDE DEF rows
  <2>7. QED  BY <2>1, <2>2, <2>6 DEF ViewsInv
<1>3. QED  BY <1>1, <1>2 DEF ViewsInit, ViewsInv

LEMMA ViewsStep == ViewsInv /\ [ViewsNext]_view => ViewsInv'
<1> SUFFICES ASSUME ViewsInv, [ViewsNext]_view
             PROVE  ViewsInv'
  OBVIOUS
<1>1. CASE SendFilter
  <2>1. PICK rhs \in Texts : view = [kind |-> "filter", rhs |-> rhs]
    BY <1>1 DEF ViewsInv, SendFilter, HistoryRecord, ListRecord
  <2>2. view' = [kind |-> "filtered", rhs |-> rhs, sent |-> FilterQuery(TypedFilter(rhs))]
    BY <1>1, <2>1 DEF SendFilter
  <2>3. QED  BY <2>2 DEF ViewsInv
<1>2. CASE ReadHistory
  <2>1. \E up, down : \E count \in Nat, f \in BOOLEAN :
          /\ IsStream(up, "fw2mobile") /\ IsStream(down, "mobile2fw")
          /\ view = HistoryRecord("history", up, down, count, f, <<>>)
    BY <1>2 DEF ViewsInv, ReadHistory, HistoryRecord, ListRecord
  <2>2. PICK up, down : \E count \in Nat, f \in BOOLEAN :
          /\ IsStream(up, "fw2mobile") /\ IsStream(down, "mobile2fw")
          /\ view = HistoryRecord("history", up, down, count, f, <<>>)
    BY <2>1
  <2>3. PICK count \in Nat, f \in BOOLEAN :
          /\ IsStream(up, "fw2mobile") /\ IsStream(down, "mobile2fw")
          /\ view = HistoryRecord("history", up, down, count, f, <<>>)
    BY <2>2
  <2>4. view' = HistoryRecord("read", up, down, count, f, HistoryAnswer(up, down, count, f))
    BY <1>2, <2>3 DEF ReadHistory, HistoryRecord
  <2>5. QED  BY <2>3, <2>4 DEF ViewsInv
<1>3. CASE ShowList
  <2>1. \E rows : \E page \in Nat : AreRows(rows) /\ view = ListRecord("list", page, <<>>, rows)
    BY <1>3 DEF ViewsInv, ShowList, HistoryRecord, ListRecord
  <2>2. PICK rows : \E page \in Nat : AreRows(rows) /\ view = ListRecord("list", page, <<>>, rows)
    BY <2>1
  <2>3. PICK page \in Nat : AreRows(rows) /\ view = ListRecord("list", page, <<>>, rows)
    BY <2>2
  <2>4. view' = ListRecord("shown", page, VisibleRows(rows, page), rows)
    BY <1>3, <2>3 DEF ShowList, ListRecord
  <2>5. QED  BY <2>3, <2>4 DEF ViewsInv
<1>4. CASE UNCHANGED view
  BY <1>4 DEF ViewsInv
<1>5. QED  BY <1>1, <1>2, <1>3, <1>4 DEF ViewsNext

LEMMA ViewsInvariant == ViewsSpec => []ViewsInv
<1>1. QED  BY ViewsInitial, ViewsStep, PTL DEF ViewsSpec

\* The query that is sent selects what the typed text selects: "what you type
\* here maps 1:1 to backend filtering", with the two exceptions it has.
THEOREM FiltersSurvive == ViewsSpec => []FilterSurvives
<1>1. ViewsInv => FilterSurvives
  <2> SUFFICES ASSUME ViewsInv, view.kind = "filtered",
                      ~(view.rhs[1] = "exists" /\ Len(view.rhs) > 1),
                      ~(view.rhs[1] = "eq" /\ Len(view.rhs) > 1 /\ view.rhs[2] \in Ops)
               PROVE  Selected(view.sent) = Selected(view.rhs)
    BY DEF FilterSurvives
  <2>1. PICK rhs \in Texts : view = [kind |-> "filtered", rhs |-> rhs, sent |-> FilterQuery(TypedFilter(rhs))]
    BY DEF ViewsInv, HistoryRecord, ListRecord
  <2>2. rhs \in Seq(Parts) /\ rhs # <<>>
    BY TextFacts
  <2>3. view.rhs = rhs /\ view.sent = FilterQuery(TypedFilter(rhs))
    BY <2>1
  <2>4. ParamFilter(FilterQuery(TypedFilter(rhs))) = ParamFilter(rhs)
    BY <2>2, <2>3, QueryKeepsFilter
  <2>5. QED  BY <2>3, <2>4 DEF Selected
<1>2. QED  BY <1>1, ViewsInvariant, PTL

\* A history is the newest messages, and a list is cut into pages where no
\* machine is lost, repeated or out of place.
THEOREM ListsTrue == ViewsSpec => []ListsAreTrue
<1>1. ViewsInv => HistoryIsNewest
  <2> SUFFICES ASSUME ViewsInv, view.kind = "read"
               PROVE  HistoryIsNewest
    BY DEF HistoryIsNewest
  <2>1. \E up, down : \E count \in Nat, f \in BOOLEAN :
          /\ IsStream(up, "fw2mobile") /\ IsStream(down, "mobile2fw")
          /\ view = HistoryRecord("read", up, down, count, f, HistoryAnswer(up, down, count, f))
    BY DEF ViewsInv, HistoryRecord, ListRecord
  <2>2. PICK up, down : \E count \in Nat, f \in BOOLEAN :
          /\ IsStream(up, "fw2mobile") /\ IsStream(down, "mobile2fw")
          /\ view = HistoryRecord("read", up, down, count, f, HistoryAnswer(up, down, count, f))
    BY <2>1
  <2>3. PICK count \in Nat, f \in BOOLEAN :
          /\ IsStream(up, "fw2mobile") /\ IsStream(down, "mobile2fw")
          /\ view = HistoryRecord("read", up, down, count, f, HistoryAnswer(up, down, count, f))
    BY <2>2
  <2>4. /\ view.up = up /\ view.down = down /\ view.count = count /\ view.filtered = f
        /\ view.answer = HistoryAnswer(up, down, count, f)
    BY <2>3 DEF HistoryRecord
  <2>5. Newest(up, down, count, f, view.answer)
    BY <2>3, <2>4, HistoryTrue
  <2>6. Newest(view.up, view.down, view.count, view.filtered, view.answer)
    BY <2>4, <2>5
  <2>7. QED  BY <2>6 DEF HistoryIsNewest, Newest, Older
<1>2. ViewsInv => PageIsShown
  <2> SUFFICES ASSUME ViewsInv, view.kind = "shown"
               PROVE  PageIsShown
    BY DEF PageIsShown
  <2>1. \E rows : \E page \in Nat : AreRows(rows) /\ view = ListRecord("shown", page, VisibleRows(rows, page), rows)
    BY DEF ViewsInv, HistoryRecord, ListRecord
  <2>2. PICK rows : \E page \in Nat : AreRows(rows) /\ view = ListRecord("shown", page, VisibleRows(rows, page), rows)
    BY <2>1
  <2>3. PICK page \in Nat : AreRows(rows) /\ view = ListRecord("shown", page, VisibleRows(rows, page), rows)
    BY <2>2
  <2>4. view.rows = rows /\ view.visible = VisibleRows(rows, page)
    BY <2>3 DEF ListRecord
  <2>5. PagesAreTrue(view.rows, view.visible)
    BY <2>3, <2>4, ListTrue
  <2>6. QED  BY <2>5 DEF PageIsShown, PagesAreTrue
<1>3. ViewsInv => ListsAreTrue
  BY <1>1, <1>2 DEF ListsAreTrue
<1>4. QED  BY <1>3, ViewsInvariant, PTL

-----------------------------------------------------------------------------
(* The binary search of the strip *)

LEMMA Extremes ==
  ASSUME NEW S, IsFiniteSet(S), S \subseteq Int, S # {}
  PROVE  /\ Max(S) \in S /\ \A x \in S : x <= Max(S)
         /\ Min(S) \in S /\ \A x \in S : Min(S) <= x
<1> DEFINE f == Ascending(S)
           n == Cardinality(S)
<1>1. /\ n \in Nat /\ f \in [1 .. n -> S]
      /\ \A x \in S : \E i \in DOMAIN f : f[i] = x
      /\ \A i, j \in DOMAIN f : i < j <=> f[i] < f[j]
  BY AscendingLists
<1> HIDE DEF f, n
<1>2. DOMAIN f = 1 .. n /\ n > 0
  <2>1. PICK x \in S : TRUE
    OBVIOUS
  <2>2. PICK i \in DOMAIN f : f[i] = x
    BY <1>1
  <2>3. DOMAIN f = 1 .. n
    BY <1>1
  <2>4. QED  BY <1>1, <2>2, <2>3
<1>3. \A i \in 1 .. n : f[i] \in S /\ f[i] \in Int
  BY <1>1
<1>4. \A i \in 1 .. n : f[i] <= f[n] /\ f[1] <= f[i]
  <2>1. 1 \in 1 .. n /\ n \in 1 .. n
    BY <1>1, <1>2
  <2>2. \A i \in 1 .. n : ~(n < i) /\ ~(i < 1)
    BY <1>1
  <2>3. \A i \in 1 .. n : ~(f[n] < f[i]) /\ ~(f[i] < f[1])
    BY <1>1, <1>2, <2>1, <2>2
  <2>4. QED  BY <1>3, <2>1, <2>3
<1>5. \E x \in S : \A y \in S : x >= y
  BY <1>1, <1>2, <1>3, <1>4
<1>6. \E x \in S : \A y \in S : x =< y
  BY <1>1, <1>2, <1>3, <1>4
<1>7. Max(S) \in S /\ \A y \in S : Max(S) >= y
  BY <1>5 DEF Max
<1>8. Min(S) \in S /\ \A y \in S : Min(S) =< y
  BY <1>6 DEF Min
<1>9. QED  BY <1>7, <1>8

\* A series: samples at increasing instants
IsSeries(points) ==
  /\ Len(points) \in Nat
  /\ \A i \in 1 .. Len(points) : points[i].t \in Int
  /\ \A i, j \in 1 .. Len(points) : i < j => points[i].t < points[j].t

\* The samples up to the one at r are those not after t.
IsLatest(r, points, t) ==
  /\ r \in 0 .. Len(points)
  /\ \A i \in 1 .. r : points[i].t <= t
  /\ \A i \in r + 1 .. Len(points) : points[i].t > t

\* What the loop does in one round, with f for the rounds after it
Round(points, t, f, s) ==
  LET mid == (s[1] + s[2]) \div 2
  IN  IF s[1] > s[2] THEN s[3]
      ELSE IF points[mid].t <= t THEN f[<<mid + 1, s[2], mid>>]
      ELSE f[<<s[1], mid - 1, s[3]>>]

\* A round leaves fewer samples to search.
LEMMA RoundFacts ==
  ASSUME NEW n \in Nat, NEW lo \in 1 .. n + 1, NEW hi \in 0 .. n, NEW found \in 0 .. n, lo <= hi
  PROVE  LET mid == (lo + hi) \div 2
         IN  /\ mid \in lo .. hi /\ mid \in 1 .. n
             /\ <<mid + 1, hi, mid>> \in Limits(n) /\ <<lo, mid - 1, found>> \in Limits(n)
             /\ hi - (mid + 1) < hi - lo /\ (mid - 1) - lo < hi - lo
<1> DEFINE mid == (lo + hi) \div 2
<1>1. lo \in Int /\ hi \in Int /\ lo >= 1 /\ hi <= n
  OBVIOUS
<1>2. mid \in Int /\ lo <= mid /\ mid <= hi
  BY <1>1
<1> HIDE DEF mid
<1>3. mid \in 1 .. n /\ mid + 1 \in 1 .. n + 1 /\ mid - 1 \in 0 .. n
  BY <1>1, <1>2
<1>4. mid \in 0 .. n
  BY <1>3
<1>5. <<mid + 1, hi, mid>> \in Limits(n) /\ <<lo, mid - 1, found>> \in Limits(n)
  BY <1>3, <1>4 DEF Limits
<1>6. mid \in lo .. hi
  BY <1>1, <1>2
<1>7. hi - (mid + 1) < hi - lo /\ (mid - 1) - lo < hi - lo
  BY <1>1, <1>2
<1>8. QED  BY <1>3, <1>5, <1>6, <1>7 DEF mid

\* The states of the loop with at most k samples to search
Within(n, k) == {s \in Limits(n) : s[2] - s[1] < k}

\* The recursion is well founded: the function exists.  The proof takes the
\* least number of samples for which there would be none.
LEMMA SearchExists ==
  ASSUME NEW points, Len(points) \in Nat, NEW t
  PROVE  \E f : f = [s \in Limits(Len(points)) |-> Round(points, t, f, s)]
<1> DEFINE n == Len(points)
           Solves(f, k) == f = [s \in Within(n, k) |-> Round(points, t, f, s)]
           Bad == {k \in 0 .. n : ~\E f : Solves(f, k)}
<1>1. ASSUME NEW s \in Limits(n)
      PROVE  \E lo \in 1 .. n + 1, hi \in 0 .. n, found \in 0 .. n : s = <<lo, hi, found>>
  BY DEF Limits
<1>2. \E f : Solves(f, 0)
  <2> DEFINE f == [s \in Within(n, 0) |-> s[3]]
  <2>1. \A s \in Within(n, 0) : s[1] > s[2]
    BY <1>1 DEF Within
  <2>2. \A s \in Within(n, 0) : Round(points, t, f, s) = s[3]
    BY <2>1 DEF Round
  <2>3. f = [s \in Within(n, 0) |-> Round(points, t, f, s)]
    BY <2>2
  <2> HIDE DEF f
  <2>4. QED  BY <2>3
<1>3. ASSUME NEW k \in 0 .. n - 1, \E f : Solves(f, k)
      PROVE  \E f : Solves(f, k + 1)
  <2>1. PICK f : Solves(f, k)
    BY <1>3
  <2> DEFINE g == [s \in Within(n, k + 1) |-> IF s \in Within(n, k) THEN f[s] ELSE Round(points, t, f, s)]
  <2>2. ASSUME NEW s \in Within(n, k)
        PROVE  s \in Within(n, k + 1) /\ g[s] = f[s]
    <3>1. s \in Within(n, k + 1)
      BY <1>1 DEF Within
    <3>2. QED  BY <3>1
  <2>3. ASSUME NEW s \in Within(n, k + 1)
        PROVE  Round(points, t, g, s) = Round(points, t, f, s)
    <3>1. PICK lo \in 1 .. n + 1, hi \in 0 .. n, found \in 0 .. n : s = <<lo, hi, found>>
      BY <1>1 DEF Within
    <3>2. hi - lo < k + 1
      BY <3>1 DEF Within
    <3>3. CASE lo > hi
      BY <3>1, <3>3 DEF Round
    <3>4. CASE ~(lo > hi)
      <4> DEFINE mid == (lo + hi) \div 2
                 up == <<mid + 1, hi, mid>>
                 down == <<lo, mid - 1, found>>
      <4>1. /\ mid \in 1 .. n /\ up \in Limits(n) /\ down \in Limits(n)
            /\ hi - (mid + 1) < hi - lo /\ (mid - 1) - lo < hi - lo
        <5>1. lo <= hi
          BY <3>4
        <5>2. QED  BY <5>1, RoundFacts
      <4>2. up[1] = mid + 1 /\ up[2] = hi /\ down[1] = lo /\ down[2] = mid - 1
        OBVIOUS
      <4>3. Round(points, t, g, s) = IF points[mid].t <= t THEN g[up] ELSE g[down]
        BY <3>1, <3>4 DEF Round
      <4>4. Round(points, t, f, s) = IF points[mid].t <= t THEN f[up] ELSE f[down]
        BY <3>1, <3>4 DEF Round
      <4> HIDE DEF mid, up, down
      <4>5. up \in Within(n, k) /\ down \in Within(n, k)
        <5>1. up[2] - up[1] < k /\ down[2] - down[1] < k
          BY <3>2, <4>1, <4>2
        <5>2. QED  BY <4>1, <5>1 DEF Within
      <4>6. g[up] = f[up] /\ g[down] = f[down]
        BY <2>2, <4>5
      <4>7. QED  BY <4>3, <4>4, <4>6
    <3>5. QED  BY <3>3, <3>4
  <2>4. ASSUME NEW s \in Within(n, k + 1)
        PROVE  g[s] = Round(points, t, f, s)
    BY <2>1
  <2>5. g = [s \in Within(n, k + 1) |-> g[s]]
    OBVIOUS
  <2> HIDE DEF g
  <2>6. g = [s \in Within(n, k + 1) |-> Round(points, t, g, s)]
    BY <2>3, <2>4, <2>5
  <2>7. QED  BY <2>6
<1>4. Bad = {}
  <2> SUFFICES ASSUME Bad # {}
               PROVE  FALSE
    OBVIOUS
  <2>1. IsFiniteSet(Bad) /\ Bad \subseteq Int
    <3>1. IsFiniteSet(0 .. n) /\ Bad \subseteq 0 .. n
      BY FS_Interval
    <3>2. QED  BY <3>1, FS_Subset
  <2> DEFINE k == Min(Bad)
  <2>2. k \in Bad /\ \A x \in Bad : k <= x
    <3> HIDE DEF Bad
    <3> QED  BY <2>1, Extremes
  <2> HIDE DEF k
  <2>3. k \in 0 .. n /\ ~\E f : Solves(f, k)
    BY <2>2
  <2>4. k # 0
    BY <1>2, <2>3
  <2>5. PICK j \in 0 .. n - 1 : k = j + 1
    <3>1. k - 1 \in 0 .. n - 1 /\ k = (k - 1) + 1
      BY <2>3, <2>4
    <3>2. QED  BY <3>1
  <2>6. j \notin Bad /\ j \in 0 .. n
    BY <2>2, <2>5
  <2>7. \E f : Solves(f, j)
    BY <2>6
  <2>8. \E f : Solves(f, j + 1)
    BY <1>3, <2>7
  <2>9. QED  BY <2>3, <2>5, <2>8
<1>5. PICK f : Solves(f, n)
  BY <1>4
<1>6. Within(n, n) = Limits(n)
  <2>1. \A s \in Limits(n) : s[2] - s[1] < n
    BY <1>1
  <2>2. QED  BY <2>1 DEF Within
<1>7. QED  BY <1>5, <1>6

\* Between two rounds: what is before lo is not after t, what is after hi is,
\* and the last sample before lo was found.
Narrowed(s, points, t) ==
  /\ s[3] = s[1] - 1 /\ s[1] <= s[2] + 1
  /\ \A i \in 1 .. s[1] - 1 : points[i].t <= t
  /\ \A i \in s[2] + 1 .. Len(points) : points[i].t > t

LEMMA SearchFacts ==
  ASSUME NEW points, IsSeries(points), NEW t \in Int,
         NEW s \in Limits(Len(points)), Narrowed(s, points, t)
  PROVE  IsLatest(Search(points, t)[s], points, t)
<1> DEFINE n == Len(points)
           f == Search(points, t)
<1>1. n \in Nat /\ \A i \in 1 .. n : points[i].t \in Int
  BY DEF IsSeries
<1>2. f = [x \in Limits(n) |-> Round(points, t, f, x)]
  <2>1. f = CHOOSE g : g = [x \in Limits(n) |-> Round(points, t, g, x)]
    BY DEF Search, Round
  <2>2. \E g : g = [x \in Limits(n) |-> Round(points, t, g, x)]
    BY <1>1, SearchExists
  <2> HIDE DEF f
  <2>3. QED  BY <2>1, <2>2
<1> HIDE DEF f
<1>3. ASSUME NEW x \in Limits(n)
      PROVE  /\ f[x] = Round(points, t, f, x)
             /\ \E lo \in 1 .. n + 1, hi \in 0 .. n, found \in 0 .. n : x = <<lo, hi, found>>
  BY <1>2 DEF Limits
<1> DEFINE Wrong(k) == \E x \in Limits(n) : x[2] - x[1] + 1 = k /\ Narrowed(x, points, t) /\ ~IsLatest(f[x], points, t)
           Bad == {k \in 0 .. n : Wrong(k)}
<1>4. Bad = {}
  <2> SUFFICES ASSUME Bad # {}
               PROVE  FALSE
    OBVIOUS
  <2>1. IsFiniteSet(Bad) /\ Bad \subseteq Int
    <3>1. IsFiniteSet(0 .. n) /\ Bad \subseteq 0 .. n
      <4>1. \A j \in Nat : IsFiniteSet(0 .. j)
        BY FS_Interval
      <4>2. QED  BY <1>1, <4>1
    <3>2. QED  BY <3>1, FS_Subset
  <2> DEFINE k == Min(Bad)
  <2>2. k \in Bad /\ \A j \in Bad : k <= j
    <3> HIDE DEF Bad
    <3> QED  BY <2>1, Extremes
  <2> HIDE DEF k
  <2>3. PICK x \in Limits(n) : x[2] - x[1] + 1 = k /\ Narrowed(x, points, t) /\ ~IsLatest(f[x], points, t)
    BY <2>2
  <2>4. PICK lo \in 1 .. n + 1, hi \in 0 .. n, found \in 0 .. n : x = <<lo, hi, found>>
    BY <1>3
  <2>5. /\ hi - lo + 1 = k /\ found = lo - 1 /\ lo <= hi + 1
        /\ \A i \in 1 .. lo - 1 : points[i].t <= t
        /\ \A i \in hi + 1 .. n : points[i].t > t
    BY <2>3, <2>4 DEF Narrowed
  <2>6. CASE lo > hi
    <3>1. f[x] = found
      BY <1>3, <2>4, <2>6 DEF Round
    <3>2. found = hi
      BY <1>1, <2>5, <2>6
    <3>3. IsLatest(found, points, t)
      BY <2>5, <3>2 DEF IsLatest
    <3>4. QED  BY <2>3, <3>1, <3>3
  <2>7. CASE ~(lo > hi)
    <3> DEFINE mid == (lo + hi) \div 2
               up == <<mid + 1, hi, mid>>
               down == <<lo, mid - 1, found>>
    <3>1. /\ mid \in 1 .. n /\ up \in Limits(n) /\ down \in Limits(n) /\ mid \in lo .. hi
          /\ hi - (mid + 1) < hi - lo /\ (mid - 1) - lo < hi - lo
      <4>1. lo <= hi
        BY <2>7
      <4>2. QED  BY <1>1, <4>1, RoundFacts
    <3>2. up[1] = mid + 1 /\ up[2] = hi /\ up[3] = mid /\ down[1] = lo /\ down[2] = mid - 1 /\ down[3] = found
      OBVIOUS
    <3>3. f[x] = IF points[mid].t <= t THEN f[up] ELSE f[down]
      BY <1>3, <2>4, <2>7 DEF Round
    <3> HIDE DEF mid, up, down
    <3>4. lo \in Int /\ hi \in Int /\ mid \in Int /\ lo >= 1 /\ hi <= n /\ lo <= mid /\ mid <= hi /\ points[mid].t \in Int
      BY <1>1, <3>1
    <3>5. ASSUME NEW y \in Limits(n), Narrowed(y, points, t), y[2] - y[1] + 1 \in 0 .. n, y[2] - y[1] + 1 < k
          PROVE  IsLatest(f[y], points, t)
      <4>1. PICK j \in 0 .. n : j = y[2] - y[1] + 1
        BY <3>5
      <4>2. j \notin Bad
        BY <2>2, <3>5, <4>1
      <4>3. QED  BY <3>5, <4>1, <4>2
    <3>6. CASE points[mid].t <= t
      <4>1. \A i \in 1 .. mid : points[i].t <= t
        <5>1. ASSUME NEW i \in 1 .. mid
              PROVE  i = mid \/ points[i].t < points[mid].t
          <6>1. i \in 1 .. n /\ mid \in 1 .. n /\ (i = mid \/ i < mid)
            BY <1>1, <3>1, <3>4
          <6>2. QED  BY <6>1 DEF IsSeries
        <5>2. \A i \in 1 .. mid : points[i].t \in Int
          <6>1. \A i \in 1 .. mid : i \in 1 .. n
            BY <1>1, <3>4
          <6>2. QED  BY <1>1, <6>1
        <5>3. points[mid].t \in Int /\ points[mid].t <= t /\ t \in Int
          BY <3>4, <3>6
        <5>4. ASSUME NEW i \in 1 .. mid
              PROVE  points[i].t <= t
          <6>1. CASE i = mid
            BY <5>3, <6>1
          <6>2. CASE points[i].t < points[mid].t
            <7>1. points[i].t \in Int
              BY <5>2
            <7>2. QED  BY <5>3, <6>2, <7>1
          <6>3. QED  BY <5>1, <6>1, <6>2
        <5>5. QED  BY <5>4
      <4>2. Narrowed(up, points, t)
        <5>1. up[3] = up[1] - 1 /\ up[1] <= up[2] + 1 /\ up[1] - 1 = mid
          <6>1. mid + 1 <= hi + 1 /\ (mid + 1) - 1 = mid
            BY <3>4
          <6>2. QED  BY <3>2, <6>1
        <5>2. QED  BY <2>5, <3>2, <4>1, <5>1 DEF Narrowed
      <4>3. up[2] - up[1] + 1 \in 0 .. n /\ up[2] - up[1] + 1 < k
        BY <1>1, <2>5, <3>2, <3>4
      <4>4. IsLatest(f[up], points, t)
        BY <3>1, <3>5, <4>2, <4>3
      <4>5. QED  BY <2>3, <3>3, <3>6, <4>4
    <3>7. CASE ~(points[mid].t <= t)
      <4>1. \A i \in mid .. n : points[i].t > t
        <5>1. ASSUME NEW i \in mid .. n
              PROVE  i = mid \/ points[mid].t < points[i].t
          <6>1. i \in 1 .. n /\ mid \in 1 .. n /\ (i = mid \/ mid < i)
            BY <1>1, <3>1, <3>4
          <6>2. QED  BY <6>1 DEF IsSeries
        <5>2. \A i \in mid .. n : points[i].t \in Int
          <6>1. \A i \in mid .. n : i \in 1 .. n
            BY <1>1, <3>4
          <6>2. QED  BY <1>1, <6>1
        <5>3. points[mid].t \in Int /\ points[mid].t > t
          BY <1>1, <3>4, <3>7
        <5>4. ASSUME NEW i \in mid .. n
              PROVE  points[i].t > t
          <6>1. CASE i = mid
            BY <5>3, <6>1
          <6>2. CASE points[mid].t < points[i].t
            <7>1. points[i].t \in Int /\ t \in Int
              BY <5>2
            <7>2. QED  BY <5>3, <6>2, <7>1
          <6>3. QED  BY <5>1, <6>1, <6>2
        <5>5. QED  BY <5>4
      <4>2. Narrowed(down, points, t)
        <5>1. down[2] + 1 = mid /\ down[1] <= down[2] + 1 /\ down[3] = down[1] - 1 /\ down[1] = lo
          BY <2>5, <3>2, <3>4
        <5>2. QED  BY <2>5, <4>1, <5>1 DEF Narrowed
      <4>3. down[2] - down[1] + 1 \in 0 .. n /\ down[2] - down[1] + 1 < k
        BY <1>1, <2>5, <3>2, <3>4
      <4>4. IsLatest(f[down], points, t)
        BY <3>1, <3>5, <4>2, <4>3
      <4>5. QED  BY <2>3, <3>3, <3>7, <4>4
    <3>8. QED  BY <3>6, <3>7
  <2>8. QED  BY <2>6, <2>7
<1>5. s[2] - s[1] + 1 \in 0 .. n
  <2>1. PICK lo \in 1 .. n + 1, hi \in 0 .. n, found \in 0 .. n : s = <<lo, hi, found>>
    BY <1>3
  <2>2. lo <= hi + 1
    BY <2>1 DEF Narrowed
  <2>3. hi - lo + 1 \in 0 .. n
    BY <1>1, <2>2
  <2>4. QED  BY <2>1, <2>3
<1>6. QED
  <2>1. PICK k \in 0 .. n : k = s[2] - s[1] + 1
    BY <1>5
  <2>2. k \notin Bad
    BY <1>4
  <2>3. QED  BY <2>1, <2>2 DEF f

\* stateAt gives the value of the latest sample at or before t.
LEMMA StateAtFacts ==
  ASSUME NEW points, IsSeries(points), NEW t \in Int
  PROVE  \E r : /\ IsLatest(r, points, t)
                /\ StateAt(points, t) = IF r = 0 THEN Nothing ELSE points[r].v
<1> DEFINE n == Len(points)
           s == <<1, n, 0>>
<1>1. n \in Nat
  BY DEF IsSeries
<1>2. s \in Limits(n)
  BY <1>1 DEF Limits
<1>3. Narrowed(s, points, t)
  BY <1>1 DEF Narrowed
<1>4. IsLatest(Search(points, t)[s], points, t)
  <2> HIDE DEF s
  <2> QED  BY <1>2, <1>3, SearchFacts
<1>5. StateAt(points, t) = IF Search(points, t)[s] = 0 THEN Nothing ELSE points[Search(points, t)[s]].v
  BY DEF StateAt
<1>6. QED  BY <1>4, <1>5

-----------------------------------------------------------------------------
(* The shading and the marks *)

IsSeriesOf(points, V) ==
  /\ IsSeries(points) /\ DOMAIN points = 1 .. Len(points)
  /\ \A i \in 1 .. Len(points) : points[i].v \in V

LEMMA SamplesFacts ==
  ASSUME NEW V, NEW S, IsFiniteSet(S), S \subseteq Int, NEW f \in [S -> V]
  PROVE  IsSeriesOf(Samples(f), V)
<1> DEFINE times == Ascending(S)
           n == Cardinality(S)
           T == [t : S, v : V]
<1>1. /\ n \in Nat /\ times \in [1 .. n -> S]
      /\ \A i, j \in DOMAIN times : i < j <=> times[i] < times[j]
  BY AscendingLists
<1>2. DOMAIN f = S
  OBVIOUS
<1>3. Samples(f) = [i \in DOMAIN times |-> [t |-> times[i], v |-> f[times[i]]]]
  BY <1>2 DEF Samples
<1> HIDE DEF times, n
<1>4. DOMAIN times = 1 .. n /\ \A i \in 1 .. n : times[i] \in S /\ times[i] \in Int /\ f[times[i]] \in V
  BY <1>1
<1>5. Samples(f) \in [1 .. n -> T]
  BY <1>3, <1>4
<1>6. Len(Samples(f)) = n /\ DOMAIN Samples(f) = 1 .. n
  <2> HIDE DEF T
  <2>1. Samples(f) \in Seq(T)
    BY <1>1, <1>5
  <2>2. QED  BY <1>1, <1>5, <2>1, LenProperties
<1>7. \A i \in 1 .. n : Samples(f)[i].t = times[i] /\ Samples(f)[i].v = f[times[i]]
  BY <1>3, <1>4
<1>8. QED  BY <1>1, <1>4, <1>6, <1>7 DEF IsSeriesOf, IsSeries

\* The runs of equal modes: each ends where the next one begins, and the strip
\* shows the mode of the run an instant lies in.
AreSegments(segments, m, points, end) ==
  /\ m \in Nat /\ DOMAIN segments = 1 .. m /\ (m = 0 => segments = <<>>)
  /\ \A i \in 1 .. m : segments[i].from \in Int
  /\ \A i, j \in 1 .. m : i < j => segments[i].from < segments[j].from
  /\ \A i \in 1 .. m : segments[i].to \in Int /\ IF i < m THEN segments[i].to = segments[i + 1].from
                                                ELSE segments[i].to >= end
  /\ \A t \in Int :
       IF StateAt(points, t) = Nothing THEN \A i \in 1 .. m : ~(segments[i].from <= t)
       ELSE \E k \in 1 .. m : /\ segments[k].from <= t /\ segments[k].mode = StateAt(points, t)
                              /\ k < m => t < segments[k + 1].from

LEMMA SegmentFacts ==
  ASSUME NEW points, IsSeriesOf(points, RunModes), NEW end \in Int
  PROVE  AreSegments(ModeSegments(points, end), Len(ModeSegments(points, end)), points, end)
<1> DEFINE n == Len(points)
           I == {i \in DOMAIN points : i = 1 \/ points[i].v # points[i - 1].v}
           starts == RunStarts(points)
           m == Cardinality(I)
           segments == ModeSegments(points, end)
<1>1. /\ n \in Nat /\ DOMAIN points = 1 .. n
      /\ \A i \in 1 .. n : points[i].t \in Int /\ points[i].v \in RunModes
      /\ \A i, j \in 1 .. n : i < j => points[i].t < points[j].t
  BY DEF IsSeriesOf, IsSeries
<1>2. I \subseteq 1 .. n /\ I \subseteq Int /\ IsFiniteSet(I)
  <2>1. IsFiniteSet(1 .. n)
    BY <1>1, FS_Interval
  <2>2. I \subseteq 1 .. n
    BY <1>1
  <2>3. QED  BY <1>1, <2>1, <2>2, FS_Subset
<1>3. /\ m \in Nat /\ starts \in [1 .. m -> I] /\ DOMAIN starts = 1 .. m /\ Len(starts) = m
      /\ \A x \in I : \E i \in 1 .. m : starts[i] = x
      /\ \A i, j \in 1 .. m : i < j <=> starts[i] < starts[j]
  <2>1. starts = Ascending(I)
    BY DEF RunStarts
  <2> HIDE DEF I, starts
  <2>2. /\ m \in Nat /\ starts \in [1 .. m -> I]
        /\ \A x \in I : \E i \in DOMAIN starts : starts[i] = x
        /\ \A i, j \in DOMAIN starts : i < j <=> starts[i] < starts[j]
    BY <1>2, <2>1, AscendingLists
  <2>3. DOMAIN starts = 1 .. m
    BY <2>2
  <2>4. starts \in Seq(I)
    BY <2>2
  <2>5. Len(starts) = m
    BY <2>2, <2>3, <2>4, LenProperties
  <2>6. QED  BY <2>2, <2>3, <2>5
<1>4. \A i \in 1 .. m : starts[i] \in 1 .. n /\ starts[i] \in I
  BY <1>2, <1>3
<1>5. segments = [i \in 1 .. m |->
        [from |-> points[starts[i]].t, mode |-> points[starts[i]].v,
         to |-> IF i < m THEN points[starts[i + 1]].t ELSE Later(end, points[starts[i]].t)]]
  BY <1>3 DEF ModeSegments
<1> DEFINE to(i) == IF i < m THEN points[starts[i + 1]].t ELSE Later(end, points[starts[i]].t)
<1>6. /\ DOMAIN segments = 1 .. m
      /\ \A i \in 1 .. m : /\ segments[i].from = points[starts[i]].t
                           /\ segments[i].mode = points[starts[i]].v
                           /\ segments[i].to = to(i)
  <2>1. segments = [i \in 1 .. m |-> [from |-> points[starts[i]].t, mode |-> points[starts[i]].v, to |-> to(i)]]
    BY <1>5
  <2> HIDE DEF segments, starts, m, to
  <2>2. QED  BY <2>1
<1>7. Len(segments) = m /\ (m = 0 => segments = <<>>)
  <2> DEFINE T == {segments[i] : i \in 1 .. m}
  <2> HIDE DEF segments, m
  <2>1. segments \in [1 .. m -> T]
    BY <1>3, <1>5
  <2> HIDE DEF T
  <2>2. segments \in Seq(T)
    BY <1>3, <2>1
  <2>3. Len(segments) = m
    BY <1>3, <1>6, <2>2, LenProperties
  <2>4. m = 0 => segments = <<>>
    BY <2>2, <2>3, EmptySeq
  <2>5. QED  BY <2>3, <2>4
<1> HIDE DEF I, m, n, starts, segments, to
<1>8. \A i \in 1 .. m : segments[i].from \in Int
  BY <1>1, <1>4, <1>6
<1>9. ASSUME NEW i \in 1 .. m, NEW j \in 1 .. m, i < j
      PROVE  segments[i].from < segments[j].from
  <2>1. starts[i] \in 1 .. n /\ starts[j] \in 1 .. n /\ starts[i] < starts[j]
    BY <1>3, <1>4, <1>9
  <2>2. points[starts[i]].t < points[starts[j]].t
    BY <1>1, <2>1
  <2>3. QED  BY <1>6, <2>2
<1>10. ASSUME NEW i \in 1 .. m
       PROVE  segments[i].to \in Int /\ IF i < m THEN segments[i].to = segments[i + 1].from
                                        ELSE segments[i].to >= end
  <2>1. CASE i < m
    <3>1. i + 1 \in 1 .. m
      BY <1>3, <2>1
    <3>2. segments[i].to = segments[i + 1].from
      BY <1>6, <2>1, <3>1 DEF to
    <3>3. QED  BY <1>8, <2>1, <3>1, <3>2
  <2>2. CASE ~(i < m)
    <3>1. segments[i].to = Later(end, points[starts[i]].t)
      BY <1>6, <2>2 DEF to
    <3>2. points[starts[i]].t \in Int
      BY <1>1, <1>4
    <3>3. QED  BY <2>2, <3>1, <3>2 DEF Later
  <2>3. QED  BY <2>1, <2>2
<1>11. ASSUME NEW t \in Int
       PROVE  IF StateAt(points, t) = Nothing THEN \A i \in 1 .. m : ~(segments[i].from <= t)
              ELSE \E k \in 1 .. m : /\ segments[k].from <= t /\ segments[k].mode = StateAt(points, t)
                                     /\ k < m => t < segments[k + 1].from
  <2>1. PICK r : IsLatest(r, points, t) /\ StateAt(points, t) = IF r = 0 THEN Nothing ELSE points[r].v
    BY StateAtFacts DEF IsSeriesOf
  <2>2. /\ r \in 0 .. n
        /\ \A i \in 1 .. n : i <= r <=> points[i].t <= t
    <3>1. r \in 0 .. n /\ (\A i \in 1 .. r : points[i].t <= t) /\ \A i \in r + 1 .. n : points[i].t > t
      BY <2>1 DEF IsLatest, n
    <3>2. ASSUME NEW i \in 1 .. n
          PROVE  i <= r <=> points[i].t <= t
      <4>1. i \in 1 .. r \/ i \in r + 1 .. n
        BY <1>1, <3>1
      <4>2. i \in 1 .. r => i <= r
        BY <3>1
      <4>3. i \in r + 1 .. n => ~(i <= r)
        BY <3>1
      <4>4. points[i].t > t => ~(points[i].t <= t)
        BY <1>1
      <4>5. QED  BY <3>1, <4>1, <4>2, <4>3, <4>4
    <3>3. QED  BY <3>1, <3>2
  <2>3. CASE r = 0
    <3>1. \A i \in 1 .. n : ~(points[i].t <= t)
      BY <2>2, <2>3
    <3>2. \A i \in 1 .. m : ~(segments[i].from <= t)
      BY <1>4, <1>6, <3>1
    <3>3. QED  BY <2>1, <2>3, <3>2
  <2>4. CASE r # 0
    <3>1. r \in 1 .. n /\ points[r].v \in RunModes
      BY <1>1, <2>2, <2>4
    <3>2. StateAt(points, t) = points[r].v /\ points[r].v # Nothing
      BY <2>1, <2>4, <3>1 DEF RunModes, Nothing
    <3> DEFINE K == {i \in 1 .. m : starts[i] <= r}
               k == Max(K)
    <3>3. IsFiniteSet(K) /\ K \subseteq Int
      <4>1. IsFiniteSet(1 .. m) /\ K \subseteq 1 .. m
        BY <1>3, FS_Interval
      <4>2. QED  BY <1>3, <4>1, FS_Subset
    <3>4. K # {}
      <4>1. 1 \in I
        BY <1>1, <3>1 DEF I
      <4>2. PICK i \in 1 .. m : starts[i] = 1
        BY <1>3, <4>1
      <4>3. i \in K
        BY <1>1, <3>1, <4>2
      <4>4. QED  BY <4>3
    <3>5. k \in 1 .. m /\ starts[k] <= r /\ \A i \in 1 .. m : starts[i] <= r => i <= k
      <4>1. k \in K /\ \A i \in K : i <= k
        <5> HIDE DEF K
        <5> QED  BY <3>3, <3>4, Extremes
      <4> HIDE DEF k
      <4>2. QED  BY <4>1
    <3> HIDE DEF k, K
    <3>6. starts[k] \in 1 .. n
      BY <1>4, <3>5
    <3>7. points[starts[k]].v = points[r].v
      <4> DEFINE Bad == {i \in starts[k] .. r : points[i].v # points[starts[k]].v}
                 b == Min(Bad)
      <4> SUFFICES ASSUME Bad # {}
                   PROVE  FALSE
        <5>1. r \in starts[k] .. r
          BY <1>1, <3>1, <3>5, <3>6
        <5>2. QED  BY <5>1
      <4>1. IsFiniteSet(Bad) /\ Bad \subseteq Int
        <5>1. starts[k] \in Int /\ r \in Int
          BY <3>1, <3>6
        <5>2. IsFiniteSet(starts[k] .. r) /\ Bad \subseteq starts[k] .. r
          BY <5>1, FS_Interval
        <5>3. QED  BY <5>1, <5>2, FS_Subset
      <4>2. b \in Bad /\ \A i \in Bad : b <= i
        <5> HIDE DEF Bad
        <5> QED  BY <4>1, Extremes
      <4> HIDE DEF b
      <4>3. b \in starts[k] .. r /\ points[b].v # points[starts[k]].v /\ b # starts[k]
        BY <4>2
      <4>4. b \in Int /\ b - 1 \in starts[k] .. r /\ b - 1 < b /\ b \in 1 .. n
        BY <1>1, <3>1, <3>6, <4>3
      <4>5. points[b - 1].v = points[starts[k]].v
        <5>1. b - 1 \notin Bad
          BY <4>2, <4>4
        <5>2. QED  BY <4>4, <5>1
      <4>6. b \in I
        BY <1>1, <4>3, <4>4, <4>5 DEF I
      <4>7. PICK i \in 1 .. m : starts[i] = b
        BY <1>3, <4>6
      <4>8. i <= k
        BY <3>1, <3>5, <4>3, <4>7
      <4>9. k < i
        BY <1>3, <3>5, <3>6, <4>3, <4>7
      <4>10. QED  BY <1>3, <3>5, <4>8, <4>9
    <3>8. segments[k].from <= t /\ segments[k].mode = points[r].v
      BY <1>6, <2>2, <3>5, <3>6, <3>7
    <3>9. ASSUME k < m
          PROVE  t < segments[k + 1].from
      <4>1. k + 1 \in 1 .. m /\ ~(k + 1 <= k)
        BY <1>3, <3>5, <3>9
      <4>2. starts[k + 1] \in 1 .. n /\ ~(starts[k + 1] <= r)
        BY <1>4, <3>5, <4>1
      <4>3. ~(points[starts[k + 1]].t <= t) /\ points[starts[k + 1]].t \in Int
        BY <1>1, <2>2, <4>2
      <4>4. segments[k + 1].from = points[starts[k + 1]].t
        BY <1>6, <4>1
      <4>5. QED  BY <4>3, <4>4
    <3>10. QED  BY <3>2, <3>5, <3>8, <3>9
  <2>5. QED  BY <2>3, <2>4
<1>12. AreSegments(segments, m, points, end)
  BY <1>3, <1>6, <1>7, <1>8, <1>9, <1>10, <1>11 DEF AreSegments
<1>13. AreSegments(segments, Len(segments), points, end)
  BY <1>7, <1>12
<1>14. QED  BY <1>13 DEF segments

\* One segment is at t, that of the latest sample, and the strip shows this sample.
LEMMA ShadingTrue ==
  ASSUME NEW points, IsSeriesOf(points, RunModes), NEW end \in Int, NEW t \in Int, t < end
  PROVE  {s.mode : s \in {r \in ToSet(ModeSegments(points, end)) : r.from <= t /\ t < r.to}}
           = {StateAt(points, t)} \ {Nothing}
<1> DEFINE segments == ModeSegments(points, end)
           m == Len(segments)
           At == {r \in ToSet(segments) : r.from <= t /\ t < r.to}
<1>1. AreSegments(segments, m, points, end)
  BY SegmentFacts
<1> HIDE DEF segments
<1>2. /\ m \in Nat /\ DOMAIN segments = 1 .. m
      /\ \A i \in 1 .. m : segments[i].from \in Int
      /\ \A i, j \in 1 .. m : i < j => segments[i].from < segments[j].from
      /\ \A i \in 1 .. m : segments[i].to \in Int /\ IF i < m THEN segments[i].to = segments[i + 1].from
                                                    ELSE segments[i].to >= end
      /\ IF StateAt(points, t) = Nothing THEN \A i \in 1 .. m : ~(segments[i].from <= t)
         ELSE \E k \in 1 .. m : /\ segments[k].from <= t /\ segments[k].mode = StateAt(points, t)
                                /\ k < m => t < segments[k + 1].from
  BY <1>1 DEF AreSegments
<1>3. ToSet(segments) = {segments[i] : i \in 1 .. m}
  BY <1>2 DEF ToSet
<1> HIDE DEF m
<1>4. CASE StateAt(points, t) = Nothing
  <2>1. At = {}
    BY <1>2, <1>3, <1>4
  <2> HIDE DEF At
  <2>2. {s.mode : s \in At} = {}
    BY <2>1
  <2>3. QED  BY <1>4, <2>2 DEF At, segments
<1>5. CASE StateAt(points, t) # Nothing
  <2>1. PICK k \in 1 .. m : /\ segments[k].from <= t /\ segments[k].mode = StateAt(points, t)
                            /\ k < m => t < segments[k + 1].from
    BY <1>2, <1>5
  <2>2. t < segments[k].to
    BY <1>2, <2>1
  <2>3. ASSUME NEW j \in 1 .. m, segments[j].from <= t, t < segments[j].to
        PROVE  j = k
    <3>1. CASE j < k
      <4>1. j < m /\ j + 1 \in 1 .. m /\ (j + 1 = k \/ j + 1 < k)
        BY <1>2, <3>1
      <4>2. segments[j].to = segments[j + 1].from
        BY <1>2, <4>1
      <4>3. segments[j + 1].from <= segments[k].from
        BY <1>2, <4>1
      <4>4. QED  BY <1>2, <2>1, <2>3, <4>1, <4>2, <4>3
    <3>2. CASE k < j
      <4>1. k < m /\ k + 1 \in 1 .. m /\ (k + 1 = j \/ k + 1 < j)
        BY <1>2, <3>2
      <4>2. segments[k + 1].from <= segments[j].from
        BY <1>2, <4>1
      <4>3. QED  BY <1>2, <2>1, <2>3, <4>1, <4>2
    <3>3. QED  BY <1>2, <3>1, <3>2
  <2>4. At = {segments[k]}
    <3>1. segments[k] \in At
      BY <1>3, <2>1, <2>2
    <3>2. \A s \in At : s = segments[k]
      BY <1>3, <2>3
    <3> HIDE DEF At
    <3>3. QED  BY <3>1, <3>2
  <2> HIDE DEF At
  <2>5. {s.mode : s \in At} = {StateAt(points, t)}
    BY <2>1, <2>4
  <2>6. QED  BY <1>5, <2>5 DEF At, segments
<1>6. QED  BY <1>4, <1>5

\* A mark is where an alarm is set, and an alarm that is shown was set at a
\* mark: going back through the samples that are set ends at an edge.
LEMMA MarksTrue ==
  ASSUME NEW alarms, \A leaf \in DOMAIN alarms : IsSeriesOf(alarms[leaf], Flags)
  PROVE  /\ \A t \in AlarmEdges(alarms) : AlarmShown(alarms, t)
         /\ \A t \in Int : AlarmShown(alarms, t) => \E u \in AlarmEdges(alarms) : u <= t
<1> DEFINE IsEdge(leaf, j) == /\ j \in DOMAIN alarms[leaf]
                              /\ alarms[leaf][j].v # "clear" /\ (j = 1 \/ alarms[leaf][j - 1].v = "clear")
<1>1. \A u : u \in AlarmEdges(alarms) <=> \E leaf \in DOMAIN alarms : \E j : IsEdge(leaf, j) /\ u = alarms[leaf][j].t
  BY DEF AlarmEdges
<1>2. ASSUME NEW leaf \in DOMAIN alarms
      PROVE  LET p == alarms[leaf]
             IN  /\ IsSeries(p) /\ Len(p) \in Nat /\ DOMAIN p = 1 .. Len(p)
                 /\ \A i \in 1 .. Len(p) : p[i].t \in Int /\ p[i].v \in Flags
                 /\ \A i, j \in 1 .. Len(p) : i < j => p[i].t < p[j].t
  BY DEF IsSeriesOf, IsSeries
<1>3. ASSUME NEW t \in AlarmEdges(alarms)
      PROVE  AlarmShown(alarms, t)
  <2>1. PICK leaf \in DOMAIN alarms : \E j : IsEdge(leaf, j) /\ t = alarms[leaf][j].t
    BY <1>1
  <2> DEFINE p == alarms[leaf]
  <2>2. PICK j : IsEdge(leaf, j) /\ t = p[j].t
    BY <2>1
  <2>3. /\ IsSeries(p) /\ Len(p) \in Nat /\ DOMAIN p = 1 .. Len(p)
        /\ \A i \in 1 .. Len(p) : p[i].t \in Int /\ p[i].v \in Flags
        /\ \A i, k \in 1 .. Len(p) : i < k => p[i].t < p[k].t
    BY <1>2
  <2>4. j \in 1 .. Len(p) /\ p[j].v # "clear"
    BY <2>2, <2>3
  <2> HIDE DEF p
  <2>5. t \in Int /\ t = p[j].t
    BY <2>2, <2>3, <2>4 DEF p
  <2>6. PICK r : IsLatest(r, p, t) /\ StateAt(p, t) = IF r = 0 THEN Nothing ELSE p[r].v
    BY <2>3, <2>5, StateAtFacts
  <2>7. r = j
    <3>1. r \in 0 .. Len(p) /\ (\A i \in 1 .. r : p[i].t <= t) /\ \A i \in r + 1 .. Len(p) : p[i].t > t
      BY <2>6 DEF IsLatest
    <3>2. ~(j > r)
      <4>1. j > r => j \in r + 1 .. Len(p)
        BY <2>4, <3>1
      <4>2. ~(p[j].t > t)
        BY <2>5
      <4>3. QED  BY <3>1, <4>1, <4>2
    <3>3. ~(j < r)
      <4>1. j < r => r \in 1 .. r /\ r \in 1 .. Len(p)
        BY <2>4, <3>1
      <4>2. j < r => p[r].t <= t /\ p[j].t < p[r].t /\ p[r].t \in Int
        BY <2>3, <2>4, <3>1, <4>1
      <4>3. QED  BY <2>5, <4>2
    <3>4. QED  BY <2>4, <3>1, <3>2, <3>3
  <2>8. r # 0
    BY <2>3, <2>4, <2>7
  <2>9. StateAt(p, t) = p[j].v /\ p[j].v \in Flags
    BY <2>3, <2>4, <2>6, <2>7, <2>8
  <2>10. StateAt(p, t) \notin {Nothing, "clear"}
    BY <2>4, <2>9 DEF Flags, Nothing
  <2>11. QED  BY <2>10 DEF AlarmShown, p
<1>4. ASSUME NEW t \in Int, AlarmShown(alarms, t)
      PROVE  \E u \in AlarmEdges(alarms) : u <= t
  <2>1. PICK leaf \in DOMAIN alarms : StateAt(alarms[leaf], t) \notin {Nothing, "clear"}
    BY <1>4 DEF AlarmShown
  <2> DEFINE p == alarms[leaf]
  <2>2. /\ IsSeries(p) /\ Len(p) \in Nat /\ DOMAIN p = 1 .. Len(p)
        /\ \A i \in 1 .. Len(p) : p[i].t \in Int /\ p[i].v \in Flags
        /\ \A i, k \in 1 .. Len(p) : i < k => p[i].t < p[k].t
    BY <1>2
  <2> HIDE DEF p
  <2>3. PICK r : IsLatest(r, p, t) /\ StateAt(p, t) = IF r = 0 THEN Nothing ELSE p[r].v
    BY <2>2, StateAtFacts
  <2>4. r \in 0 .. Len(p) /\ r # 0 /\ p[r].v # "clear" /\ \A i \in 1 .. r : p[i].t <= t
    BY <2>1, <2>3 DEF IsLatest, p
  <2>5. r \in 1 .. Len(p)
    BY <2>2, <2>4
  <2> DEFINE M == {j \in 1 .. r : \A l \in j .. r : p[l].v # "clear"}
             j == Min(M)
  <2>6. IsFiniteSet(M) /\ M \subseteq Int
    <3>1. r \in Nat
      BY <2>2, <2>5
    <3>2. IsFiniteSet(1 .. r) /\ M \subseteq 1 .. r
      BY <3>1, FS_Interval
    <3>3. QED  BY <3>1, <3>2, FS_Subset
  <2>7. r \in M
    BY <2>2, <2>4, <2>5
  <2>8. j \in M /\ \A x \in M : j <= x
    <3> HIDE DEF M
    <3> QED  BY <2>6, <2>7, Extremes
  <2> HIDE DEF j
  <2>9. j \in 1 .. r /\ (\A l \in j .. r : p[l].v # "clear") /\ j \in 1 .. Len(p) /\ j \in j .. r
    BY <2>2, <2>5, <2>8
  <2>10. j = 1 \/ p[j - 1].v = "clear"
    <3> SUFFICES ASSUME j # 1, p[j - 1].v # "clear"
                 PROVE  FALSE
      OBVIOUS
    <3>1. j - 1 \in 1 .. r /\ j \in Int /\ ~(j <= j - 1)
      BY <2>5, <2>9
    <3>2. \A l \in j - 1 .. r : l = j - 1 \/ l \in j .. r
      BY <2>9, <3>1
    <3>3. \A l \in j - 1 .. r : p[l].v # "clear"
      BY <2>9, <3>2
    <3>4. j - 1 \in M
      BY <3>1, <3>3
    <3>5. QED  BY <2>8, <3>1, <3>4
  <2>11. IsEdge(leaf, j)
    BY <2>2, <2>9, <2>10 DEF p
  <2>12. p[j].t <= t
    BY <2>4, <2>9
  <2>13. p[j].t \in AlarmEdges(alarms)
    <3> HIDE DEF IsEdge
    <3> QED  BY <1>1, <2>11 DEF p
  <2>14. QED  BY <2>12, <2>13
<1>5. QED  BY <1>3, <1>4

\* Integers in increasing order
IsAscending(s) ==
  /\ s \in Seq(Int)
  /\ \A i, j \in 1 .. Len(s) : i < j => s[i] < s[j]

LEMMA AscendingSeries ==
  ASSUME NEW S, IsFiniteSet(S), S \subseteq Int
  PROVE  IsAscending(Ascending(S)) /\ \A i \in 1 .. Len(Ascending(S)) : Ascending(S)[i] \in S
<1> DEFINE f == Ascending(S)
           n == Cardinality(S)
<1>1. n \in Nat /\ f \in [1 .. n -> S] /\ \A i, j \in DOMAIN f : i < j <=> f[i] < f[j]
  BY AscendingLists
<1> HIDE DEF f, n
<1>2. f \in [1 .. n -> Int] /\ DOMAIN f = 1 .. n
  BY <1>1
<1>3. f \in Seq(Int)
  BY <1>1, <1>2
<1>4. Len(f) = n
  BY <1>1, <1>2, <1>3, LenProperties
<1>5. QED  BY <1>1, <1>2, <1>3, <1>4 DEF IsAscending, f

LEMMA AscendingFacts ==
  ASSUME NEW s, IsAscending(s)
  PROVE  /\ Len(s) \in Nat /\ DOMAIN s = 1 .. Len(s)
         /\ \A i \in 1 .. Len(s) : s[i] \in Int
         /\ \A i, j \in 1 .. Len(s) : i < j <=> s[i] < s[j]
         /\ \A i, j \in 1 .. Len(s) : s[i] = s[j] => i = j
<1>1. Len(s) \in Nat /\ DOMAIN s = 1 .. Len(s)
  BY LenProperties DEF IsAscending
<1>2. \A i \in 1 .. Len(s) : s[i] \in Int
  BY ElementOfSeq DEF IsAscending
<1>3. \A i, j \in 1 .. Len(s) : i < j => s[i] < s[j]
  BY DEF IsAscending
<1>4. \A i, j \in 1 .. Len(s) : i < j \/ i = j \/ j < i
  BY <1>1
<1>5. QED  BY <1>1, <1>2, <1>3, <1>4

-----------------------------------------------------------------------------
(* The usage line *)

\* The one in the middle is 1 when more than half of the positive numbers are:
\* fewer come before it than are 1.
LEMMA MedianOne ==
  ASSUME NEW n \in Nat, NEW deltas \in [1 .. n -> Int], \A i \in 1 .. n : deltas[i] >= 1,
         2 * Cardinality({i \in 1 .. n : deltas[i] = 1}) > n
  PROVE  MedianOf(deltas) = 1
<1> DEFINE D == 1 .. n
           Near == {i \in D : deltas[i] = 1}
           Sooner(i, j) == deltas[i] < deltas[j] \/ (deltas[i] = deltas[j] /\ i < j)
           R == {e \in D \X D : Sooner(e[1], e[2])}
           at == InOrder(D, LAMBDA i, j : deltas[i] < deltas[j] \/ (deltas[i] = deltas[j] /\ i < j))
           half == n \div 2 + 1
<1>1. DOMAIN deltas = D /\ Len(deltas) = n
  <2>1. deltas \in Seq(Int)
    OBVIOUS
  <2>2. QED  BY <2>1, LenProperties
<1>2. IsFiniteSet(D) /\ Cardinality(D) = n
  <2>1. IsFiniteSet(1 .. n) /\ Cardinality(1 .. n) = IF 1 > n THEN 0 ELSE n - 1 + 1
    BY FS_Interval
  <2>2. QED  BY <2>1
<1>3. IsFiniteSet(Near) /\ Cardinality(Near) \in Nat
  <2>1. Near \subseteq D
    OBVIOUS
  <2> HIDE DEF Near, D
  <2>2. QED  BY <1>2, <2>1, FS_Subset, FS_CardinalityType
<1>4. half \in D
  <2>1. n # 0
    <3>1. n = 0 => Near = {}
      OBVIOUS
    <3>2. n = 0 => Cardinality(Near) = 0
      BY <3>1, FS_EmptySet
    <3>3. 2 * Cardinality(Near) > n
      OBVIOUS
    <3> HIDE DEF Near
    <3>4. QED  BY <1>3, <3>2, <3>3
  <2>2. QED  BY <2>1
<1>5. \A i \in D : deltas[i] \in Int /\ deltas[i] >= 1 /\ i \in Int
  OBVIOUS
<1>6. Orders(R, D)
  <2>1. \A x \in D : <<x, x>> \notin R
    BY <1>5
  <2>2. ASSUME NEW x \in D, NEW y \in D, NEW z \in D, <<x, y>> \in R, <<y, z>> \in R
        PROVE  <<x, z>> \in R
    <3>1. Sooner(x, y) /\ Sooner(y, z)
      BY <2>2
    <3>2. Sooner(x, z)
      BY <1>5, <3>1
    <3>3. QED  BY <3>2
  <2>3. ASSUME NEW x \in D, NEW y \in D
        PROVE  x = y \/ <<x, y>> \in R \/ <<y, x>> \in R
    <3>1. x = y \/ Sooner(x, y) \/ Sooner(y, x)
      BY <1>5
    <3>2. QED  BY <3>1
  <2>4. QED  BY <1>2, <2>1, <2>2, <2>3 DEF Orders
<1>7. \A x \in D : Below(D, R, x) = {y \in D : deltas[y] < deltas[x] \/ (deltas[y] = deltas[x] /\ y < x)}
  BY DEF Below
<1>8. at = [i \in D |-> CHOOSE x \in D :
              Cardinality({y \in D : deltas[y] < deltas[x] \/ (deltas[y] = deltas[x] /\ y < x)}) = i - 1]
  BY <1>2 DEF InOrder
<1>9. at[half] \in D /\ Cardinality(Below(D, R, at[half])) = half - 1
  <2>1. \E x \in D : Cardinality(Below(D, R, x)) = half - 1
    <3>1. half \in 1 .. Cardinality(D)
      BY <1>2, <1>4
    <3> HIDE DEF R, D, half
    <3>2. QED  BY <1>6, <3>1, RankFacts
  <2>2. \E x \in D : Cardinality({y \in D : deltas[y] < deltas[x] \/ (deltas[y] = deltas[x] /\ y < x)}) = half - 1
    BY <1>7, <2>1
  <2>3. at[half] = CHOOSE x \in D :
          Cardinality({y \in D : deltas[y] < deltas[x] \/ (deltas[y] = deltas[x] /\ y < x)}) = half - 1
    BY <1>4, <1>8
  <2>4. /\ at[half] \in D
        /\ Cardinality({y \in D : deltas[y] < deltas[at[half]] \/ (deltas[y] = deltas[at[half]] /\ y < at[half])})
             = half - 1
    <3> HIDE DEF at, D, half
    <3> QED  BY <2>2, <2>3
  <2>5. QED  BY <1>7, <2>4
<1>10. MedianOf(deltas) = deltas[at[half]]
  BY <1>1 DEF MedianOf
<1> HIDE DEF at
<1>11. ASSUME deltas[at[half]] # 1
       PROVE  FALSE
  <2> DEFINE m == at[half]
             B == Below(D, R, m)
  <2>1. m \in D /\ deltas[m] > 1 /\ Cardinality(B) = half - 1
    BY <1>5, <1>9, <1>11
  <2>2. Near \subseteq B
    BY <1>7, <2>1
  <2>3. IsFiniteSet(B)
    <3>1. B \subseteq D
      BY DEF Below
    <3> HIDE DEF B, D
    <3>2. QED  BY <1>2, <3>1, FS_Subset
  <2>4. 2 * Cardinality(Near) > n
    OBVIOUS
  <2> HIDE DEF B, Near
  <2>5. Cardinality(Near) <= Cardinality(B)
    BY <2>2, <2>3, FS_Subset
  <2>6. QED  BY <1>3, <2>1, <2>4, <2>5
<1>12. QED  BY <1>10, <1>11

\* Between two reports the usage is filled in as far as half of the others allow.
LEMMA OutageBlank ==
  ASSUME NEW p, IsAscending(p), NEW T, \A i \in 1 .. Len(p) - 1 : p[i] + 1 .. p[i + 1] - 1 \subseteq T,
         2 * Cardinality({i \in 1 .. Len(p) - 1 : p[i + 1] - p[i] = 1}) > Len(p) - 1,
         NEW i \in 1 .. Len(p) - 1
  PROVE  (p[i] + 1 .. p[i + 1] - 1) \cap Interpolated(p, T)
           = IF p[i + 1] - p[i] < 3 THEN p[i] + 1 .. p[i + 1] - 1 ELSE {}
<1> DEFINE n == Len(p) - 1
           deltas == [k \in 1 .. n |-> p[k + 1] - p[k]]
<1>1. /\ Len(p) \in Nat /\ DOMAIN p = 1 .. Len(p)
      /\ \A k \in 1 .. Len(p) : p[k] \in Int
      /\ \A j, k \in 1 .. Len(p) : j < k <=> p[j] < p[k]
  BY AscendingFacts
<1>2. n \in Nat /\ Len(p) >= 2
  BY <1>1
<1>3. \A k \in 1 .. n : k \in 1 .. Len(p) /\ k + 1 \in 1 .. Len(p) /\ k < k + 1
  BY <1>1
<1>4. \A k \in 1 .. n : p[k + 1] - p[k] \in Int /\ p[k + 1] - p[k] >= 1
  BY <1>1, <1>3
<1>5. MedianInterval(p) = 1
  <2>1. deltas \in [1 .. n -> Int] /\ \A k \in 1 .. n : deltas[k] >= 1 /\ deltas[k] = p[k + 1] - p[k]
    BY <1>4
  <2>2. 2 * Cardinality({k \in 1 .. n : p[k + 1] - p[k] = 1}) > n
    OBVIOUS
  <2>3. MedianInterval(p) = MedianOf(deltas)
    BY DEF MedianInterval
  <2> HIDE DEF n, deltas
  <2>4. {k \in 1 .. n : deltas[k] = 1} = {k \in 1 .. n : p[k + 1] - p[k] = 1}
    BY <2>1
  <2>5. 2 * Cardinality({k \in 1 .. n : deltas[k] = 1}) > n
    BY <2>2, <2>4
  <2>6. QED  BY <1>2, <2>1, <2>3, <2>5, MedianOne
<1>6. Interpolated(p, T) = {t \in T \ ToSet(p) : \E k \in 1 .. n :
                              p[k] <= t /\ t < p[k + 1] /\ 2 * (p[k + 1] - p[k]) <= 5}
  BY <1>1, <1>2, <1>5 DEF Interpolated
<1>7. ASSUME NEW t \in p[i] + 1 .. p[i + 1] - 1
      PROVE  t \in Interpolated(p, T) <=> p[i + 1] - p[i] < 3
  <2>1. t \in Int /\ p[i] \in Int /\ p[i + 1] \in Int /\ p[i] < t /\ t < p[i + 1]
    BY <1>1, <1>3, <1>7
  <2>2. ASSUME NEW k \in 1 .. n, p[k] <= t, t < p[k + 1]
        PROVE  k = i
    <3>1. p[k] \in Int /\ p[k + 1] \in Int /\ k + 1 \in 1 .. Len(p) /\ i + 1 \in 1 .. Len(p)
      BY <1>1, <1>3
    <3>2. p[k] < p[i + 1] /\ p[i] < p[k + 1]
      <4>1. \A a, b, c \in Int : (a <= b /\ b < c => a < c) /\ (a < b /\ b < c => a < c)
        OBVIOUS
      <4>2. QED  BY <2>1, <2>2, <3>1, <4>1
    <3>3. k < i + 1 /\ i < k + 1
      BY <1>1, <1>3, <3>1, <3>2
    <3>4. QED  BY <1>3, <3>3
  <2>3. t \notin ToSet(p)
    <3>1. ASSUME NEW k \in 1 .. Len(p), p[k] = t
          PROVE  FALSE
      <4>1. p[i] < p[k] /\ p[k] < p[i + 1]
        BY <2>1, <3>1
      <4>2. i < k /\ k < i + 1
        BY <1>1, <1>3, <4>1
      <4>3. QED  BY <1>1, <4>2
    <3>2. QED  BY <1>1, <3>1 DEF ToSet
  <2>4. t \in T
    OBVIOUS
  <2>5. i \in 1 .. n
    OBVIOUS
  <2> HIDE DEF n
  <2>6. t \in Interpolated(p, T) <=>
          \E k \in 1 .. n : p[k] <= t /\ t < p[k + 1] /\ 2 * (p[k + 1] - p[k]) <= 5
    BY <1>6, <2>3, <2>4
  <2>7. t \in Interpolated(p, T) <=> 2 * (p[i + 1] - p[i]) <= 5
    BY <2>1, <2>2, <2>5, <2>6
  <2>8. QED  BY <2>1, <2>7
<1>8. CASE p[i + 1] - p[i] < 3
  BY <1>7, <1>8
<1>9. CASE ~(p[i + 1] - p[i] < 3)
  BY <1>7, <1>9
<1>10. QED  BY <1>8, <1>9

-----------------------------------------------------------------------------
(* The colours *)

\* A part of 1 .. n that goes up to some place is as long as that.
LEMMA PrefixFacts ==
  ASSUME NEW n \in Nat, NEW I \in SUBSET (1 .. n), \A j \in I : \A i \in 1 .. j : i \in I
  PROVE  Cardinality(I) \in 0 .. n /\ \A i \in 1 .. n : i \in I <=> i <= Cardinality(I)
<1>1. \A k \in Nat : IsFiniteSet(1 .. k) /\ Cardinality(1 .. k) = k
  BY FS_Interval
<1>2. \E c \in 0 .. n : I = 1 .. c
  <2>1. CASE I = {}
    <3>1. I = 1 .. 0 /\ 0 \in 0 .. n
      BY <2>1
    <3>2. QED  BY <3>1
  <2>2. CASE I # {}
    <3>1. IsFiniteSet(I) /\ I \subseteq Int
      <4>1. IsFiniteSet(1 .. n) /\ I \subseteq 1 .. n
        BY <1>1
      <4>2. IsFiniteSet(I)
        BY <4>1, FS_Subset
      <4>3. QED  BY <4>1, <4>2
    <3>2. Max(I) \in I /\ \A x \in I : x <= Max(I)
      BY <2>2, <3>1, Extremes
    <3> DEFINE c == Max(I)
    <3> HIDE DEF c
    <3>3. c \in I /\ c \in 1 .. n /\ \A x \in I : x <= c
      BY <3>2 DEF c
    <3>4. I \subseteq 1 .. c
      BY <3>3
    <3>5. 1 .. c \subseteq I
      BY <3>3
    <3>6. c \in 0 .. n
      BY <3>3
    <3>7. I = 1 .. c
      BY <3>4, <3>5
    <3>8. QED  BY <3>6, <3>7
  <2>3. QED  BY <2>1, <2>2
<1>3. PICK c \in 0 .. n : I = 1 .. c
  BY <1>2
<1>4. Cardinality(I) = c
  BY <1>1, <1>3
<1>5. QED  BY <1>3, <1>4

\* The axis holds every sample, with two degrees to spare.
LEMMA DomainFacts ==
  ASSUME NEW a \in Int, NEW b \in Int, a <= b
  PROVE  LET d == TempDomain(a, b)
         IN  d[1] \in Int /\ d[2] \in Int /\ d[1] < a /\ b < d[2]
<1> DEFINE lo == ((10 * a - 12) \div 20) * 2
           hi == -((-(10 * b + 12)) \div 20) * 2
           short == IF hi - lo < 8 THEN (9 - (hi - lo)) \div 2 ELSE 0
<1>1. lo \in Int /\ lo < a
  OBVIOUS
<1>2. hi \in Int /\ b < hi
  OBVIOUS
<1>3. TempDomain(a, b) = <<lo - short, hi + short>>
  BY DEF TempDomain
<1> HIDE DEF lo, hi
<1>4. short \in Int /\ short >= 0
  BY <1>1, <1>2
<1> HIDE DEF short
<1>5. QED  BY <1>1, <1>2, <1>3, <1>4

LEMMA EdgeFacts ==
  ASSUME NEW scale \in Conditioning
  PROVE  /\ Edges[scale] \subseteq Int /\ IsFiniteSet(Edges[scale])
         /\ \A e, f \in Edges[scale] : e < f => e + 1 <= f - 1
<1>1. \A a, b, c, d, e : IsFiniteSet({a, b, c, d, e})
  <2>1. ASSUME NEW a, NEW b, NEW c, NEW d, NEW e
        PROVE  IsFiniteSet({a, b, c, d, e})
    <3>1. IsFiniteSet({a} \cup {b})
      BY FS_Singleton, FS_Union
    <3>2. IsFiniteSet(({a} \cup {b}) \cup {c})
      BY <3>1, FS_Singleton, FS_Union
    <3>3. IsFiniteSet((({a} \cup {b}) \cup {c}) \cup {d})
      BY <3>2, FS_Singleton, FS_Union
    <3>4. IsFiniteSet(((({a} \cup {b}) \cup {c}) \cup {d}) \cup {e})
      BY <3>3, FS_Singleton, FS_Union
    <3>5. {a, b, c, d, e} = ((({a} \cup {b}) \cup {c}) \cup {d}) \cup {e}
      OBVIOUS
    <3>6. QED  BY <3>4, <3>5
  <2>2. QED  BY <2>1
<1>2. Edges[scale] = {70, 75, 80, 85, 90} \/ Edges[scale] = {55, 60, 65, 70, 75}
  BY DEF Edges, Conditioning
<1>3. IsFiniteSet(Edges[scale])
  <2>1. IsFiniteSet({70, 75, 80, 85, 90}) /\ IsFiniteSet({55, 60, 65, 70, 75})
    BY <1>1
  <2>2. QED  BY <1>2, <2>1
<1>4. \A e \in {70, 75, 80, 85, 90} \cup {55, 60, 65, 70, 75} : e \in Int
  OBVIOUS
<1>5. \A e, f \in {70, 75, 80, 85, 90} : e < f => e + 1 <= f - 1
  OBVIOUS
<1>6. \A e, f \in {55, 60, 65, 70, 75} : e < f => e + 1 <= f - 1
  OBVIOUS
<1>7. QED  BY <1>2, <1>3, <1>4, <1>5, <1>6

LEMMA SameBand ==
  ASSUME NEW scale, NEW x, NEW y, \A e \in Edges[scale] : 100 * e <= x <=> 100 * e <= y
  PROVE  BandColor(scale, x) = BandColor(scale, y)
<1>1. {e \in Edges[scale] : 100 * e <= x} = {e \in Edges[scale] : 100 * e <= y}
  OBVIOUS
<1>2. QED  BY <1>1 DEF BandColor

LEMMA ClampFacts ==
  ASSUME NEW lo \in Int, NEW hi \in Int, lo <= hi
  PROVE  /\ \A n \in Int : Clamp(n, lo, hi) \in Int /\ lo <= Clamp(n, lo, hi) /\ Clamp(n, lo, hi) <= hi
         /\ \A m, n \in Int : m <= n => Clamp(m, lo, hi) <= Clamp(n, lo, hi)
         /\ \A n \in lo .. hi : Clamp(n, lo, hi) = n
  BY DEF Clamp

\* The stops: the ends of the axis, and two for each edge between
AreStops(stops, scale, lo, hi, S, inner) ==
  LET n == Len(inner)
      stop(at, of) == [at |-> Clamp(100 * at, 100 * lo, 100 * hi), color |-> BandColor(scale, of)]
  IN  /\ IsAscending(inner) /\ (\A k \in 1 .. n : inner[k] \in S)
      /\ \A e \in S : \E k \in 1 .. n : inner[k] = e
      /\ Len(stops) = 2 * n + 2 /\ DOMAIN stops = 1 .. 2 * n + 2
      /\ stops[1] = stop(lo, 100 * lo) /\ stops[2 * n + 2] = stop(hi, 100 * hi)
      /\ \A k \in 1 .. n : /\ stops[2 * k] = stop(inner[k] - 1, 100 * inner[k] - 1)
                           /\ stops[2 * k + 1] = stop(inner[k] + 1, 100 * inner[k] + 1)

LEMMA StopFacts ==
  ASSUME NEW scale \in Conditioning, NEW lo \in Int, NEW hi \in Int, lo < hi
  PROVE  LET S == {e \in Edges[scale] : Feathers(e, lo, hi)}
         IN  AreStops(GradientStops(scale, lo, hi), scale, lo, hi, S, Ascending(S))
<1> DEFINE stop(at, of) == [at |-> Clamp(100 * at, 100 * lo, 100 * hi), color |-> BandColor(scale, of)]
           S == {e \in Edges[scale] : Feathers(e, lo, hi)}
           inner == Ascending(S)
           n == Len(inner)
           feather(e, before) == IF before THEN stop(e - 1, 100 * e - 1) ELSE stop(e + 1, 100 * e + 1)
           mid == [i \in 1 .. 2 * n |-> feather(inner[(i + 1) \div 2], i % 2 = 1)]
           first == <<stop(lo, 100 * lo)>>
           last == <<stop(hi, 100 * hi)>>
           stops == GradientStops(scale, lo, hi)
<1>1. S \subseteq Int /\ IsFiniteSet(S)
  <2>1. S \subseteq Edges[scale]
    OBVIOUS
  <2> HIDE DEF S
  <2>2. QED  BY <2>1, EdgeFacts, FS_Subset
<1>2. /\ IsAscending(inner) /\ (\A k \in 1 .. n : inner[k] \in S)
      /\ n \in Nat /\ DOMAIN inner = 1 .. n
  <2> HIDE DEF S
  <2>1. IsAscending(inner) /\ (\A k \in 1 .. n : inner[k] \in S)
    BY <1>1, AscendingSeries
  <2> HIDE DEF inner
  <2>2. QED  BY <2>1, AscendingFacts
<1>3. \A e \in S : \E k \in 1 .. n : inner[k] = e
  <2> HIDE DEF S
  <2>1. \A x \in S : \E i \in DOMAIN inner : inner[i] = x
    BY <1>1, AscendingLists
  <2>2. QED  BY <1>2, <2>1
<1> DEFINE T == {first[1], last[1]} \cup {mid[i] : i \in 1 .. 2 * n}
<1>4. stops = (first \o mid) \o last
  BY DEF GradientStops
<1> HIDE DEF S, inner, n, stops, feather
<1>5. \A i \in 1 .. 2 * n : mid[i] = feather(inner[(i + 1) \div 2], i % 2 = 1)
  OBVIOUS
<1>6. first \in Seq(T) /\ last \in Seq(T) /\ Len(first) = 1 /\ Len(last) = 1
      /\ first[1] = stop(lo, 100 * lo) /\ last[1] = stop(hi, 100 * hi)
  OBVIOUS
<1>7. mid \in [1 .. 2 * n -> T] /\ 2 * n \in Nat
  BY <1>2
<1>8. mid \in Seq(T) /\ Len(mid) = 2 * n
  <2> HIDE DEF T, mid
  <2>1. mid \in Seq(T)
    BY <1>7
  <2>2. QED  BY <1>7, <2>1, LenProperties
<1> HIDE DEF first, last, mid, T, stop
<1> DEFINE begin == first \o mid
<1>9. /\ begin \in Seq(T) /\ Len(begin) = 1 + 2 * n
      /\ \A i \in 1 .. 1 + 2 * n : begin[i] = IF i <= 1 THEN first[i] ELSE mid[i - 1]
  <2>1. /\ begin \in Seq(T) /\ Len(begin) = Len(first) + Len(mid)
        /\ \A i \in 1 .. Len(first) + Len(mid) : begin[i] = IF i <= Len(first) THEN first[i] ELSE mid[i - Len(first)]
    BY <1>6, <1>8, ConcatProperties
  <2>2. QED  BY <1>6, <1>8, <2>1
<1> HIDE DEF begin
<1>10. /\ stops \in Seq(T) /\ Len(stops) = 1 + 2 * n + 1
       /\ \A i \in 1 .. 1 + 2 * n + 1 : stops[i] = IF i <= 1 + 2 * n THEN begin[i] ELSE last[i - (1 + 2 * n)]
  <2> DEFINE whole == begin \o last
  <2>1. /\ whole \in Seq(T) /\ Len(whole) = Len(begin) + Len(last)
        /\ \A i \in 1 .. Len(begin) + Len(last) :
             whole[i] = IF i <= Len(begin) THEN begin[i] ELSE last[i - Len(begin)]
    BY <1>6, <1>9, ConcatProperties
  <2>2. stops = whole
    BY <1>4 DEF begin
  <2> HIDE DEF whole
  <2>3. QED  BY <1>6, <1>9, <2>1, <2>2
<1>11. Len(stops) = 2 * n + 2 /\ DOMAIN stops = 1 .. 2 * n + 2
  BY <1>2, <1>10, LenProperties
<1>12. stops[1] = stop(lo, 100 * lo)
  BY <1>2, <1>6, <1>9, <1>10
<1>13. stops[2 * n + 2] = stop(hi, 100 * hi)
  BY <1>2, <1>6, <1>10
<1>14. ASSUME NEW k \in 1 .. n
       PROVE  /\ stops[2 * k] = stop(inner[k] - 1, 100 * inner[k] - 1)
              /\ stops[2 * k + 1] = stop(inner[k] + 1, 100 * inner[k] + 1)
  <2>1. k \in Nat /\ 2 * k \in 1 .. 2 * n /\ 2 * k - 1 \in 1 .. 2 * n
    BY <1>2
  <2>2. (2 * k) \div 2 = k /\ (2 * k - 1) % 2 = 1 /\ (2 * k + 1) \div 2 = k /\ (2 * k) % 2 = 0
    BY <2>1
  <2>3. stops[2 * k] = mid[2 * k - 1] /\ stops[2 * k + 1] = mid[2 * k]
    BY <1>2, <1>9, <1>10, <2>1
  <2>4. mid[2 * k - 1] = feather(inner[k], TRUE) /\ mid[2 * k] = feather(inner[k], FALSE)
    <3>1. mid[2 * k - 1] = feather(inner[(2 * k - 1 + 1) \div 2], (2 * k - 1) % 2 = 1)
      BY <1>5, <2>1
    <3>2. mid[2 * k] = feather(inner[(2 * k + 1) \div 2], (2 * k) % 2 = 1)
      BY <1>5, <2>1
    <3>3. 2 * k - 1 + 1 = 2 * k /\ ((2 * k) % 2 = 1) = FALSE /\ ((2 * k - 1) % 2 = 1) = TRUE
      BY <2>1, <2>2
    <3>4. QED  BY <2>2, <3>1, <3>2, <3>3
  <2>5. QED  BY <2>3, <2>4 DEF feather
<1>15. AreStops(stops, scale, lo, hi, S, inner)
  BY <1>2, <1>3, <1>11, <1>12, <1>13, <1>14 DEF AreStops, n, stop
<1>16. QED  BY <1>15 DEF inner, S, stops

\* The stops go up, and around a temperature away from the edges both have its colour.
AreTrueStops(stops, scale, lo, hi) ==
  /\ \A i, j \in DOMAIN stops : i < j => stops[i].at <= stops[j].at
  /\ \A t \in lo .. hi :
       t # lo /\ t # hi /\ (\A e \in Edges[scale] : e \notin t - 1 .. t + 1) =>
         \E i \in 1 .. Len(stops) - 1 :
           /\ stops[i].at <= 100 * t /\ 100 * t <= stops[i + 1].at
           /\ {stops[i].color, stops[i + 1].color} = {BandColor(scale, 100 * t)}

LEMMA GradientTrue ==
  ASSUME NEW scale \in Conditioning, NEW lo \in Int, NEW hi \in Int, lo < hi
  PROVE  AreTrueStops(GradientStops(scale, lo, hi), scale, lo, hi)
<1> DEFINE stops == GradientStops(scale, lo, hi)
           clamp(at) == Clamp(100 * at, 100 * lo, 100 * hi)
           E == Edges[scale]
           S == {e \in E : Feathers(e, lo, hi)}
           inner == Ascending(S)
           n == Len(inner)
<1>1. /\ IsAscending(inner) /\ (\A k \in 1 .. n : inner[k] \in S)
      /\ \A e \in S : \E k \in 1 .. n : inner[k] = e
      /\ Len(stops) = 2 * n + 2 /\ DOMAIN stops = 1 .. 2 * n + 2
      /\ stops[1].at = clamp(lo) /\ stops[1].color = BandColor(scale, 100 * lo)
      /\ stops[2 * n + 2].at = clamp(hi) /\ stops[2 * n + 2].color = BandColor(scale, 100 * hi)
      /\ \A k \in 1 .. n : /\ stops[2 * k].at = clamp(inner[k] - 1)
                           /\ stops[2 * k].color = BandColor(scale, 100 * inner[k] - 1)
                           /\ stops[2 * k + 1].at = clamp(inner[k] + 1)
                           /\ stops[2 * k + 1].color = BandColor(scale, 100 * inner[k] + 1)
  <2> DEFINE stop(at, of) == [at |-> clamp(at), color |-> BandColor(scale, of)]
  <2>1. AreStops(stops, scale, lo, hi, S, inner)
    BY StopFacts
  <2>2. \A at, of : stop(at, of).at = clamp(at) /\ stop(at, of).color = BandColor(scale, of)
    OBVIOUS
  <2> HIDE DEF stops, inner, S
  <2>3. /\ IsAscending(inner) /\ (\A k \in 1 .. n : inner[k] \in S)
        /\ \A e \in S : \E k \in 1 .. n : inner[k] = e
        /\ Len(stops) = 2 * n + 2 /\ DOMAIN stops = 1 .. 2 * n + 2
        /\ stops[1] = stop(lo, 100 * lo) /\ stops[2 * n + 2] = stop(hi, 100 * hi)
        /\ \A k \in 1 .. n : /\ stops[2 * k] = stop(inner[k] - 1, 100 * inner[k] - 1)
                             /\ stops[2 * k + 1] = stop(inner[k] + 1, 100 * inner[k] + 1)
    BY <2>1 DEF AreStops
  <2> HIDE DEF n, clamp, stop
  <2>4. QED  BY <2>2, <2>3
<1>2. /\ n \in Nat
      /\ \A k \in 1 .. n : inner[k] \in Int
      /\ \A k, l \in 1 .. n : k < l <=> inner[k] < inner[l]
  <2> HIDE DEF inner
  <2>1. QED  BY <1>1, AscendingFacts
<1>3. /\ \A e \in S : e \in E /\ e \in Int /\ e - 1 < hi /\ lo < e + 1
      /\ \A e \in E : e \in Int /\ (e \in S \/ e - 1 >= hi \/ e + 1 <= lo)
  BY EdgeFacts DEF Feathers
<1>4. /\ \A a \in Int : clamp(a) \in Int /\ 100 * lo <= clamp(a) /\ clamp(a) <= 100 * hi
      /\ \A a, b \in Int : a <= b => clamp(a) <= clamp(b)
      /\ \A a \in lo .. hi : clamp(a) = 100 * a
  <2>1. 100 * lo \in Int /\ 100 * hi \in Int /\ 100 * lo <= 100 * hi
    OBVIOUS
  <2>2. \A a \in Int : 100 * a \in Int
    OBVIOUS
  <2>3. \A a, b \in Int : a <= b => 100 * a <= 100 * b
    OBVIOUS
  <2>4. \A a \in lo .. hi : 100 * a \in 100 * lo .. 100 * hi
    OBVIOUS
  <2>5. \A a, b : /\ a \in Int /\ b \in Int /\ a <= b =>
                     /\ \A x \in Int : Clamp(x, a, b) \in Int /\ a <= Clamp(x, a, b) /\ Clamp(x, a, b) <= b
                     /\ \A x, y \in Int : x <= y => Clamp(x, a, b) <= Clamp(y, a, b)
                     /\ \A x \in a .. b : Clamp(x, a, b) = x
    BY ClampFacts
  <2> DEFINE l == 100 * lo
             h == 100 * hi
  <2>6. /\ \A x \in Int : Clamp(x, l, h) \in Int /\ l <= Clamp(x, l, h) /\ Clamp(x, l, h) <= h
        /\ \A x, y \in Int : x <= y => Clamp(x, l, h) <= Clamp(y, l, h)
        /\ \A x \in l .. h : Clamp(x, l, h) = x
    BY <2>1, <2>5
  <2> HIDE DEF l, h
  <2>7. /\ \A a \in Int : Clamp(100 * a, l, h) \in Int /\ l <= Clamp(100 * a, l, h) /\ Clamp(100 * a, l, h) <= h
        /\ \A a, b \in Int : a <= b => Clamp(100 * a, l, h) <= Clamp(100 * b, l, h)
        /\ \A a \in lo .. hi : Clamp(100 * a, l, h) = 100 * a
    BY <2>2, <2>3, <2>4, <2>6 DEF l, h
  <2>8. QED  BY <2>7 DEF l, h
<1> HIDE DEF stops, clamp, S, inner, n, E
<1>5. ASSUME NEW j \in 1 .. 2 * n + 2
      PROVE  \/ j = 1 \/ j = 2 * n + 2
             \/ \E k \in 1 .. n : j = 2 * k \/ j = 2 * k + 1
  <2>1. j \in Int /\ n \in Int /\ j >= 1 /\ j <= 2 * n + 2
    BY <1>2
  <2> DEFINE k == j \div 2
  <2>2. k \in Int /\ (j = 2 * k \/ j = 2 * k + 1)
    BY <2>1
  <2> HIDE DEF k
  <2>3. j = 1 \/ j = 2 * n + 2 \/ k \in 1 .. n
    BY <2>1, <2>2
  <2>4. QED  BY <2>2, <2>3
<1>6. ASSUME NEW i \in 1 .. 2 * n + 2, NEW j \in 1 .. 2 * n + 2, i < j
      PROVE  stops[i].at <= stops[j].at
  <2>1. \A k \in 1 .. 2 * n + 2 : stops[k].at \in Int /\ 100 * lo <= stops[k].at /\ stops[k].at <= 100 * hi
    <3>1. \A k \in 1 .. n : inner[k] - 1 \in Int /\ inner[k] + 1 \in Int
      BY <1>2
    <3>2. ASSUME NEW k \in 1 .. 2 * n + 2
          PROVE  \E a \in Int : stops[k].at = clamp(a)
      <4>1. CASE k = 1 \/ k = 2 * n + 2
        BY <1>1, <4>1
      <4>2. CASE \E l \in 1 .. n : k = 2 * l \/ k = 2 * l + 1
        <5>1. PICK l \in 1 .. n : k = 2 * l \/ k = 2 * l + 1
          BY <4>2
        <5>2. /\ inner[l] - 1 \in Int /\ inner[l] + 1 \in Int
              /\ stops[2 * l].at = clamp(inner[l] - 1) /\ stops[2 * l + 1].at = clamp(inner[l] + 1)
          BY <1>1, <3>1
        <5>3. QED  BY <5>1, <5>2
      <4>3. QED  BY <1>5, <4>1, <4>2
    <3>3. QED  BY <1>4, <3>2
  <2>2. stops[1].at = 100 * lo /\ stops[2 * n + 2].at = 100 * hi
    <3>1. lo \in lo .. hi /\ hi \in lo .. hi
      OBVIOUS
    <3>2. QED  BY <1>1, <1>4, <3>1
  <2>3. CASE i = 1 \/ j = 2 * n + 2
    BY <2>1, <2>2, <2>3
  <2>4. CASE ~(i = 1 \/ j = 2 * n + 2)
    <3>1. i # 2 * n + 2 /\ j # 1
      BY <1>2, <1>6, <2>4
    <3>2. PICK k \in 1 .. n : i = 2 * k \/ i = 2 * k + 1
      BY <1>5, <2>4, <3>1
    <3>3. PICK l \in 1 .. n : j = 2 * l \/ j = 2 * l + 1
      BY <1>5, <2>4, <3>1
    <3>4. k < l \/ (k = l /\ i = 2 * k /\ j = 2 * k + 1)
      BY <1>2, <1>6, <3>2, <3>3
    <3>5. inner[k] \in Int /\ inner[l] \in Int
      BY <1>2
    <3>6. CASE k < l
      <4>1. inner[k] \in E /\ inner[l] \in E /\ inner[k] < inner[l]
        BY <1>1, <1>2, <1>3, <3>6
      <4>2. inner[k] + 1 <= inner[l] - 1
        BY <4>1, EdgeFacts DEF E
      <4>3. /\ clamp(inner[k] - 1) <= clamp(inner[l] - 1) /\ clamp(inner[k] - 1) <= clamp(inner[l] + 1)
            /\ clamp(inner[k] + 1) <= clamp(inner[l] - 1) /\ clamp(inner[k] + 1) <= clamp(inner[l] + 1)
        <5>1. /\ inner[k] - 1 <= inner[l] - 1 /\ inner[k] - 1 <= inner[l] + 1 /\ inner[k] + 1 <= inner[l] + 1
              /\ inner[k] - 1 \in Int /\ inner[k] + 1 \in Int /\ inner[l] - 1 \in Int /\ inner[l] + 1 \in Int
          BY <3>5, <4>2
        <5>2. QED  BY <1>4, <4>2, <5>1
      <4>4. stops[i].at \in {clamp(inner[k] - 1), clamp(inner[k] + 1)}
        <5>1. stops[2 * k].at = clamp(inner[k] - 1) /\ stops[2 * k + 1].at = clamp(inner[k] + 1)
          BY <1>1, <3>2
        <5>2. CASE i = 2 * k
          BY <5>1, <5>2
        <5>3. CASE i = 2 * k + 1
          BY <5>1, <5>3
        <5>4. QED  BY <3>2, <5>2, <5>3
      <4>5. stops[j].at \in {clamp(inner[l] - 1), clamp(inner[l] + 1)}
        <5>1. stops[2 * l].at = clamp(inner[l] - 1) /\ stops[2 * l + 1].at = clamp(inner[l] + 1)
          BY <1>1, <3>3
        <5>2. CASE j = 2 * l
          BY <5>1, <5>2
        <5>3. CASE j = 2 * l + 1
          BY <5>1, <5>3
        <5>4. QED  BY <3>3, <5>2, <5>3
      <4>6. QED  BY <4>3, <4>4, <4>5
    <3>7. CASE k = l /\ i = 2 * k /\ j = 2 * k + 1
      <4>1. inner[k] - 1 <= inner[k] + 1 /\ inner[k] - 1 \in Int /\ inner[k] + 1 \in Int
        BY <3>5
      <4>2. clamp(inner[k] - 1) <= clamp(inner[k] + 1)
        BY <1>4, <4>1
      <4>3. QED  BY <1>1, <3>7, <4>2
    <3>8. QED  BY <3>4, <3>6, <3>7
  <2>5. QED  BY <2>3, <2>4
<1>7. ASSUME NEW t \in lo .. hi, t # lo, t # hi, \A e \in E : e \notin t - 1 .. t + 1
      PROVE  \E i \in 1 .. Len(stops) - 1 :
               /\ stops[i].at <= 100 * t /\ 100 * t <= stops[i + 1].at
               /\ {stops[i].color, stops[i + 1].color} = {BandColor(scale, 100 * t)}
  <2> DEFINE I == {k \in 1 .. n : inner[k] < t}
             c == Cardinality(I)
  <2>1. t \in Int /\ lo < t /\ t < hi /\ \A e \in E : e \in Int /\ (e < t - 1 \/ e > t + 1)
    BY <1>3, <1>7
  <2>2. c \in 0 .. n /\ \A k \in 1 .. n : inner[k] < t <=> k <= c
    <3>1. I \in SUBSET (1 .. n)
      OBVIOUS
    <3>2. ASSUME NEW j \in I, NEW k \in 1 .. j
          PROVE  k \in I
      <4>1. k \in 1 .. n /\ (k = j \/ k < j)
        BY <1>2
      <4>2. inner[k] <= inner[j]
        BY <1>2, <4>1
      <4>3. QED  BY <1>2, <2>1, <4>1, <4>2
    <3>3. \A k \in 1 .. n : k \in I <=> inner[k] < t
      OBVIOUS
    <3> HIDE DEF I
    <3>4. c \in 0 .. n /\ \A k \in 1 .. n : k \in I <=> k <= c
      BY <1>2, <3>1, <3>2, PrefixFacts
    <3>5. QED  BY <3>3, <3>4
  <2> HIDE DEF c
  <2>3. ASSUME NEW e \in E, e < t, e \in S
        PROVE  c # 0 /\ e <= inner[c]
    <3>1. PICK k \in 1 .. n : inner[k] = e
      BY <1>1, <2>3
    <3>2. k <= c /\ c \in 1 .. n
      BY <1>2, <2>2, <2>3, <3>1
    <3>3. k = c \/ k < c
      BY <3>2
    <3>4. QED  BY <1>2, <3>1, <3>2, <3>3
  <2>4. ASSUME NEW e \in E, ~(e < t), e \in S
        PROVE  c < n /\ inner[c + 1] <= e
    <3>1. PICK k \in 1 .. n : inner[k] = e
      BY <1>1, <2>4
    <3>2. ~(k <= c) /\ c < n /\ c + 1 \in 1 .. n
      BY <1>2, <2>2, <2>4, <3>1
    <3>3. k = c + 1 \/ c + 1 < k
      BY <2>2, <3>2
    <3>4. QED  BY <1>2, <3>1, <3>2, <3>3
  <2>5. /\ stops[2 * c + 1].at <= 100 * t
        /\ stops[2 * c + 1].color = BandColor(scale, 100 * t)
    <3>1. CASE c = 0
      <4>1. \A e \in E : 100 * e <= 100 * lo <=> 100 * e <= 100 * t
        <5> SUFFICES ASSUME NEW e \in E
                     PROVE  e <= lo <=> e <= t
          BY <2>1
        <5>1. e \in S => ~(e < t)
          BY <2>3, <3>1
        <5>2. QED  BY <1>3, <2>1, <5>1
      <4>2. BandColor(scale, 100 * lo) = BandColor(scale, 100 * t)
        BY <4>1, SameBand DEF E
      <4>3. clamp(lo) = 100 * lo
        <5>1. lo \in lo .. hi
          OBVIOUS
        <5>2. QED  BY <1>4, <5>1
      <4>4. QED  BY <1>1, <2>1, <3>1, <4>2, <4>3
    <3>2. CASE c # 0
      <4>1. c \in 1 .. n /\ inner[c] < t /\ inner[c] \in S /\ inner[c] \in E /\ inner[c] \in Int
        BY <1>1, <1>2, <1>3, <2>2, <3>2
      <4>2. \A e \in E : 100 * e <= 100 * inner[c] + 1 <=> 100 * e <= 100 * t
        <5> SUFFICES ASSUME NEW e \in E
                     PROVE  e <= inner[c] <=> e <= t
          BY <2>1, <4>1
        <5>1. e \in Int /\ (e \in S \/ e - 1 >= hi \/ e + 1 <= lo) /\ lo < inner[c] + 1
          BY <1>3, <4>1
        <5>2. e \in S /\ e < t => e <= inner[c]
          BY <2>3
        <5>3. QED  BY <2>1, <4>1, <5>1, <5>2
      <4>3. BandColor(scale, 100 * inner[c] + 1) = BandColor(scale, 100 * t)
        BY <4>2, SameBand DEF E
      <4>4. clamp(inner[c] + 1) <= 100 * t
        <5>1. inner[c] + 1 <= t /\ inner[c] + 1 \in Int
          BY <2>1, <4>1
        <5>2. clamp(t) = 100 * t
          BY <1>4
        <5>3. QED  BY <1>4, <2>1, <5>1, <5>2
      <4>5. QED  BY <1>1, <4>1, <4>3, <4>4
    <3>3. QED  BY <3>1, <3>2
  <2>6. /\ 100 * t <= stops[2 * c + 2].at
        /\ stops[2 * c + 2].color = BandColor(scale, 100 * t)
    <3>1. CASE c = n
      <4>1. \A e \in E : 100 * e <= 100 * hi <=> 100 * e <= 100 * t
        <5> SUFFICES ASSUME NEW e \in E
                     PROVE  e <= hi <=> e <= t
          BY <2>1
        <5>1. e \in S => e < t
          BY <1>2, <2>4, <3>1
        <5>2. QED  BY <1>3, <2>1, <5>1
      <4>2. BandColor(scale, 100 * hi) = BandColor(scale, 100 * t)
        BY <4>1, SameBand DEF E
      <4>3. clamp(hi) = 100 * hi
        <5>1. hi \in lo .. hi
          OBVIOUS
        <5>2. QED  BY <1>4, <5>1
      <4>4. QED  BY <1>1, <2>1, <3>1, <4>2, <4>3
    <3>2. CASE c # n
      <4>1. c + 1 \in 1 .. n /\ ~(c + 1 <= c) /\ 2 * (c + 1) = 2 * c + 2
        BY <1>2, <2>2, <3>2
      <4>2. ~(inner[c + 1] < t) /\ inner[c + 1] \in S /\ inner[c + 1] \in E /\ inner[c + 1] \in Int
        BY <1>1, <1>2, <1>3, <2>2, <4>1
      <4> DEFINE d == inner[c + 1]
      <4>3. d \in S /\ d \in E /\ d \in Int /\ d > t + 1
        BY <2>1, <4>2
      <4>4. /\ stops[2 * c + 2].at = clamp(d - 1)
            /\ stops[2 * c + 2].color = BandColor(scale, 100 * d - 1)
        BY <1>1, <4>1
      <4>5. \A e \in E : e \in S /\ ~(e < t) => d <= e
        BY <2>4
      <4> HIDE DEF d
      <4>6. \A e \in E : 100 * e <= 100 * d - 1 <=> 100 * e <= 100 * t
        <5> SUFFICES ASSUME NEW e \in E
                     PROVE  e < d <=> e <= t
          BY <2>1, <4>3
        <5>1. e \in Int /\ (e \in S \/ e - 1 >= hi \/ e + 1 <= lo) /\ d - 1 < hi
          BY <1>3, <4>3
        <5>2. e \in S /\ ~(e < t) => d <= e
          BY <4>5
        <5>3. QED  BY <2>1, <4>3, <5>1, <5>2
      <4>7. BandColor(scale, 100 * d - 1) = BandColor(scale, 100 * t)
        BY <4>6, SameBand DEF E
      <4>8. 100 * t <= clamp(d - 1)
        <5>1. t <= d - 1 /\ d - 1 \in Int
          BY <2>1, <4>3
        <5>2. clamp(t) = 100 * t
          BY <1>4
        <5>3. QED  BY <1>4, <2>1, <5>1, <5>2
      <4>9. QED  BY <4>4, <4>7, <4>8
    <3>3. QED  BY <3>1, <3>2
  <2>7. 2 * c + 1 \in 1 .. Len(stops) - 1 /\ (2 * c + 1) + 1 = 2 * c + 2
    BY <1>1, <1>2, <2>2
  <2>8. QED  BY <2>5, <2>6, <2>7
<1>8. AreTrueStops(stops, scale, lo, hi)
  BY <1>1, <1>6, <1>7 DEF AreTrueStops, E
<1>9. QED  BY <1>8 DEF stops

-----------------------------------------------------------------------------
(* The coloured line *)

LEMMA ScaleFacts ==
  ASSUME NEW segments, NEW m \in Nat, DOMAIN segments = 1 .. m,
         NEW k \in 1 .. m, segments[k].mode \in Conditioning
  PROVE  ScaleOf(segments, k) = segments[k].mode
<1> DEFINE runs == {j \in DOMAIN segments : segments[j].mode \in Conditioning}
           before == {j \in runs : j <= k}
<1>1. k \in before /\ before # {}
  OBVIOUS
<1>2. IsFiniteSet(before) /\ before \subseteq Int
  <2>1. IsFiniteSet(1 .. m)
    <3>1. \A n \in Nat : IsFiniteSet(1 .. n)
      BY FS_Interval
    <3>2. QED  BY <3>1
  <2>2. before \subseteq 1 .. m
    OBVIOUS
  <2> HIDE DEF before
  <2>3. IsFiniteSet(before)
    BY <2>1, <2>2, FS_Subset
  <2>4. QED  BY <2>2, <2>3
<1>3. Max(before) \in before /\ \A x \in before : x <= Max(before)
  <2> HIDE DEF before
  <2> QED  BY <1>1, <1>2, Extremes
<1>4. Max(before) = k
  <2> DEFINE c == Max(before)
  <2> HIDE DEF c
  <2>1. c \in before /\ \A x \in before : x <= c
    BY <1>3 DEF c
  <2>2. c \in Int /\ c <= k /\ k <= c
    BY <1>1, <2>1
  <2>3. c = k
    BY <2>2
  <2>4. QED  BY <2>3 DEF c
<1>5. QED  BY <1>1, <1>4 DEF ScaleOf

\* The spans end in order, the last one never, and the first one that has not
\* ended at an instant has the scale of what the machine does then.
AreSpans(spans, N, points) ==
  /\ N \in Nat /\ N # 0 /\ DOMAIN spans = 1 .. N
  /\ \A k \in 1 .. N : spans[k].to \in Int
  /\ spans[N].to = Forever
  /\ \A t \in Int, k \in 1 .. N :
       /\ t < spans[k].to /\ \A j \in 1 .. k - 1 : ~(t < spans[j].to)
       /\ t < Forever /\ StateAt(points, t) \in Conditioning
       => spans[k].scale = StateAt(points, t)

LEMMA SpanFacts ==
  ASSUME NEW points, IsSeriesOf(points, RunModes), NEW end \in Int
  PROVE  \E N : AreSpans(TempSpans(ModeSegments(points, end)), N, points)
<1> DEFINE segments == ModeSegments(points, end)
           m == Len(segments)
           spans == TempSpans(segments)
<1>1. AreSegments(segments, m, points, end)
  BY SegmentFacts
<1>2. Forever \in Int
  BY ChartsAssumption DEF Forever
<1>3. \A v \in Conditioning : v # Nothing
  BY DEF Conditioning, Nothing
<1> HIDE DEF segments
<1>4. /\ m \in Nat /\ DOMAIN segments = 1 .. m /\ (m = 0 => segments = <<>>)
      /\ \A i \in 1 .. m : segments[i].from \in Int
      /\ \A i, j \in 1 .. m : i < j => segments[i].from < segments[j].from
      /\ \A i \in 1 .. m : segments[i].to \in Int /\ IF i < m THEN segments[i].to = segments[i + 1].from
                                                    ELSE segments[i].to >= end
      /\ \A t \in Int :
           IF StateAt(points, t) = Nothing THEN \A i \in 1 .. m : ~(segments[i].from <= t)
           ELSE \E k \in 1 .. m : /\ segments[k].from <= t /\ segments[k].mode = StateAt(points, t)
                                  /\ k < m => t < segments[k + 1].from
  BY <1>1 DEF AreSegments
<1>5. CASE segments = <<>>
  <2>1. m = 0
    BY <1>5
  <2>2. spans = <<[to |-> Forever, scale |-> "COOL"]>>
    BY <1>5 DEF TempSpans
  <2>3. DOMAIN spans = 1 .. 1 /\ spans[1].to = Forever
    BY <2>2
  <2> HIDE DEF m, spans
  <2>4. \A t \in Int : StateAt(points, t) \notin Conditioning
    BY <1>3, <1>4, <2>1
  <2>5. AreSpans(spans, 1, points)
    BY <1>2, <2>3, <2>4 DEF AreSpans
  <2>6. QED  BY <2>5 DEF spans, segments
<1>6. CASE segments # <<>>
  <2>1. m # 0 /\ m \in 1 .. m
    BY <1>4, <1>6
  <2>2. spans = [i \in 1 .. m |-> [to |-> IF i = m THEN Forever ELSE segments[i].to,
                                   scale |-> ScaleOf(segments, i)]]
    BY <1>4, <1>6 DEF TempSpans
  <2> HIDE DEF m, spans
  <2>3. /\ DOMAIN spans = 1 .. m /\ spans[m].to = Forever
        /\ \A i \in 1 .. m : /\ spans[i].scale = ScaleOf(segments, i)
                             /\ i < m => spans[i].to = segments[i].to
    BY <1>4, <2>1, <2>2
  <2>4. \A i \in 1 .. m : spans[i].to \in Int
    <3>1. \A i \in 1 .. m : i < m \/ i = m
      BY <1>4
    <3>2. QED  BY <1>2, <1>4, <2>3, <3>1
  <2>5. ASSUME NEW t \in Int, NEW k \in 1 .. m, t < spans[k].to, \A j \in 1 .. k - 1 : ~(t < spans[j].to),
               t < Forever, StateAt(points, t) \in Conditioning
        PROVE  spans[k].scale = StateAt(points, t)
    <3>1. PICK l \in 1 .. m : /\ segments[l].from <= t /\ segments[l].mode = StateAt(points, t)
                              /\ l < m => t < segments[l + 1].from
      BY <1>3, <1>4, <2>5
    <3>2. t < spans[l].to
      <4>1. CASE l < m
        <5>1. spans[l].to = segments[l].to /\ segments[l].to = segments[l + 1].from
          BY <1>4, <2>3, <4>1
        <5>2. QED  BY <3>1, <4>1, <5>1
      <4>2. CASE l = m
        BY <2>3, <2>5, <4>2
      <4>3. QED  BY <1>4, <4>1, <4>2
    <3>3. ~(l < k)
      <4>1. l < k => l \in 1 .. k - 1
        BY <1>4
      <4>2. QED  BY <2>5, <3>2, <4>1
    <3>4. ASSUME k < l
          PROVE  FALSE
      <4>1. k < m /\ k + 1 \in 1 .. m /\ (k + 1 = l \/ k + 1 < l)
        BY <1>4, <3>4
      <4>2. spans[k].to = segments[k + 1].from
        BY <1>4, <2>3, <4>1
      <4>3. segments[k + 1].from <= segments[l].from
        BY <1>4, <4>1
      <4>4. segments[k + 1].from \in Int /\ segments[l].from \in Int
        BY <1>4, <4>1
      <4>5. QED  BY <2>5, <3>1, <4>2, <4>3, <4>4
    <3>5. k = l
      BY <1>4, <3>3, <3>4
    <3>6. ScaleOf(segments, l) = segments[l].mode
      BY <1>4, <2>5, <3>1, ScaleFacts
    <3>7. QED  BY <2>3, <3>1, <3>5, <3>6
  <2>6. AreSpans(spans, m, points)
    BY <1>4, <2>1, <2>3, <2>4, <2>5 DEF AreSpans
  <2>7. QED  BY <2>6 DEF spans, segments
<1>7. QED  BY <1>5, <1>6

\* The samples that are drawn after k spans are the first ones.
LEMMA TakenFacts ==
  ASSUME NEW times, IsAscending(times), NEW spans, NEW k \in Nat, \A j \in 1 .. k : spans[j].to \in Int
  PROVE  /\ Taken(times, spans, k) \in 0 .. Len(times)
         /\ \A i \in 1 .. Len(times) :
              i <= Taken(times, spans, k) <=> \E j \in 1 .. k : times[i] < spans[j].to
<1> DEFINE I == {i \in DOMAIN times : \E j \in 1 .. k : times[i] < spans[j].to}
<1>1. /\ Len(times) \in Nat /\ DOMAIN times = 1 .. Len(times)
      /\ \A i \in 1 .. Len(times) : times[i] \in Int
      /\ \A i, j \in 1 .. Len(times) : i < j <=> times[i] < times[j]
  BY AscendingFacts
<1>2. I \in SUBSET (1 .. Len(times)) /\ Taken(times, spans, k) = Cardinality(I)
  BY <1>1 DEF Taken
<1>3. ASSUME NEW j \in I, NEW i \in 1 .. j
      PROVE  i \in I
  <2>1. i \in 1 .. Len(times) /\ j \in 1 .. Len(times) /\ (i = j \/ i < j)
    BY <1>1
  <2>2. PICK l \in 1 .. k : times[j] < spans[l].to
    OBVIOUS
  <2>3. times[i] < spans[l].to
    BY <1>1, <2>1, <2>2
  <2>4. QED  BY <1>1, <2>1, <2>3
<1>4. \A i \in 1 .. Len(times) : i \in I <=> \E j \in 1 .. k : times[i] < spans[j].to
  BY <1>1
<1> HIDE DEF I
<1>5. Cardinality(I) \in 0 .. Len(times) /\ \A i \in 1 .. Len(times) : i \in I <=> i <= Cardinality(I)
  BY <1>1, <1>2, <1>3, PrefixFacts
<1>6. QED  BY <1>2, <1>4, <1>5

\* The places in the paths at which the i-th sample is joined to the next one
Joins(paths, times, i) ==
  {d \in (DOMAIN paths) \X (1 .. Len(times)) :
     /\ d[2] < Len(paths[d[1]].seg)
     /\ paths[d[1]].seg[d[2]] = times[i]
     /\ paths[d[1]].seg[d[2] + 1] = times[i + 1]}

\* Neighbouring samples are joined in the first span that ends after the
\* second one of them, and nowhere else.
LEMMA LineTrue ==
  ASSUME NEW points, IsSeriesOf(points, RunModes), NEW end \in Int,
         NEW times, IsAscending(times), \A i \in 1 .. Len(times) : times[i] < Forever,
         NEW i \in 1 .. Len(times) - 1
  PROVE  LET paths == LinePaths(times, TempSpans(ModeSegments(points, end)))
             mode == StateAt(points, times[i + 1])
         IN  /\ Cardinality(Joins(paths, times, i)) = 1
             /\ \A d \in Joins(paths, times, i) : mode \in Conditioning => paths[d[1]].scale = mode
<1> DEFINE L == Len(times)
           spans == TempSpans(ModeSegments(points, end))
           upTo(k) == Taken(times, spans, k)
           first(k) == SegmentFrom(upTo(k - 1))
           paths == LinePaths(times, spans)
           t == times[i + 1]
<1>1. /\ L \in Nat /\ DOMAIN times = 1 .. L
      /\ \A j \in 1 .. L : times[j] \in Int
      /\ \A j, k \in 1 .. L : times[j] = times[k] => j = k
  BY AscendingFacts
<1>2. i \in 1 .. L /\ i + 1 \in 1 .. L /\ i \in Nat /\ t \in Int /\ t < Forever
  <2>1. i \in 1 .. L /\ i + 1 \in 1 .. L /\ i \in Nat
    BY <1>1
  <2>2. QED  BY <1>1, <2>1
<1>3. PICK N : AreSpans(spans, N, points)
  BY SpanFacts
<1>4. paths = [k \in {j \in DOMAIN spans : first(j) < upTo(j)} |->
                 [seg |-> SubSeq(times, first(k), upTo(k)), scale |-> spans[k].scale]]
  BY DEF LinePaths
<1> HIDE DEF spans
<1>5. /\ N \in Nat /\ N # 0 /\ DOMAIN spans = 1 .. N
      /\ \A k \in 1 .. N : spans[k].to \in Int
      /\ spans[N].to = Forever
      /\ \A x \in Int, k \in 1 .. N :
           /\ x < spans[k].to /\ \A j \in 1 .. k - 1 : ~(x < spans[j].to)
           /\ x < Forever /\ StateAt(points, x) \in Conditioning
           => spans[k].scale = StateAt(points, x)
  BY <1>3 DEF AreSpans
<1>6. ASSUME NEW k \in 0 .. N
      PROVE  /\ upTo(k) \in 0 .. L
             /\ \A j \in 1 .. L : j <= upTo(k) <=> \E l \in 1 .. k : times[j] < spans[l].to
  <2>1. k \in Nat /\ \A j \in 1 .. k : spans[j].to \in Int
    BY <1>5
  <2>2. QED  BY <2>1, TakenFacts
<1> HIDE DEF upTo, paths, L, t
<1>7. PICK k \in 1 .. N : /\ i + 1 <= upTo(k)
                          /\ \A j \in 1 .. N : i + 1 <= upTo(j) => k <= j
  <2> DEFINE W == {j \in 1 .. N : i + 1 <= upTo(j)}
             k == Min(W)
  <2>1. N \in W
    <3>1. N \in 1 .. N /\ N \in 0 .. N
      BY <1>5
    <3>2. times[i + 1] < spans[N].to
      BY <1>2, <1>5 DEF t
    <3>3. i + 1 <= upTo(N)
      BY <1>2, <1>6, <3>1, <3>2
    <3>4. QED  BY <3>1, <3>3
  <2>2. IsFiniteSet(W) /\ W \subseteq Int
    <3>1. \A n \in Nat : IsFiniteSet(1 .. n)
      BY FS_Interval
    <3>2. IsFiniteSet(1 .. N) /\ W \subseteq 1 .. N
      BY <1>5, <3>1
    <3>3. W \subseteq Int
      BY <3>2
    <3> HIDE DEF W
    <3>4. IsFiniteSet(W)
      BY <3>2, FS_Subset
    <3>5. QED  BY <3>3, <3>4
  <2>3. k \in W /\ \A j \in W : k <= j
    <3> HIDE DEF W
    <3> QED  BY <2>1, <2>2, Extremes
  <2> HIDE DEF k
  <2>4. QED  BY <2>3
<1>8. k - 1 \in 0 .. N /\ k \in 0 .. N /\ k \in Nat
  BY <1>5
<1>9. upTo(k - 1) \in 0 .. L /\ upTo(k) \in 0 .. L /\ upTo(k - 1) <= i
  <2>1. upTo(k - 1) \in 0 .. L /\ upTo(k) \in 0 .. L
    BY <1>6, <1>8
  <2>2. ~(i + 1 <= upTo(k - 1))
    <3>1. CASE k = 1
      <4>1. ~(\E l \in 1 .. k - 1 : times[i + 1] < spans[l].to)
        BY <3>1
      <4>2. QED  BY <1>2, <1>6, <1>8, <4>1
    <3>2. CASE k # 1
      <4>1. k - 1 \in 1 .. N /\ ~(k <= k - 1)
        BY <1>8, <3>2
      <4>2. QED  BY <1>7, <4>1
    <3>3. QED  BY <3>1, <3>2
  <2>3. QED  BY <1>2, <2>1, <2>2
<1>10. first(k) \in 1 .. i
  BY <1>1, <1>2, <1>9 DEF SegmentFrom
<1>11. \A j \in 1 .. N : first(j) \in Nat /\ first(j) >= 1 /\ upTo(j) \in Nat /\ upTo(j) <= L
  <2> SUFFICES ASSUME NEW j \in 1 .. N
               PROVE  first(j) \in Nat /\ first(j) >= 1 /\ upTo(j) \in Nat /\ upTo(j) <= L
    OBVIOUS
  <2>1. j \in 0 .. N /\ j - 1 \in 0 .. N
    BY <1>5
  <2>2. upTo(j - 1) \in 0 .. L /\ upTo(j) \in 0 .. L
    BY <1>6, <2>1
  <2>3. QED  BY <1>1, <2>2 DEF SegmentFrom
<1>12. ASSUME NEW j \in DOMAIN paths
       PROVE  /\ j \in 1 .. N /\ first(j) < upTo(j)
              /\ paths[j].scale = spans[j].scale
              /\ Len(paths[j].seg) = upTo(j) - first(j) + 1
              /\ \A x \in 1 .. upTo(j) - first(j) + 1 : paths[j].seg[x] = times[first(j) + x - 1]
  <2>1. j \in 1 .. N /\ first(j) < upTo(j)
    BY <1>4, <1>5
  <2> DEFINE own == SubSeq(times, first(j), upTo(j))
  <2>2. paths[j] = [seg |-> own, scale |-> spans[j].scale]
    BY <1>4
  <2> HIDE DEF own
  <2>3. paths[j].seg = own /\ paths[j].scale = spans[j].scale
    BY <2>2
  <2> DEFINE m == first(j)
             n == upTo(j)
  <2>4. m \in Nat /\ m >= 1 /\ n \in Nat /\ n <= L /\ m < n
    BY <1>11, <2>1
  <2> HIDE DEF m, n
  <2>5. m \in Int /\ n \in Int /\ \A x \in m .. n : times[x] \in Int
    <3>1. \A x \in m .. n : x \in 1 .. L
      BY <1>1, <2>4
    <3>2. QED  BY <1>1, <2>4, <3>1
  <2>6. /\ Len(SubSeq(times, m, n)) = IF m <= n THEN n - m + 1 ELSE 0
        /\ \A x \in 1 .. n - m + 1 : SubSeq(times, m, n)[x] = times[m + x - 1]
    BY <2>5, SubSeqProperties
  <2>7. Len(SubSeq(times, m, n)) = n - m + 1
    BY <2>4, <2>6
  <2>8. paths[j].seg = SubSeq(times, m, n) /\ paths[j].scale = spans[j].scale
    BY <2>3 DEF m, n, own
  <2>9. QED  BY <2>1, <2>6, <2>7, <2>8 DEF m, n
<1>13. k \in DOMAIN paths
  <2>1. first(k) < upTo(k)
    BY <1>2, <1>7, <1>9, <1>10
  <2>2. k \in {j \in DOMAIN spans : first(j) < upTo(j)}
    BY <1>5, <2>1
  <2> HIDE DEF first
  <2>3. DOMAIN paths = {j \in DOMAIN spans : first(j) < upTo(j)}
    BY <1>4
  <2>4. QED  BY <2>2, <2>3
<1> HIDE DEF first
<1> DEFINE q == i - first(k) + 1
           J == Joins(paths, times, i)
<1>14. /\ q \in 1 .. L /\ q < upTo(k) - first(k) + 1
       /\ first(k) + q - 1 = i /\ first(k) + (q + 1) - 1 = i + 1
       /\ q \in 1 .. upTo(k) - first(k) + 1 /\ q + 1 \in 1 .. upTo(k) - first(k) + 1
  <2> DEFINE a == first(k)
             b == upTo(k)
  <2>1. a \in Int /\ 1 <= a /\ a <= i /\ b \in Int /\ i + 1 <= b /\ b <= L /\ L \in Int /\ i \in Int
    BY <1>1, <1>2, <1>7, <1>9, <1>10
  <2>2. q = i - a + 1
    OBVIOUS
  <2> HIDE DEF a, b, q
  <2>3. /\ q \in 1 .. L /\ q < b - a + 1 /\ a + q - 1 = i /\ a + (q + 1) - 1 = i + 1
        /\ q \in 1 .. b - a + 1 /\ q + 1 \in 1 .. b - a + 1
    BY <2>1, <2>2
  <2>4. QED  BY <2>3 DEF a, b
<1> HIDE DEF q
<1>15. <<k, q>> \in J
  <2>1. paths[k].seg[q] = times[i] /\ paths[k].seg[q + 1] = times[i + 1] /\ q < Len(paths[k].seg)
    BY <1>12, <1>13, <1>14
  <2>2. QED  BY <1>13, <1>14, <2>1 DEF Joins, L
<1>16. ASSUME NEW j \in DOMAIN paths, NEW x \in 1 .. L, x < Len(paths[j].seg), paths[j].seg[x] = times[i]
       PROVE  j = k /\ x = q
  <2>1. /\ j \in 1 .. N /\ Len(paths[j].seg) = upTo(j) - first(j) + 1
        /\ \A y \in 1 .. upTo(j) - first(j) + 1 : paths[j].seg[y] = times[first(j) + y - 1]
    BY <1>12
  <2>2. first(j) \in Nat /\ first(j) >= 1 /\ upTo(j) \in Nat /\ upTo(j) <= L
    BY <1>11, <2>1
  <2>3. x \in 1 .. upTo(j) - first(j) + 1 /\ first(j) + x - 1 \in 1 .. L /\ first(j) + x <= upTo(j)
    <3> DEFINE a == first(j)
               b == upTo(j)
    <3>1. /\ a \in Int /\ 1 <= a /\ b \in Int /\ b <= L /\ L \in Int
          /\ x \in Int /\ 1 <= x /\ x < b - a + 1
      BY <1>1, <1>16, <2>1, <2>2
    <3> HIDE DEF a, b
    <3>2. x \in 1 .. b - a + 1 /\ a + x - 1 \in 1 .. L /\ a + x <= b
      BY <3>1
    <3>3. QED  BY <3>2 DEF a, b
  <2>4. times[first(j) + x - 1] = times[i]
    BY <1>16, <2>1, <2>3
  <2>5. first(j) + x - 1 = i
    BY <1>1, <1>2, <2>3, <2>4
  <2>6. i + 1 <= upTo(j) /\ first(j) <= i
    BY <1>2, <2>2, <2>3, <2>5
  <2>7. k <= j
    BY <1>7, <2>1, <2>6
  <2>8. ASSUME k < j
        PROVE  FALSE
    <3>1. j - 1 \in 0 .. N /\ \A l \in 1 .. k : l \in 1 .. j - 1
      BY <1>5, <1>8, <2>1, <2>8
    <3>2. \E l \in 1 .. k : times[i + 1] < spans[l].to
      BY <1>2, <1>6, <1>7, <1>8
    <3>3. i + 1 <= upTo(j - 1) /\ upTo(j - 1) \in 0 .. L
      BY <1>2, <1>6, <3>1, <3>2
    <3>4. first(j) = upTo(j - 1)
      BY <1>1, <1>2, <3>3 DEF first, SegmentFrom
    <3>5. QED  BY <1>1, <1>2, <2>6, <3>3, <3>4
  <2>9. j = k
    BY <1>8, <2>1, <2>7, <2>8
  <2>10. QED  BY <1>2, <2>2, <2>5, <2>9 DEF q
<1>17. J = {<<k, q>>}
  <2>1. ASSUME NEW d \in J
        PROVE  d = <<k, q>>
    <3>1. /\ d \in (DOMAIN paths) \X (1 .. L)
          /\ d[2] < Len(paths[d[1]].seg) /\ paths[d[1]].seg[d[2]] = times[i]
      BY DEF Joins, L
    <3>2. d[1] = k /\ d[2] = q
      BY <1>16, <3>1
    <3>3. QED  BY <3>1, <3>2
  <2> HIDE DEF J
  <2>2. QED  BY <1>15, <2>1
<1> HIDE DEF J
<1>18. Cardinality(J) = 1
  BY <1>17, FS_Singleton
<1>19. ASSUME StateAt(points, t) \in Conditioning
       PROVE  paths[k].scale = StateAt(points, t)
  <2>1. PICK l \in 1 .. k : t < spans[l].to
    BY <1>2, <1>6, <1>7, <1>8 DEF t
  <2>2. ASSUME NEW j \in 1 .. k - 1
        PROVE  ~(t < spans[j].to)
    <3>1. \A x \in 1 .. k - 1 : ~(times[i + 1] < spans[x].to)
      <4>1. ~(i + 1 <= upTo(k - 1))
        BY <1>1, <1>2, <1>9
      <4>2. QED  BY <1>2, <1>6, <1>8, <4>1
    <3>2. QED  BY <3>1 DEF t
  <2>3. l = k
    <3>1. l \in 1 .. k - 1 \/ l = k
      BY <1>8
    <3>2. QED  BY <2>1, <2>2, <3>1
  <2>4. t < spans[k].to
    BY <2>1, <2>3
  <2>5. spans[k].scale = StateAt(points, t)
    BY <1>2, <1>5, <1>19, <2>2, <2>4
  <2>6. QED  BY <1>12, <1>13, <2>5
<1>20. \A d \in J : d[1] = k
  BY <1>17
<1>21. QED  BY <1>18, <1>19, <1>20 DEF J, paths, spans, t

-----------------------------------------------------------------------------
(* The picture *)

\* The invariant: the series are series, and the picture is drawn from them.
ChartRecord(drawn, mode, temps, alarms, range, power, picture) ==
  [drawn |-> drawn, mode |-> mode, temps |-> temps, alarms |-> alarms,
   range |-> range, power |-> power, picture |-> picture]

\* What a page is given
IsInput(mode, temps, alarms, range, power) ==
  /\ IsSeriesOf(mode, RunModes)
  /\ IsAscending(temps) /\ \A i \in 1 .. Len(temps) : temps[i] < Forever
  /\ \A leaf \in DOMAIN alarms : IsSeriesOf(alarms[leaf], Flags)
  /\ \E a, b \in Int : a <= b /\ range = <<a, b>>
  /\ IsAscending(power) /\ \A i \in 1 .. Len(power) : power[i] \in Reports

ChartInv ==
  /\ \E drawn, mode, temps, alarms, range, power, picture :
       chart = ChartRecord(drawn, mode, temps, alarms, range, power, picture)
  /\ IsInput(chart.mode, chart.temps, chart.alarms, chart.range, chart.power)
  /\ chart.drawn => chart.picture = Picture

LEMMA SeriesAreSeries ==
  ASSUME NEW V, NEW n, NEW s \in Series(V, n)
  PROVE  IsSeriesOf(s, V)
<1>1. PICK S \in {T \in SUBSET Instants : Cardinality(T) <= n} : s \in {Samples(f) : f \in [S -> V]}
  BY DEF Series
<1>2. PICK f \in [S -> V] : s = Samples(f)
  BY <1>1
<1>3. IsFiniteSet(S) /\ S \subseteq Int
  <2>1. Horizon \in Nat
    BY ChartsAssumption
  <2>2. IsFiniteSet(Instants) /\ Instants \subseteq Int
    BY <2>1, FS_Interval DEF Instants
  <2>3. S \subseteq Instants
    BY <1>1
  <2>4. QED  BY <2>2, <2>3, FS_Subset
<1>4. QED  BY <1>2, <1>3, SamplesFacts

LEMMA NoSamples == (\A V : IsSeriesOf(<<>>, V)) /\ IsAscending(<<>>) /\ Len(<<>>) = 0
<1>1. \A V : IsSeriesOf(<<>>, V)
  BY DEF IsSeriesOf, IsSeries
<1>2. <<>> \in Seq(Int) /\ Len(<<>>) = 0
  OBVIOUS
<1>3. QED  BY <1>1, <1>2 DEF IsAscending

LEMMA InstantFacts ==
  /\ IsFiniteSet(Instants) /\ Instants \subseteq Int /\ \A t \in Instants : t < Forever
  /\ IsFiniteSet(Reports) /\ Reports \subseteq Int
<1>1. Horizon \in Nat /\ 2 * Horizon \in Nat /\ 0 \in Int
  BY ChartsAssumption
<1>2. \A a, b \in Int : IsFiniteSet(a .. b)
  BY FS_Interval
<1>3. IsFiniteSet(0 .. Horizon) /\ IsFiniteSet(0 .. 2 * Horizon)
  BY <1>1, <1>2
<1>4. \A t \in Instants : t \in Int /\ t < Forever
  BY <1>1 DEF Instants, Forever
<1>5. \A t \in Reports : t \in Int
  BY <1>1 DEF Reports
<1>6. QED  BY <1>3, <1>4, <1>5 DEF Instants, Reports

LEMMA ChartInitial == ChartInit => ChartInv
<1> DEFINE Clear == [event |-> <<>>]
           least == <<Coldest, Coldest>>
<1>1. \A leaf \in DOMAIN Clear : IsSeriesOf(Clear[leaf], Flags)
  BY NoSamples
<1>2. Coldest \in Int /\ Hottest \in Int
  BY ChartsAssumption
<1>3. \E a, b \in Int : a <= b /\ least = <<a, b>>
  BY <1>2
<1>4. IsInput(<<>>, <<>>, Clear, least, <<>>)
  <2> HIDE DEF Clear, least
  <2> QED  BY <1>1, <1>3, NoSamples DEF IsInput
<1>5. Blank = ChartRecord(FALSE, <<>>, <<>>, Clear, least, <<>>, Nothing)
  BY DEF Blank, ChartRecord
<1> HIDE DEF Clear, least
<1>6. ASSUME NEW mode, NEW temps, NEW alarms, NEW range, NEW power, IsInput(mode, temps, alarms, range, power),
             chart = ChartRecord(FALSE, mode, temps, alarms, range, power, Nothing)
      PROVE  ChartInv
  <2>1. /\ chart.drawn = FALSE /\ chart.mode = mode /\ chart.temps = temps /\ chart.alarms = alarms
        /\ chart.range = range /\ chart.power = power
    BY <1>6 DEF ChartRecord
  <2>2. QED  BY <1>6, <2>1 DEF ChartInv
<1>7. ASSUME NEW m \in Series(RunModes, MaxModes), NEW S \in SUBSET Instants,
             chart = [Blank EXCEPT !.mode = m, !.temps = Ascending(S)]
      PROVE  ChartInv
  <2>1. IsSeriesOf(m, RunModes)
    BY SeriesAreSeries
  <2>2. IsFiniteSet(S) /\ S \subseteq Int /\ \A t \in S : t < Forever
    BY InstantFacts, FS_Subset
  <2> DEFINE temps == Ascending(S)
  <2>3. IsAscending(temps) /\ \A i \in 1 .. Len(temps) : temps[i] \in S
    BY <2>2, AscendingSeries
  <2> HIDE DEF temps
  <2>4. \A i \in 1 .. Len(temps) : temps[i] < Forever
    BY <2>2, <2>3
  <2>5. IsInput(m, temps, Clear, least, <<>>)
    BY <1>4, <2>1, <2>3, <2>4 DEF IsInput
  <2>6. chart = ChartRecord(FALSE, m, temps, Clear, least, <<>>, Nothing)
    BY <1>5, <1>7 DEF ChartRecord, temps
  <2>7. QED  BY <1>6, <2>5, <2>6
<1>8. ASSUME NEW e \in Series(Flags, 2), NEW l \in Series(Flags, 2),
             chart = [Blank EXCEPT !.alarms = [event |-> e, latched |-> l]]
      PROVE  ChartInv
  <2> DEFINE alarms == [event |-> e, latched |-> l]
  <2>1. IsSeriesOf(e, Flags) /\ IsSeriesOf(l, Flags)
    BY SeriesAreSeries
  <2>2. \A leaf \in DOMAIN alarms : IsSeriesOf(alarms[leaf], Flags)
    BY <2>1
  <2> HIDE DEF alarms
  <2>3. IsInput(<<>>, <<>>, alarms, least, <<>>)
    BY <1>4, <2>2 DEF IsInput
  <2>4. chart = ChartRecord(FALSE, <<>>, <<>>, alarms, least, <<>>, Nothing)
    BY <1>5, <1>8 DEF ChartRecord, alarms
  <2>5. QED  BY <1>6, <2>3, <2>4
<1>9. ASSUME NEW a \in Coldest .. Hottest, NEW b \in Coldest .. Hottest, a <= b,
             chart = [Blank EXCEPT !.range = <<a, b>>]
      PROVE  ChartInv
  <2> DEFINE range == <<a, b>>
  <2>1. a \in Int /\ b \in Int /\ a <= b
    BY <1>2, <1>9
  <2>2. \E x, y \in Int : x <= y /\ range = <<x, y>>
    BY <2>1
  <2> HIDE DEF range
  <2>3. IsInput(<<>>, <<>>, Clear, range, <<>>)
    BY <1>4, <2>2 DEF IsInput
  <2>4. chart = ChartRecord(FALSE, <<>>, <<>>, Clear, range, <<>>, Nothing)
    BY <1>5, <1>9 DEF ChartRecord, range
  <2>5. QED  BY <1>6, <2>3, <2>4
<1>10. ASSUME NEW S \in SUBSET Reports, chart = [Blank EXCEPT !.power = Ascending(S)]
       PROVE  ChartInv
  <2>1. IsFiniteSet(S) /\ S \subseteq Int
    BY InstantFacts, FS_Subset
  <2> DEFINE power == Ascending(S)
  <2>2. IsAscending(power) /\ \A i \in 1 .. Len(power) : power[i] \in S
    BY <2>1, AscendingSeries
  <2> HIDE DEF power
  <2>3. IsInput(<<>>, <<>>, Clear, least, power)
    BY <1>4, <2>2 DEF IsInput
  <2>4. chart = ChartRecord(FALSE, <<>>, <<>>, Clear, least, power, Nothing)
    BY <1>5, <1>10 DEF ChartRecord, power
  <2>5. QED  BY <1>6, <2>3, <2>4
<1>11. QED  BY <1>7, <1>8, <1>9, <1>10 DEF ChartInit

LEMMA ChartStep == ChartInv /\ [Draw]_chart => ChartInv'
<1> SUFFICES ASSUME ChartInv, [Draw]_chart
             PROVE  ChartInv'
  OBVIOUS
<1>1. CASE Draw
  <2>1. PICK drawn, mode, temps, alarms, range, power, picture :
          chart = ChartRecord(drawn, mode, temps, alarms, range, power, picture)
    BY DEF ChartInv
  <2> DEFINE new == Picture
  <2>2. chart' = ChartRecord(TRUE, mode, temps, alarms, range, power, new)
    BY <1>1, <2>1 DEF Draw, ChartRecord
  <2>3. /\ chart.mode = mode /\ chart.temps = temps /\ chart.alarms = alarms
        /\ chart.range = range /\ chart.power = power
    BY <2>1 DEF ChartRecord
  <2> HIDE DEF new
  <2>4. /\ chart'.mode = mode /\ chart'.temps = temps /\ chart'.alarms = alarms
        /\ chart'.range = range /\ chart'.power = power /\ chart'.picture = new
    BY <2>2 DEF ChartRecord
  <2>5. Picture' = new
    BY <2>3, <2>4 DEF Picture, new
  <2>6. IsInput(mode, temps, alarms, range, power)
    BY <2>3 DEF ChartInv
  <2>7. QED  BY <2>2, <2>4, <2>5, <2>6 DEF ChartInv
<1>2. CASE UNCHANGED chart
  BY <1>2 DEF ChartInv, Picture
<1>3. QED  BY <1>1, <1>2

LEMMA ChartInvariant == ChartsSpec => []ChartInv
  BY ChartInitial, ChartStep, PTL DEF ChartsSpec

\* What the picture holds
RightEdge == IF chart.temps = <<>> THEN 0 ELSE Last(chart.temps)

LEMMA PictureFacts ==
  ASSUME ChartInv, chart.drawn
  PROVE  /\ RightEdge \in Int
         /\ chart.picture.segments = ModeSegments(chart.mode, RightEdge)
         /\ Len(chart.temps) >= 2 =>
              chart.picture.paths = LinePaths(chart.temps, TempSpans(ModeSegments(chart.mode, RightEdge)))
         /\ chart.picture.marks = AlarmEdges(chart.alarms)
         /\ \A scale \in Conditioning :
              chart.picture.stops[scale] =
                GradientStops(scale, TempDomain(chart.range[1], chart.range[2])[1],
                                     TempDomain(chart.range[1], chart.range[2])[2])
         /\ chart.picture.filled = Interpolated(chart.power, Reports)
<1>1. chart.picture = Picture /\ IsAscending(chart.temps)
  BY DEF ChartInv, IsInput
<1>2. RightEdge \in Int
  <2> DEFINE times == chart.temps
  <2>1. times \in Seq(Int) /\ Len(times) \in Nat /\ \A i \in 1 .. Len(times) : times[i] \in Int
    BY <1>1, AscendingFacts DEF IsAscending
  <2> HIDE DEF times
  <2>2. times # <<>> => Len(times) \in Nat \ {0}
    BY <2>1, EmptySeq
  <2>3. times # <<>> => times[Len(times)] \in Int
    BY <2>1, <2>2
  <2>4. times # <<>> => Last(times) \in Int
    BY <2>3 DEF Last
  <2>5. QED  BY <2>4 DEF RightEdge, times
<1>3. Len(chart.temps) \in Nat
  BY <1>1, AscendingFacts
<1>4. /\ Picture.segments = ModeSegments(chart.mode, RightEdge)
      /\ Picture.marks = AlarmEdges(chart.alarms)
      /\ Picture.filled = Interpolated(chart.power, Reports)
  BY DEF Picture, RightEdge
<1>5. Picture.paths = IF Len(chart.temps) < 2 THEN <<>>
                      ELSE LinePaths(chart.temps, TempSpans(ModeSegments(chart.mode, RightEdge)))
  BY DEF Picture, RightEdge
<1>6. \A scale \in Conditioning :
        Picture.stops[scale] =
          GradientStops(scale, TempDomain(chart.range[1], chart.range[2])[1],
                               TempDomain(chart.range[1], chart.range[2])[2])
  BY DEF Picture
<1>7. Len(chart.temps) >= 2 => ~(Len(chart.temps) < 2)
  BY <1>3
<1>8. QED  BY <1>1, <1>2, <1>4, <1>5, <1>6, <1>7

\* The shading and the alarm marks, computed on their own from the same
\* samples as the strip, never contradict what its binary search shows.
THEOREM PictureTrue == ChartsSpec => []PictureAgreesWithStrip
<1>1. ChartInv => PictureAgreesWithStrip
  <2> SUFFICES ASSUME ChartInv, chart.drawn
               PROVE  PictureAgreesWithStrip
    BY DEF PictureAgreesWithStrip, ShadingAgreesWithStrip, MarksAgreeWithStrip
  <2>1. ShadingAgreesWithStrip
    <3> SUFFICES ASSUME NEW t \in Instants, chart.temps # <<>>, t < Last(chart.temps)
                 PROVE  {s.mode : s \in {r \in ToSet(chart.picture.segments) : r.from <= t /\ t < r.to}}
                          = {StateAt(chart.mode, t)} \ {Nothing}
      BY DEF ShadingAgreesWithStrip
    <3> DEFINE points == chart.mode
               end == RightEdge
    <3>1. /\ t \in Int /\ end \in Int /\ IsSeriesOf(points, RunModes) /\ t < end
          /\ chart.picture.segments = ModeSegments(points, end)
      BY InstantFacts, PictureFacts DEF ChartInv, IsInput, RightEdge
    <3> HIDE DEF points, end
    <3>2. {s.mode : s \in {r \in ToSet(ModeSegments(points, end)) : r.from <= t /\ t < r.to}}
            = {StateAt(points, t)} \ {Nothing}
      BY <3>1, ShadingTrue
    <3>3. {s.mode : s \in {r \in ToSet(chart.picture.segments) : r.from <= t /\ t < r.to}}
            = {StateAt(points, t)} \ {Nothing}
      BY <3>1, <3>2
    <3>4. QED  BY <3>3 DEF points
  <2>2. MarksAgreeWithStrip
    <3>1. /\ \A leaf \in DOMAIN chart.alarms : IsSeriesOf(chart.alarms[leaf], Flags)
          /\ chart.picture.marks = AlarmEdges(chart.alarms)
      BY PictureFacts DEF ChartInv, IsInput
    <3>2. /\ \A t \in AlarmEdges(chart.alarms) : AlarmShown(chart.alarms, t)
          /\ \A t \in Int : AlarmShown(chart.alarms, t) => \E u \in AlarmEdges(chart.alarms) : u <= t
      BY <3>1, MarksTrue
    <3>3. QED  BY <3>1, <3>2, InstantFacts DEF MarksAgreeWithStrip
  <2>3. QED  BY <2>1, <2>2 DEF PictureAgreesWithStrip
<1>2. QED  BY <1>1, ChartInvariant, PTL

\* The lines show every sample, in the colour of its band and of what the
\* machine does, and nothing where it was silent.
THEOREM LinesTrue == ChartsSpec => []LinesAreTrue
<1>1. ChartInv => LinesAreTrue
  <2> SUFFICES ASSUME ChartInv, chart.drawn
               PROVE  LinesAreTrue
    BY DEF LinesAreTrue, LineIsWhole, GradientIsTrue, OutageStaysBlank
  <2>1. LineIsWhole
    <3> SUFFICES ASSUME NEW i \in 1 .. Len(chart.temps) - 1
                 PROVE  LET joins == Joins(chart.picture.paths, chart.temps, i)
                            mode == StateAt(chart.mode, chart.temps[i + 1])
                        IN  /\ Cardinality(joins) = 1
                            /\ \A d \in joins : mode \in Conditioning => chart.picture.paths[d[1]].scale = mode
      BY DEF LineIsWhole, Joins
    <3> DEFINE points == chart.mode
               times == chart.temps
               end == RightEdge
               paths == LinePaths(times, TempSpans(ModeSegments(points, end)))
    <3>1. /\ IsSeriesOf(points, RunModes) /\ end \in Int
          /\ IsAscending(times) /\ \A j \in 1 .. Len(times) : times[j] < Forever
      BY PictureFacts DEF ChartInv, IsInput
    <3>2. Len(chart.temps) >= 2
      BY <3>1, AscendingFacts
    <3>3. chart.picture.paths = paths
      BY <3>2, PictureFacts
    <3>4. i \in 1 .. Len(times) - 1
      OBVIOUS
    <3> HIDE DEF points, times, end
    <3>5. /\ Cardinality(Joins(paths, times, i)) = 1
          /\ \A d \in Joins(paths, times, i) :
               StateAt(points, times[i + 1]) \in Conditioning => paths[d[1]].scale = StateAt(points, times[i + 1])
      BY <3>1, <3>4, LineTrue
    <3> HIDE DEF paths
    <3>6. QED  BY <3>3, <3>5 DEF points, times
  <2>2. GradientIsTrue
    <3>1. PICK a, b \in Int : a <= b /\ chart.range = <<a, b>>
      BY DEF ChartInv, IsInput
    <3> DEFINE lo == TempDomain(a, b)[1]
               hi == TempDomain(a, b)[2]
    <3>2. chart.range[1] = a /\ chart.range[2] = b
      BY <3>1
    <3>3. lo \in Int /\ hi \in Int /\ lo < a /\ b < hi
      BY <3>1, DomainFacts
    <3>4. \A scale \in Conditioning : chart.picture.stops[scale] = GradientStops(scale, lo, hi)
      BY <3>2, PictureFacts
    <3> HIDE DEF lo, hi
    <3>5. \A t \in a .. b : t \in lo .. hi /\ t # lo /\ t # hi
      BY <3>3
    <3>6. lo < hi
      BY <3>1, <3>3
    <3> SUFFICES ASSUME NEW scale \in Conditioning
                 PROVE  LET stops == chart.picture.stops[scale]
                        IN  /\ \A i, j \in DOMAIN stops : i < j => stops[i].at <= stops[j].at
                            /\ \A t \in a .. b :
                                 (\A e \in Edges[scale] : e \notin t - 1 .. t + 1) =>
                                   \E i \in 1 .. Len(stops) - 1 :
                                     /\ stops[i].at <= 100 * t /\ 100 * t <= stops[i + 1].at
                                     /\ {stops[i].color, stops[i + 1].color} = {BandColor(scale, 100 * t)}
      BY <3>2 DEF GradientIsTrue
    <3> DEFINE stops == GradientStops(scale, lo, hi)
    <3>7. AreTrueStops(stops, scale, lo, hi)
      BY <3>3, <3>6, GradientTrue
    <3>8. chart.picture.stops[scale] = stops
      BY <3>4
    <3> HIDE DEF stops
    <3>9. \A t \in a .. b :
            (\A e \in Edges[scale] : e \notin t - 1 .. t + 1) =>
              \E i \in 1 .. Len(stops) - 1 :
                /\ stops[i].at <= 100 * t /\ 100 * t <= stops[i + 1].at
                /\ {stops[i].color, stops[i + 1].color} = {BandColor(scale, 100 * t)}
      BY <3>5, <3>7 DEF AreTrueStops
    <3>10. QED  BY <3>7, <3>8, <3>9 DEF AreTrueStops
  <2>3. OutageStaysBlank
    <3> DEFINE p == chart.power
    <3>1. IsAscending(p) /\ \A i \in 1 .. Len(p) : p[i] \in Reports
      BY DEF ChartInv, IsInput
    <3>2. chart.picture.filled = Interpolated(p, Reports)
      BY PictureFacts
    <3> HIDE DEF p
    <3>3. ASSUME NEW i \in 1 .. Len(p) - 1
          PROVE  p[i] + 1 .. p[i + 1] - 1 \subseteq Reports
      <4>1. i \in 1 .. Len(p) /\ i + 1 \in 1 .. Len(p)
        BY <3>1, AscendingFacts
      <4>2. p[i] \in Reports /\ p[i + 1] \in Reports /\ Horizon \in Nat
        BY <3>1, <4>1, ChartsAssumption
      <4>3. QED  BY <4>2 DEF Reports
    <3>4. ASSUME 2 * Cardinality({i \in 1 .. Len(p) - 1 : p[i + 1] - p[i] = 1}) > Len(p) - 1,
                 NEW i \in 1 .. Len(p) - 1
          PROVE  (p[i] + 1 .. p[i + 1] - 1) \cap Interpolated(p, Reports)
                   = IF p[i + 1] - p[i] < 3 THEN p[i] + 1 .. p[i + 1] - 1 ELSE {}
      BY <3>1, <3>3, <3>4, OutageBlank
    <3>5. QED  BY <3>2, <3>4 DEF OutageStaysBlank, p
  <2>4. QED  BY <2>1, <2>2, <2>3 DEF LinesAreTrue
<1>2. QED  BY <1>1, ChartInvariant, PTL

-----------------------------------------------------------------------------
(* The change-points of some heartbeats *)

\* The heartbeats of a machine: readings at finitely many instants
IsBeats(beats) == IsFiniteSet(DOMAIN beats) /\ DOMAIN beats \subseteq Int

LEMMA SomeExtremes ==
  ASSUME NEW S, IsFiniteSet(S), S \subseteq Int, NEW T, T \subseteq S, T # {}
  PROVE  /\ Max(T) \in T /\ \A x \in T : x <= Max(T)
         /\ Min(T) \in T /\ \A x \in T : Min(T) <= x
<1>1. IsFiniteSet(T) /\ T \subseteq Int
  BY FS_Subset
<1>2. QED  BY <1>1, Extremes

\* Every heartbeat belongs to a run: the last one that began by then.
LEMMA RunOfBeat ==
  ASSUME NEW beats, IsBeats(beats), NEW t \in DOMAIN beats
  PROVE  \E s \in Starts(beats) : s <= t /\ ~\E u \in Starts(beats) : s < u /\ u <= t
<1> DEFINE D == DOMAIN beats
           T == {s \in Starts(beats) : s <= t}
<1>1. IsFiniteSet(D) /\ D \subseteq Int
  BY DEF IsBeats
<1>2. T \subseteq D
  BY DEF Starts
<1>3. T # {}
  <2>1. Min(D) \in D /\ \A x \in D : Min(D) <= x
    BY <1>1, Extremes
  <2> DEFINE first == Min(D)
  <2> HIDE DEF first
  <2>2. Before(D, first) = {}
    BY <1>1, <2>1 DEF Before, first
  <2>3. first \in Starts(beats)
    BY <2>1, <2>2 DEF Starts, first
  <2>4. first <= t
    BY <2>1 DEF first
  <2>5. QED  BY <2>3, <2>4
<1>4. Max(T) \in T /\ \A x \in T : x <= Max(T)
  <2> HIDE DEF T, D
  <2> QED  BY <1>1, <1>2, <1>3, SomeExtremes
<1>5. \A x \in T : x \in Int
  BY <1>1, <1>2
<1>6. \A u \in Starts(beats) : u <= t => u \in T
  OBVIOUS
<1> DEFINE s == Max(T)
<1> HIDE DEF s
<1>7. s \in Starts(beats) /\ s <= t /\ s \in Int
  BY <1>4, <1>5 DEF s
<1>8. \A u \in Starts(beats) : u <= t => u <= s /\ u \in Int
  BY <1>4, <1>5, <1>6 DEF s
<1>9. QED  BY <1>7, <1>8

\* A change-point: where its run starts and ends, and what was reported.
LEMMA PointFacts ==
  ASSUME NEW beats, IsBeats(beats), NEW p \in ChangePoints(beats)
  PROVE  /\ p.ts \in Starts(beats) /\ p.ts \in DOMAIN beats /\ p.lastTs \in DOMAIN beats
         /\ p.ts \in Int /\ p.lastTs \in Int /\ p.v = beats[p.ts] /\ p.ts <= p.lastTs
         /\ ~\E u \in Starts(beats) : p.ts < u /\ u <= p.lastTs
         /\ \A t \in DOMAIN beats :
              t >= p.ts /\ (~\E u \in Starts(beats) : p.ts < u /\ u <= t) => t <= p.lastTs
         /\ p = [ts |-> p.ts, v |-> p.v, lastTs |-> p.lastTs]
<1> DEFINE D == DOMAIN beats
           Run(s) == {t \in D : t >= s /\ ~\E u \in Starts(beats) : s < u /\ u <= t}
<1>1. IsFiniteSet(D) /\ D \subseteq Int
  BY DEF IsBeats
<1>2. PICK s \in Starts(beats) : p = [ts |-> s, v |-> beats[s], lastTs |-> Max(Run(s))]
  BY DEF ChangePoints
<1>3. s \in D /\ s \in Int
  BY <1>1 DEF Starts
<1>4. Run(s) \subseteq D
  OBVIOUS
<1>5. s \in Run(s)
  <2>1. \A u \in Starts(beats) : u \in Int
    BY <1>1 DEF Starts
  <2>2. ~\E u \in Starts(beats) : s < u /\ u <= s
    BY <1>3, <2>1
  <2>3. QED  BY <1>3, <2>2
<1>6. Max(Run(s)) \in Run(s) /\ \A x \in Run(s) : x <= Max(Run(s))
  <2> HIDE DEF Run, D
  <2> QED  BY <1>1, <1>4, <1>5, SomeExtremes
<1> DEFINE e == Max(Run(s))
<1> HIDE DEF e
<1>7. e \in D /\ e >= s /\ (~\E u \in Starts(beats) : s < u /\ u <= e) /\ \A x \in Run(s) : x <= e
  BY <1>6 DEF e
<1>8. p.ts = s /\ p.v = beats[s] /\ p.lastTs = e /\ p = [ts |-> p.ts, v |-> p.v, lastTs |-> p.lastTs]
  BY <1>2 DEF e
<1>9. QED  BY <1>1, <1>3, <1>7, <1>8

\* The run that begins at s, as a change-point
RunAt(beats, s) ==
  [ts |-> s, v |-> beats[s],
   lastTs |-> Max({t \in DOMAIN beats : t >= s /\ ~\E u \in Starts(beats) : s < u /\ u <= t})]

LEMMA RunsAreThePoints ==
  ASSUME NEW beats
  PROVE  ChangePoints(beats) = {RunAt(beats, s) : s \in Starts(beats)} /\ \A s : RunAt(beats, s).ts = s
BY DEF ChangePoints, RunAt

\* Change-points are told apart by their instants, and their runs do not
\* overlap.
LEMMA PointsApart ==
  ASSUME NEW beats, IsBeats(beats)
  PROVE  /\ \A p, q \in ChangePoints(beats) : p.ts = q.ts => p = q
         /\ \A p, q \in ChangePoints(beats) : p.ts < q.ts => p.lastTs < q.ts
         /\ IsFiniteSet(ChangePoints(beats))
         /\ \A p \in ChangePoints(beats) : p.ts \in DOMAIN beats /\ p.ts \in Int
<1>1. \A p, q \in ChangePoints(beats) : p.ts = q.ts => p = q
  BY RunsAreThePoints
<1>2. ASSUME NEW p \in ChangePoints(beats), NEW q \in ChangePoints(beats), p.ts < q.ts
      PROVE  p.lastTs < q.ts
  <2>1. p.lastTs \in Int /\ ~\E u \in Starts(beats) : p.ts < u /\ u <= p.lastTs
    BY PointFacts
  <2>2. q.ts \in Starts(beats) /\ q.ts \in Int
    BY PointFacts
  <2>3. ~(q.ts <= p.lastTs)
    BY <1>2, <2>1, <2>2
  <2>4. QED  BY <2>1, <2>2, <2>3
<1>3. IsFiniteSet(ChangePoints(beats))
  <2> DEFINE P == ChangePoints(beats)
             f == [p \in P |-> p.ts]
             D == DOMAIN beats
  <2>1. \A p \in P : p.ts \in D
    BY PointFacts
  <2>2. f \in Injection(P, D)
    <3> HIDE DEF P, D
    <3>1. f \in [P -> D]
      BY <2>1
    <3>2. \A p, q \in P : f[p] = f[q] => p = q
      BY <1>1 DEF P
    <3>3. QED  BY <3>1, <3>2 DEF Injection, IsInjective
  <2>3. IsFiniteSet(D)
    BY DEF IsBeats
  <2> HIDE DEF P, D, f
  <2>4. IsFiniteSet(P)
    BY <2>2, <2>3, FS_Injection
  <2>5. QED  BY <2>4 DEF P
<1>4. \A p \in ChangePoints(beats) : p.ts \in DOMAIN beats /\ p.ts \in Int
  BY PointFacts
<1>5. QED  BY <1>1, <1>2, <1>3, <1>4

\* The change-point that holds at a heartbeat has its reading, and its run
\* reaches it: the reading cannot change without a new run.
LEMMA PointHolds ==
  ASSUME NEW beats, IsBeats(beats), NEW t \in DOMAIN beats, NEW p \in HoldsAt(ChangePoints(beats), t)
  PROVE  p.v = beats[t] /\ t <= p.lastTs /\ p.ts <= t
<1> DEFINE D == DOMAIN beats
           P == ChangePoints(beats)
<1>1. /\ IsFiniteSet(D) /\ D \subseteq Int /\ p \in P /\ p.ts <= t
      /\ \A q \in P : q.ts <= t => q.ts <= p.ts
  BY DEF IsBeats, HoldsAt
<1>2. /\ p.ts \in D /\ p.ts \in Int /\ p.v = beats[p.ts] /\ p.lastTs \in Int
      /\ \A u \in D : u >= p.ts /\ (~\E w \in Starts(beats) : p.ts < w /\ w <= u) => u <= p.lastTs
  BY <1>1, PointFacts
<1>3. \A s \in Starts(beats) : s \in Int /\ s \in D /\ \E q \in P : q.ts = s
  <2>1. \A s \in Starts(beats) : s \in D
    BY DEF Starts
  <2>2. \A s \in Starts(beats) : \E q \in P : q.ts = s
    BY RunsAreThePoints
  <2>3. QED  BY <1>1, <2>1, <2>2
<1> HIDE DEF P
<1>4. ~\E s \in Starts(beats) : p.ts < s /\ s <= t
  <2> SUFFICES ASSUME NEW s \in Starts(beats), p.ts < s, s <= t
               PROVE  FALSE
    OBVIOUS
  <2>1. PICK q \in P : q.ts = s
    BY <1>3
  <2>2. s <= p.ts
    BY <1>1, <2>1
  <2>3. QED  BY <1>2, <1>3, <2>2
<1>5. t <= p.lastTs /\ t \in Int
  BY <1>1, <1>2, <1>4
<1> DEFINE Bad == {u \in D : p.ts <= u /\ u <= t /\ beats[u] # p.v}
<1>6. Bad = {}
  <2> SUFFICES ASSUME Bad # {}
               PROVE  FALSE
    OBVIOUS
  <2> DEFINE b == Min(Bad)
  <2>1. b \in Bad /\ \A u \in Bad : b <= u
    <3>1. Bad \subseteq D
      OBVIOUS
    <3> HIDE DEF Bad, D
    <3>2. QED  BY <1>1, <3>1, SomeExtremes
  <2> HIDE DEF b
  <2>2. b \in D /\ b \in Int /\ p.ts <= b /\ b <= t /\ beats[b] # p.v
    BY <1>1, <2>1
  <2>3. p.ts < b
    BY <1>2, <2>2
  <2>4. b \notin Starts(beats)
    BY <1>4, <2>2, <2>3
  <2> DEFINE E == Before(D, b)
             m == Max(E)
  <2>5. E # {} /\ beats[m] = beats[b]
    BY <2>2, <2>4 DEF Starts
  <2>6. m \in E /\ \A u \in E : u <= m
    <3>1. E \subseteq D
      BY DEF Before
    <3> HIDE DEF E, D
    <3>2. QED  BY <1>1, <2>5, <3>1, SomeExtremes
  <2>7. p.ts \in E
    BY <1>2, <2>3 DEF Before
  <2> HIDE DEF m
  <2>8. m \in D /\ m \in Int /\ m < b /\ p.ts <= m
    BY <1>1, <2>6, <2>7 DEF Before
  <2>9. m \in Bad
    BY <1>5, <2>2, <2>5, <2>8
  <2>10. QED  BY <2>1, <2>2, <2>8, <2>9
<1>7. p.v = beats[t]
  <2>1. t \notin Bad /\ t <= t
    BY <1>5, <1>6
  <2>2. QED  BY <1>1, <2>1
<1>8. QED  BY <1>1, <1>5, <1>7

-----------------------------------------------------------------------------
(* What the archive answers *)

\* The start of the bucket of an instant
Grid(t, width) == (t \div width) * width

LEMMA GridFacts ==
  ASSUME NEW a \in Int, NEW w \in Nat \ {0}
  PROVE  /\ Grid(a, w) \in Int /\ Grid(a, w) <= a /\ a < Grid(a, w) + w
         /\ Grid(a, w) % w = 0
<1> DEFINE k == a \div w
           g == Grid(a, w)
<1>1. k \in Int
  OBVIOUS
<1>2. w * k <= a
  OBVIOUS
<1>3. a < w * k + w
  OBVIOUS
<1>4. g = w * k
  BY <1>1 DEF Grid
<1> HIDE DEF k
<1>5. (w * k) % w = 0
  <2>1. \A x, y \in Int : x > 0 => (x * y) % x = 0
    OBVIOUS
  <2>2. w \in Int /\ w > 0
    OBVIOUS
  <2>3. QED  BY <1>1, <2>1, <2>2
<1>6. w * k \in Int
  <2>1. \A x, y \in Int : x * y \in Int
    OBVIOUS
  <2>2. QED  BY <1>1, <2>1
<1>7. QED  BY <1>2, <1>3, <1>4, <1>5, <1>6 DEF k

LEMMA GridGrows ==
  ASSUME NEW a \in Int, NEW b \in Int, a <= b, NEW w \in Nat \ {0}
  PROVE  Grid(a, w) <= Grid(b, w)
<1> DEFINE k == a \div w
           l == b \div w
<1>1. k \in Int /\ l \in Int
  OBVIOUS
<1>2. w * k <= a
  OBVIOUS
<1>3. b < w * l + w
  OBVIOUS
<1>4. Grid(a, w) = w * k /\ Grid(b, w) = w * l
  BY <1>1 DEF Grid
<1> HIDE DEF k, l
<1>5. w * k \in Int /\ w * l \in Int
  <2>1. \A x, y \in Int : x * y \in Int
    OBVIOUS
  <2>2. QED  BY <1>1, <2>1
<1>6. w * k < w * l + w
  BY <1>2, <1>3, <1>5
<1>7. k < l + 1
  <2> SUFFICES ASSUME k >= l + 1
               PROVE  FALSE
    BY <1>1
  <2>1. PICK d \in Nat : k = l + 1 + d
    <3>1. k - l - 1 \in Nat /\ k = l + 1 + (k - l - 1)
      BY <1>1
    <3>2. QED  BY <3>1
  <2>2. w * k = w * l + w + w * d
    BY <1>1, <2>1
  <2>3. w * d \in Nat
    <3>1. \A x, y \in Nat : x * y \in Nat
      OBVIOUS
    <3>2. QED  BY <2>1, <3>1
  <2>4. QED  BY <1>5, <1>6, <2>2, <2>3
<1>8. PICK d \in Nat : l = k + d
  <2>1. l - k \in Nat /\ l = k + (l - k)
    BY <1>1, <1>7
  <2>2. QED  BY <2>1
<1>9. w * l = w * k + w * d /\ w * d \in Nat
  <2>1. \A x, y \in Nat : x * y \in Nat
    OBVIOUS
  <2>2. w * d \in Nat
    BY <1>8, <2>1
  <2>3. QED  BY <1>1, <1>8, <2>2
<1>10. QED  BY <1>4, <1>5, <1>9

\* Points that are told apart by their instants
ArePoints(points) ==
  /\ IsFiniteSet(points)
  /\ \A p \in points : p.ts \in Int
  /\ \A p, q \in points : p.ts = q.ts => p = q

\* What fits a page: less does, and a point of the window that fits it is
\* answered unless it has expired.
LEMMA PageFits ==
  ASSUME NEW points, ArePoints(points), NEW from \in Int, NEW to \in Int, NEW page \in Nat \ {0}
  PROVE  /\ \A t, u \in Int : t <= u /\ FitsPage(points, from, u, page) => FitsPage(points, from, t, page)
         /\ \A t \in Int : t <= from => FitsPage(points, from, t, page)
         /\ \A t, u \in Int : (\A q \in points : q.ts <= t => q.ts <= u) /\ FitsPage(points, from, u, page)
              => FitsPage(points, from, t, page)
         /\ \A p : p \in InWindow(points, from, to, page) <=>
              /\ p \in points /\ Unexpired(p) /\ from < p.ts /\ p.ts <= to
              /\ FitsPage(points, from, p.ts, page)
<1> DEFINE Since(t) == {q \in points : from < q.ts /\ q.ts <= t}
           W == {q \in points : from < q.ts /\ q.ts <= to}
           Earlier(p) == {q \in W : q.ts < p.ts}
<1>1. /\ IsFiniteSet(points) /\ (\A p \in points : p.ts \in Int)
      /\ \A p, q \in points : p.ts = q.ts => p = q
  BY DEF ArePoints
<1>2. \A t : IsFiniteSet(Since(t)) /\ Cardinality(Since(t)) \in Nat
  <2> SUFFICES ASSUME NEW t
               PROVE  IsFiniteSet(Since(t)) /\ Cardinality(Since(t)) \in Nat
    OBVIOUS
  <2>1. Since(t) \subseteq points
    OBVIOUS
  <2> HIDE DEF Since
  <2>2. IsFiniteSet(Since(t))
    BY <1>1, <2>1, FS_Subset
  <2>3. QED  BY <2>2, FS_CardinalityType
<1>3. \A t : FitsPage(points, from, t, page) <=> Cardinality(Since(t)) <= page
  BY DEF FitsPage
<1>4. ASSUME NEW t, NEW u, Since(t) \subseteq Since(u), FitsPage(points, from, u, page)
      PROVE  FitsPage(points, from, t, page)
  <2> HIDE DEF Since
  <2>1. Cardinality(Since(t)) <= Cardinality(Since(u))
    BY <1>2, <1>4, FS_Subset
  <2>2. QED  BY <1>2, <1>3, <1>4, <2>1
<1>5. ASSUME NEW t \in Int, NEW u \in Int, \A q \in points : q.ts <= t => q.ts <= u
      PROVE  Since(t) \subseteq Since(u)
  BY <1>5
<1>6. ASSUME NEW t \in Int, NEW u \in Int, t <= u
      PROVE  \A q \in points : q.ts <= t => q.ts <= u
  BY <1>1, <1>6
<1>7. ASSUME NEW t \in Int, t <= from
      PROVE  FitsPage(points, from, t, page)
  <2>1. Since(t) = {}
    BY <1>1, <1>7
  <2>2. Cardinality(Since(t)) = 0
    BY <2>1, FS_EmptySet
  <2> HIDE DEF Since
  <2>3. QED  BY <1>3, <2>2
<1>8. \A p : p \in InWindow(points, from, to, page) <=> p \in W /\ Unexpired(p) /\ Cardinality(Earlier(p)) < page
  BY DEF InWindow
<1>9. ASSUME NEW p \in W
      PROVE  Cardinality(Earlier(p)) < page <=> FitsPage(points, from, p.ts, page)
  <2>1. p \in points /\ p.ts \in Int /\ from < p.ts /\ p.ts <= to
    BY <1>1
  <2>2. Since(p.ts) = Earlier(p) \cup {p} /\ p \notin Earlier(p)
    BY <1>1, <2>1
  <2>3. IsFiniteSet(Earlier(p))
    <3>1. Earlier(p) \subseteq points
      OBVIOUS
    <3> HIDE DEF Earlier
    <3>2. QED  BY <1>1, <3>1, FS_Subset
  <2> HIDE DEF Since, Earlier
  <2>4. Cardinality(Since(p.ts)) = Cardinality(Earlier(p)) + 1
    BY <2>2, <2>3, FS_AddElement
  <2>5. Cardinality(Earlier(p)) \in Nat
    BY <2>3, FS_CardinalityType
  <2>6. QED  BY <1>3, <2>4, <2>5
<1>10. \A p : p \in W <=> p \in points /\ from < p.ts /\ p.ts <= to
  OBVIOUS
<1> HIDE DEF Since, Earlier, W
<1>11. \A p : p \in InWindow(points, from, to, page) <=>
         /\ p \in points /\ Unexpired(p) /\ from < p.ts /\ p.ts <= to
         /\ FitsPage(points, from, p.ts, page)
  BY <1>8, <1>9, <1>10
<1>12. QED  BY <1>4, <1>5, <1>6, <1>7, <1>11

\* What a run checks of an answer in buckets
AreTrueBuckets(buckets, points, from, to, width, page) ==
  /\ \A t \in from .. to - 1 :
       \A p \in HoldsAt(points, t) :
         Unexpired(p) /\ FitsPage(points, from, t, page) =>
           \E b \in buckets : b.ts = (t \div width) * width /\ p.v \in b.values
  /\ \A b \in buckets : \A v \in b.values :
       \/ \E t \in b.ts - 1 .. b.ts + width - 1 : \E p \in HoldsAt(points, t) : p.v = v
       \/ /\ ~FitsPage(points, from, b.ts - 1, page)
          /\ \E p \in points : /\ p.v = v /\ FitsPage(points, from, p.ts, page)
                               /\ \A q \in points : FitsPage(points, from, q.ts, page) => q.ts <= p.ts

\* A bucket has the values that held in it, and at the instant before it: what
\* was carried in from before the window fills the buckets before the first
\* change, and the last change of a full page those after it.
LEMMA BucketsTrue ==
  ASSUME NEW points, ArePoints(points), NEW from \in Int, NEW to \in Int, NEW width \in Nat \ {0},
         NEW page \in Nat \ {0}
  PROVE  AreTrueBuckets(Bucketed(CarryIn(points, from) \cup InWindow(points, from, to, page), from, to, width),
                        points, from, to, width, page)
<1> DEFINE C == CarryIn(points, from) \cup InWindow(points, from, to, page)
           buckets == Bucketed(C, from, to, width)
           grid == {c \in Grid(from, width) .. to - 1 : c % width = 0 /\ ActiveIn(C, c, width) # {}}
           bucket(c) == [ts |-> c, values |-> {p.v : p \in ActiveIn(C, c, width)}]
           fits(t) == FitsPage(points, from, t, page)
<1>1. \A p \in points : p.ts \in Int
  BY DEF ArePoints
<1>2. Now \in Int /\ Retention \in Int
  BY AnalyticsAssumption
<1>3. \A p : p \in C <=> /\ p \in points /\ Unexpired(p)
                         /\ \/ p.ts <= from /\ \A q \in points : q.ts <= from => q.ts <= p.ts
                            \/ from < p.ts /\ p.ts <= to /\ fits(p.ts)
  <2>1. \A p : p \in CarryIn(points, from) <=>
          p \in points /\ p.ts <= from /\ Unexpired(p) /\ \A q \in points : q.ts <= from => q.ts <= p.ts
    BY DEF CarryIn
  <2>2. \A p : p \in InWindow(points, from, to, page) <=>
          p \in points /\ Unexpired(p) /\ from < p.ts /\ p.ts <= to /\ fits(p.ts)
    BY PageFits
  <2>3. QED  BY <2>1, <2>2
<1>20. /\ \A t, u \in Int : t <= u /\ fits(u) => fits(t)
       /\ \A t \in Int : t <= from => fits(t)
       /\ \A t, u \in Int : (\A q \in points : q.ts <= t => q.ts <= u) /\ fits(u) => fits(t)
  BY PageFits
<1> HIDE DEF fits
<1>4. buckets = {bucket(c) : c \in grid}
  BY DEF Bucketed, Grid
<1>5. \A c : \A p : p \in ActiveIn(C, c, width) <=>
        /\ p \in C
        /\ \/ c <= p.ts /\ p.ts < c + width
           \/ p.ts < c /\ \A q \in C : q.ts < c => q.ts <= p.ts
  BY DEF ActiveIn
<1>6. \A c : bucket(c).ts = c /\ bucket(c).values = {p.v : p \in ActiveIn(C, c, width)}
  OBVIOUS
<1> HIDE DEF C, buckets, bucket
<1>7. ASSUME NEW t \in from .. to - 1, NEW p \in HoldsAt(points, t), Unexpired(p), fits(t)
      PROVE  \E b \in buckets : b.ts = Grid(t, width) /\ p.v \in b.values
  <2> DEFINE c == Grid(t, width)
  <2>1. t \in Int /\ from <= t /\ t < to
    OBVIOUS
  <2>2. c \in Int /\ c <= t /\ t < c + width /\ c % width = 0
    BY <2>1, GridFacts
  <2>3. Grid(from, width) <= c /\ Grid(from, width) \in Int
    BY <2>1, GridGrows, GridFacts
  <2> HIDE DEF c
  <2>4. p \in points /\ p.ts <= t /\ p.ts \in Int /\ \A q \in points : q.ts <= t => q.ts <= p.ts
    BY <1>1 DEF HoldsAt
  <2>5. p \in C
    <3>1. CASE p.ts <= from
      <4>1. \A q \in points : q.ts <= from => q.ts <= p.ts
        BY <1>1, <2>1, <2>4
      <4>2. QED  BY <1>3, <1>7, <2>4, <3>1, <4>1
    <3>2. CASE ~(p.ts <= from)
      <4>1. from < p.ts /\ p.ts <= to
        BY <2>1, <2>4, <3>2
      <4>2. fits(p.ts)
        BY <1>7, <1>20, <2>1, <2>4
      <4>3. QED  BY <1>3, <1>7, <2>4, <4>1, <4>2
    <3>3. QED  BY <3>1, <3>2
  <2>6. p \in ActiveIn(C, c, width)
    <3>1. CASE c <= p.ts
      <4>1. p.ts < c + width
        BY <2>1, <2>2, <2>4
      <4>2. QED  BY <1>5, <2>5, <3>1, <4>1
    <3>2. CASE ~(c <= p.ts)
      <4>1. p.ts < c
        BY <2>2, <2>4, <3>2
      <4>2. \A q \in C : q.ts < c => q.ts <= p.ts
        BY <1>1, <1>3, <2>1, <2>2, <2>4
      <4>3. QED  BY <1>5, <2>5, <4>1, <4>2
    <3>3. QED  BY <3>1, <3>2
  <2>7. c \in grid
    <3>1. c \in Grid(from, width) .. to - 1
      BY <2>1, <2>2, <2>3
    <3>2. QED  BY <2>2, <2>6, <3>1
  <2>8. bucket(c) \in buckets /\ bucket(c).ts = c /\ p.v \in bucket(c).values
    BY <1>4, <1>6, <2>6, <2>7
  <2>9. QED  BY <2>8 DEF c
<1> DEFINE LastOfPage(p) == fits(p.ts) /\ \A q \in points : fits(q.ts) => q.ts <= p.ts
<1>8. ASSUME NEW b \in buckets, NEW v \in b.values
      PROVE  \/ \E t \in b.ts - 1 .. b.ts + width - 1 : \E p \in HoldsAt(points, t) : p.v = v
             \/ ~fits(b.ts - 1) /\ \E p \in points : p.v = v /\ LastOfPage(p)
  <2>1. PICK c \in grid : b = bucket(c)
    BY <1>4
  <2>2. b.ts = c /\ b.values = {p.v : p \in ActiveIn(C, c, width)}
    BY <1>6, <2>1
  <2>3. PICK p \in ActiveIn(C, c, width) : p.v = v
    BY <2>2
  <2>4. c \in Int /\ c < to
    <3>1. Grid(from, width) \in Int
      BY GridFacts
    <3>2. QED  BY <3>1
  <2>5. p \in C /\ p \in points /\ p.ts \in Int /\ Unexpired(p)
    BY <1>1, <1>3, <1>5, <2>3
  <2>6. CASE c <= p.ts /\ p.ts < c + width
    <3>1. p \in HoldsAt(points, p.ts)
      <4>1. p.ts <= p.ts
        BY <2>5
      <4>2. QED  BY <2>5, <4>1 DEF HoldsAt
    <3>2. p.ts \in c - 1 .. c + width - 1
      BY <2>4, <2>5, <2>6
    <3>3. QED  BY <2>2, <2>3, <3>1, <3>2
  <2>7. CASE ~(c <= p.ts /\ p.ts < c + width)
    <3>1. p.ts < c /\ \A q \in C : q.ts < c => q.ts <= p.ts
      BY <1>5, <2>3, <2>7
    <3>2. CASE \A q \in points : q.ts <= c - 1 => q.ts <= p.ts
      <4>1. p \in HoldsAt(points, c - 1)
        <5>1. p.ts <= c - 1
          BY <2>4, <2>5, <3>1
        <5>2. QED  BY <2>5, <3>2, <5>1 DEF HoldsAt
      <4>2. c - 1 \in c - 1 .. c + width - 1
        BY <2>4
      <4>3. QED  BY <2>2, <2>3, <4>1, <4>2
    <3>3. ASSUME NEW q \in points, q.ts <= c - 1, ~(q.ts <= p.ts)
          PROVE  ~fits(c - 1) /\ LastOfPage(p)
      <4>1. q.ts \in Int /\ p.ts < q.ts /\ q.ts < c
        BY <1>1, <2>4, <2>5, <3>3
      <4>2. \A r \in points : p.ts < r.ts => Unexpired(r)
        <5> SUFFICES ASSUME NEW r \in points, p.ts < r.ts
                     PROVE  Unexpired(r)
          OBVIOUS
        <5>1. r.ts \in Int
          BY <1>1
        <5>2. QED  BY <1>2, <2>5, <5>1 DEF Unexpired
      <4>3. \A r \in points : p.ts < r.ts => from < r.ts
        <5> SUFFICES ASSUME NEW r \in points, p.ts < r.ts, ~(from < r.ts)
                     PROVE  FALSE
          OBVIOUS
        <5>1. r.ts \in Int /\ r.ts <= from /\ p.ts <= from
          BY <1>1, <2>5
        <5>2. r.ts <= p.ts
          BY <1>3, <2>5, <5>1
        <5>3. QED  BY <2>5, <5>1, <5>2
      <4>4. \A r \in points : p.ts < r.ts /\ r.ts < c => ~fits(r.ts)
        <5> SUFFICES ASSUME NEW r \in points, p.ts < r.ts, r.ts < c, fits(r.ts)
                     PROVE  FALSE
          OBVIOUS
        <5>1. r.ts \in Int /\ from < r.ts /\ r.ts <= to /\ Unexpired(r)
          BY <1>1, <2>4, <4>2, <4>3
        <5>2. r \in C
          BY <1>3, <5>1
        <5>3. QED  BY <2>5, <3>1, <5>1, <5>2
      <4>5. ~fits(q.ts)
        BY <4>1, <4>4
      <4>6. ~fits(c - 1)
        <5>1. c - 1 \in Int
          BY <2>4
        <5>2. QED  BY <1>20, <3>3, <4>1, <4>5, <5>1
      <4>7. fits(p.ts)
        BY <1>3, <1>20, <2>5
      <4>8. ASSUME NEW r \in points, fits(r.ts), ~(r.ts <= p.ts)
            PROVE  FALSE
        <5>1. r.ts \in Int /\ p.ts < r.ts
          BY <1>1, <2>5, <4>8
        <5>2. ~(r.ts < c)
          BY <4>4, <4>8, <5>1
        <5>3. q.ts <= r.ts
          BY <2>4, <4>1, <5>1, <5>2
        <5>4. QED  BY <1>20, <4>1, <4>5, <4>8, <5>1, <5>3
      <4>9. QED  BY <4>6, <4>7, <4>8
    <3>4. CASE ~\A q \in points : q.ts <= c - 1 => q.ts <= p.ts
      <4>1. PICK q \in points : q.ts <= c - 1 /\ ~(q.ts <= p.ts)
        BY <3>4
      <4>2. ~fits(c - 1) /\ LastOfPage(p)
        BY <3>3, <4>1
      <4> HIDE DEF LastOfPage
      <4>3. QED  BY <2>2, <2>3, <2>5, <4>2
    <3>5. QED  BY <3>2, <3>4
  <2>8. QED  BY <2>6, <2>7
<1>9. \A t : (t \div width) * width = Grid(t, width)
  BY DEF Grid
<1>10. \A t \in from .. to - 1 : \A p \in HoldsAt(points, t) :
         Unexpired(p) /\ fits(t) => \E b \in buckets : b.ts = (t \div width) * width /\ p.v \in b.values
  BY <1>7, <1>9
<1>11. QED  BY <1>8, <1>10 DEF AreTrueBuckets, buckets, C, fits

\* In a list, as many elements come before an element as places do.
LEMMA RankInList ==
  ASSUME NEW S, NEW R, Orders(R, S), NEW f, Lists(f, S, R), NEW i \in 1 .. Cardinality(S)
  PROVE  f[i] \in S /\ Cardinality(Below(S, R, f[i])) = i - 1
<1> DEFINE n == Cardinality(S)
           T == Below(S, R, f[i])
           g == [j \in 1 .. i - 1 |-> f[j]]
<1>1. /\ n \in Nat /\ f \in [1 .. n -> S] /\ DOMAIN f = 1 .. n
      /\ \A x \in S : \E j \in 1 .. n : f[j] = x
      /\ \A j, k \in 1 .. n : j < k <=> <<f[j], f[k]>> \in R
  BY DEF Lists
<1> HIDE DEF n
<1>2. i \in 1 .. n /\ i - 1 \in Nat /\ \A j \in 1 .. i - 1 : j \in 1 .. n /\ j < i
  BY <1>1 DEF n
<1>3. \A j \in 1 .. i - 1 : f[j] \in T
  BY <1>1, <1>2 DEF Below
<1>4. \A x \in T : \E j \in 1 .. i - 1 : f[j] = x
  <2> SUFFICES ASSUME NEW x \in T
               PROVE  \E j \in 1 .. i - 1 : f[j] = x
    OBVIOUS
  <2>1. x \in S /\ <<x, f[i]>> \in R
    BY DEF Below
  <2>2. PICK j \in 1 .. n : f[j] = x
    BY <1>1, <2>1
  <2>3. j < i
    BY <1>1, <1>2, <2>1, <2>2
  <2>4. j \in 1 .. i - 1
    BY <1>1, <1>2, <2>3
  <2>5. QED  BY <2>2, <2>4
<1>5. \A j, k \in 1 .. i - 1 : f[j] = f[k] => j = k
  <2> SUFFICES ASSUME NEW j \in 1 .. i - 1, NEW k \in 1 .. i - 1, f[j] = f[k], j < k
               PROVE  FALSE
    BY <1>2
  <2>1. <<f[j], f[j]>> \in R /\ f[j] \in S
    BY <1>1, <1>2
  <2>2. QED  BY <2>1 DEF Orders
<1> HIDE DEF T
<1>6. g \in [1 .. i - 1 -> T] /\ \A j, k \in 1 .. i - 1 : g[j] = g[k] => j = k
  BY <1>3, <1>5
<1>7. T = {g[j] : j \in 1 .. i - 1} /\ DOMAIN g = 1 .. i - 1
  BY <1>3, <1>4
<1> HIDE DEF g
<1>8. IsFiniteSet(T) /\ Cardinality(T) <= i - 1
  BY <1>2, <1>7, ElementsFinite
<1>9. i - 1 <= Cardinality(T)
  <2> DEFINE m == i - 1
  <2>1. m \in Nat /\ g \in [1 .. m -> T] /\ \A j, k \in 1 .. m : g[j] = g[k] => j = k
    BY <1>2, <1>6
  <2> HIDE DEF m
  <2>2. m <= Cardinality(T)
    BY <1>8, <2>1, InjectionBound
  <2>3. QED  BY <2>2 DEF m
<1>10. Cardinality(T) \in Nat
  BY <1>8, FS_CardinalityType
<1>11. Cardinality(T) = i - 1
  BY <1>2, <1>8, <1>9, <1>10
<1>12. QED  BY <1>1, <1>2, <1>11 DEF T

\* A set has one list in an order.
LEMMA OneList ==
  ASSUME NEW S, NEW R, Orders(R, S), NEW f, Lists(f, S, R), NEW g, Lists(g, S, R)
  PROVE  f = g
<1>1. ASSUME NEW i \in 1 .. Cardinality(S)
      PROVE  f[i] = g[i]
  <2>1. /\ f[i] \in S /\ Cardinality(Below(S, R, f[i])) = i - 1
        /\ g[i] \in S /\ Cardinality(Below(S, R, g[i])) = i - 1
    BY RankInList
  <2>2. <<f[i], g[i]>> \notin R /\ <<g[i], f[i]>> \notin R
    <3>1. \A x, y \in S : <<x, y>> \in R <=> Cardinality(Below(S, R, x)) < Cardinality(Below(S, R, y))
      BY RankFacts
    <3>2. Cardinality(S) \in Nat /\ ~(i - 1 < i - 1)
      BY DEF Lists
    <3>3. QED  BY <2>1, <3>1, <3>2
  <2>3. QED  BY <2>1, <2>2 DEF Orders
<1>2. /\ f = [i \in 1 .. Cardinality(S) |-> f[i]]
      /\ g = [i \in 1 .. Cardinality(S) |-> g[i]]
  BY DEF Lists
<1>3. [i \in 1 .. Cardinality(S) |-> f[i]] = [i \in 1 .. Cardinality(S) |-> g[i]]
  BY <1>1
<1>4. QED  BY <1>2, <1>3

\* The order of points in time
InTime(S) == {e \in S \X S : e[1].ts < e[2].ts}

LEMMA ByTimeLists ==
  ASSUME NEW S, ArePoints(S)
  PROVE  Orders(InTime(S), S) /\ Lists(ByTime(S), S, InTime(S))
<1> DEFINE R == InTime(S)
           f == ByTime(S)
<1>1. IsFiniteSet(S) /\ (\A p \in S : p.ts \in Int) /\ \A p, q \in S : p.ts = q.ts => p = q
  BY DEF ArePoints
<1>2. \A p, q \in S : <<p, q>> \in R <=> p.ts < q.ts
  BY DEF InTime
<1> HIDE DEF R
<1>3. Orders(R, S)
  <2>1. \A p \in S : ~(p.ts < p.ts)
    BY <1>1
  <2>2. \A p, q, r \in S : p.ts < q.ts /\ q.ts < r.ts => p.ts < r.ts
    BY <1>1
  <2>3. \A p, q \in S : p = q \/ p.ts < q.ts \/ q.ts < p.ts
    BY <1>1
  <2>4. QED  BY <1>1, <1>2, <2>1, <2>2, <2>3 DEF Orders
<1>4. \A x \in S : Below(S, R, x) = {y \in S : y.ts < x.ts}
  BY <1>2 DEF Below
<1>5. f = [i \in 1 .. Cardinality(S) |-> CHOOSE x \in S : Cardinality({y \in S : y.ts < x.ts}) = i - 1]
  BY DEF ByTime, InOrder
<1>6. ASSUME NEW i \in 1 .. Cardinality(S), \E x \in S : Cardinality(Below(S, R, x)) = i - 1
      PROVE  f[i] \in S /\ Cardinality(Below(S, R, f[i])) = i - 1
  <2>1. \E x \in S : Cardinality({y \in S : y.ts < x.ts}) = i - 1
    BY <1>4, <1>6
  <2>2. f[i] = CHOOSE x \in S : Cardinality({y \in S : y.ts < x.ts}) = i - 1
    BY <1>5
  <2> HIDE DEF f
  <2>3. f[i] \in S /\ Cardinality({y \in S : y.ts < f[i].ts}) = i - 1
    BY <2>1, <2>2
  <2>4. QED  BY <2>3, <1>4
<1>7. f = [i \in 1 .. Cardinality(S) |-> f[i]]
  BY <1>5
<1> HIDE DEF f
<1>8. Lists(f, S, R)
  BY <1>3, <1>6, <1>7, ByRank
<1>9. QED  BY <1>3, <1>8 DEF f, R

LEMMA ListInTime ==
  ASSUME NEW S, ArePoints(S)
  PROVE  LET f == ByTime(S)
             n == Cardinality(S)
         IN  /\ n \in Nat /\ f \in [1 .. n -> S] /\ DOMAIN f = 1 .. n
             /\ \A x \in S : \E i \in 1 .. n : f[i] = x
             /\ \A i, j \in 1 .. n : i < j <=> f[i].ts < f[j].ts
<1> DEFINE f == ByTime(S)
           n == Cardinality(S)
<1>1. Lists(f, S, InTime(S))
  BY ByTimeLists
<1> HIDE DEF f
<1>2. /\ n \in Nat /\ f \in [1 .. n -> S] /\ DOMAIN f = 1 .. n
      /\ \A x \in S : \E i \in 1 .. n : f[i] = x
      /\ \A i, j \in 1 .. n : i < j <=> <<f[i], f[j]>> \in InTime(S)
  BY <1>1 DEF Lists
<1> HIDE DEF n
<1>3. \A x, y \in S : <<x, y>> \in InTime(S) <=> x.ts < y.ts
  BY DEF InTime
<1>4. \A i, j \in 1 .. n : i < j <=> f[i].ts < f[j].ts
  BY <1>2, <1>3
<1>5. QED  BY <1>2, <1>4 DEF f, n

\* The list of earlier points, and then that of later points, is the list of
\* them all.
LEMMA ByTimeJoins ==
  ASSUME NEW A, NEW B, ArePoints(A \cup B), \A a \in A, b \in B : a.ts < b.ts
  PROVE  /\ ByTime(A) \o ByTime(B) = ByTime(A \cup B)
         /\ Len(ByTime(A \cup B)) = Cardinality(A) + Cardinality(B)
<1> DEFINE S == A \cup B
           R == InTime(S)
           m == Cardinality(A)
           k == Cardinality(B)
           a == ByTime(A)
           b == ByTime(B)
           h == a \o b
<1>1. IsFiniteSet(S) /\ \A p \in S : p.ts \in Int
  BY DEF ArePoints
<1>2. ArePoints(A) /\ ArePoints(B)
  <2>1. IsFiniteSet(A) /\ IsFiniteSet(B)
    BY <1>1, FS_Subset
  <2>2. QED  BY <2>1 DEF ArePoints
<1>3. Orders(R, S) /\ Lists(ByTime(S), S, R)
  BY ByTimeLists
<1>4. /\ m \in Nat /\ a \in [1 .. m -> A] /\ DOMAIN a = 1 .. m
      /\ \A x \in A : \E i \in 1 .. m : a[i] = x
      /\ \A i, j \in 1 .. m : i < j <=> a[i].ts < a[j].ts
  BY <1>2, ListInTime
<1>5. /\ k \in Nat /\ b \in [1 .. k -> B] /\ DOMAIN b = 1 .. k
      /\ \A x \in B : \E i \in 1 .. k : b[i] = x
      /\ \A i, j \in 1 .. k : i < j <=> b[i].ts < b[j].ts
  BY <1>2, ListInTime
<1>6. Cardinality(S) = m + k
  <2>1. A \cap B = {}
    <3>1. \A x \in A : ~(x.ts < x.ts)
      BY <1>1
    <3>2. QED  BY <3>1
  <2>2. IsFiniteSet(A) /\ IsFiniteSet(B)
    BY <1>2 DEF ArePoints
  <2>3. Cardinality(A \cap B) = 0
    BY <2>1, FS_EmptySet
  <2>4. Cardinality(S) = m + k - Cardinality(A \cap B)
    BY <2>2, FS_Union
  <2>5. QED  BY <1>4, <1>5, <2>3, <2>4
<1> HIDE DEF m, k, a, b
<1>7. a \in Seq(S) /\ b \in Seq(S) /\ Len(a) = m /\ Len(b) = k
  <2>1. a \in Seq(A) /\ b \in Seq(B)
    BY <1>4, <1>5
  <2>2. Len(a) = m /\ Len(b) = k
    BY <1>4, <1>5, <2>1, LenProperties
  <2>3. a \in [1 .. m -> S] /\ b \in [1 .. k -> S]
    BY <1>4, <1>5
  <2> HIDE DEF S
  <2>4. a \in Seq(S) /\ b \in Seq(S)
    BY <1>4, <1>5, <2>3
  <2>5. QED  BY <2>2, <2>4
<1>8. /\ h \in Seq(S) /\ Len(h) = m + k
      /\ \A i \in 1 .. m : h[i] = a[i]
      /\ \A i \in 1 .. k : h[m + i] = b[i]
  <2> HIDE DEF S
  <2>1. /\ h \in Seq(S) /\ Len(h) = Len(a) + Len(b)
        /\ \A i \in 1 .. Len(a) + Len(b) : h[i] = IF i <= Len(a) THEN a[i] ELSE b[i - Len(a)]
    BY <1>7, ConcatProperties
  <2> HIDE DEF h
  <2>2. \A i \in 1 .. m : i \in 1 .. m + k /\ i <= m
    BY <1>4, <1>5
  <2>3. \A i \in 1 .. k : m + i \in 1 .. m + k /\ ~(m + i <= m) /\ (m + i) - m = i
    BY <1>4, <1>5
  <2>4. /\ h \in Seq(S) /\ Len(h) = m + k
        /\ \A i \in 1 .. m + k : h[i] = IF i <= m THEN a[i] ELSE b[i - m]
    BY <1>7, <2>1
  <2>5. \A i \in 1 .. m : h[i] = a[i]
    BY <2>2, <2>4
  <2>6. ASSUME NEW i \in 1 .. k
        PROVE  h[m + i] = b[i]
    <3>1. h[m + i] = b[(m + i) - m]
      BY <2>3, <2>4
    <3>2. QED  BY <2>3, <3>1
  <2>7. QED  BY <2>4, <2>5, <2>6
<1> HIDE DEF h
<1>9. ASSUME NEW i \in 1 .. m + k
      PROVE  \/ i \in 1 .. m /\ h[i] = a[i] /\ h[i] \in A
             \/ \E j \in 1 .. k : i = m + j /\ h[i] = b[j] /\ h[i] \in B
  <2>1. CASE i <= m
    <3>1. i \in 1 .. m
      BY <1>4, <2>1
    <3>2. QED  BY <1>4, <1>8, <3>1
  <2>2. CASE ~(i <= m)
    <3>1. i - m \in 1 .. k /\ i = m + (i - m)
      BY <1>4, <1>5, <2>2
    <3>2. PICK j \in 1 .. k : i = m + j
      BY <3>1
    <3>3. QED  BY <1>5, <1>8, <3>2
  <2>3. QED  BY <2>1, <2>2
<1>10. ASSUME NEW i \in 1 .. m + k, NEW j \in 1 .. m + k, i < j
       PROVE  h[i].ts < h[j].ts
  <2>1. CASE j \in 1 .. m /\ h[j] = a[j]
    <3>1. i \in 1 .. m /\ h[i] = a[i]
      <4>1. i \in 1 .. m
        BY <1>4, <1>10, <2>1
      <4>2. QED  BY <1>8, <4>1
    <3>2. QED  BY <1>4, <1>10, <2>1, <3>1
  <2>2. CASE \E l \in 1 .. k : j = m + l /\ h[j] = b[l] /\ h[j] \in B
    <3>1. PICK l \in 1 .. k : j = m + l /\ h[j] = b[l] /\ h[j] \in B
      BY <2>2
    <3>2. CASE i \in 1 .. m /\ h[i] = a[i] /\ h[i] \in A
      BY <3>1, <3>2
    <3>3. CASE \E q \in 1 .. k : i = m + q /\ h[i] = b[q] /\ h[i] \in B
      <4>1. PICK q \in 1 .. k : i = m + q /\ h[i] = b[q]
        BY <3>3
      <4>2. q < l
        BY <1>4, <1>10, <3>1, <4>1
      <4>3. QED  BY <1>5, <3>1, <4>1, <4>2
    <3>4. QED  BY <1>9, <3>2, <3>3
  <2>3. QED  BY <1>9, <2>1, <2>2
<1>11. \A i \in 1 .. m + k : h[i] \in S /\ h[i].ts \in Int
  BY <1>1, <1>9
<1>12. ASSUME NEW i \in 1 .. m + k, NEW j \in 1 .. m + k, h[i].ts < h[j].ts
       PROVE  i < j
  <2>1. i # j
    BY <1>11, <1>12
  <2>2. ~(j < i)
    BY <1>10, <1>11, <1>12
  <2>3. QED  BY <1>4, <1>5, <2>1, <2>2
<1>13. ASSUME NEW x \in S
       PROVE  \E i \in 1 .. m + k : h[i] = x
  <2>1. CASE x \in A
    <3>1. PICK i \in 1 .. m : a[i] = x
      BY <1>4, <2>1
    <3>2. i \in 1 .. m + k /\ h[i] = x
      BY <1>4, <1>5, <1>8, <3>1
    <3>3. QED  BY <3>2
  <2>2. CASE x \in B
    <3>1. PICK i \in 1 .. k : b[i] = x
      BY <1>5, <2>2
    <3>2. m + i \in 1 .. m + k /\ h[m + i] = x
      BY <1>4, <1>5, <1>8, <3>1
    <3>3. QED  BY <3>2
  <2>3. QED  BY <2>1, <2>2
<1>14. Lists(h, S, R)
  <2>1. h \in [1 .. m + k -> S] /\ DOMAIN h = 1 .. m + k
    <3> HIDE DEF S
    <3> QED  BY <1>8, LenProperties
  <2>2. \A i, j \in 1 .. m + k : i < j <=> <<h[i], h[j]>> \in R
    <3>1. \A i, j \in 1 .. m + k : <<h[i], h[j]>> \in R <=> h[i].ts < h[j].ts
      BY <1>11 DEF InTime
    <3>2. QED  BY <1>10, <1>12, <3>1
  <2>3. m + k \in Nat
    BY <1>4, <1>5
  <2> HIDE DEF S, R
  <2>4. QED  BY <1>6, <1>13, <2>1, <2>2, <2>3 DEF Lists
<1>15. h = ByTime(S)
  <2> HIDE DEF S, R
  <2> QED  BY <1>3, <1>14, OneList
<1>16. QED  BY <1>8, <1>15 DEF h, a, b, m, k

\* A raw answer: the point at `from', if there is one, and the window.
LEMMA RawTrue ==
  ASSUME NEW points, ArePoints(points), NEW from \in Int, NEW to \in Int, NEW resolution,
         NEW page \in Nat \ {0}, QueryAnswer(points, from, to, resolution, page).effective = "raw"
  PROVE  LET raw == QueryAnswer(points, from, to, resolution, page).raw
         IN  /\ raw = ByTime({p \in points : /\ Unexpired(p) /\ from <= p.ts /\ p.ts <= to
                                      /\ FitsPage(points, from, p.ts, page)})
             /\ Len(raw) <= MaxRaw + 1
<1> DEFINE W == InWindow(points, from, to, page)
           A == {p \in CarryIn(points, from) : p.ts >= from /\ p.ts <= to}
           B == {p \in W : p.ts >= from /\ p.ts <= to}
           all == {p \in points : /\ Unexpired(p) /\ from <= p.ts /\ p.ts <= to
                                  /\ FitsPage(points, from, p.ts, page)}
           raw == QueryAnswer(points, from, to, resolution, page).raw
           effective == Effective(resolution, Cardinality(W))
<1>1. /\ IsFiniteSet(points) /\ (\A p \in points : p.ts \in Int)
      /\ \A p, q \in points : p.ts = q.ts => p = q
  BY DEF ArePoints
<1>2. MaxRaw \in Nat
  BY AnalyticsAssumption
<1>3. effective = "raw" /\ raw = ByTime(A) \o ByTime(B)
  <2>1. QueryAnswer(points, from, to, resolution, page).effective = effective
    BY DEF QueryAnswer
  <2>2. raw = IF effective # "raw" THEN <<>> ELSE ByTime(A) \o ByTime(B)
    BY DEF QueryAnswer
  <2>3. QED  BY <2>1, <2>2
<1>4. Cardinality(W) <= MaxRaw
  BY <1>3 DEF Effective
<1>5. \A p : /\ p \in W <=> /\ p \in points /\ Unexpired(p) /\ from < p.ts /\ p.ts <= to
                            /\ FitsPage(points, from, p.ts, page)
             /\ p \in B <=> p \in W
  BY <1>1, PageFits
<1>6. \A p : p \in A <=> p \in points /\ Unexpired(p) /\ p.ts = from /\ p.ts <= to
  <2>1. \A p : p \in CarryIn(points, from) <=>
          p \in points /\ p.ts <= from /\ Unexpired(p) /\ \A q \in points : q.ts <= from => q.ts <= p.ts
    BY DEF CarryIn
  <2>2. QED  BY <1>1, <2>1
<1> HIDE DEF W, A, B, raw, effective
<1>7. A \cup B = all
  <2>1. \A p \in points : p.ts <= from => FitsPage(points, from, p.ts, page)
    BY <1>1, PageFits
  <2>2. QED  BY <1>1, <1>5, <1>6, <2>1
<1>8. \A a \in A, b \in B : a.ts < b.ts
  BY <1>1, <1>5, <1>6
<1>9. ArePoints(A \cup B)
  <2>1. A \cup B \subseteq points
    BY <1>5, <1>6
  <2> HIDE DEF all
  <2>2. IsFiniteSet(A \cup B)
    BY <1>1, <2>1, FS_Subset
  <2>3. QED  BY <1>1, <2>1, <2>2 DEF ArePoints
<1>10. Cardinality(A) <= 1 /\ Cardinality(A) \in Nat
  <2>1. CASE A = {}
    BY <2>1, FS_EmptySet
  <2>2. CASE A # {}
    <3>1. PICK p \in A : TRUE
      BY <2>2
    <3>2. A = {p}
      BY <1>1, <1>6, <3>1
    <3>3. Cardinality({p}) = 1
      BY FS_Singleton
    <3>4. QED  BY <3>2, <3>3
  <2>3. QED  BY <2>1, <2>2
<1>11. B = W
  BY <1>5
<1>12. Cardinality(B) \in Nat /\ Cardinality(B) <= MaxRaw
  <2>1. IsFiniteSet(B)
    <3>1. B \subseteq points
      BY <1>5
    <3>2. QED  BY <1>1, <3>1, FS_Subset
  <2>2. Cardinality(B) \in Nat
    BY <2>1, FS_CardinalityType
  <2>3. QED  BY <1>4, <1>11, <2>2
<1>13. /\ ByTime(A) \o ByTime(B) = ByTime(A \cup B)
       /\ Len(ByTime(A \cup B)) = Cardinality(A) + Cardinality(B)
  BY <1>8, <1>9, ByTimeJoins
<1>14. raw = ByTime(all)
  BY <1>3, <1>7, <1>13
<1>15. Len(raw) <= MaxRaw + 1
  <2>1. Len(raw) = Cardinality(A) + Cardinality(B)
    BY <1>3, <1>13
  <2>2. QED  BY <1>2, <1>10, <1>12, <2>1
<1>16. QED  BY <1>14, <1>15 DEF raw

-----------------------------------------------------------------------------
(* What a request holds *)

AnalysisRecord(kind, beats, from, to, resolution, lag, page, answer) ==
  [kind |-> kind, beats |-> beats, from |-> from, to |-> to, resolution |-> resolution, lag |-> lag,
   page |-> page, answer |-> answer]

\* A query reads the archive as the heartbeats left it; a chart may find it
\* behind; an answer is that of its request.
AnalyticsInv ==
  /\ \E kind, beats, from, to, resolution, lag, page, answer :
       analysis = AnalysisRecord(kind, beats, from, to, resolution, lag, page, answer)
  /\ IsBeats(analysis.beats) /\ DOMAIN analysis.beats \subseteq 0 .. Now
  /\ analysis.beats = [t \in DOMAIN analysis.beats |-> analysis.beats[t]]
  /\ {analysis.from, analysis.to} \subseteq Int /\ analysis.lag \in 0 .. LiveEdge
  /\ analysis.kind \in {"query", "queried"} => analysis.lag = 0
  /\ analysis.resolution \in {"raw", "5m", "1h"} /\ analysis.page \in Nat \ {0}
  /\ analysis.kind \in {"chart", "charted"} => analysis.from \in 0 .. Now
  /\ analysis.kind = "queried" =>
       analysis.answer = QueryAnswer(Archived(analysis), analysis.from, analysis.to, analysis.resolution, analysis.page)
  /\ analysis.kind = "charted" =>
       analysis.answer = ChartAnswer(Archived(analysis), analysis.beats, analysis.from, analysis.page)

LEMMA PastIsBeats ==
  ASSUME NEW beats \in Past
  PROVE  /\ IsBeats(beats) /\ DOMAIN beats \subseteq 0 .. Now
         /\ beats = [t \in DOMAIN beats |-> beats[t]]
<1>1. PICK F \in {[S -> Readings] : S \in SUBSET (0 .. Now)} : beats \in F
  BY DEF Past
<1>2. PICK S \in SUBSET (0 .. Now) : beats \in [S -> Readings]
  BY <1>1
<1>3. Now \in Nat
  BY AnalyticsAssumption
<1>4. IsFiniteSet(0 .. Now)
  BY <1>3, FS_Interval
<1>5. DOMAIN beats = S /\ IsFiniteSet(S) /\ S \subseteq Int
  <2>1. IsFiniteSet(S)
    BY <1>4, FS_Subset
  <2>2. QED  BY <1>2, <1>3, <2>1
<1>6. QED  BY <1>2, <1>5 DEF IsBeats

LEMMA AnalyticsInitial == AnalyticsInit => AnalyticsInv
<1>1. Now \in Nat \ {0} /\ LiveEdge \in Nat \ {0}
  BY AnalyticsAssumption
<1>2. ASSUME NEW beats \in Past, NEW from \in -1 .. Now, NEW to \in -1 .. Now, NEW r \in {"raw", "5m", "1h"},
             NEW page \in Pages,
             analysis = [NoAnalysis EXCEPT !.kind = "query", !.beats = beats,
                                           !.from = from, !.to = to, !.resolution = r, !.page = page]
      PROVE  AnalyticsInv
  <2>1. analysis = AnalysisRecord("query", beats, from, to, r, 0, page, Nothing)
    BY <1>2 DEF NoAnalysis, AnalysisRecord
  <2>2. /\ analysis.kind = "query" /\ analysis.beats = beats /\ analysis.from = from
        /\ analysis.to = to /\ analysis.lag = 0 /\ analysis.resolution = r /\ analysis.page = page
    BY <2>1 DEF AnalysisRecord
  <2>3. from \in Int /\ to \in Int /\ 0 \in 0 .. LiveEdge /\ page \in Nat \ {0}
    BY <1>1, AnalyticsAssumption
  <2>4. QED  BY <2>1, <2>2, <2>3, PastIsBeats DEF AnalyticsInv
<1>3. ASSUME NEW beats \in Past, NEW cutoff \in 0 .. Now, NEW lag \in 0 .. LiveEdge,
             NEW page \in Pages,
             analysis = [NoAnalysis EXCEPT !.kind = "chart", !.beats = beats, !.from = cutoff, !.lag = lag,
                                           !.page = page]
      PROVE  AnalyticsInv
  <2>1. analysis = AnalysisRecord("chart", beats, cutoff, 0, "raw", lag, page, Nothing)
    BY <1>3 DEF NoAnalysis, AnalysisRecord
  <2>2. /\ analysis.kind = "chart" /\ analysis.beats = beats /\ analysis.from = cutoff
        /\ analysis.to = 0 /\ analysis.lag = lag /\ analysis.resolution = "raw" /\ analysis.page = page
    BY <2>1 DEF AnalysisRecord
  <2>3. cutoff \in Int /\ 0 \in Int /\ page \in Nat \ {0}
    BY <1>1, AnalyticsAssumption
  <2>4. QED  BY <2>1, <2>2, <2>3, PastIsBeats DEF AnalyticsInv
<1>4. QED  BY <1>2, <1>3 DEF AnalyticsInit

LEMMA AnalyticsStep == AnalyticsInv /\ [AnalyticsNext]_analysis => AnalyticsInv'
<1> SUFFICES ASSUME AnalyticsInv, [AnalyticsNext]_analysis
             PROVE  AnalyticsInv'
  OBVIOUS
<1>1. PICK kind, beats, from, to, resolution, lag, page, answer :
        analysis = AnalysisRecord(kind, beats, from, to, resolution, lag, page, answer)
  BY DEF AnalyticsInv
<1>2. /\ analysis.beats = beats /\ analysis.from = from /\ analysis.to = to
      /\ analysis.resolution = resolution /\ analysis.lag = lag /\ analysis.kind = kind
      /\ analysis.page = page
  BY <1>1 DEF AnalysisRecord
<1>3. /\ IsBeats(beats) /\ DOMAIN beats \subseteq 0 .. Now /\ beats = [t \in DOMAIN beats |-> beats[t]]
      /\ from \in Int /\ to \in Int /\ lag \in 0 .. LiveEdge
      /\ kind \in {"query", "queried"} => lag = 0
      /\ resolution \in {"raw", "5m", "1h"} /\ page \in Nat \ {0}
      /\ kind \in {"chart", "charted"} => from \in 0 .. Now
  BY <1>2 DEF AnalyticsInv
<1>4. ASSUME NEW a, NEW b, NEW c, a = AnalysisRecord(b, beats, from, to, resolution, lag, page, c)
      PROVE  /\ a.kind = b /\ a.beats = beats /\ a.from = from /\ a.to = to
             /\ a.resolution = resolution /\ a.lag = lag /\ a.page = page /\ a.answer = c /\ Archived(a) = Archived(analysis)
  <2>1. /\ a.kind = b /\ a.beats = beats /\ a.from = from /\ a.to = to
        /\ a.resolution = resolution /\ a.lag = lag /\ a.page = page /\ a.answer = c
    BY <1>4 DEF AnalysisRecord
  <2>2. QED  BY <1>2, <2>1 DEF Archived
<1>5. CASE QueryHistory
  <2> DEFINE new == QueryAnswer(Archived(analysis), from, to, resolution, page)
  <2>1. kind = "query" /\ analysis' = AnalysisRecord("queried", beats, from, to, resolution, lag, page, new)
    BY <1>1, <1>2, <1>5 DEF QueryHistory, AnalysisRecord
  <2>2. new = QueryAnswer(Archived(analysis), from, to, resolution, page)
    OBVIOUS
  <2> HIDE DEF new
  <2>3. PICK a : a = analysis'
    OBVIOUS
  <2>4. /\ a.kind = "queried" /\ a.beats = beats /\ a.from = from /\ a.to = to
        /\ a.resolution = resolution /\ a.lag = lag /\ a.page = page /\ a.answer = new /\ Archived(a) = Archived(analysis)
    BY <1>4, <2>1, <2>3
  <2>5. AnalyticsInv' <=>
          /\ \E k, bs, f, t, r, l, g, ans : a = AnalysisRecord(k, bs, f, t, r, l, g, ans)
          /\ IsBeats(a.beats) /\ DOMAIN a.beats \subseteq 0 .. Now
          /\ a.beats = [t \in DOMAIN a.beats |-> a.beats[t]]
          /\ {a.from, a.to} \subseteq Int /\ a.lag \in 0 .. LiveEdge
          /\ a.kind \in {"query", "queried"} => a.lag = 0
          /\ a.resolution \in {"raw", "5m", "1h"} /\ a.page \in Nat \ {0}
          /\ a.kind \in {"chart", "charted"} => a.from \in 0 .. Now
          /\ a.kind = "queried" => a.answer = QueryAnswer(Archived(a), a.from, a.to, a.resolution, a.page)
          /\ a.kind = "charted" => a.answer = ChartAnswer(Archived(a), a.beats, a.from, a.page)
    BY <2>3 DEF AnalyticsInv
  <2>6. \E k, bs, f, t, r, l, g, ans : a = AnalysisRecord(k, bs, f, t, r, l, g, ans)
    BY <2>1, <2>3
  <2>7. QED  BY <1>3, <2>1, <2>2, <2>4, <2>5, <2>6
<1>6. CASE ShowChart
  <2> DEFINE new == ChartAnswer(Archived(analysis), beats, from, page)
  <2>1. kind = "chart" /\ analysis' = AnalysisRecord("charted", beats, from, to, resolution, lag, page, new)
    BY <1>1, <1>2, <1>6 DEF ShowChart, AnalysisRecord
  <2>2. new = ChartAnswer(Archived(analysis), beats, from, page)
    OBVIOUS
  <2> HIDE DEF new
  <2>3. PICK a : a = analysis'
    OBVIOUS
  <2>4. /\ a.kind = "charted" /\ a.beats = beats /\ a.from = from /\ a.to = to
        /\ a.resolution = resolution /\ a.lag = lag /\ a.page = page /\ a.answer = new /\ Archived(a) = Archived(analysis)
    BY <1>4, <2>1, <2>3
  <2>5. AnalyticsInv' <=>
          /\ \E k, bs, f, t, r, l, g, ans : a = AnalysisRecord(k, bs, f, t, r, l, g, ans)
          /\ IsBeats(a.beats) /\ DOMAIN a.beats \subseteq 0 .. Now
          /\ a.beats = [t \in DOMAIN a.beats |-> a.beats[t]]
          /\ {a.from, a.to} \subseteq Int /\ a.lag \in 0 .. LiveEdge
          /\ a.kind \in {"query", "queried"} => a.lag = 0
          /\ a.resolution \in {"raw", "5m", "1h"} /\ a.page \in Nat \ {0}
          /\ a.kind \in {"chart", "charted"} => a.from \in 0 .. Now
          /\ a.kind = "queried" => a.answer = QueryAnswer(Archived(a), a.from, a.to, a.resolution, a.page)
          /\ a.kind = "charted" => a.answer = ChartAnswer(Archived(a), a.beats, a.from, a.page)
    BY <2>3 DEF AnalyticsInv
  <2>6. \E k, bs, f, t, r, l, g, ans : a = AnalysisRecord(k, bs, f, t, r, l, g, ans)
    BY <2>1, <2>3
  <2>7. QED  BY <1>3, <2>1, <2>2, <2>4, <2>5, <2>6
<1>7. CASE UNCHANGED analysis
  BY <1>7 DEF AnalyticsInv, Archived
<1>8. QED  BY <1>5, <1>6, <1>7 DEF AnalyticsNext

LEMMA AnalyticsInvariant == AnalyticsSpec => []AnalyticsInv
  BY AnalyticsInitial, AnalyticsStep, PTL DEF AnalyticsSpec

\* The archive's answer is what the change-points say, raw and in buckets, up
\* to where the page of 1 MB is full (ArchiveStore.query): no value that held is
\* missing from its bucket, none but the page's last is in a bucket in which it
\* did not hold, and a raw answer has no hole before its end.
THEOREM ArchiveTrue == AnalyticsSpec => []ArchiveAnswersTrue
<1>1. AnalyticsInv => ArchiveAnswersTrue
  <2> SUFFICES ASSUME AnalyticsInv, analysis.kind = "queried"
               PROVE  ArchiveAnswersTrue
    BY DEF ArchiveAnswersTrue, BucketsAreTrue, RawIsComplete
  <2> DEFINE beats == analysis.beats
             from == analysis.from
             to == analysis.to
             resolution == analysis.resolution
             points == ChangePoints(beats)
             page == analysis.page
             answer == QueryAnswer(points, from, to, resolution, page)
  <2>1. /\ IsBeats(beats) /\ from \in Int /\ to \in Int /\ analysis.lag = 0 /\ page \in Nat \ {0}
        /\ DOMAIN beats \subseteq 0 .. Now /\ beats = [t \in DOMAIN beats |-> beats[t]]
    BY DEF AnalyticsInv
  <2>2. Archived(analysis) = points
    <3>1. Now \in Int
      BY AnalyticsAssumption
    <3>2. {u \in DOMAIN beats : u <= Now - analysis.lag} = DOMAIN beats
      BY <2>1, <3>1
    <3>3. [t \in {u \in DOMAIN beats : u <= Now - analysis.lag} |-> beats[t]] = beats
      BY <2>1, <3>2
    <3>4. QED  BY <3>3 DEF Archived
  <2>3. analysis.answer = answer
    BY <2>2 DEF AnalyticsInv
  <2>4. ArePoints(points)
    BY <2>1, PointsApart DEF ArePoints
  <2> HIDE DEF points
  <2>5. BucketsAreTrue
    <3> SUFFICES ASSUME answer.effective # "raw"
                 PROVE  BucketsAreTrue
      BY <2>3 DEF BucketsAreTrue
    <3> DEFINE width == Widths[answer.effective]
               buckets == Bucketed(CarryIn(points, from) \cup InWindow(points, from, to, page), from, to, width)
    <3>1. answer.buckets = buckets
      BY DEF QueryAnswer
    <3>2. width \in Nat \ {0}
      <4>1. answer.effective \in {"5m", "1h"}
        <5>1. resolution \in {"raw", "5m", "1h"}
          BY DEF AnalyticsInv
        <5> HIDE DEF resolution
        <5>2. answer.effective = Effective(resolution, Cardinality(InWindow(points, from, to, page)))
          BY DEF QueryAnswer
        <5>3. QED  BY <5>1, <5>2 DEF Effective
      <4>2. QED  BY <4>1, AnalyticsAssumption
    <3> HIDE DEF width, beats, from, to, page, answer
    <3>3. AreTrueBuckets(buckets, points, from, to, width, page)
      BY <2>1, <2>4, <3>2, BucketsTrue
    <3> HIDE DEF buckets
    <3>4. QED  BY <2>3, <3>1, <3>3 DEF BucketsAreTrue, AreTrueBuckets, points, width, beats, from, to, page, answer
  <2>6. RawIsComplete
    <3> SUFFICES ASSUME answer.effective = "raw"
                 PROVE  RawIsComplete
      BY <2>3 DEF RawIsComplete
    <3>1. /\ answer.raw = ByTime({p \in points : /\ Unexpired(p) /\ from <= p.ts /\ p.ts <= to
                                              /\ FitsPage(points, from, p.ts, page)})
          /\ Len(answer.raw) <= MaxRaw + 1
      BY <2>1, <2>4, RawTrue
    <3>2. QED  BY <2>3, <3>1 DEF RawIsComplete, points
  <2>7. QED  BY <2>5, <2>6 DEF ArchiveAnswersTrue
<1>2. QED  BY <1>1, AnalyticsInvariant, PTL

-----------------------------------------------------------------------------
(* What the strip shows of the joined history *)

\* Samples that are told apart by their instants
AreSamples(X) ==
  /\ IsFiniteSet(X)
  /\ \A x \in X : x.t \in Int
  /\ \A x, y \in X : x.t = y.t => x = y

InTimeOfSample(X) == {e \in X \X X : e[1].t < e[2].t}

\* Such samples, sorted, are a series of them.
LEMMA SortedIsSeries ==
  ASSUME NEW X, AreSamples(X)
  PROVE  LET s == SortedSeries(X)
         IN  /\ IsSeries(s)
             /\ \A i \in 1 .. Len(s) : s[i] \in X
             /\ \A x \in X : \E i \in 1 .. Len(s) : s[i] = x
             /\ s # <<>> => 1 \in 1 .. Len(s)
<1> DEFINE R == InTimeOfSample(X)
           f == SortedSeries(X)
           n == Cardinality(X)
<1>1. IsFiniteSet(X) /\ (\A x \in X : x.t \in Int) /\ \A x, y \in X : x.t = y.t => x = y
  BY DEF AreSamples
<1>2. \A x, y \in X : <<x, y>> \in R <=> x.t < y.t
  BY DEF InTimeOfSample
<1> HIDE DEF R
<1>3. Orders(R, X)
  <2>1. \A x \in X : ~(x.t < x.t)
    BY <1>1
  <2>2. \A x, y, z \in X : x.t < y.t /\ y.t < z.t => x.t < z.t
    BY <1>1
  <2>3. \A x, y \in X : x = y \/ x.t < y.t \/ y.t < x.t
    BY <1>1
  <2>4. QED  BY <1>1, <1>2, <2>1, <2>2, <2>3 DEF Orders
<1>4. \A x \in X : Below(X, R, x) = {y \in X : y.t < x.t}
  BY <1>2 DEF Below
<1>5. f = [i \in 1 .. n |-> CHOOSE x \in X : Cardinality({y \in X : y.t < x.t}) = i - 1]
  BY DEF SortedSeries, InOrder
<1> HIDE DEF n
<1>6. ASSUME NEW i \in 1 .. n, \E x \in X : Cardinality(Below(X, R, x)) = i - 1
      PROVE  f[i] \in X /\ Cardinality(Below(X, R, f[i])) = i - 1
  <2>1. \E x \in X : Cardinality({y \in X : y.t < x.t}) = i - 1
    BY <1>4, <1>6
  <2>2. f[i] = CHOOSE x \in X : Cardinality({y \in X : y.t < x.t}) = i - 1
    BY <1>5
  <2> HIDE DEF f
  <2>3. f[i] \in X /\ Cardinality({y \in X : y.t < f[i].t}) = i - 1
    BY <2>1, <2>2
  <2>4. QED  BY <2>3, <1>4
<1>7. f = [i \in 1 .. n |-> f[i]]
  BY <1>5
<1> HIDE DEF f
<1>8. Lists(f, X, R)
  BY <1>3, <1>6, <1>7, ByRank DEF n
<1>9. /\ n \in Nat /\ f \in [1 .. n -> X] /\ DOMAIN f = 1 .. n
      /\ \A x \in X : \E i \in 1 .. n : f[i] = x
      /\ \A i, j \in 1 .. n : i < j <=> <<f[i], f[j]>> \in R
  BY <1>8 DEF Lists, n
<1>10. f \in Seq(X) /\ Len(f) = n
  <2>1. f \in Seq(X)
    BY <1>9
  <2>2. QED  BY <1>9, <2>1, LenProperties
<1>11. \A i \in 1 .. n : f[i] \in X /\ f[i].t \in Int
  BY <1>1, <1>9
<1>12. \A i, j \in 1 .. n : i < j => f[i].t < f[j].t
  BY <1>2, <1>9
<1>13. IsSeries(f)
  BY <1>9, <1>10, <1>11, <1>12 DEF IsSeries
<1>14. f # <<>> => 1 \in 1 .. n
  BY <1>9, <1>10
<1>15. QED  BY <1>9, <1>10, <1>11, <1>13, <1>14 DEF f

\* The strip shows v where there is a sample before and every sample since
\* then has v.
LEMMA StripShows ==
  ASSUME NEW X, AreSamples(X), NEW t \in Int, NEW v, NEW m \in X, m.t <= t,
         \A x \in X : m.t <= x.t /\ x.t <= t => x.v = v
  PROVE  StateAt(SortedSeries(X), t) = v
<1> DEFINE s == SortedSeries(X)
<1>1. /\ IsSeries(s)
      /\ \A i \in 1 .. Len(s) : s[i] \in X
      /\ \A x \in X : \E i \in 1 .. Len(s) : s[i] = x
  BY SortedIsSeries
<1> HIDE DEF s
<1>2. PICK r : /\ IsLatest(r, s, t)
               /\ StateAt(s, t) = IF r = 0 THEN Nothing ELSE s[r].v
  BY <1>1, StateAtFacts
<1>3. /\ Len(s) \in Nat /\ r \in 0 .. Len(s)
      /\ \A i \in 1 .. r : s[i].t <= t
      /\ \A i \in r + 1 .. Len(s) : s[i].t > t
      /\ \A i \in 1 .. Len(s) : s[i].t \in Int
      /\ \A i, j \in 1 .. Len(s) : i < j => s[i].t < s[j].t
  BY <1>1, <1>2 DEF IsLatest, IsSeries
<1>4. PICK i \in 1 .. Len(s) : s[i] = m
  BY <1>1
<1>5. i <= r
  <2> SUFFICES ASSUME ~(i <= r)
               PROVE  FALSE
    OBVIOUS
  <2>1. i \in r + 1 .. Len(s)
    BY <1>3
  <2>2. s[i].t > t /\ s[i].t \in Int
    BY <1>3, <2>1
  <2>3. QED  BY <1>4, <2>2
<1>6. r \in 1 .. Len(s) /\ r \in 1 .. r /\ r # 0
  BY <1>3, <1>5
<1>7. m.t <= s[r].t
  <2>1. CASE i = r
    BY <1>3, <1>4, <2>1
  <2>2. CASE i < r
    <3>1. s[i].t < s[r].t
      BY <1>3, <1>6, <2>2
    <3>2. s[i].t \in Int /\ s[r].t \in Int
      BY <1>3, <1>6
    <3>3. QED  BY <1>4, <3>1, <3>2
  <2>3. QED  BY <1>3, <1>5, <2>1, <2>2
<1>8. s[r] \in X /\ s[r].t <= t
  BY <1>1, <1>3, <1>6
<1>9. s[r].v = v
  BY <1>7, <1>8
<1>10. QED  BY <1>2, <1>6, <1>9 DEF s

LEMMA ChartAnswerFacts ==
  ASSUME NEW points, NEW beats, NEW cutoff, NEW page
  PROVE  /\ ChartAnswer(points, beats, cutoff, page).reading = SortedSeries(ReadingSamples(points, beats, cutoff, page))
         /\ \A s \in ChartAnswer(points, beats, cutoff, page).usage :
              \/ \E p \in RunsFor(points, cutoff, page) : s.t = EndOf(p) /\ s.v = p.lastTs
              \/ s.v = s.t
<1>1. ChartAnswer(points, beats, cutoff, page).reading = SortedSeries(ReadingSamples(points, beats, cutoff, page))
  BY DEF ChartAnswer
<1> DEFINE ofRuns == UNION {SpanUsage(p, cutoff) : p \in RunsFor(points, cutoff, page)}
           ofLive == {LiveUsage(t) : t \in LiveBeats(beats, cutoff)}
<1>2. ChartAnswer(points, beats, cutoff, page).usage = ofRuns \cup ofLive
  BY DEF ChartAnswer, UsageSamples
<1>3. \A s \in ofRuns : \E p \in RunsFor(points, cutoff, page) : s.t = EndOf(p) /\ s.v = p.lastTs
  <2> SUFFICES ASSUME NEW s \in ofRuns
               PROVE  \E p \in RunsFor(points, cutoff, page) : s.t = EndOf(p) /\ s.v = p.lastTs
    OBVIOUS
  <2>1. PICK p \in RunsFor(points, cutoff, page) : s \in SpanUsage(p, cutoff)
    OBVIOUS
  <2>2. PICK t \in UsageInstants(p, cutoff) : s = [t |-> t, v |-> p.lastTs]
    BY <2>1 DEF SpanUsage
  <2>3. t = EndOf(p)
    BY DEF UsageInstants
  <2>4. QED  BY <2>2, <2>3
<1>4. \A s \in ofLive : s.v = s.t
  BY DEF LiveUsage
<1> HIDE DEF ofRuns, ofLive
<1>5. QED  BY <1>1, <1>2, <1>3, <1>4

LEMMA MinOfTwo ==
  ASSUME NEW a \in Int, NEW b \in Int
  PROVE  /\ Min({a, b}) \in {a, b} /\ Min({a, b}) <= a /\ Min({a, b}) <= b
         /\ Max({a, b}) \in {a, b} /\ Max({a, b}) >= a /\ Max({a, b}) >= b
<1> DEFINE S == {a, b}
<1>1. S \subseteq Int /\ S # {} /\ a \in S /\ b \in S
  OBVIOUS
<1>2. IsFiniteSet(S)
  <2>1. IsFiniteSet({a}) /\ {a} \cup {b} = {a, b}
    BY FS_Singleton
  <2>2. IsFiniteSet({a} \cup {b})
    BY <2>1, FS_AddElement
  <2>3. QED  BY <2>1, <2>2
<1>3. Max(S) \in S /\ (\A x \in S : x <= Max(S)) /\ Min(S) \in S /\ \A x \in S : Min(S) <= x
  <2> HIDE DEF S
  <2> QED  BY <1>1, <1>2, Extremes
<1>4. QED  BY <1>1, <1>3

\* A run of the range: where it starts and ends, and that only later ones can
\* crowd it out
LEMMA RangeFacts ==
  ASSUME NEW beats, IsBeats(beats), NEW cutoff \in Int, NEW page \in Nat \ {0}
  PROVE  LET points == ChangePoints(beats)
         IN  /\ \A p \in RunsFor(points, cutoff, page) :
                  /\ p \in points /\ Unexpired(p) /\ cutoff <= p.ts /\ p.ts <= Edge - 1 /\ p.ts \in Int
                  /\ EndOf(p) \in Int /\ p.ts <= EndOf(p) /\ EndOf(p) <= Edge - 1 /\ EndOf(p) <= p.lastTs
                  /\ EndOf(p) = p.lastTs \/ EndOf(p) = Edge - 1
                  /\ p.lastTs \in Int
                  /\ SpanStarts(p, cutoff) = IF EndOf(p) - p.ts >= LongHeld THEN {p.ts} ELSE {}
             /\ \A p \in RunsFor(points, cutoff, page) : \A q \in points :
                  p.ts <= q.ts /\ q.ts <= Edge - 1 /\ Unexpired(q) => q \in RunsFor(points, cutoff, page)
<1> DEFINE points == ChangePoints(beats)
           runs == RunsFor(points, cutoff, page)
           visible == {p \in points : Unexpired(p) /\ cutoff <= p.ts /\ p.ts <= Edge - 1}
           after(p) == {q \in visible : q.ts > p.ts}
           cap == Min({SampleCap, page})
<1>1. Edge \in Int /\ LongHeld \in Nat \ {0} /\ cap \in Nat
  <2>1. SampleCap \in Int /\ SampleCap >= 0
    BY AnalyticsAssumption
  <2>2. cap \in {SampleCap, page}
    BY <2>1, MinOfTwo
  <2>3. cap \in Nat
    BY <2>1, <2>2
  <2>4. QED  BY <2>3, AnalyticsAssumption DEF Edge
<1>2. \A p \in runs : p \in visible /\ Cardinality(after(p)) < cap /\ cutoff < Edge
  BY DEF RunsFor, RangeOf
<1>3. cutoff < Edge => \A p \in visible : Cardinality(after(p)) < cap => p \in runs
  BY DEF RunsFor, RangeOf
<1>4. IsFiniteSet(points)
  BY PointsApart
<1>5. \A p \in points : p.ts \in Int /\ p.lastTs \in Int /\ p.ts <= p.lastTs
  BY PointFacts
<1> HIDE DEF runs, points, cap
<1>6. ASSUME NEW p \in runs
      PROVE  /\ p \in points /\ Unexpired(p) /\ cutoff <= p.ts /\ p.ts <= Edge - 1 /\ p.ts \in Int
             /\ EndOf(p) \in Int /\ p.ts <= EndOf(p) /\ EndOf(p) <= Edge - 1 /\ EndOf(p) <= p.lastTs
             /\ EndOf(p) = p.lastTs \/ EndOf(p) = Edge - 1
             /\ p.lastTs \in Int
             /\ SpanStarts(p, cutoff) = IF EndOf(p) - p.ts >= LongHeld THEN {p.ts} ELSE {}
  <2>1. p \in points /\ Unexpired(p) /\ cutoff <= p.ts /\ p.ts <= Edge - 1
    BY <1>2
  <2>2. p.ts \in Int /\ p.lastTs \in Int /\ p.ts <= p.lastTs /\ Edge - 1 \in Int
    BY <1>1, <1>5, <2>1
  <2>3. EndOf(p) \in {p.lastTs, Edge - 1} /\ EndOf(p) <= p.lastTs /\ EndOf(p) <= Edge - 1
    BY <2>2, MinOfTwo DEF EndOf
  <2>4. Max({p.ts, cutoff}) = p.ts
    <3>1. /\ Max({p.ts, cutoff}) \in {p.ts, cutoff}
          /\ Max({p.ts, cutoff}) >= p.ts /\ Max({p.ts, cutoff}) >= cutoff
      BY <2>2, MinOfTwo
    <3>2. QED  BY <2>1, <2>2, <3>1
  <2>5. SpanStarts(p, cutoff) = IF EndOf(p) - p.ts >= LongHeld THEN {p.ts} ELSE {}
    BY <2>4 DEF SpanStarts
  <2>6. QED  BY <2>1, <2>2, <2>3, <2>5
<1>7. ASSUME NEW p \in runs, NEW q \in points, p.ts <= q.ts, q.ts <= Edge - 1, Unexpired(q)
      PROVE  q \in runs
  <2>1. p.ts \in Int /\ q.ts \in Int /\ cutoff <= p.ts
    BY <1>5, <1>6, <1>7
  <2>2. q \in visible
    BY <1>7, <2>1
  <2>3. after(q) \subseteq after(p)
    BY <1>5, <1>7, <2>1
  <2>4. IsFiniteSet(after(p))
    <3>1. after(p) \subseteq points
      OBVIOUS
    <3> HIDE DEF after
    <3>2. QED  BY <1>4, <3>1, FS_Subset
  <2>5. Cardinality(after(q)) <= Cardinality(after(p)) /\ IsFiniteSet(after(q))
    <3> HIDE DEF after
    <3> QED  BY <2>3, <2>4, FS_Subset
  <2>6. Cardinality(after(q)) \in Nat /\ Cardinality(after(p)) \in Nat
    <3> HIDE DEF after
    <3> QED  BY <2>4, <2>5, FS_CardinalityType
  <2>7. Cardinality(after(p)) < cap /\ cutoff < Edge
    BY <1>2, <1>7
  <2> HIDE DEF after
  <2>8. Cardinality(after(q)) < cap
    BY <1>1, <2>5, <2>6, <2>7
  <2>9. QED  BY <1>3, <2>2, <2>7, <2>8
<1>8. QED  BY <1>6, <1>7 DEF runs, points

\* The heartbeats that have reached the archive
ReachedArchive(beats, lag) == [t \in {u \in DOMAIN beats : u <= Now - lag} |-> beats[t]]

\* What a sample of the chart comes from
FromRun(x, points, cutoff, page) ==
  \E p \in RunsFor(points, cutoff, page) : x.v = p.v /\ x.t \in SpanStarts(p, cutoff) \cup {EndOf(p)}

LEMMA ReadingFacts ==
  ASSUME NEW points, NEW beats, NEW cutoff, NEW page
  PROVE  /\ \A x \in ReadingSamples(points, beats, cutoff, page) :
              /\ x = [t |-> x.t, v |-> x.v]
              /\ \/ FromRun(x, points, cutoff, page)
                 \/ x.t \in LiveBeats(beats, cutoff) /\ x.v = beats[x.t]
         /\ \A p \in RunsFor(points, cutoff, page) : \A t \in SpanStarts(p, cutoff) \cup {EndOf(p)} :
              [t |-> t, v |-> p.v] \in ReadingSamples(points, beats, cutoff, page)
         /\ \A t \in LiveBeats(beats, cutoff) :
              [t |-> t, v |-> beats[t]] \in ReadingSamples(points, beats, cutoff, page)
<1> DEFINE ofRuns == UNION {SpanReadings(p, cutoff) : p \in RunsFor(points, cutoff, page)}
           ofLive == {LiveReading(beats, t) : t \in LiveBeats(beats, cutoff)}
<1>1. ReadingSamples(points, beats, cutoff, page) = ofRuns \cup ofLive
  BY DEF ReadingSamples
<1>2. \A x \in ofRuns : x = [t |-> x.t, v |-> x.v] /\ FromRun(x, points, cutoff, page)
  <2> SUFFICES ASSUME NEW x \in ofRuns
               PROVE  x = [t |-> x.t, v |-> x.v] /\ FromRun(x, points, cutoff, page)
    OBVIOUS
  <2>1. PICK p \in RunsFor(points, cutoff, page) : x \in SpanReadings(p, cutoff)
    OBVIOUS
  <2>2. PICK t \in SpanStarts(p, cutoff) \cup {EndOf(p)} : x = [t |-> t, v |-> p.v]
    BY <2>1 DEF SpanReadings
  <2>3. x.t = t /\ x.v = p.v
    BY <2>2
  <2>4. QED  BY <2>2, <2>3 DEF FromRun
<1>3. \A x \in ofLive : /\ x = [t |-> x.t, v |-> x.v]
                        /\ x.t \in LiveBeats(beats, cutoff) /\ x.v = beats[x.t]
  BY DEF LiveReading
<1>4. ASSUME NEW p \in RunsFor(points, cutoff, page), NEW t \in SpanStarts(p, cutoff) \cup {EndOf(p)}
      PROVE  [t |-> t, v |-> p.v] \in ofRuns
  <2>1. [t |-> t, v |-> p.v] \in SpanReadings(p, cutoff)
    BY DEF SpanReadings
  <2>2. QED  BY <2>1
<1>5. ASSUME NEW t \in LiveBeats(beats, cutoff)
      PROVE  [t |-> t, v |-> beats[t]] \in ofLive
  BY DEF LiveReading
<1> HIDE DEF ofRuns, ofLive
<1>6. QED  BY <1>1, <1>2, <1>3, <1>4, <1>5

\* Every heartbeat since the live edge is in the history.
LEMMA LiveFacts ==
  ASSUME NEW beats, DOMAIN beats \subseteq 0 .. Now, NEW cutoff \in 0 .. Now
  PROVE  \A t : t \in LiveBeats(beats, cutoff) <=> t \in DOMAIN beats /\ t >= cutoff /\ t >= Edge
<1>1. Edge \in Int /\ Now \in Nat /\ cutoff \in Int /\ LiveEdge \in Nat /\ SampleCap \in Nat
      /\ SampleCap > LiveEdge /\ Edge = Now - LiveEdge
  BY AnalyticsAssumption DEF Edge
<1> DEFINE from == Max({cutoff, Edge})
<1>2. from \in {cutoff, Edge} /\ from >= cutoff /\ from >= Edge
  BY <1>1, MinOfTwo
<1>3. \A t : t \in LiveBeats(beats, cutoff) <=>
        /\ t \in DOMAIN beats /\ t >= from
        /\ Cardinality({u \in DOMAIN beats : u > t}) < SampleCap
  BY DEF LiveBeats
<1> HIDE DEF from
<1>4. \A t \in DOMAIN beats : t \in Int /\ t <= Now
  BY <1>1
<1>5. ASSUME NEW t \in DOMAIN beats, t >= Edge
      PROVE  Cardinality({u \in DOMAIN beats : u > t}) < SampleCap
  <2> DEFINE late == {u \in DOMAIN beats : u > t}
             span == t + 1 .. Now
  <2>1. t \in Int /\ t + 1 \in Int /\ t <= Now
    BY <1>1, <1>4
  <2>2. late \subseteq span
    BY <1>1, <1>4, <2>1
  <2>3. IsFiniteSet(span) /\ Cardinality(span) = IF t + 1 > Now THEN 0 ELSE Now - (t + 1) + 1
    <3>1. \A a, b \in Int : /\ IsFiniteSet(a .. b)
                            /\ Cardinality(a .. b) = IF a > b THEN 0 ELSE b - a + 1
      BY FS_Interval
    <3>2. Now \in Int
      BY <1>1
    <3>3. QED  BY <2>1, <3>1, <3>2
  <2> HIDE DEF late, span
  <2>4. IsFiniteSet(late) /\ Cardinality(late) <= Cardinality(span)
    BY <2>2, <2>3, FS_Subset
  <2>5. Cardinality(late) \in Nat
    BY <2>4, FS_CardinalityType
  <2>6. Cardinality(span) \in Int /\ Cardinality(span) <= LiveEdge
    BY <1>1, <1>5, <2>1, <2>3
  <2>7. Cardinality(late) < SampleCap
    BY <1>1, <2>4, <2>5, <2>6
  <2>8. QED  BY <2>7 DEF late
<1>6. \A t \in DOMAIN beats : t >= from <=> t >= cutoff /\ t >= Edge
  BY <1>1, <1>2, <1>4
<1>7. QED  BY <1>3, <1>5, <1>6

\* Where a sample of a run lies: within the run, before the live edge
LEMMA FromRunFacts ==
  ASSUME NEW beats, IsBeats(beats), NEW cutoff \in Int, NEW page \in Nat \ {0}, NEW x, FromRun(x, ChangePoints(beats), cutoff, page)
  PROVE  \E p \in RunsFor(ChangePoints(beats), cutoff, page) :
           /\ x.v = p.v /\ p.ts <= x.t /\ x.t <= p.lastTs /\ x.t <= Edge - 1 /\ cutoff <= x.t
           /\ x.t \in Int /\ p \in ChangePoints(beats)
<1> DEFINE points == ChangePoints(beats)
<1>1. PICK p \in RunsFor(points, cutoff, page) : x.v = p.v /\ x.t \in SpanStarts(p, cutoff) \cup {EndOf(p)}
  BY DEF FromRun
<1>2. /\ p \in points /\ cutoff <= p.ts /\ p.ts <= Edge - 1 /\ p.ts \in Int
      /\ EndOf(p) \in Int /\ p.ts <= EndOf(p) /\ EndOf(p) <= Edge - 1 /\ EndOf(p) <= p.lastTs
      /\ p.lastTs \in Int
      /\ SpanStarts(p, cutoff) = IF EndOf(p) - p.ts >= LongHeld THEN {p.ts} ELSE {}
  BY RangeFacts
<1>3. x.t = p.ts \/ x.t = EndOf(p)
  BY <1>1, <1>2
<1>4. Edge - 1 \in Int
  BY AnalyticsAssumption DEF Edge
<1>5. p.ts <= x.t /\ x.t <= p.lastTs /\ x.t <= Edge - 1 /\ cutoff <= x.t /\ x.t \in Int
  BY <1>2, <1>3, <1>4
<1>6. QED  BY <1>1, <1>2, <1>5

\* Two samples at one instant are one: runs do not overlap, and the live
\* heartbeats begin where the runs are cut.
LEMMA ReadingApart ==
  ASSUME NEW beats, DOMAIN beats \subseteq 0 .. Now, NEW cutoff \in 0 .. Now,
         NEW page \in Nat \ {0},
         NEW archived, IsBeats(archived), \A p \in ChangePoints(archived) : p.lastTs <= Now
  PROVE  /\ AreSamples(ReadingSamples(ChangePoints(archived), beats, cutoff, page))
         /\ \A x \in ReadingSamples(ChangePoints(archived), beats, cutoff, page) : x.t >= cutoff /\ x.t \in Int
<1> DEFINE points == ChangePoints(archived)
           X == ReadingSamples(points, beats, cutoff, page)
<1>1. Edge \in Int /\ Now \in Nat /\ cutoff \in Int
  BY AnalyticsAssumption DEF Edge
<1>2. \A x \in X : /\ x = [t |-> x.t, v |-> x.v]
                   /\ \/ FromRun(x, points, cutoff, page)
                      \/ x.t \in LiveBeats(beats, cutoff) /\ x.v = beats[x.t]
  BY ReadingFacts
<1>3. \A x : FromRun(x, points, cutoff, page) =>
        \E p \in RunsFor(points, cutoff, page) :
          /\ x.v = p.v /\ p.ts <= x.t /\ x.t <= p.lastTs /\ x.t <= Edge - 1 /\ cutoff <= x.t
          /\ x.t \in Int /\ p \in points
  BY <1>1, FromRunFacts
<1>4. \A t \in LiveBeats(beats, cutoff) : t \in DOMAIN beats /\ t \in Int /\ t >= cutoff /\ t >= Edge /\ t <= Now
  <2>1. \A t \in DOMAIN beats : t \in Int /\ t <= Now
    BY <1>1
  <2>2. QED  BY <2>1, LiveFacts
<1>5. /\ \A p, q \in points : p.ts = q.ts => p = q
      /\ \A p, q \in points : p.ts < q.ts => p.lastTs < q.ts
      /\ \A p \in points : p.ts \in Int
  BY PointsApart
<1>6. \A p \in points : p.lastTs \in Int /\ p.lastTs <= Now
  BY PointFacts
<1> HIDE DEF X, points
<1>7. \A x \in X : x.t \in Int /\ x.t >= cutoff /\ x.t <= Now
  <2> SUFFICES ASSUME NEW x \in X
               PROVE  x.t \in Int /\ x.t >= cutoff /\ x.t <= Now
    OBVIOUS
  <2>1. CASE FromRun(x, points, cutoff, page)
    <3>1. PICK p \in RunsFor(points, cutoff, page) :
            x.t <= p.lastTs /\ cutoff <= x.t /\ x.t \in Int /\ p \in points
      BY <1>3, <2>1
    <3>2. QED  BY <1>1, <1>6, <3>1
  <2>2. CASE x.t \in LiveBeats(beats, cutoff)
    BY <1>4, <2>2
  <2>3. QED  BY <1>2, <2>1, <2>2
<1>8. ASSUME NEW x \in X, NEW y \in X, x.t = y.t
      PROVE  x.v = y.v
  <2>1. CASE FromRun(x, points, cutoff, page) /\ FromRun(y, points, cutoff, page)
    <3>1. PICK p \in RunsFor(points, cutoff, page) :
            x.v = p.v /\ p.ts <= x.t /\ x.t <= p.lastTs /\ x.t \in Int /\ p \in points
      BY <1>3, <2>1
    <3>2. PICK q \in RunsFor(points, cutoff, page) :
            y.v = q.v /\ q.ts <= y.t /\ y.t <= q.lastTs /\ q \in points
      BY <1>3, <2>1
    <3>3. /\ p.ts \in Int /\ q.ts \in Int /\ p.lastTs \in Int /\ q.lastTs \in Int
      BY <1>5, <1>6, <3>1, <3>2
    <3>4. ~(p.ts < q.ts) /\ ~(q.ts < p.ts)
      BY <1>5, <1>8, <3>1, <3>2, <3>3
    <3>5. p = q
      BY <1>5, <3>1, <3>2, <3>3, <3>4
    <3>6. QED  BY <3>1, <3>2, <3>5
  <2>2. CASE x.t \in LiveBeats(beats, cutoff) /\ x.v = beats[x.t]
             /\ y.t \in LiveBeats(beats, cutoff) /\ y.v = beats[y.t]
    BY <1>8, <2>2
  <2>3. ASSUME NEW a, NEW b, FromRun(a, points, cutoff, page), b.t \in LiveBeats(beats, cutoff), a.t = b.t
        PROVE  FALSE
    <3>1. a.t <= Edge - 1 /\ a.t \in Int
      BY <1>3, <2>3
    <3>2. b.t >= Edge
      BY <1>4, <2>3
    <3>3. QED  BY <1>1, <2>3, <3>1, <3>2
  <2>4. QED  BY <1>2, <1>8, <2>1, <2>2, <2>3
<1>9. \A x, y \in X : x.t = y.t => x = y
  BY <1>2, <1>8
<1>10. IsFiniteSet(X)
  <2> DEFINE f == [x \in X |-> x.t]
             N == 0 .. Now
  <2>1. IsFiniteSet(N)
    BY <1>1, FS_Interval
  <2>2. \A x \in X : x.t \in N
    BY <1>1, <1>7
  <2> HIDE DEF N
  <2>3. f \in Injection(X, N)
    <3>1. f \in [X -> N]
      BY <2>2
    <3>2. \A x, y \in X : f[x] = f[y] => x = y
      BY <1>9
    <3>3. QED  BY <3>1, <3>2 DEF Injection, IsInjective
  <2> HIDE DEF f
  <2>4. QED  BY <2>1, <2>3, FS_Injection
<1>11. QED  BY <1>7, <1>9, <1>10 DEF AreSamples, X, points

\* The strip shows a heartbeat that is live, or that its run's samples cover.
LEMMA StripTrue ==
  ASSUME NEW beats, IsBeats(beats), DOMAIN beats \subseteq 0 .. Now, NEW cutoff \in 0 .. Now,
         NEW page \in Nat \ {0},
         NEW lag \in 0 .. LiveEdge, NEW first, NEW t \in DOMAIN beats, first.t <= t,
         first \in ReadingSamples(ChangePoints(ReachedArchive(beats, lag)), beats, cutoff, page),
         \/ t >= Edge
         \/ \E p \in HoldsAt(ChangePoints(ReachedArchive(beats, lag)), t) :
              /\ p.ts >= cutoff /\ Unexpired(p)
              /\ t >= EndOf(p) \/ EndOf(p) - p.ts >= LongHeld
  PROVE  StateAt(SortedSeries(ReadingSamples(ChangePoints(ReachedArchive(beats, lag)), beats, cutoff, page)), t) = beats[t]
<1> DEFINE archived == ReachedArchive(beats, lag)
           points == ChangePoints(archived)
           X == ReadingSamples(points, beats, cutoff, page)
<1>1. /\ Edge \in Int /\ Now \in Nat /\ cutoff \in Int /\ t \in Int /\ lag \in Int /\ lag <= LiveEdge
      /\ Edge = Now - LiveEdge /\ LiveEdge \in Nat /\ LongHeld \in Nat \ {0}
  BY AnalyticsAssumption DEF Edge
<1>2. /\ IsBeats(archived)
      /\ \A u : u \in DOMAIN archived <=> u \in DOMAIN beats /\ u <= Now - lag
      /\ \A u \in DOMAIN archived : archived[u] = beats[u]
  <2>1. /\ \A u : u \in DOMAIN archived <=> u \in DOMAIN beats /\ u <= Now - lag
        /\ \A u \in DOMAIN archived : archived[u] = beats[u]
    BY DEF ReachedArchive
  <2>2. IsFiniteSet(DOMAIN beats) /\ DOMAIN beats \subseteq Int
    BY DEF IsBeats
  <2> HIDE DEF archived
  <2>3. DOMAIN archived \subseteq DOMAIN beats
    BY <2>1
  <2>4. IsFiniteSet(DOMAIN archived)
    BY <2>2, <2>3, FS_Subset
  <2>5. QED  BY <2>1, <2>2, <2>3, <2>4 DEF IsBeats
<1> HIDE DEF archived
<1>3. /\ \A p, q \in points : p.ts = q.ts => p = q
      /\ \A p, q \in points : p.ts < q.ts => p.lastTs < q.ts
      /\ \A p \in points : p.ts \in Int
  BY <1>2, PointsApart
<1>4. \A p \in points : p.lastTs \in Int /\ p.lastTs <= Now /\ p.ts <= p.lastTs
  <2> SUFFICES ASSUME NEW p \in points
               PROVE  p.lastTs \in Int /\ p.lastTs <= Now /\ p.ts <= p.lastTs
    OBVIOUS
  <2>1. p.lastTs \in DOMAIN archived /\ p.lastTs \in Int /\ p.ts <= p.lastTs
    BY <1>2, PointFacts
  <2>2. p.lastTs \in 0 .. Now
    BY <1>2, <2>1
  <2>3. QED  BY <1>1, <2>1, <2>2
<1>5. AreSamples(X) /\ \A x \in X : x.t >= cutoff /\ x.t \in Int
  BY <1>2, <1>4, ReadingApart
<1>6. \A x \in X : \/ FromRun(x, points, cutoff, page)
                   \/ x.t \in LiveBeats(beats, cutoff) /\ x.v = beats[x.t]
  BY ReadingFacts
<1>7. \A u : u \in LiveBeats(beats, cutoff) <=> u \in DOMAIN beats /\ u >= cutoff /\ u >= Edge
  BY LiveFacts
<1>8. \A x : FromRun(x, points, cutoff, page) =>
        \E p \in RunsFor(points, cutoff, page) :
          /\ x.v = p.v /\ p.ts <= x.t /\ x.t <= p.lastTs /\ x.t <= Edge - 1 /\ cutoff <= x.t
          /\ x.t \in Int /\ p \in points
  BY <1>1, <1>2, FromRunFacts
<1>9. first \in X /\ first.t <= t
  BY DEF archived
<1>10. CASE t >= Edge
  <2> DEFINE m == [t |-> t, v |-> beats[t]]
  <2>1. t \in LiveBeats(beats, cutoff)
    <3>1. t >= cutoff
      BY <1>1, <1>5, <1>9
    <3>2. QED  BY <1>7, <1>10, <3>1
  <2>2. m \in X
    BY <2>1, ReadingFacts
  <2>3. \A x \in X : m.t <= x.t /\ x.t <= t => x.v = beats[t]
    <3> SUFFICES ASSUME NEW x \in X, m.t <= x.t, x.t <= t
                 PROVE  x.v = beats[t]
      OBVIOUS
    <3>1. x.t = m.t
      BY <1>1, <1>5
    <3>2. x = m
      BY <1>5, <2>2, <3>1 DEF AreSamples
    <3>3. QED  BY <3>2
  <2>4. m.t <= t
    BY <1>1
  <2> HIDE DEF m, X
  <2>5. StateAt(SortedSeries(X), t) = beats[t]
    BY <1>1, <1>5, <2>2, <2>3, <2>4, StripShows
  <2>6. QED  BY <2>5 DEF X, archived
<1>11. CASE ~(t >= Edge)
  <2>1. PICK p \in HoldsAt(points, t) :
          /\ p.ts >= cutoff /\ Unexpired(p)
          /\ t >= EndOf(p) \/ EndOf(p) - p.ts >= LongHeld
    BY <1>11 DEF archived
  <2>2. t \in DOMAIN archived
    <3>1. t <= Now - lag
      BY <1>1, <1>11
    <3>2. QED  BY <1>2, <3>1
  <2>3. p.v = beats[t] /\ t <= p.lastTs /\ p.ts <= t
    <3>1. p.v = archived[t] /\ t <= p.lastTs /\ p.ts <= t
      BY <1>2, <2>2, PointHolds
    <3>2. QED  BY <1>2, <2>2, <3>1
  <2>4. p \in points /\ p.ts \in Int /\ \A q \in points : q.ts <= t => q.ts <= p.ts
    BY <1>3 DEF HoldsAt
  \* The first sample is that of a kept run, which began no later: p is kept.
  <2>5. p \in RunsFor(points, cutoff, page)
    <3>1. first.t \in Int /\ first.t < Edge
      BY <1>1, <1>5, <1>9, <1>11
    <3>2. FromRun(first, points, cutoff, page)
      BY <1>1, <1>6, <1>7, <1>9, <3>1
    <3>3. PICK q \in RunsFor(points, cutoff, page) : q.ts <= first.t /\ q \in points
      BY <1>8, <3>2
    <3>4. q.ts \in Int /\ q.ts <= t
      BY <1>1, <1>3, <1>9, <3>1, <3>3
    <3>5. q.ts <= p.ts
      BY <2>4, <3>3, <3>4
    <3>6. p.ts <= Edge - 1
      BY <1>1, <1>11, <2>3, <2>4
    <3>7. QED  BY <1>1, <1>2, <2>1, <2>4, <3>3, <3>5, <3>6, RangeFacts
  <2>6. /\ EndOf(p) \in Int /\ p.ts <= EndOf(p)
        /\ EndOf(p) = p.lastTs \/ EndOf(p) = Edge - 1
        /\ SpanStarts(p, cutoff) = IF EndOf(p) - p.ts >= LongHeld THEN {p.ts} ELSE {}
    <3>1. cutoff \in Int /\ IsBeats(archived)
      BY <1>1, <1>2
    <3>2. \A q \in RunsFor(points, cutoff, page) :
            /\ EndOf(q) \in Int /\ q.ts <= EndOf(q)
            /\ EndOf(q) = q.lastTs \/ EndOf(q) = Edge - 1
            /\ SpanStarts(q, cutoff) = IF EndOf(q) - q.ts >= LongHeld THEN {q.ts} ELSE {}
      BY <3>1, RangeFacts
    <3> HIDE DEF points
    <3>3. QED  BY <2>5, <3>2
  <2>7. PICK u \in SpanStarts(p, cutoff) \cup {EndOf(p)} : p.ts <= u /\ u <= t /\ u \in Int
    <3>1. CASE t >= EndOf(p)
      BY <2>6, <3>1
    <3>2. CASE EndOf(p) - p.ts >= LongHeld
      BY <2>3, <2>4, <2>6, <3>2
    <3>3. QED  BY <2>1, <3>1, <3>2
  <2> DEFINE m == [t |-> u, v |-> p.v]
  <2>8. m \in X
    BY <2>5, <2>7, ReadingFacts
  <2>9. ASSUME NEW x \in X, u <= x.t, x.t <= t
        PROVE  x.v = beats[t]
    <3>1. x.t \in Int /\ x.t < Edge
      BY <1>1, <1>5, <1>11, <2>9
    <3>2. FromRun(x, points, cutoff, page)
      BY <1>1, <1>6, <1>7, <3>1
    <3>3. PICK q \in RunsFor(points, cutoff, page) :
            x.v = q.v /\ q.ts <= x.t /\ x.t <= q.lastTs /\ q \in points
      BY <1>8, <3>2
    <3>4. q.ts \in Int /\ q.lastTs \in Int
      BY <1>3, <1>4, <3>3
    <3>5. q.ts <= t /\ p.ts <= q.lastTs
      BY <1>1, <2>4, <2>7, <2>9, <3>1, <3>3, <3>4
    <3>6. q.ts <= p.ts
      BY <2>4, <3>3, <3>5
    <3>7. ~(q.ts < p.ts)
      BY <1>3, <2>4, <3>3, <3>4, <3>5
    <3>8. q = p
      BY <1>3, <2>4, <3>3, <3>4, <3>6, <3>7
    <3>9. QED  BY <2>3, <3>3, <3>8
  <2>10. m.t <= t /\ \A x \in X : m.t <= x.t /\ x.t <= t => x.v = beats[t]
    BY <2>7, <2>9
  <2> HIDE DEF m, X
  <2>11. StateAt(SortedSeries(X), t) = beats[t]
    <3>1. t \in Int /\ AreSamples(X) /\ m.t <= t
      BY <1>1, <1>5, <2>10
    <3>2. QED  BY <2>8, <2>10, <3>1, StripShows
  <2>12. QED  BY <2>11 DEF X, archived
<1>12. QED  BY <1>10, <1>11

\* The chart shows what the machine reported when it reported it, although
\* the archive keeps changes only, lags behind, and is cut at the live edge.
THEOREM ChartTrue == AnalyticsSpec => []ChartIsTrue
<1>1. AnalyticsInv => ChartIsTrue
  <2> SUFFICES ASSUME AnalyticsInv, analysis.kind = "charted"
               PROVE  ChartIsTrue
    BY DEF ChartIsTrue, StripIsTrue, UsageIsTrue
  <2> DEFINE beats == analysis.beats
             cutoff == analysis.from
             lag == analysis.lag
             page == analysis.page
             archived == ReachedArchive(beats, lag)
             points == ChangePoints(archived)
             answer == ChartAnswer(points, beats, cutoff, page)
  <2>1. /\ IsBeats(beats) /\ DOMAIN beats \subseteq 0 .. Now /\ lag \in 0 .. LiveEdge /\ cutoff \in 0 .. Now
        /\ page \in Nat \ {0}
    BY DEF AnalyticsInv
  <2>2. Archived(analysis) = points
    BY DEF Archived, ReachedArchive
  <2>3. analysis.answer = answer
    BY <2>2 DEF AnalyticsInv
  <2>4. /\ IsBeats(archived) /\ \A p \in points : p.lastTs <= Now
    <3>1. \A u : u \in DOMAIN archived <=> u \in DOMAIN beats /\ u <= Now - lag
      BY DEF ReachedArchive
    <3>2. IsFiniteSet(DOMAIN beats) /\ DOMAIN beats \subseteq Int
      BY <2>1 DEF IsBeats
    <3> HIDE DEF archived
    <3>3. DOMAIN archived \subseteq DOMAIN beats
      BY <3>1
    <3>4. IsFiniteSet(DOMAIN archived)
      BY <3>2, <3>3, FS_Subset
    <3>5. IsBeats(archived)
      BY <3>2, <3>3, <3>4 DEF IsBeats
    <3>6. ASSUME NEW p \in points
          PROVE  p.lastTs <= Now
      <4>1. p.lastTs \in DOMAIN archived
        BY <3>5, PointFacts
      <4>2. p.lastTs \in 0 .. Now /\ Now \in Nat
        BY <2>1, <3>3, <4>1, AnalyticsAssumption
      <4>3. QED  BY <4>2
    <3>7. QED  BY <3>5, <3>6
  <2>5. answer.reading = SortedSeries(ReadingSamples(points, beats, cutoff, page))
    BY ChartAnswerFacts
  <2>6. StripIsTrue
    <3> SUFFICES ASSUME answer.reading # <<>>, NEW t \in DOMAIN beats, t >= answer.reading[1].t,
                        \/ t >= Edge
                        \/ \E p \in HoldsAt(points, t) :
                             /\ p.ts >= cutoff /\ Unexpired(p)
                             /\ t >= EndOf(p) \/ EndOf(p) - p.ts >= LongHeld
                 PROVE  StateAt(answer.reading, t) = beats[t]
      BY <2>2, <2>3 DEF StripIsTrue
    <3> DEFINE X == ReadingSamples(points, beats, cutoff, page)
               first == answer.reading[1]
    <3>1. AreSamples(X) /\ \A x \in X : x.t \in Int
      BY <2>1, <2>4, ReadingApart
    <3>2. first \in X
      <4> DEFINE s == SortedSeries(X)
      <4>1. s # <<>> /\ first = s[1]
        BY <2>5
      <4> HIDE DEF X
      <4>2. (\A i \in 1 .. Len(s) : s[i] \in X) /\ (s # <<>> => 1 \in 1 .. Len(s))
        BY <3>1, SortedIsSeries
      <4>3. QED  BY <4>1, <4>2
    <3>3. first.t <= t
      <4>1. first.t \in Int /\ t \in Int
        BY <2>1, <3>1, <3>2 DEF IsBeats
      <4>2. QED  BY <4>1
    <3>4. StateAt(SortedSeries(X), t) = beats[t]
      <4> HIDE DEF beats, cutoff, lag, page, first
      <4> QED  BY <2>1, <3>2, <3>3, StripTrue
    <3>5. QED  BY <2>5, <3>4
  <2>7. UsageIsTrue
    <3> SUFFICES ASSUME NEW s \in answer.usage
                 PROVE  s.v = s.t \/ s.t = Edge - 1
      BY <2>3 DEF UsageIsTrue
    <3>1. \/ \E p \in RunsFor(points, cutoff, page) : s.t = EndOf(p) /\ s.v = p.lastTs
          \/ s.v = s.t
      BY ChartAnswerFacts
    <3>2. cutoff \in Int
      BY <2>1
    <3>3. \A p \in RunsFor(points, cutoff, page) : EndOf(p) = p.lastTs \/ EndOf(p) = Edge - 1
      BY <2>1, <2>4, <3>2, RangeFacts
    <3>4. QED  BY <3>1, <3>3
  <2>8. QED  BY <2>6, <2>7 DEF ChartIsTrue
<1>2. QED  BY <1>1, AnalyticsInvariant, PTL
=============================================================================
