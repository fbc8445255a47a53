------------------------- MODULE RateLimiterProofs -------------------------
(***************************************************************************)
(* Theorems about RateLimiter for every number of accounts, addresses and  *)
(* requests, every limit and every window: the window bound, and that a    *)
(* refusal is justified.                                                   *)
(*                                                                         *)
(* Both rest on one fact about the timestamps that checks and the cleanup  *)
(* timer prune: what is kept for a key are calls of that key, and all of   *)
(* those within the last Window (KeptExact).                               *)
(***************************************************************************)
EXTENDS RateLimiter, FiniteSetTheorems, TLAPS

KeptExact ==
  /\ \A k \in Keys : \A n \in kept[k] : calls[n].key = k
  /\ \A n \in DOMAIN calls :
       calls[n].at > clock - Window => n \in kept[calls[n].key]

-----------------------------------------------------------------------------
LEMMA AppendTwo ==
  ASSUME NEW S, NEW q \in Seq(S), NEW e \in S, NEW f \in S
  PROVE  /\ q \o <<e, f>> \in Seq(S)
         /\ Len(q) \in Nat /\ Len(q \o <<e, f>>) = Len(q) + 2
         /\ DOMAIN q = 1 .. Len(q) /\ DOMAIN (q \o <<e, f>>) = 1 .. Len(q) + 2
         /\ \A i \in 1 .. Len(q) : (q \o <<e, f>>)[i] = q[i]
         /\ (q \o <<e, f>>)[Len(q) + 1] = e
         /\ (q \o <<e, f>>)[Len(q) + 2] = f
  OBVIOUS

LEMMA TypeInit == LimiterInit => LimiterTypeOK
<1> SUFFICES ASSUME LimiterInit PROVE LimiterTypeOK
  OBVIOUS
<1>1. calls \in Seq(Call) /\ DOMAIN calls = {}
  BY DEF LimiterInit
<1> QED BY <1>1 DEF LimiterInit, ClockInit, LimiterTypeOK

LEMMA CallFacts ==
  ASSUME LimiterTypeOK
  PROVE  /\ Len(calls) \in Nat /\ DOMAIN calls = 1 .. Len(calls)
         /\ \A n \in DOMAIN calls : calls[n].key \in Keys /\ calls[n].at \in Nat
<1>1. calls \in Seq(Call)
  BY DEF LimiterTypeOK
<1>2. /\ Len(calls) \in Nat /\ DOMAIN calls = 1 .. Len(calls)
      /\ \A n \in DOMAIN calls : calls[n] \in Call
  BY <1>1
<1>3. \A x \in Call : x.key \in Keys /\ x.at \in Nat
  BY DEF Call
<1> QED BY <1>2, <1>3

\* What Accept appends, for use in all three invariants.
LEMMA Accepted ==
  ASSUME LimiterTypeOK, NEW a \in Accounts, NEW i \in Addresses,
         Accept(a, i)
  PROVE  /\ calls' \in Seq(Call)
         /\ Len(calls) \in Nat
         /\ DOMAIN calls = 1 .. Len(calls) /\ DOMAIN calls' = 1 .. Len(calls) + 2
         /\ \A n \in 1 .. Len(calls) : calls'[n] = calls[n]
         /\ calls'[Len(calls) + 1].key = a /\ calls'[Len(calls) + 2].key = i
         /\ calls'[Len(calls) + 1].at \in Nat /\ calls'[Len(calls) + 2].at \in Nat
         /\ calls'[Len(calls) + 1].at >= clock /\ calls'[Len(calls) + 2].at >= clock
         /\ clock' \in Nat /\ clock' >= clock
<1>0. clock \in Nat
  BY DEF LimiterTypeOK
<1>a. PICK t \in clock .. clock + 1 : \E u \in t .. clock + 1 :
        /\ calls' = calls \o <<[key |-> a, at |-> t], [key |-> i, at |-> u]>>
        /\ clock' = u
  BY Zenon DEF Accept
<1>1. PICK u \in t .. clock + 1 :
        /\ calls' = calls \o <<[key |-> a, at |-> t], [key |-> i, at |-> u]>>
        /\ clock' = u
  BY <1>a
<1>2. t \in Nat /\ u \in Nat /\ t >= clock /\ u >= clock
  BY <1>0, <1>a, <1>1
<1>3. /\ [key |-> a, at |-> t] \in Call
      /\ [key |-> i, at |-> u] \in Call
  BY <1>2 DEF Call, Keys
<1>4. calls \in Seq(Call)
  BY DEF LimiterTypeOK
<1> QED BY <1>0, <1>1, <1>2, <1>3, <1>4, AppendTwo

LEMMA PrunedType ==
  ASSUME LimiterTypeOK, NEW S
  PROVE  /\ Pruned(S) \in [Keys -> SUBSET DOMAIN calls]
         /\ \A k \in Keys : Pruned(S)[k] \subseteq kept[k]
         /\ \A k \in Keys : Recent(k) \subseteq kept[k]
         /\ \A k \in Keys : kept[k] = {} => Pruned(S)[k] = {}
  BY DEF LimiterTypeOK, Pruned, Recent

LEMMA TypeStep == LimiterTypeOK /\ [LimiterNext]_<<limiterVars, clock>> => LimiterTypeOK'
<1> SUFFICES ASSUME LimiterTypeOK, [LimiterNext]_<<limiterVars, clock>> PROVE LimiterTypeOK'
  OBVIOUS
<1>1. ASSUME NEW a \in Accounts, RefuseAccount(a)
      PROVE  LimiterTypeOK'
  BY <1>1, PrunedType DEF RefuseAccount, LimiterTypeOK, Keys
<1>2. ASSUME NEW a \in Accounts, NEW i \in Addresses,
             RefuseAddress(a, i)
      PROVE  LimiterTypeOK'
  BY <1>2, PrunedType DEF RefuseAddress, LimiterTypeOK, Keys
<1>3. ASSUME NEW a \in Accounts, NEW i \in Addresses,
             Accept(a, i)
      PROVE  LimiterTypeOK'
  <2>1. kept' \in [Keys -> SUBSET (DOMAIN calls')]
    <3>1. a \in Keys /\ i \in Keys
      BY DEF Keys
    <3>2. /\ kept' = [Pruned({a, i}) EXCEPT
                        ![a] = Pruned({a, i})[a] \cup {Len(calls) + 1},
                        ![i] = Pruned({a, i})[i] \cup {Len(calls) + 2}]
      BY <1>3 DEF Accept
    <3>3. /\ Pruned({a, i}) \in [Keys -> SUBSET (DOMAIN calls')]
          /\ Len(calls) + 1 \in DOMAIN calls' /\ Len(calls) + 2 \in DOMAIN calls'
      BY <1>3, Accepted, PrunedType
    <3> QED BY <3>1, <3>2, <3>3
  <2>2. \A k \in Keys \ tracked' : kept'[k] = {}
    BY <1>3, PrunedType DEF Accept, Keys, LimiterTypeOK
  <2>3. tracked' \subseteq Keys /\ limitedBy' = NoKey
    BY <1>3 DEF Accept, Keys, LimiterTypeOK
  <2> QED BY <1>3, <2>1, <2>2, <2>3, Accepted DEF LimiterTypeOK
<1>4. CASE Cleanup
  BY <1>4, PrunedType DEF Cleanup, LimiterTypeOK, Pruned
<1>5. CASE LimiterTick
  BY <1>5 DEF LimiterTick, ClockTick, LimiterTypeOK
<1>6. CASE UNCHANGED <<limiterVars, clock>>
  BY <1>6 DEF limiterVars, LimiterTypeOK
<1> QED BY <1>1, <1>2, <1>3, <1>4, <1>5, <1>6 DEF LimiterNext

\* The limiter's variables keep their types, and a key it forgot keeps no
\* timestamps.
THEOREM RateTypeCorrect == LimiterSpec => []LimiterTypeOK
<1> QED BY TypeInit, TypeStep, PTL DEF LimiterSpec

-----------------------------------------------------------------------------
\* Pruning loses no call within the last Window.
LEMMA PrunedExact ==
  ASSUME LimiterTypeOK, KeptExact, NEW S, NEW t \in Nat, t >= clock
  PROVE  /\ \A k \in Keys : \A n \in Pruned(S)[k] : calls[n].key = k
         /\ \A n \in DOMAIN calls :
              calls[n].at > t - Window => n \in Pruned(S)[calls[n].key]
<1>1. Window \in Nat /\ clock \in Nat
  BY LimitAssumption DEF LimiterTypeOK
<1>2. \A n \in DOMAIN calls : calls[n].key \in Keys /\ calls[n].at \in Nat
  BY CallFacts
<1>3. \A k \in Keys : kept[k] \subseteq DOMAIN calls
  BY DEF LimiterTypeOK
<1> QED BY <1>1, <1>2, <1>3 DEF KeptExact, Pruned, Recent

LEMMA KeptStep == LimiterTypeOK /\ KeptExact /\ [LimiterNext]_<<limiterVars, clock>> => KeptExact'
<1> SUFFICES ASSUME LimiterTypeOK, KeptExact, [LimiterNext]_<<limiterVars, clock>> PROVE KeptExact'
  OBVIOUS
<1>0. clock \in Nat /\ Window \in Nat
  BY LimitAssumption DEF LimiterTypeOK
<1>1. ASSUME NEW S, kept' = Pruned(S), UNCHANGED <<clock, calls>>
      PROVE  KeptExact'
  BY <1>0, <1>1, PrunedExact DEF KeptExact
<1>2. ASSUME NEW a \in Accounts, NEW i \in Addresses,
             Accept(a, i)
      PROVE  KeptExact'
  <2> DEFINE P == Pruned({a, i})
             L == Len(calls)
  <2>0. /\ DOMAIN calls = 1 .. L /\ DOMAIN calls' = 1 .. L + 2 /\ L \in Nat
        /\ \A n \in 1 .. L : calls'[n] = calls[n]
        /\ calls'[L + 1].key = a /\ calls'[L + 2].key = i
        /\ calls'[L + 1].at \in Nat /\ calls'[L + 2].at \in Nat
        /\ calls'[L + 1].at >= clock /\ calls'[L + 2].at >= clock
        /\ clock' \in Nat /\ clock' >= clock
    BY <1>2, Accepted
  <2>1. /\ a \in Keys /\ i \in Keys /\ a # i
    BY KeysAssumption DEF Keys
  <2>2. /\ kept'[a] = P[a] \cup {L + 1} /\ kept'[i] = P[i] \cup {L + 2}
        /\ \A k \in Keys : k # a /\ k # i => kept'[k] = P[k]
    BY <1>2, <2>1 DEF Accept, Pruned
  <2>3. \A k \in Keys : P[k] \subseteq 1 .. L
    BY <1>2, Accepted, PrunedType
  <2>4. \A k \in Keys : \A n \in kept'[k] : calls'[n].key = k
    <3>1. \A k \in Keys : \A n \in P[k] : calls[n].key = k
      BY <1>0, PrunedExact
    <3> HIDE DEF P
    <3>2. ASSUME NEW k \in Keys, NEW n \in kept'[k] PROVE calls'[n].key = k
      <4>1. \/ n \in P[k]
            \/ k = a /\ n = L + 1
            \/ k = i /\ n = L + 2
        BY <2>1, <2>2, <3>2
      <4> HIDE DEF L
      <4> QED BY <2>0, <2>3, <3>1, <4>1
    <3> QED BY <3>2
  <2>5. \A n \in 1 .. L : calls'[n].at > clock' - Window => n \in kept'[calls'[n].key]
    <3>1. \A n \in 1 .. L : calls[n].key \in Keys
      BY CallFacts
    <3>2. \A n \in 1 .. L : calls[n].at > clock' - Window => n \in P[calls[n].key]
      BY <2>0, PrunedExact
    <3> HIDE DEF P, L
    <3> QED BY <2>0, <2>1, <2>2, <3>1, <3>2
  <2>6. L + 1 \in kept'[calls'[L + 1].key] /\ L + 2 \in kept'[calls'[L + 2].key]
    BY <1>2, <2>2, Accepted
  <2>7. \A n \in DOMAIN calls' : n \in 1 .. L \/ n = L + 1 \/ n = L + 2
    BY <1>2, Accepted
  <2> QED BY <2>4, <2>5, <2>6, <2>7 DEF KeptExact
<1>3. CASE LimiterTick
  <2>1. clock' = clock + 1 /\ calls' = calls /\ kept' = kept
    BY <1>3 DEF LimiterTick, ClockTick
  <2>2. \A n \in DOMAIN calls : calls[n].at \in Nat
    BY CallFacts
  <2> QED BY <1>0, <2>1, <2>2 DEF KeptExact
<1>4. CASE UNCHANGED <<limiterVars, clock>>
  BY <1>4 DEF limiterVars, KeptExact
<1>5. CASE LimiterNext
  BY <1>1, <1>2, <1>3, <1>5 DEF LimiterNext, RefuseAccount, RefuseAddress, Cleanup
<1> QED BY <1>4, <1>5

-----------------------------------------------------------------------------
\* Sets of calls are finite.
LEMMA CallsFinite ==
  ASSUME LimiterTypeOK, NEW S \in SUBSET DOMAIN calls
  PROVE  IsFiniteSet(S) /\ Cardinality(S) \in Nat
<1>1. DOMAIN calls = 1 .. Len(calls) /\ Len(calls) \in Nat
  BY DEF LimiterTypeOK
<1>2. IsFiniteSet(DOMAIN calls)
  BY <1>1, FS_Interval
<1> QED BY <1>2, FS_Subset, FS_CardinalityType

\* A window that ends with a call made by an allowed key holds, besides that
\* call, only calls that checkLimit counted.
LEMMA WindowOfNew ==
  ASSUME LimiterTypeOK, KeptExact, NEW k \in Keys, Allowed(k),
         NEW n \in Nat, n > Len(calls), NEW W,
         W \subseteq {d \in DOMAIN calls : /\ calls[d].key = k
                                           /\ calls[d].at > clock - Window} \cup {n}
  PROVE  Cardinality(W) <= Limit
<1>1. W \subseteq Recent(k) \cup {n}
  BY DEF KeptExact, Recent
<1>2. Recent(k) \in SUBSET DOMAIN calls
  BY DEF Recent, LimiterTypeOK
<1>3. IsFiniteSet(Recent(k)) /\ Cardinality(Recent(k)) \in Nat
  BY <1>2, CallsFinite
<1>a. n \notin Recent(k)
  BY <1>2, CallFacts
<1>4. /\ IsFiniteSet(Recent(k) \cup {n})
      /\ Cardinality(Recent(k) \cup {n}) = Cardinality(Recent(k)) + 1
  <2>1. IsFiniteSet(Recent(k))
    BY <1>3
  <2>2. /\ IsFiniteSet(Recent(k) \cup {n})
        /\ Cardinality(Recent(k) \cup {n}) =
             IF n \in Recent(k) THEN Cardinality(Recent(k)) ELSE Cardinality(Recent(k)) + 1
    BY <2>1, FS_AddElement
  <2> QED BY <1>a, <2>2
<1>5. Cardinality(W) <= Cardinality(Recent(k) \cup {n}) /\ Cardinality(W) \in Nat
  BY <1>1, <1>4, FS_Subset, FS_CardinalityType
<1> QED BY <1>3, <1>4, <1>5, LimitAssumption DEF Allowed

LEMMA WindowStep ==
  LimiterTypeOK /\ KeptExact /\ WindowBound /\ [LimiterNext]_<<limiterVars, clock>> => WindowBound'
<1> SUFFICES ASSUME LimiterTypeOK, KeptExact, WindowBound, [LimiterNext]_<<limiterVars, clock>> PROVE WindowBound'
  OBVIOUS
<1>1. ASSUME calls' = calls PROVE WindowBound'
  BY <1>1 DEF WindowBound, InWindow
<1>2. ASSUME NEW a \in Accounts, NEW i \in Addresses,
             Accept(a, i)
      PROVE  WindowBound'
  <2> DEFINE L == Len(calls)
             \* InWindow in the next state
             NewWindow(k, n) == {d \in 1 .. n : /\ calls'[d].key = k
                                           /\ calls'[d].at > calls'[n].at - Window}
  <2>0. /\ DOMAIN calls = 1 .. L /\ DOMAIN calls' = 1 .. L + 2 /\ L \in Nat
        /\ \A n \in 1 .. L : calls'[n] = calls[n]
        /\ calls'[L + 1].key = a /\ calls'[L + 2].key = i
        /\ calls'[L + 1].at \in Nat /\ calls'[L + 2].at \in Nat
        /\ calls'[L + 1].at >= clock /\ calls'[L + 2].at >= clock
        /\ clock' \in Nat /\ clock' >= clock
    BY <1>2, Accepted
  <2>1. a \in Keys /\ i \in Keys /\ a # i /\ Allowed(a) /\ Allowed(i)
    BY <1>2, KeysAssumption DEF Keys, Accept
  <2>2. clock \in Nat /\ Window \in Nat /\ L \in Nat
        /\ \A n \in 1 .. L : calls[n].at \in Nat
    BY CallFacts, LimitAssumption DEF LimiterTypeOK
  <2>3. \A n \in 1 .. L : Cardinality(NewWindow(calls'[n].key, n)) <= Limit
    <3>1. \A n \in 1 .. L : NewWindow(calls'[n].key, n) = InWindow(calls[n].key, n)
      BY <2>0 DEF InWindow
    <3> HIDE DEF NewWindow
    <3> QED BY <2>0, <3>1 DEF WindowBound
  <2>4. Cardinality(NewWindow(a, L + 1)) <= Limit
    <3>1. NewWindow(a, L + 1) \subseteq
            {d \in DOMAIN calls : calls[d].key = a /\ calls[d].at > clock - Window} \cup {L + 1}
      <4> SUFFICES ASSUME NEW d \in 1 .. L + 1, calls'[d].key = a,
                          calls'[d].at > calls'[L + 1].at - Window, d # L + 1
                   PROVE  /\ d \in DOMAIN calls /\ calls[d].key = a
                          /\ calls[d].at > clock - Window
        OBVIOUS
      <4> HIDE DEF L
      <4>1. d \in 1 .. L
        BY <2>2
      <4>2. calls'[d] = calls[d] /\ calls[d].key = a
            /\ calls[d].at > calls'[L + 1].at - Window
        BY <2>0, <4>1
      <4>3. calls[d].at \in Nat /\ calls'[L + 1].at \in Nat /\ calls'[L + 1].at >= clock
        BY <2>0, <2>2, <4>1
      <4>4. calls[d].at > clock - Window
        BY <2>2, <4>2, <4>3
      <4> QED BY <2>0, <4>1, <4>2, <4>4
    <3>2. L + 1 \in Nat /\ L + 1 > Len(calls)
      BY <2>0
    <3> QED BY <2>1, <3>1, <3>2, WindowOfNew
  <2>5. Cardinality(NewWindow(i, L + 2)) <= Limit
    <3>1. NewWindow(i, L + 2) \subseteq
            {d \in DOMAIN calls : calls[d].key = i /\ calls[d].at > clock - Window} \cup {L + 2}
      <4> SUFFICES ASSUME NEW d \in 1 .. L + 2, calls'[d].key = i,
                          calls'[d].at > calls'[L + 2].at - Window, d # L + 2
                   PROVE  /\ d \in DOMAIN calls /\ calls[d].key = i
                          /\ calls[d].at > clock - Window
        OBVIOUS
      <4> HIDE DEF L
      <4>1. d \in 1 .. L
        BY <2>0, <2>1
      <4> QED BY <2>0, <2>2, <4>1
    <3>2. L + 2 \in Nat /\ L + 2 > Len(calls)
      BY <2>0
    <3> QED BY <2>1, <3>1, <3>2, WindowOfNew
  <2>6. \A n \in DOMAIN calls' : n \in 1 .. L \/ n = L + 1 \/ n = L + 2
    BY <1>2, Accepted
  <2> SUFFICES ASSUME NEW n \in DOMAIN calls'
               PROVE  Cardinality(NewWindow(calls'[n].key, n)) <= Limit
    BY DEF WindowBound, InWindow
  <2> HIDE DEF NewWindow, L
  <2> QED BY <2>0, <2>3, <2>4, <2>5, <2>6
<1>3. CASE LimiterNext
  BY <1>1, <1>2, <1>3 DEF LimiterNext, RefuseAccount, RefuseAddress, Cleanup, LimiterTick, ClockTick
<1>4. CASE UNCHANGED <<limiterVars, clock>>
  BY <1>1, <1>4 DEF limiterVars
<1> QED BY <1>3, <1>4

LEMMA KeptInit == LimiterInit => KeptExact /\ WindowBound
<1> SUFFICES ASSUME LimiterInit PROVE KeptExact /\ WindowBound
  OBVIOUS
<1>1. DOMAIN calls = {} /\ \A k \in Keys : kept[k] = {}
  BY DEF LimiterInit
<1> QED BY <1>1 DEF KeptExact, WindowBound

\* In no window are more than Limit requests of one account or address
\* accepted, for every limit, window and number of keys.
THEOREM WindowBoundCorrect == LimiterSpec => []WindowBound
<1>1. LimiterInit => LimiterTypeOK /\ KeptExact /\ WindowBound
  BY TypeInit, KeptInit
<1>2. (LimiterTypeOK /\ KeptExact /\ WindowBound) /\ [LimiterNext]_<<limiterVars, clock>>
        => (LimiterTypeOK /\ KeptExact /\ WindowBound)'
  BY TypeStep, KeptStep, WindowStep
<1> QED BY <1>1, <1>2, PTL DEF LimiterSpec

-----------------------------------------------------------------------------
\* A refused key has used its limit up, at the time of the refusal.
LEMMA RefusalIsJustified ==
  ASSUME LimiterTypeOK, KeptExact, NEW k \in Keys, ~Allowed(k)
  PROVE  Cardinality({d \in DOMAIN calls : /\ calls[d].key = k
                                           /\ calls[d].at > clock - Window}) >= Limit
<1> DEFINE W == {d \in DOMAIN calls : calls[d].key = k /\ calls[d].at > clock - Window}
<1>1. Recent(k) \in SUBSET W
  BY DEF KeptExact, Recent, LimiterTypeOK
<1>2. IsFiniteSet(W) /\ Cardinality(W) \in Nat
  BY CallsFinite
<1>3. Cardinality(Recent(k)) <= Cardinality(W) /\ Cardinality(Recent(k)) \in Nat
  BY <1>1, <1>2, FS_Subset, FS_CardinalityType
<1> HIDE DEF W
<1>4. Cardinality(W) >= Limit
  BY <1>2, <1>3, LimitAssumption DEF Allowed
<1> QED BY <1>4 DEF W

LEMMA RefusedStep ==
  LimiterTypeOK /\ KeptExact /\ RefusedOnlyWhenFull /\ [LimiterNext]_<<limiterVars, clock>> => RefusedOnlyWhenFull'
<1> SUFFICES ASSUME LimiterTypeOK, KeptExact, RefusedOnlyWhenFull, [LimiterNext]_<<limiterVars, clock>>
             PROVE  RefusedOnlyWhenFull'
  OBVIOUS
<1>1. ASSUME NEW k \in Keys, ~Allowed(k), limitedBy' = k, UNCHANGED <<clock, calls>>
      PROVE  RefusedOnlyWhenFull'
  BY <1>1, RefusalIsJustified DEF RefusedOnlyWhenFull
<1>2. ASSUME limitedBy' = NoKey PROVE RefusedOnlyWhenFull'
  BY <1>2 DEF RefusedOnlyWhenFull
<1>3. CASE UNCHANGED <<limiterVars, clock>>
  BY <1>3 DEF limiterVars, RefusedOnlyWhenFull
<1>4. CASE LimiterNext
  BY <1>1, <1>2, <1>4 DEF LimiterNext, RefuseAccount, RefuseAddress, Accept, Cleanup, LimiterTick, ClockTick, Keys
<1> QED BY <1>3, <1>4

\* A 429 is never wrong: the key it names had Limit accepted requests within
\* the last Window.
THEOREM RefusalCorrect == LimiterSpec => []RefusedOnlyWhenFull
<1>1. LimiterInit => LimiterTypeOK /\ KeptExact /\ RefusedOnlyWhenFull
  BY TypeInit, KeptInit DEF LimiterInit, RefusedOnlyWhenFull
<1>2. (LimiterTypeOK /\ KeptExact /\ RefusedOnlyWhenFull) /\ [LimiterNext]_<<limiterVars, clock>>
        => (LimiterTypeOK /\ KeptExact /\ RefusedOnlyWhenFull)'
  BY TypeStep, KeptStep, RefusedStep
<1> QED BY <1>1, <1>2, PTL DEF LimiterSpec
=============================================================================
