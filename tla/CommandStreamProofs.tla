------------------------ MODULE CommandStreamProofs ------------------------
(***************************************************************************)
(* Theorems about CommandStream for every number of requests, processes,   *)
(* commands and failures: type correctness and at-most-once delivery.      *)
(***************************************************************************)
EXTENDS CommandStream, FiniteSetTheorems, TLAPS

-----------------------------------------------------------------------------
(* Type correctness *)

LEMMA SeqWidens ==
  ASSUME NEW m \in Nat, NEW n \in Nat, m <= n, NEW q \in Seq(1 .. m)
  PROVE  q \in Seq(1 .. n)
  OBVIOUS

LEMMA AppendWidens ==
  ASSUME NEW n \in Nat, NEW q \in Seq(1 .. n), NEW e \in 1 .. n
  PROVE  /\ Append(q, e) \in Seq(1 .. n)
         /\ Len(Append(q, e)) = Len(q) + 1
         /\ \A i \in 1 .. Len(q) : Append(q, e)[i] = q[i]
         /\ Append(q, e)[Len(q) + 1] = e
         /\ Len(q) \in Nat
  OBVIOUS


LEMMA EmptySeq == Len(<<>>) = 0 /\ \A S : <<>> \in Seq(S)
  OBVIOUS

LEMMA TypeInit == Init => TypeOK
<1> SUFFICES ASSUME Init PROVE TypeOK
  OBVIOUS
<1>1. LastId = 0 /\ posted = 0 /\ log \in Seq(1 .. posted) /\ received \in Seq(Ids)
  BY EmptySeq DEF Init, LastId
<1>2. StreamType
  <2>1. pel = {} /\ trimmed = 0 /\ cursor = 0
    BY DEF Init
  <2>2. group \in BOOLEAN
    BY DEF Init
  <2>3. trimmed \in 0 .. LastId /\ cursor \in 0 .. LastId
    BY <1>1, <2>1
  <2> QED BY <1>1, <2>1, <2>2, <2>3 DEF StreamType
<1>3. HistoryType
  <2>1. left \in [{"fault", "resend", "loss"} -> Nat]
    BY BoundsAssumption DEF Init
  <2> QED BY <1>1, <2>1 DEF Init, HistoryType
<1>4. RequestType
  BY <1>1, SlotsAssumption DEF Init, RequestType, Labels, Pcs, Requests
<1> QED BY <1>2, <1>3, <1>4 DEF TypeOK

LEMMA TypePost ==
  ASSUME TypeOK, NEW s \in Senders, Post(s)
  PROVE  TypeOK'
<1> USE DEF TypeOK, Post, redis
<1>1. StreamType'
  BY SeqWidens DEF StreamType, LastId, Ids
<1>2. HistoryType'
  BY DEF HistoryType, LastId, Ids
<1>3. RequestType'
  BY SlotsAssumption DEF RequestType, StreamType, Labels, Pcs, Requests, Goto, AfterStart, Command, LastId
<1> QED BY <1>1, <1>2, <1>3

LEMMA TypeAdd ==
  ASSUME TypeOK, NEW s \in Senders, AddCommand(s)
  PROVE  TypeOK'
<1> USE DEF TypeOK, AddCommand
<1>0. cmd[s] \in 1 .. posted
  BY DEF RequestType, StreamType
<1>1. StreamType'
  <2>1. log' \in Seq(1 .. posted') /\ LastId' = LastId + 1 /\ LastId \in Nat
    BY <1>0, AppendWidens DEF StreamType, LastId, XAdd
  <2>2. trimmed' \in 0 .. LastId'
    BY <2>1, BoundsAssumption DEF StreamType, XAdd, IMax
  <2> QED BY <2>1, <2>2 DEF StreamType, Ids, XAdd
<1>2. HistoryType'
  BY <1>0, AppendWidens, SeqWidens DEF StreamType, HistoryType, LastId, Ids, XAdd
<1>3. RequestType'
  BY <1>0, AppendWidens, SlotsAssumption DEF StreamType, RequestType, Labels, Pcs, Requests, Goto, LastId, XAdd
<1> QED BY <1>1, <1>2, <1>3

LEMMA TypeEnsure ==
  ASSUME TypeOK, NEW r \in Requests, EnsureGroup(r)
  PROVE  TypeOK'
<1> USE DEF TypeOK, EnsureGroup
<1>1. StreamType'
  BY DEF StreamType, LastId, Ids, history
<1>2. HistoryType'
  BY DEF HistoryType, LastId, Ids, history
<1>3. RequestType'
  BY SlotsAssumption DEF RequestType, Labels, Pcs, Requests, Goto, LastId, Command, locals, history
<1> QED BY <1>1, <1>2, <1>3

LEMMA TypePoll ==
  ASSUME TypeOK, NEW p \in Pollers, Poll(p)
  PROVE  TypeOK'
<1> USE DEF TypeOK, Poll, Goto, AfterStart, Command, redis, locals, history
<1>1. StreamType'
  BY DEF StreamType, LastId, Ids
<1>2. HistoryType'
  BY DEF StreamType, HistoryType, LastId, Ids
<1>3. RequestType'
  BY SlotsAssumption DEF StreamType, RequestType, Labels, Pcs, Requests, LastId
<1> QED BY <1>1, <1>2, <1>3

LEMMA TypeReadNothing ==
  ASSUME TypeOK, NEW p \in Pollers, ReadNothing(p)
  PROVE  TypeOK'
<1> USE DEF TypeOK, ReadNothing, Goto, redis, locals, history
<1>1. StreamType'
  BY DEF StreamType, LastId, Ids
<1>2. HistoryType'
  BY DEF StreamType, HistoryType, LastId, Ids
<1>3. RequestType'
  BY SlotsAssumption DEF StreamType, RequestType, Labels, Pcs, Requests, LastId
<1> QED BY <1>1, <1>2, <1>3

LEMMA TypeRead ==
  ASSUME TypeOK, NEW p \in Pollers, ReadCommand(p)
  PROVE  TypeOK'
<1> USE DEF TypeOK, ReadCommand, XReadGroup, Queued, Stream, Goto
<1>1. StreamType'
  BY DEF StreamType, LastId, Ids
<1>2. HistoryType'
  BY DEF StreamType, HistoryType, LastId, Ids
<1>3. RequestType'
  BY SlotsAssumption DEF StreamType, RequestType, Labels, Pcs, Requests, LastId
<1> QED BY <1>1, <1>2, <1>3

LEMMA TypeAck ==
  ASSUME TypeOK, NEW p \in Pollers, AckRead(p)
  PROVE  TypeOK'
<1> USE DEF TypeOK, AckRead, Goto, locals, history
<1>1. StreamType'
  BY DEF StreamType, LastId, Ids
<1>2. HistoryType'
  BY DEF StreamType, HistoryType, LastId, Ids
<1>3. RequestType'
  BY SlotsAssumption DEF StreamType, RequestType, Labels, Pcs, Requests, LastId
<1> QED BY <1>1, <1>2, <1>3

LEMMA TypeRespond ==
  ASSUME TypeOK, NEW p \in Pollers, Respond(p)
  PROVE  TypeOK'
<1> USE DEF TypeOK, Respond, Goto, redis
<1>1. StreamType'
  BY DEF StreamType, LastId, Ids
<1>2. HistoryType'
  <2>1. held[p] \in Ids
    BY DEF StreamType, RequestType, LastId, Ids
  <2>2. received' \in Seq(Ids) /\ Ids' = Ids
    BY <2>1 DEF HistoryType, LastId, Ids
  <2> QED BY <2>2 DEF HistoryType
<1>3. RequestType'
  BY SlotsAssumption DEF StreamType, RequestType, Labels, Pcs, Requests, LastId
<1> QED BY <1>1, <1>2, <1>3

LEMMA TypeAbandon ==
  ASSUME TypeOK, NEW R, Abandon(R), UNCHANGED <<redis, history>>,
         ensured' \subseteq Instances,
         left' \in [{"fault", "resend", "loss"} -> Nat]
  PROVE  TypeOK'
<1> USE DEF TypeOK, Abandon, redis, history
<1>1. StreamType'
  BY DEF StreamType, LastId, Ids
<1>2. HistoryType'
  BY DEF StreamType, HistoryType, LastId, Ids
<1>3. RequestType'
  BY SlotsAssumption DEF StreamType, RequestType, Labels, Pcs, Requests, LastId
<1> QED BY <1>1, <1>2, <1>3

\* A marker's own steps touch the stream through pel and cursor only.
LEMMA TypeNote ==
  ASSUME TypeOK, NEW m \in Markers, NEW l \in Pcs(m), NEW r, Note(m, l, r),
         UNCHANGED <<log, trimmed, group, handed>>,
         pel' \subseteq Ids, cursor' \in 0 .. LastId, skipped' \subseteq Ids,
         left' \in [{"fault", "resend", "loss"} -> Nat]
  PROVE  TypeOK'
<1> USE DEF TypeOK, Note, Goto
<1>1. StreamType'
  BY DEF StreamType, LastId, Ids
<1>2. HistoryType'
  BY DEF HistoryType, LastId, Ids
<1>3. l \in Labels /\ m \notin Senders /\ m \notin Pollers
  BY SlotsAssumption DEF Pcs, Labels
<1>4. RequestType'
  BY <1>3 DEF RequestType, Requests, LastId
<1> QED BY <1>1, <1>2, <1>4

LEMMA TypeMark ==
  ASSUME TypeOK, NEW m \in Markers,
         \/ MarkAll(m) \/ MarkCursor(m) \/ MarkPending(m) \/ MarkPendingIds(m)
         \/ MarkAck(m) \/ MarkCount(m) \/ MarkCountFails(m) \/ MarkSetId(m)
         \/ MarkLatest(m) \/ MarkLength(m) \/ MarkDone(m)
  PROVE  TypeOK'
<1>0. /\ pel \subseteq Ids /\ cursor \in 0 .. LastId /\ skipped \subseteq Ids
      /\ left \in [{"fault", "resend", "loss"} -> Nat]
      /\ LastId \in Nat /\ trimmed \in Nat
      /\ Pcs(m) = {"idle", "ensure", "xinfo", "xpending", "xpendingrange", "xack",
                   "xrange", "setid", "xrevrange", "xlen", "done"}
  BY SlotsAssumption DEF TypeOK, StreamType, HistoryType, LastId, Pcs
<1>1. CASE MarkAll(m)
  <2>1. AfterStart(m) \in Pcs(m)
    BY <1>0, SlotsAssumption DEF AfterStart, Command
  <2> QED BY <1>0, <1>1, <2>1, TypeNote DEF MarkAll, redis
<1>2. CASE MarkCursor(m)
  BY <1>0, <1>2, TypeNote DEF MarkCursor, redis
<1>3. CASE MarkPending(m)
  <2>1. (IF pel = {} THEN "xrange" ELSE "xpendingrange") \in Pcs(m)
    BY <1>0
  <2> QED BY <1>0, <1>3, <2>1, TypeNote DEF MarkPending, redis
<1>4. CASE MarkPendingIds(m)
  <2>1. (IF FirstPending(report[m].count) = {} THEN "xrange" ELSE "xack") \in Pcs(m)
    BY <1>0
  <2> QED BY <1>0, <1>4, <2>1, TypeNote DEF MarkPendingIds, redis
<1>5. CASE MarkAck(m)
  BY <1>0, <1>5, TypeNote DEF MarkAck
<1>6. CASE MarkCount(m)
  BY <1>0, <1>6, TypeNote DEF MarkCount, redis
<1>7. CASE MarkCountFails(m)
  <2>1. left' \in [{"fault", "resend", "loss"} -> Nat]
    BY <1>0, <1>7 DEF MarkCountFails
  <2> QED BY <1>0, <1>7, <2>1, TypeNote DEF MarkCountFails, redis
<1>8. CASE MarkSetId(m)
  <2>1. cursor' \in 0 .. LastId /\ skipped' \subseteq Ids
    BY <1>0, <1>8 DEF MarkSetId, XGroupSetId, Queued, Stream, Ids
  <2> QED BY <1>0, <1>8, <2>1, TypeNote DEF MarkSetId, XGroupSetId
<1>9. CASE MarkLatest(m)
  BY <1>0, <1>9, TypeNote DEF MarkLatest, redis
<1>10. CASE MarkLength(m)
  BY <1>0, <1>10, TypeNote DEF MarkLength, redis
<1>11. CASE MarkDone(m)
  BY <1>0, <1>11, TypeNote DEF MarkDone, redis
<1> QED BY <1>1, <1>2, <1>3, <1>4, <1>5, <1>6, <1>7, <1>8, <1>9, <1>10, <1>11

LEMMA TypeGaugeStep ==
  ASSUME TypeOK, NEW g \in Gauges, NEW l \in Pcs(g), NEW r, Gauge(g, l, r)
  PROVE  TypeOK'
<1> USE DEF TypeOK, Gauge, Goto, redis, history
<1>1. StreamType'
  BY DEF StreamType, LastId, Ids
<1>2. HistoryType'
  BY DEF HistoryType, LastId, Ids
<1>3. l \in Labels /\ g \notin Senders /\ g \notin Pollers
  BY SlotsAssumption DEF Pcs, Labels
<1>4. RequestType'
  BY <1>3 DEF RequestType, Requests, LastId
<1> QED BY <1>1, <1>2, <1>4

LEMMA TypeGauge ==
  ASSUME TypeOK, NEW g \in Gauges,
         \/ Measure(g) \/ MeasureGroup(g) \/ MeasureLength(g) \/ MeasureRange(g)
         \/ MeasureDone(g)
  PROVE  TypeOK'
<1>0. Pcs(g) = {"idle", "ensure", "xinfo", "xlen", "xrange", "done"}
  BY SlotsAssumption DEF Pcs
<1>1. CASE Measure(g)
  <2>1. AfterStart(g) \in Pcs(g)
    BY <1>0, SlotsAssumption DEF AfterStart, Command
  <2> QED BY <1>1, <2>1, TypeGaugeStep DEF Measure
<1>2. CASE MeasureGroup(g)
  BY <1>0, <1>2, TypeGaugeStep DEF MeasureGroup
<1>3. CASE MeasureLength(g)
  BY <1>0, <1>3, TypeGaugeStep DEF MeasureLength
<1>4. CASE MeasureRange(g)
  BY <1>0, <1>4, TypeGaugeStep DEF MeasureRange
<1>5. CASE MeasureDone(g)
  BY <1>0, <1>5, TypeGaugeStep DEF MeasureDone
<1> QED BY <1>1, <1>2, <1>3, <1>4, <1>5

LEMMA TypeFailures ==
  ASSUME TypeOK,
         \/ \E r \in Requests : Throw(r) \/ Fail(r)
         \/ \E n \in Instances : Crash(n)
  PROVE  TypeOK'
<1>0. /\ ensured \subseteq Instances
      /\ left \in [{"fault", "resend", "loss"} -> Nat]
  BY DEF TypeOK, HistoryType, RequestType
<1>1. ASSUME NEW r \in Requests, Throw(r) PROVE TypeOK'
  BY <1>0, <1>1, TypeAbandon DEF Throw
<1>2. ASSUME NEW r \in Requests, Fail(r) PROVE TypeOK'
  <2>1. left' \in [{"fault", "resend", "loss"} -> Nat]
    BY <1>0, <1>2 DEF Fail
  <2> QED BY <1>0, <1>2, <2>1, TypeAbandon DEF Fail
<1>3. ASSUME NEW n \in Instances, Crash(n) PROVE TypeOK'
  <2>1. left' \in [{"fault", "resend", "loss"} -> Nat]
    BY <1>0, <1>3 DEF Crash
  <2>2. ensured' \subseteq Instances
    BY <1>0, <1>3 DEF Crash
  <2> QED BY <1>3, <2>1, <2>2, TypeAbandon DEF Crash
<1> QED BY <1>1, <1>2, <1>3

LEMMA TypeResend ==
  ASSUME TypeOK, NEW r \in Requests, Resend(r)
  PROVE  TypeOK'
<1> USE DEF TypeOK, Resend, locals
<1>0. left' \in [{"fault", "resend", "loss"} -> Nat]
  BY DEF HistoryType
<1>1. CASE pc[r] = "xadd" /\ XAdd(cmd[r])
  <2>0. r \in Senders
    BY <1>1 DEF RequestType, Pcs
  <2>1. cmd[r] \in 1 .. posted
    BY <1>1, <2>0 DEF RequestType, StreamType
  <2>2. /\ log' \in Seq(1 .. posted) /\ LastId' = LastId + 1 /\ LastId \in Nat
        /\ Ids \subseteq Ids' /\ trimmed' \in 0 .. LastId'
    BY SMTT(30), <1>1, <2>1, AppendWidens, BoundsAssumption DEF StreamType, LastId, Ids, XAdd, IMax
  <2>3. StreamType'
    BY <1>1, <2>2 DEF StreamType, XAdd
  <2>4. HistoryType'
    <3>1. received \in Seq(Ids')
      BY <2>2, SeqWidens DEF HistoryType, Ids
    <3>2. UNCHANGED <<handed, received, skipped>>
      BY <1>1 DEF XAdd
    <3> QED BY <1>0, <2>2, <3>1, <3>2 DEF HistoryType
  <2>5. RequestType'
    BY <2>2 DEF RequestType
  <2> QED BY <2>3, <2>4, <2>5
<1>2. CASE pc[r] = "xreadgroup" /\ \E i \in Queued : XReadGroup(i)
  <2>1. StreamType'
    BY <1>2 DEF StreamType, XReadGroup, Queued, Stream, Ids, LastId
  <2>2. HistoryType'
    BY SMTT(30), <1>0, <1>2 DEF StreamType, HistoryType, XReadGroup, Queued, Stream, Ids, LastId
  <2>3. RequestType'
    BY <1>2 DEF RequestType, XReadGroup, LastId
  <2> QED BY <2>1, <2>2, <2>3
<1>3. CASE pc[r] = "setid" /\ ~Refused(r) /\ XGroupSetId
  <2>1. StreamType'
    BY <1>3 DEF StreamType, XGroupSetId, Ids, LastId
  <2>2. HistoryType'
    BY <1>0, <1>3 DEF StreamType, HistoryType, XGroupSetId, Queued, Stream, Ids, LastId
  <2>3. RequestType'
    BY <1>3 DEF RequestType, XGroupSetId, LastId
  <2> QED BY <2>1, <2>2, <2>3
<1> QED BY <1>1, <1>2, <1>3

LEMMA TypeLoss == ASSUME TypeOK, LoseData PROVE TypeOK'
<1> USE DEF TypeOK, LoseData, locals, history
<1>0. LastId \in Nat /\ LastId' = LastId
  BY DEF StreamType, LastId
<1>1. StreamType'
  <2>1. group' \in BOOLEAN
    OBVIOUS
  <2>2. trimmed' \in 0 .. LastId' /\ cursor' \in 0 .. LastId'
    BY <1>0
  <2>3. posted' \in Nat /\ log' \in Seq(1 .. posted') /\ pel' \subseteq Ids'
    BY DEF StreamType
  <2> QED BY <2>1, <2>2, <2>3 DEF StreamType
<1>2. HistoryType'
  BY DEF HistoryType, LastId, Ids
<1>3. RequestType'
  BY DEF RequestType, LastId
<1> QED BY <1>1, <1>2, <1>3

LEMMA TypeStutter == ASSUME TypeOK, UNCHANGED vars PROVE TypeOK'
  BY DEF TypeOK, StreamType, HistoryType, RequestType, LastId, Ids, vars, redis, locals, history

LEMMA TypeStep == TypeOK /\ [Next]_vars => TypeOK'
<1> SUFFICES ASSUME TypeOK, [Next]_vars PROVE TypeOK'
  OBVIOUS
<1>1. ASSUME NEW s \in Senders, Post(s) \/ AddCommand(s) PROVE TypeOK'
  BY <1>1, TypePost, TypeAdd
<1>2. ASSUME NEW p \in Pollers,
             Poll(p) \/ ReadNothing(p) \/ ReadCommand(p) \/ AckRead(p) \/ Respond(p)
      PROVE  TypeOK'
  BY <1>2, TypePoll, TypeReadNothing, TypeRead, TypeAck, TypeRespond
<1>3. ASSUME NEW r \in Requests, EnsureGroup(r) PROVE TypeOK'
  BY <1>3, TypeEnsure
<1>4. ASSUME NEW r \in Requests, Serve(r) PROVE TypeOK'
  BY <1>1, <1>2, <1>3, <1>4, TypeMark, TypeGauge, TypeFailures DEF Serve
<1>5. CASE Next
  BY <1>1, <1>2, <1>4, <1>5, TypeMark, TypeGauge, TypeFailures, TypeResend, TypeLoss DEF Next
<1>6. CASE UNCHANGED vars
  BY <1>6, TypeStutter
<1> QED BY <1>5, <1>6

\* The stream, the consumer group and every request keep their types, and no
\* request ever holds an entry or a command outside its own window.
THEOREM TypeCorrect == Spec => []TypeOK
<1>1. Init => TypeOK
  BY TypeInit
<1>2. TypeOK /\ [Next]_vars => TypeOK'
  BY TypeStep
<1> QED BY <1>1, <1>2, PTL DEF Spec

-----------------------------------------------------------------------------
(* At-most-once delivery *)

LEMMA AppendElements ==
  ASSUME NEW S, NEW q \in Seq(S), NEW e \in S
  PROVE  /\ DOMAIN Append(q, e) = 1 .. Len(q) + 1
         /\ DOMAIN q = 1 .. Len(q) /\ Len(q) \in Nat
         /\ \A i \in 1 .. Len(q) : Append(q, e)[i] = q[i]
         /\ Append(q, e)[Len(q) + 1] = e
  OBVIOUS

LEMMA EntriesInit == Init => EntriesOnce
<1> SUFFICES ASSUME Init PROVE EntriesOnce
  OBVIOUS
<1>1. handed = {} /\ DOMAIN received = {} /\ \A p \in Pollers : held[p] = 0
  BY DEF Init
<1> QED BY <1>1 DEF EntriesOnce

LEMMA EntriesRead ==
  ASSUME TypeOK, EntriesOnce, NEW p \in Pollers, ReadCommand(p)
  PROVE  EntriesOnce'
<1>1. PICK i \in Queued : XReadGroup(i) /\ held' = [held EXCEPT ![p] = i]
  BY DEF ReadCommand
<1>2. /\ i \in Nat /\ i > cursor /\ cursor \in Nat /\ cursor' = i
      /\ handed' = handed \cup {i} /\ received' = received
  BY <1>1 DEF Queued, Stream, XReadGroup, TypeOK, StreamType, LastId, ReadCommand
<1>3. \A j \in handed : j \in Nat /\ j < i
  BY <1>2 DEF EntriesOnce, TypeOK, HistoryType, Ids
<1>4. \A q \in Pollers : q # p => held'[q] = held[q] /\ held'[q] # i
  BY <1>1, <1>2, <1>3 DEF EntriesOnce, TypeOK, RequestType
<1>5. held'[p] = i
  BY <1>1 DEF TypeOK, RequestType
<1> QED BY <1>2, <1>3, <1>4, <1>5 DEF EntriesOnce

LEMMA EntriesRespond ==
  ASSUME TypeOK, EntriesOnce, NEW p \in Pollers, Respond(p)
  PROVE  EntriesOnce'
<1>1. held[p] \in Ids /\ received \in Seq(Ids)
  BY DEF TypeOK, RequestType, HistoryType, StreamType, LastId, Ids, Respond
<1>2. /\ DOMAIN received' = 1 .. Len(received) + 1
      /\ DOMAIN received = 1 .. Len(received) /\ Len(received) \in Nat
      /\ \A i \in 1 .. Len(received) : received'[i] = received[i]
      /\ received'[Len(received) + 1] = held[p]
  BY <1>1, AppendElements DEF Respond
<1>3. held'[p] = 0 /\ \A q \in Pollers : q # p => held'[q] = held[q]
  BY DEF Respond, TypeOK, RequestType
<1>4. held[p] # 0 /\ handed' = handed /\ cursor' = cursor
  BY <1>1 DEF Ids, Respond, redis
<1>5. \A n \in DOMAIN received' : received'[n] # 0
  <2>1. \A i \in 1 .. Len(received) : received[i] # 0
    BY <1>2 DEF EntriesOnce, TypeOK, HistoryType, Ids
  <2> QED BY <1>1, <1>2, <1>4, <2>1
<1> QED BY <1>2, <1>3, <1>4, <1>5 DEF EntriesOnce

\* All other steps leave the responses alone, hand out nothing to a poll and
\* never move the cursor back.
LEMMA EntriesOther ==
  ASSUME TypeOK, EntriesOnce, received' = received, cursor' >= cursor,
         cursor' \in Nat,
         \A p \in Pollers : held'[p] \in {0, held[p]},
         \A i \in handed' \ handed : i > cursor /\ i <= cursor',
         handed \subseteq handed'
  PROVE  EntriesOnce'
<1>1. \A i \in handed : i \in Nat
  BY DEF TypeOK, HistoryType, Ids
<1>2. cursor \in Nat /\ \A n \in DOMAIN received : received[n] # 0
  BY DEF TypeOK, StreamType, HistoryType, LastId, Ids
<1> QED BY <1>1, <1>2 DEF EntriesOnce

LEMMA EntriesStep == TypeOK /\ EntriesOnce /\ [Next]_vars => EntriesOnce'
<1> SUFFICES ASSUME TypeOK, EntriesOnce, [Next]_vars PROVE EntriesOnce'
  OBVIOUS
<1>0. /\ cursor \in Nat /\ LastId \in Nat /\ cursor <= LastId /\ held \in [Pollers -> Nat]
  BY DEF TypeOK, StreamType, RequestType, LastId
<1>1. ASSUME NEW s \in Senders, Post(s) \/ AddCommand(s) PROVE EntriesOnce'
  BY <1>0, <1>1, EntriesOther DEF Post, AddCommand, XAdd, redis
<1>2. ASSUME NEW p \in Pollers, Poll(p) \/ ReadNothing(p) \/ AckRead(p)
      PROVE  EntriesOnce'
  BY <1>0, <1>2, EntriesOther DEF Poll, ReadNothing, AckRead, redis, locals, history
<1>3. ASSUME NEW r \in Requests, EnsureGroup(r) PROVE EntriesOnce'
  BY <1>0, <1>3, EntriesOther DEF EnsureGroup, locals, history
<1>4. ASSUME NEW m \in Markers,
             \/ MarkAll(m) \/ MarkCursor(m) \/ MarkPending(m) \/ MarkPendingIds(m)
             \/ MarkAck(m) \/ MarkCount(m) \/ MarkCountFails(m) \/ MarkSetId(m)
             \/ MarkLatest(m) \/ MarkLength(m) \/ MarkDone(m)
      PROVE  EntriesOnce'
  <2>1. /\ received' = received /\ held' = held /\ handed' = handed
        /\ cursor' \in {cursor, LastId}
    BY <1>4 DEF MarkAll, MarkCursor, MarkPending, MarkPendingIds, MarkAck, MarkCount,
                MarkCountFails, MarkSetId, MarkLatest, MarkLength, MarkDone, Note,
                XGroupSetId, redis
  <2> QED BY <1>0, <2>1, EntriesOther
<1>5. ASSUME NEW g \in Gauges,
             \/ Measure(g) \/ MeasureGroup(g) \/ MeasureLength(g) \/ MeasureRange(g)
             \/ MeasureDone(g)
      PROVE  EntriesOnce'
  <2>1. received' = received /\ held' = held /\ handed' = handed /\ cursor' = cursor
    BY <1>5 DEF Measure, MeasureGroup, MeasureLength, MeasureRange, MeasureDone,
                Gauge, redis, history
  <2> QED BY <1>0, <2>1, EntriesOther
<1>6. ASSUME NEW R, Abandon(R), UNCHANGED <<redis, history>> PROVE EntriesOnce'
  BY <1>0, <1>6, EntriesOther DEF Abandon, redis, history
<1>7. ASSUME NEW r \in Requests, Serve(r) \/ Fail(r) PROVE EntriesOnce'
  BY <1>1, <1>2, <1>3, <1>4, <1>5, <1>6, <1>7, EntriesRead, EntriesRespond
  DEF Serve, Throw, Fail
<1>8. ASSUME NEW r \in Requests, Resend(r) PROVE EntriesOnce'
  <2>1. received' = received /\ held' = held
    BY <1>8 DEF Resend, locals
  <2>2. \/ cursor' = cursor /\ handed' = handed
        \/ \E i \in Queued : cursor' = i /\ handed' = handed \cup {i}
        \/ cursor' = LastId /\ handed' = handed
    BY <1>8 DEF Resend, XAdd, XReadGroup, XGroupSetId
  <2>3. \A i \in Queued : i \in Nat /\ i > cursor
    BY <1>0 DEF Queued, Stream, TypeOK, StreamType
  <2> QED BY <1>0, <2>1, <2>2, <2>3, EntriesOther
<1>9. ASSUME NEW n \in Instances, Crash(n) PROVE EntriesOnce'
  BY <1>6, <1>9 DEF Crash
<1>10. CASE LoseData
  BY <1>0, <1>10, EntriesOther DEF LoseData, locals, history
<1>11. CASE Next
  BY <1>1, <1>2, <1>4, <1>5, <1>7, <1>8, <1>9, <1>10, <1>11 DEF Next
<1>12. CASE UNCHANGED vars
  BY <1>0, <1>12, EntriesOther DEF vars, redis, locals, history
<1> QED BY <1>11, <1>12

\* Whatever fails, is repeated or is lost, no entry of the stream is answered
\* to the firmware twice.
THEOREM EntriesCorrect == Spec => []EntriesOnce
<1>1. Init => EntriesOnce
  BY EntriesInit
<1>2. EntriesOnce /\ TypeOK /\ [Next]_vars => EntriesOnce'
  BY EntriesStep
<1> QED BY <1>1, <1>2, TypeCorrect, PTL DEF Spec

-----------------------------------------------------------------------------
(* No command is answered twice unless the client library repeats an XADD *)

\* The commands are compared by their number of post: a new one differs from
\* all that a sender carries or the log holds.
LEMMA CommandsInit == ASSUME MaxResends = 0 PROVE Init => CommandsOnce
<1> SUFFICES ASSUME Init PROVE CommandsOnce
  OBVIOUS
<1>1. /\ left.resend = 0 /\ \A s \in Senders : cmd[s] = 0
      /\ Len(log) = 0
  BY DEF Init
<1> QED BY <1>1 DEF CommandsOnce, Ids, LastId

LEMMA CommandsPost ==
  ASSUME TypeOK, CommandsOnce, NEW s \in Senders, Post(s)
  PROVE  CommandsOnce'
<1>1. /\ \A i \in 1 .. Len(log) : log[i] \in 1 .. posted
      /\ \A t \in Senders : cmd[t] \in 0 .. posted
      /\ posted \in Nat
  BY DEF TypeOK, StreamType, RequestType
<1>2. /\ log' = log /\ left' = left
      /\ cmd'[s] = posted + 1
      /\ \A t \in Senders : t # s => cmd'[t] = cmd[t]
  BY DEF Post, TypeOK, RequestType, redis
<1> QED BY <1>1, <1>2 DEF CommandsOnce, Ids, LastId

LEMMA CommandsAdd ==
  ASSUME TypeOK, CommandsOnce, NEW s \in Senders, AddCommand(s)
  PROVE  CommandsOnce'
<1>1. log \in Seq(1 .. posted) /\ cmd[s] # 0
  BY DEF TypeOK, StreamType, RequestType, AddCommand
<1>2. /\ Len(log') = Len(log) + 1 /\ Len(log) \in Nat
      /\ \A i \in 1 .. Len(log) : log'[i] = log[i]
      /\ log'[Len(log) + 1] = cmd[s]
  BY <1>1, AppendElements DEF AddCommand, XAdd
<1>3. left' = left /\ cmd'[s] = 0 /\ \A t \in Senders : t # s => cmd'[t] = cmd[t]
  BY DEF AddCommand, TypeOK, RequestType
<1>4. \A i \in Ids' : i \in Ids \/ i = Len(log) + 1
  BY <1>2 DEF Ids, LastId
<1> QED BY <1>1, <1>2, <1>3, <1>4 DEF CommandsOnce, Ids, LastId

LEMMA CommandsOther ==
  ASSUME CommandsOnce, log' = log, left'.resend = left.resend,
         \A s \in Senders : cmd'[s] \in {0, cmd[s]}
  PROVE  CommandsOnce'
BY DEF CommandsOnce, Ids, LastId

LEMMA CommandsStep == TypeOK /\ CommandsOnce /\ [Next]_vars => CommandsOnce'
<1> SUFFICES ASSUME TypeOK, CommandsOnce, [Next]_vars PROVE CommandsOnce'
  OBVIOUS
<1>0. left \in [{"fault", "resend", "loss"} -> Nat]
  BY DEF TypeOK, HistoryType
<1>1. ASSUME NEW p \in Pollers,
             Poll(p) \/ ReadNothing(p) \/ ReadCommand(p) \/ AckRead(p) \/ Respond(p)
      PROVE  CommandsOnce'
  BY <1>1, CommandsOther DEF Poll, ReadNothing, ReadCommand, XReadGroup, AckRead,
                             Respond, redis, locals, history
<1>2. ASSUME NEW r \in Requests, EnsureGroup(r) PROVE CommandsOnce'
  BY <1>2, CommandsOther DEF EnsureGroup, locals, history
<1>3. ASSUME NEW m \in Markers,
             \/ MarkAll(m) \/ MarkCursor(m) \/ MarkPending(m) \/ MarkPendingIds(m)
             \/ MarkAck(m) \/ MarkCount(m) \/ MarkCountFails(m) \/ MarkSetId(m)
             \/ MarkLatest(m) \/ MarkLength(m) \/ MarkDone(m)
      PROVE  CommandsOnce'
  <2>1. log' = log /\ cmd' = cmd
    BY <1>3 DEF MarkAll, MarkCursor, MarkPending, MarkPendingIds, MarkAck, MarkCount,
                MarkCountFails, MarkSetId, MarkLatest, MarkLength, MarkDone, Note,
                XGroupSetId, redis
  <2>2. left' = left \/ left' = [left EXCEPT !.fault = left.fault - 1]
    BY <1>3 DEF MarkAll, MarkCursor, MarkPending, MarkPendingIds, MarkAck, MarkCount,
                MarkCountFails, MarkSetId, MarkLatest, MarkLength, MarkDone
  <2> QED BY <1>0, <2>1, <2>2, CommandsOther
<1>4. ASSUME NEW g \in Gauges,
             \/ Measure(g) \/ MeasureGroup(g) \/ MeasureLength(g) \/ MeasureRange(g)
             \/ MeasureDone(g)
      PROVE  CommandsOnce'
  <2>1. log' = log /\ cmd' = cmd /\ left' = left
    BY <1>4 DEF Measure, MeasureGroup, MeasureLength, MeasureRange, MeasureDone,
                Gauge, redis
  <2> QED BY <2>1, CommandsOther
<1>5. ASSUME NEW R, Abandon(R), UNCHANGED redis, left'.resend = left.resend
      PROVE  CommandsOnce'
  BY <1>5, CommandsOther DEF Abandon, redis
<1>6. ASSUME NEW r \in Requests, Serve(r) PROVE CommandsOnce'
  <2>1. ASSUME Throw(r) PROVE CommandsOnce'
    BY <1>5, <2>1 DEF Throw
  <2> QED BY <1>1, <1>2, <1>3, <1>4, <1>6, <2>1, CommandsAdd DEF Serve
<1>7. ASSUME NEW r \in Requests, Fail(r) PROVE CommandsOnce'
  BY <1>0, <1>5, <1>7 DEF Fail
<1>8. ASSUME NEW n \in Instances, Crash(n) PROVE CommandsOnce'
  BY <1>0, <1>5, <1>8 DEF Crash
<1>9. \A r \in Requests : ~Resend(r)
  BY <1>0 DEF Resend, CommandsOnce
<1>10. CASE LoseData
  BY <1>0, <1>10, CommandsOther DEF LoseData, locals
<1>11. CASE Next
  BY <1>1, <1>3, <1>4, <1>6, <1>7, <1>8, <1>9, <1>10, <1>11, CommandsPost DEF Next
<1>12. CASE UNCHANGED vars
  BY <1>12, CommandsOther DEF vars, redis, locals
<1> QED BY <1>11, <1>12

LEMMA OnceImplies == TypeOK /\ EntriesOnce /\ CommandsOnce => AtMostOnce
<1> SUFFICES ASSUME TypeOK, EntriesOnce, CommandsOnce PROVE AtMostOnce
  OBVIOUS
<1>1. \A n \in DOMAIN received : received[n] \in Ids
  BY DEF EntriesOnce, TypeOK, HistoryType
<1> QED BY <1>1 DEF EntriesOnce, CommandsOnce, AtMostOnce

\* At-most-once delivery, through every failure, crash and loss of data, as
\* long as the client library executes no command twice.
THEOREM AtMostOnceCorrect == ASSUME MaxResends = 0 PROVE Spec => []AtMostOnce
<1>1. Init => CommandsOnce
  BY CommandsInit
<1>2. CommandsOnce /\ TypeOK /\ [Next]_vars => CommandsOnce'
  BY CommandsStep
<1>3. TypeOK /\ EntriesOnce /\ CommandsOnce => AtMostOnce
  BY OnceImplies
<1> QED BY <1>1, <1>2, <1>3, TypeCorrect, EntriesCorrect, PTL DEF Spec

-----------------------------------------------------------------------------
(* How a step moves the stream *)

\* Ids only grow, what is behind the cursor stays behind it, and what is newly
\* pending has just been passed by the cursor.
StreamMoves ==
  /\ LastId' >= LastId /\ cursor' >= cursor /\ trimmed' >= trimmed
  /\ \A i \in Queued' : i <= LastId => i \in Queued
  /\ \A i \in pel' \ pel : cursor < i /\ i <= cursor'
  /\ left'.fault <= left.fault /\ left'.resend <= left.resend
  /\ left'.loss <= left.loss

\* The numbers behind these statements.
LEMMA StreamNumbers ==
  ASSUME TypeOK
  PROVE  /\ LastId \in Nat /\ cursor \in Nat /\ trimmed \in Nat
         /\ trimmed <= LastId /\ cursor <= LastId
         /\ left \in [{"fault", "resend", "loss"} -> Nat]
         /\ pel \subseteq 1 .. LastId
         /\ \A i \in Queued : i \in Nat /\ i > cursor /\ i > trimmed /\ i <= LastId
  BY DEF TypeOK, StreamType, HistoryType, LastId, Ids, Queued, Stream

LEMMA MovesQuiet ==
  ASSUME TypeOK, UNCHANGED <<log, trimmed, group, cursor, left>>, pel' \subseteq pel
  PROVE  StreamMoves
  BY StreamNumbers DEF StreamMoves, Queued, Stream, LastId

LEMMA MovesXAdd ==
  ASSUME TypeOK, NEW c \in 1 .. posted, XAdd(c),
         left' = left \/ left' = [left EXCEPT !.resend = left.resend - 1]
  PROVE  StreamMoves /\ LastId' = LastId + 1
<1>1. LastId' = LastId + 1
  BY AppendWidens DEF TypeOK, StreamType, XAdd, LastId
<1>2. trimmed' >= trimmed /\ trimmed' \in Nat
  BY StreamNumbers DEF XAdd
<1>3. \A i \in Queued' : i <= LastId => i \in Queued
  BY <1>1, <1>2, StreamNumbers DEF XAdd, Queued, Stream
<1> QED BY SMTT(30), <1>1, <1>2, <1>3, StreamNumbers DEF StreamMoves, XAdd

LEMMA MovesXReadGroup ==
  ASSUME TypeOK, NEW i \in Queued, XReadGroup(i),
         left' = left \/ left' = [left EXCEPT !.resend = left.resend - 1]
  PROVE  StreamMoves
  BY StreamNumbers DEF StreamMoves, XReadGroup, Queued, Stream, LastId

LEMMA MovesXGroupSetId ==
  ASSUME TypeOK, XGroupSetId,
         left' = left \/ left' = [left EXCEPT !.resend = left.resend - 1]
  PROVE  StreamMoves
  BY StreamNumbers DEF StreamMoves, XGroupSetId, Queued, Stream, LastId

LEMMA MovesMark ==
  ASSUME TypeOK, NEW m \in Markers,
         \/ MarkAll(m) \/ MarkCursor(m) \/ MarkPending(m) \/ MarkPendingIds(m)
         \/ MarkAck(m) \/ MarkCount(m) \/ MarkCountFails(m) \/ MarkSetId(m)
         \/ MarkLatest(m) \/ MarkLength(m) \/ MarkDone(m)
  PROVE  StreamMoves
<1>1. CASE MarkAll(m) \/ MarkCursor(m) \/ MarkPending(m) \/ MarkPendingIds(m)
           \/ MarkAck(m) \/ MarkCount(m) \/ MarkLatest(m) \/ MarkLength(m)
           \/ MarkDone(m)
  BY <1>1, MovesQuiet DEF MarkAll, MarkCursor, MarkPending, MarkPendingIds, MarkAck,
                          MarkCount, MarkLatest, MarkLength, MarkDone, redis
<1>2. CASE MarkCountFails(m)
  BY <1>2, StreamNumbers DEF MarkCountFails, redis, StreamMoves, Queued, Stream, LastId
<1>3. CASE MarkSetId(m)
  BY <1>3, MovesXGroupSetId DEF MarkSetId
<1> QED BY <1>1, <1>2, <1>3

LEMMA MovesGauge ==
  ASSUME TypeOK, NEW g \in Gauges,
         \/ Measure(g) \/ MeasureGroup(g) \/ MeasureLength(g) \/ MeasureRange(g)
         \/ MeasureDone(g)
  PROVE  StreamMoves
<1>1. UNCHANGED <<log, trimmed, group, cursor, left, pel>>
  BY DEF Measure, MeasureGroup, MeasureLength, MeasureRange, MeasureDone, Gauge, redis
<1> QED BY <1>1, MovesQuiet

LEMMA MovesServe ==
  ASSUME TypeOK, NEW r \in Requests, Serve(r)
  PROVE  StreamMoves
<1>1. CASE EnsureGroup(r)
  BY <1>1, StreamNumbers DEF EnsureGroup, StreamMoves, Queued, Stream, LastId
<1>2. CASE Throw(r)
  BY <1>2, MovesQuiet DEF Throw, redis
<1>3. CASE r \in Senders /\ AddCommand(r)
  <2>1. cmd[r] \in 1 .. posted
    BY <1>3 DEF AddCommand, TypeOK, RequestType, StreamType
  <2> QED BY <1>3, <2>1, MovesXAdd DEF AddCommand
<1>4. CASE r \in Pollers /\ (ReadNothing(r) \/ AckRead(r) \/ Respond(r))
  BY <1>4, MovesQuiet DEF ReadNothing, AckRead, Respond, redis
<1>5. CASE r \in Pollers /\ ReadCommand(r)
  BY <1>5, MovesXReadGroup DEF ReadCommand
<1> QED BY <1>1, <1>2, <1>3, <1>4, <1>5, MovesMark, MovesGauge DEF Serve

LEMMA MovesStep == TypeOK /\ [Next]_vars => StreamMoves
<1> SUFFICES ASSUME TypeOK, [Next]_vars PROVE StreamMoves
  OBVIOUS
<1>1. ASSUME NEW r \in Requests, Post(r) \/ Poll(r) PROVE StreamMoves
  BY <1>1, MovesQuiet DEF Post, Poll, redis
<1>2. ASSUME NEW r \in Requests, Fail(r) PROVE StreamMoves
  BY <1>2, StreamNumbers DEF Fail, redis, StreamMoves, Queued, Stream, LastId
<1>3. ASSUME NEW n \in Instances, Crash(n) PROVE StreamMoves
  BY <1>3, StreamNumbers DEF Crash, redis, StreamMoves, Queued, Stream, LastId
<1>4. ASSUME NEW r \in Requests, Resend(r) PROVE StreamMoves
  <2>1. CASE pc[r] = "xadd" /\ XAdd(cmd[r])
    <3>1. r \in Senders
      BY <2>1 DEF TypeOK, RequestType, Pcs
    <3>2. cmd[r] \in 1 .. posted
      BY <2>1, <3>1 DEF TypeOK, RequestType, StreamType
    <3> QED BY <1>4, <2>1, <3>2, MovesXAdd DEF Resend
  <2>2. CASE \E i \in Queued : XReadGroup(i)
    BY <1>4, <2>2, MovesXReadGroup DEF Resend
  <2>3. CASE XGroupSetId
    BY <1>4, <2>3, MovesXGroupSetId DEF Resend
  <2> QED BY <1>4, <2>1, <2>2, <2>3 DEF Resend
<1>5. CASE LoseData
  BY <1>5, StreamNumbers DEF LoseData, StreamMoves, Queued, Stream, LastId
<1>6. CASE UNCHANGED vars
  BY <1>6, MovesQuiet DEF vars, redis
<1>7. CASE Next
  BY <1>1, <1>2, <1>3, <1>4, <1>5, <1>7, MovesServe, MovesMark, MovesGauge
  DEF Next, Requests
<1> QED BY <1>6, <1>7

-----------------------------------------------------------------------------
(* No silent loss, and nothing pending without a poll *)

\* While Redis keeps its data, whoever is past ensureConsumerGroup has seen
\* the group, and so has every process that remembers the stream; and until
\* the group is there nothing is in the stream.
GroupKnown ==
  left.loss = MaxLosses =>
    /\ ~group => LastId = 0
    /\ ensured # {} => group
    /\ \A r \in Requests : pc[r] \notin {"idle", "ensure"} => group

\* What the cursor has passed was handed out, stepped over or trimmed.
PassedKnown ==
  left.loss = MaxLosses =>
    \A i \in Ids : i <= cursor => i \in handed \cup skipped \cup (1 .. trimmed)

\* Faults, resends and losses are only spent.
Spent ==
  left.fault <= MaxFaults /\ left.resend <= MaxResends /\ left.loss <= MaxLosses

AccountedInv == Spent /\ GroupKnown /\ PassedKnown /\ PelIsInFlight

LEMMA BoundsAreNumbers ==
  MaxFaults \in Nat /\ MaxResends \in Nat /\ MaxLosses \in Nat /\ MaxPosts \in Nat
  BY BoundsAssumption

LEMMA AccountedInit == Init => AccountedInv
<1> SUFFICES ASSUME Init PROVE AccountedInv
  OBVIOUS
<1>1. LastId = 0 /\ Ids = {} /\ ensured = {} /\ \A r \in Requests : pc[r] = "idle"
  BY EmptySeq DEF Init, LastId, Ids
<1>2. Spent /\ pel = {}
  BY BoundsAreNumbers DEF Init, Spent
<1> QED BY <1>1, <1>2 DEF AccountedInv, GroupKnown, PassedKnown, PelIsInFlight

LEMMA SpentStep == TypeOK /\ TypeOK' /\ Spent /\ StreamMoves => Spent'
<1> SUFFICES ASSUME TypeOK, TypeOK', Spent, StreamMoves PROVE Spent'
  OBVIOUS
<1>1. /\ left \in [{"fault", "resend", "loss"} -> Nat]
      /\ left' \in [{"fault", "resend", "loss"} -> Nat]
  BY DEF TypeOK, HistoryType
<1> QED BY <1>1, BoundsAreNumbers DEF Spent, StreamMoves

LEMMA NoLossBefore ==
  ASSUME TypeOK, Spent, StreamMoves, left'.loss = MaxLosses
  PROVE  left.loss = MaxLosses
  BY BoundsAreNumbers, StreamNumbers DEF Spent, StreamMoves, TypeOK, HistoryType

\* A step that begins requests or ends them and takes no group away.
LEMMA KnownOther ==
  ASSUME TypeOK, Spent, GroupKnown, StreamMoves,
         LastId' = LastId, group' = group, ensured' \subseteq ensured,
         \A r \in Requests : pc'[r] \notin {"idle", "ensure"} =>
           pc[r] \notin {"idle", "ensure"} \/ ensured # {}
  PROVE  GroupKnown'
<1>1. left'.loss = MaxLosses => left.loss = MaxLosses
  BY NoLossBefore
<1> QED BY <1>1 DEF GroupKnown

\* A step of a request that is past ensureConsumerGroup.
LEMMA KnownBusy ==
  ASSUME TypeOK, Spent, GroupKnown, StreamMoves, group' = group,
         NEW r \in Requests, pc[r] \notin {"idle", "ensure"}
  PROVE  GroupKnown' /\ (left'.loss = MaxLosses => group)
<1>1. left'.loss = MaxLosses => left.loss = MaxLosses
  BY NoLossBefore
<1> QED BY <1>1 DEF GroupKnown

\* What Serve does once the group is ensured.
LEMMA ServeBusy ==
  ASSUME TypeOK, NEW r \in Requests, Serve(r), ~EnsureGroup(r)
  PROVE  pc[r] \notin {"idle", "ensure"} /\ group' = group
<1>1. CASE Throw(r)
  BY <1>1 DEF Throw, Refused, redis
<1>2. CASE r \in Senders /\ AddCommand(r)
  BY <1>2 DEF AddCommand, XAdd
<1>3. CASE r \in Pollers /\ (ReadNothing(r) \/ ReadCommand(r) \/ AckRead(r) \/ Respond(r))
  BY <1>3 DEF ReadNothing, ReadCommand, AckRead, Respond, XReadGroup, redis
<1>4. CASE r \in Markers /\ \/ MarkCursor(r) \/ MarkPending(r) \/ MarkPendingIds(r)
                            \/ MarkAck(r) \/ MarkCount(r) \/ MarkSetId(r)
                            \/ MarkLatest(r) \/ MarkLength(r) \/ MarkDone(r)
  BY <1>4 DEF MarkCursor, MarkPending, MarkPendingIds, MarkAck, MarkCount, MarkSetId,
              MarkLatest, MarkLength, MarkDone, XGroupSetId, redis
<1>5. CASE r \in Gauges /\ \/ MeasureGroup(r) \/ MeasureLength(r) \/ MeasureRange(r)
                           \/ MeasureDone(r)
  BY <1>5 DEF MeasureGroup, MeasureLength, MeasureRange, MeasureDone, Gauge, redis
<1> QED BY <1>1, <1>2, <1>3, <1>4, <1>5 DEF Serve

LEMMA KnownStart ==
  ASSUME TypeOK, Spent, GroupKnown, StreamMoves, NEW r \in Requests,
         Post(r) \/ Poll(r) \/ MarkAll(r) \/ Measure(r)
  PROVE  GroupKnown'
<1>1. /\ pc' = [pc EXCEPT ![r] = AfterStart(r)]
      /\ LastId' = LastId /\ group' = group /\ ensured' = ensured
  BY DEF Post, Poll, MarkAll, Measure, Note, Gauge, Goto, redis, LastId
<1>2. AfterStart(r) = "ensure" \/ ensured # {}
  BY DEF AfterStart
<1>3. \A q \in Requests : pc'[q] \notin {"idle", "ensure"} =>
        pc[q] \notin {"idle", "ensure"} \/ ensured # {}
  BY <1>1, <1>2 DEF TypeOK, RequestType
<1> QED BY <1>1, <1>3, KnownOther

LEMMA KnownStep ==
  TypeOK /\ Spent /\ GroupKnown /\ StreamMoves /\ [Next]_vars => GroupKnown'
<1> SUFFICES ASSUME TypeOK, Spent, GroupKnown, StreamMoves, [Next]_vars
             PROVE  GroupKnown'
  OBVIOUS
<1>1. ASSUME NEW r \in Requests, Serve(r) PROVE GroupKnown'
  <2>1. CASE EnsureGroup(r)
    BY <2>1 DEF EnsureGroup, GroupKnown
  <2> QED BY <1>1, <2>1, ServeBusy, KnownBusy
<1>2. ASSUME NEW m \in Markers, MarkCountFails(m) PROVE GroupKnown'
  BY <1>2, KnownBusy DEF MarkCountFails, redis, Requests
<1>3. ASSUME NEW R, Abandon(R), UNCHANGED redis, ensured' \subseteq ensured
      PROVE  GroupKnown'
  <2>1. \A r \in Requests : pc'[r] \in {"idle", pc[r]}
    BY <1>3 DEF Abandon
  <2> QED BY <1>3, <2>1, KnownOther DEF redis, LastId
<1>4. ASSUME NEW r \in Requests, Fail(r) PROVE GroupKnown'
  BY <1>3, <1>4 DEF Fail
<1>5. ASSUME NEW n \in Instances, Crash(n) PROVE GroupKnown'
  BY <1>3, <1>5 DEF Crash
<1>6. ASSUME NEW r \in Requests, Resend(r) PROVE GroupKnown'
  BY <1>6, KnownBusy DEF Resend, XAdd, XReadGroup, XGroupSetId
<1>7. CASE LoseData
  BY <1>7, BoundsAreNumbers, StreamNumbers DEF LoseData, GroupKnown, Spent
<1>8. CASE UNCHANGED vars
  BY <1>8, KnownOther DEF vars, redis, LastId
<1>9. CASE Next
  BY <1>1, <1>2, <1>4, <1>5, <1>6, <1>7, <1>9, KnownStart DEF Next, Requests
<1> QED BY <1>8, <1>9

LEMMA NumbersAfter ==
  ASSUME TypeOK'
  PROVE  /\ LastId' \in Nat /\ cursor' \in Nat /\ trimmed' \in Nat
         /\ trimmed' <= LastId' /\ cursor' <= LastId'
  BY DEF TypeOK, StreamType, LastId

LEMMA PassedOther ==
  ASSUME TypeOK, TypeOK', Spent, PassedKnown, StreamMoves, cursor' = cursor,
         handed \subseteq handed', skipped \subseteq skipped'
  PROVE  PassedKnown'
<1>1. left'.loss = MaxLosses => left.loss = MaxLosses
  BY NoLossBefore
<1>2. \A i \in Ids' : i <= cursor' => i \in Ids
  BY StreamNumbers, NumbersAfter DEF Ids, StreamMoves
<1>3. \A i \in 1 .. trimmed : i \in 1 .. trimmed'
  BY StreamNumbers, NumbersAfter DEF StreamMoves
<1> QED BY <1>1, <1>2, <1>3 DEF PassedKnown

LEMMA PassedRead ==
  ASSUME TypeOK, Spent, GroupKnown, PassedKnown, NEW i \in Queued, XReadGroup(i)
  PROVE  left.loss = MaxLosses =>
           \A j \in Ids' : j <= cursor' => j \in handed' \cup skipped' \cup (1 .. trimmed')
<1> SUFFICES ASSUME left.loss = MaxLosses, NEW j \in Ids', j <= cursor'
             PROVE  j \in handed' \cup skipped' \cup (1 .. trimmed')
  OBVIOUS
<1>1. /\ cursor' = i /\ handed' = handed \cup {i} /\ skipped' = skipped
      /\ trimmed' = trimmed /\ j \in Ids /\ j \in Nat
      /\ \A k \in Queued : i <= k
  BY DEF XReadGroup, Ids, LastId
<1>2. group /\ i \in Nat
  BY StreamNumbers DEF Queued
<1>3. CASE j <= cursor
  BY <1>1, <1>3 DEF PassedKnown
<1>4. CASE j > cursor /\ j < i
  <2>1. j \notin Queued
    BY <1>1, <1>2, <1>4
  <2>2. j <= trimmed
    BY <1>1, <1>2, <1>4, <2>1, StreamNumbers DEF Queued, Stream, Ids
  <2> QED BY <1>1, <2>2, StreamNumbers DEF Ids
<1> QED BY <1>1, <1>2, <1>3, <1>4, StreamNumbers

LEMMA PassedSetId ==
  ASSUME TypeOK, PassedKnown, XGroupSetId, group
  PROVE  left.loss = MaxLosses =>
           \A j \in Ids' : j <= cursor' => j \in handed' \cup skipped' \cup (1 .. trimmed')
<1> SUFFICES ASSUME left.loss = MaxLosses, NEW j \in Ids', j <= cursor'
             PROVE  j \in handed' \cup skipped' \cup (1 .. trimmed')
  OBVIOUS
<1>1. /\ handed' = handed /\ skipped' = skipped \cup Queued
      /\ trimmed' = trimmed /\ j \in Ids /\ j \in Nat
  BY DEF XGroupSetId, Ids, LastId
<1>2. CASE j <= cursor
  BY <1>1, <1>2 DEF PassedKnown
<1>3. CASE j > cursor
  <2>1. j \in Queued \/ j <= trimmed
    BY <1>1, <1>3, StreamNumbers DEF Queued, Stream, Ids
  <2> QED BY <1>1, <2>1, StreamNumbers DEF Ids
<1> QED BY <1>1, <1>2, <1>3, StreamNumbers

LEMMA PassedStep ==
  /\ TypeOK /\ TypeOK' /\ Spent /\ GroupKnown /\ PassedKnown /\ StreamMoves
  /\ [Next]_vars
  => PassedKnown'
<1> SUFFICES ASSUME TypeOK, TypeOK', Spent, GroupKnown, PassedKnown, StreamMoves,
                    [Next]_vars
             PROVE  PassedKnown'
  OBVIOUS
<1>0. left'.loss = MaxLosses => left.loss = MaxLosses
  BY NoLossBefore
<1>1. ASSUME NEW i \in Queued, XReadGroup(i) PROVE PassedKnown'
  BY <1>0, <1>1, PassedRead DEF PassedKnown
<1>2. ASSUME NEW r \in Requests, pc[r] = "setid", XGroupSetId PROVE PassedKnown'
  <2>1. left.loss = MaxLosses => group
    BY <1>2 DEF GroupKnown
  <2> QED BY <1>0, <1>2, <2>1, PassedSetId DEF PassedKnown
<1>3. ASSUME NEW r \in Requests, Post(r) \/ Poll(r) PROVE PassedKnown'
  BY <1>3, PassedOther DEF Post, Poll, redis, history
<1>4. ASSUME NEW m \in Markers,
             \/ MarkAll(m) \/ MarkCursor(m) \/ MarkPending(m) \/ MarkPendingIds(m)
             \/ MarkAck(m) \/ MarkCount(m) \/ MarkCountFails(m) \/ MarkLatest(m)
             \/ MarkLength(m) \/ MarkDone(m)
      PROVE  PassedKnown'
  <2>1. cursor' = cursor /\ handed' = handed /\ skipped' = skipped
    BY <1>4 DEF MarkAll, MarkCursor, MarkPending, MarkPendingIds, MarkAck, MarkCount,
                MarkCountFails, MarkLatest, MarkLength, MarkDone, redis
  <2> QED BY <2>1, PassedOther
<1>5. ASSUME NEW m \in Markers, MarkSetId(m) PROVE PassedKnown'
  BY <1>2, <1>5 DEF MarkSetId, Requests
<1>6. ASSUME NEW g \in Gauges,
             \/ Measure(g) \/ MeasureGroup(g) \/ MeasureLength(g) \/ MeasureRange(g)
             \/ MeasureDone(g)
      PROVE  PassedKnown'
  <2>1. cursor' = cursor /\ handed' = handed /\ skipped' = skipped
    BY <1>6 DEF Measure, MeasureGroup, MeasureLength, MeasureRange, MeasureDone, Gauge,
                redis, history
  <2> QED BY <2>1, PassedOther
<1>7. ASSUME NEW r \in Requests, EnsureGroup(r) PROVE PassedKnown'
  <2>1. handed' = handed /\ skipped' = skipped /\ LastId' = LastId
    BY <1>7 DEF EnsureGroup, history, LastId
  <2>2. CASE group
    BY <1>7, <2>1, <2>2, PassedOther DEF EnsureGroup
  <2>3. CASE ~group
    BY <1>0, <2>1, <2>3 DEF GroupKnown, PassedKnown, Ids
  <2> QED BY <2>2, <2>3
<1>8. ASSUME NEW s \in Senders, AddCommand(s) PROVE PassedKnown'
  BY <1>8, PassedOther DEF AddCommand, XAdd
<1>9. ASSUME NEW p \in Pollers,
             ReadNothing(p) \/ ReadCommand(p) \/ AckRead(p) \/ Respond(p)
      PROVE  PassedKnown'
  BY <1>1, <1>9, PassedOther DEF ReadNothing, ReadCommand, AckRead, Respond, redis, history
<1>10. ASSUME NEW r \in Requests, Throw(r) \/ Fail(r) PROVE PassedKnown'
  BY <1>10, PassedOther DEF Throw, Fail, redis, history
<1>11. ASSUME NEW n \in Instances, Crash(n) PROVE PassedKnown'
  BY <1>11, PassedOther DEF Crash, redis, history
<1>12. ASSUME NEW r \in Requests, Resend(r) PROVE PassedKnown'
  BY <1>1, <1>2, <1>12, PassedOther DEF Resend, XAdd
<1>13. CASE LoseData
  BY <1>13, BoundsAreNumbers, StreamNumbers DEF LoseData, PassedKnown, Spent
<1>14. ASSUME NEW r \in Requests, Serve(r) PROVE PassedKnown'
  BY <1>4, <1>5, <1>6, <1>7, <1>8, <1>9, <1>10, <1>14 DEF Serve
<1>15. CASE UNCHANGED vars
  BY <1>15, PassedOther DEF vars, redis, history
<1>16. CASE Next
  BY <1>3, <1>4, <1>6, <1>10, <1>11, <1>12, <1>13, <1>14, <1>16 DEF Next, Requests
<1> QED BY <1>15, <1>16

\* The poll that read an entry is the one that acknowledges it.
LEMMA InFlightOther ==
  ASSUME TypeOK, PelIsInFlight, pel' \subseteq pel,
         left'.fault = MaxFaults /\ left'.resend = MaxResends =>
           left.fault = MaxFaults /\ left.resend = MaxResends,
         \A p \in Pollers : pc[p] = "xack" => pc'[p] = "xack" /\ held'[p] = held[p]
  PROVE  PelIsInFlight'
  BY DEF PelIsInFlight

LEMMA InFlightRead ==
  ASSUME TypeOK, PelIsInFlight, NEW p \in Pollers, ReadCommand(p)
  PROVE  PelIsInFlight'
<1>1. PICK i \in Queued : XReadGroup(i) /\ held' = [held EXCEPT ![p] = i]
  BY DEF ReadCommand
<1>2. /\ pc[p] = "xreadgroup" /\ pc'[p] = "xack" /\ held'[p] = i
      /\ pel' = pel \cup {i} /\ left' = left
      /\ \A q \in Pollers : q # p => pc'[q] = pc[q] /\ held'[q] = held[q]
  BY <1>1 DEF ReadCommand, XReadGroup, Goto, TypeOK, RequestType, Requests
<1> QED BY <1>2 DEF PelIsInFlight

LEMMA InFlightAck ==
  ASSUME TypeOK, PelIsInFlight, NEW p \in Pollers, AckRead(p)
  PROVE  PelIsInFlight'
<1>1. /\ pel' = pel \ {held[p]} /\ held' = held /\ left' = left
      /\ \A q \in Pollers : q # p => pc'[q] = pc[q]
  BY DEF AckRead, Goto, locals, TypeOK, RequestType, Requests
<1> QED BY <1>1 DEF PelIsInFlight

LEMMA InFlightStep ==
  TypeOK /\ Spent /\ PelIsInFlight /\ [Next]_vars => PelIsInFlight'
<1> SUFFICES ASSUME TypeOK, Spent, PelIsInFlight, [Next]_vars PROVE PelIsInFlight'
  OBVIOUS
<1>0. /\ left \in [{"fault", "resend", "loss"} -> Nat]
      /\ \A p \in Pollers : p \in Requests
      /\ \A p \in Pollers : p \notin Senders \cup Markers \cup Gauges
      /\ pc \in [Requests -> Labels]
  BY SlotsAssumption DEF TypeOK, HistoryType, RequestType, Requests
\* Another request's own step.
<1>1. ASSUME NEW r \in Requests, NEW l, Goto(r, l), held' = held, pel' \subseteq pel,
             left' = left, r \notin Pollers \/ pc[r] # "xack"
      PROVE  PelIsInFlight'
  <2>1. \A p \in Pollers : pc[p] = "xack" => pc'[p] = "xack"
    BY <1>0, <1>1 DEF Goto
  <2> QED BY <1>1, <2>1, InFlightOther
\* A fault has been spent.
<1>2. ASSUME left' = [left EXCEPT !.fault = left.fault - 1] PROVE PelIsInFlight'
  BY <1>0, <1>2, BoundsAreNumbers DEF PelIsInFlight, Spent
<1>3. ASSUME NEW r \in Requests, Post(r) \/ Poll(r) PROVE PelIsInFlight'
  BY <1>1, <1>3 DEF Post, Poll, redis, locals
<1>4. ASSUME NEW m \in Markers,
             \/ MarkAll(m) \/ MarkCursor(m) \/ MarkPending(m) \/ MarkPendingIds(m)
             \/ MarkAck(m) \/ MarkCount(m) \/ MarkSetId(m) \/ MarkLatest(m)
             \/ MarkLength(m) \/ MarkDone(m)
      PROVE  PelIsInFlight'
  <2>1. /\ held' = held /\ pel' \subseteq pel /\ left' = left
        /\ \E l : Goto(m, l)
    BY <1>4 DEF MarkAll, MarkCursor, MarkPending, MarkPendingIds, MarkAck, MarkCount,
                MarkSetId, XGroupSetId, MarkLatest, MarkLength, MarkDone, Note, redis
  <2> QED BY <1>0, <1>1, <2>1 DEF Requests
<1>5. ASSUME NEW m \in Markers, MarkCountFails(m) PROVE PelIsInFlight'
  BY <1>2, <1>5 DEF MarkCountFails
<1>6. ASSUME NEW g \in Gauges,
             \/ Measure(g) \/ MeasureGroup(g) \/ MeasureLength(g) \/ MeasureRange(g)
             \/ MeasureDone(g)
      PROVE  PelIsInFlight'
  <2>1. /\ held' = held /\ pel' \subseteq pel /\ left' = left
        /\ \E l : Goto(g, l)
    BY <1>6 DEF Measure, MeasureGroup, MeasureLength, MeasureRange, MeasureDone, Gauge,
                redis
  <2> QED BY <1>0, <1>1, <2>1 DEF Requests
<1>7. ASSUME NEW r \in Requests, EnsureGroup(r) PROVE PelIsInFlight'
  BY <1>1, <1>7 DEF EnsureGroup, locals
<1>8. ASSUME NEW s \in Senders, AddCommand(s) PROVE PelIsInFlight'
  BY <1>0, <1>1, <1>8 DEF AddCommand, XAdd, Requests
<1>9. ASSUME NEW p \in Pollers, ReadNothing(p) PROVE PelIsInFlight'
  BY <1>1, <1>9 DEF ReadNothing, redis, locals, Requests
<1>10. ASSUME NEW p \in Pollers, Respond(p) PROVE PelIsInFlight'
  <2>1. \A q \in Pollers : pc[q] = "xack" => pc'[q] = "xack" /\ held'[q] = held[q]
    BY <1>0, <1>10 DEF Respond, Goto, TypeOK, RequestType
  <2> QED BY <1>10, <2>1, InFlightOther DEF Respond, redis
<1>11. ASSUME NEW r \in Requests, Throw(r) PROVE PelIsInFlight'
  <2>1. pc[r] # "xack"
    BY <1>11 DEF Throw, Refused
  <2>2. \A p \in Pollers : pc[p] = "xack" => pc'[p] = "xack" /\ held'[p] = held[p]
    BY <1>0, <1>11, <2>1 DEF Throw, Abandon
  <2> QED BY <1>11, <2>2, InFlightOther DEF Throw, redis
<1>12. ASSUME NEW r \in Requests, Fail(r) PROVE PelIsInFlight'
  BY <1>2, <1>12 DEF Fail
<1>13. ASSUME NEW n \in Instances, Crash(n) PROVE PelIsInFlight'
  BY <1>2, <1>13 DEF Crash
<1>14. ASSUME NEW r \in Requests, Resend(r) PROVE PelIsInFlight'
  BY <1>0, <1>14, BoundsAreNumbers DEF Resend, PelIsInFlight, Spent
<1>15. CASE LoseData
  BY <1>15 DEF LoseData, PelIsInFlight
<1>16. ASSUME NEW r \in Requests, Serve(r) PROVE PelIsInFlight'
  BY <1>4, <1>6, <1>7, <1>8, <1>9, <1>10, <1>11, <1>16, InFlightRead, InFlightAck
  DEF Serve
<1>17. CASE UNCHANGED vars
  BY <1>17, InFlightOther DEF vars, redis, locals
<1>18. CASE Next
  BY <1>3, <1>4, <1>5, <1>6, <1>12, <1>13, <1>14, <1>15, <1>16, <1>18 DEF Next, Requests
<1> QED BY <1>17, <1>18

LEMMA AccountedFollows == TypeOK /\ AccountedInv => Accounted
<1> SUFFICES ASSUME TypeOK, AccountedInv PROVE NoSilentLoss
  BY DEF Accounted, AccountedInv
<1> SUFFICES ASSUME left.loss = MaxLosses, NEW i \in Ids
             PROVE  i \in handed \cup skipped \cup (1 .. trimmed) \cup Queued
  BY DEF NoSilentLoss
<1>1. group
  BY StreamNumbers DEF AccountedInv, GroupKnown, Ids
<1>2. CASE i <= cursor
  BY <1>2 DEF AccountedInv, PassedKnown
<1>3. CASE i > cursor
  BY <1>1, <1>3, StreamNumbers DEF Queued, Stream, Ids
<1> QED BY <1>2, <1>3, StreamNumbers DEF Ids

\* While Redis keeps its data, every command that was added is queued, handed
\* out, stepped over or trimmed: with any number of processes, the group is
\* there before the first XADD, and no read, resend or mark-all moves the
\* cursor past a command that it does not account for.  And an entry is
\* pending only while the poll that read it is about to acknowledge it, as
\* long as nothing fails or is executed twice.
THEOREM AccountedCorrect == Spec => []Accounted
<1>1. Init => AccountedInv
  BY AccountedInit
<1>2. TypeOK /\ TypeOK' /\ AccountedInv /\ [Next]_vars => AccountedInv'
  BY MovesStep, SpentStep, KnownStep, PassedStep, InFlightStep DEF AccountedInv
<1>3. TypeOK /\ AccountedInv => Accounted
  BY AccountedFollows
<1> QED BY <1>1, <1>2, <1>3, TypeCorrect, PTL DEF Spec

-----------------------------------------------------------------------------
(* Mark-all *)

Reports ==
  [last : Nat, count : Nat, ids : SUBSET Nat, pelAcked : Nat, skipped : Nat,
   advancedTo : Nat, length : Nat, lastAtStart : Nat, pelAtStart : SUBSET Nat,
   passed : SUBSET Nat]

\* The commands up to id n that a poll can still get: the set only shrinks.
OldQueued(n) == {i \in Queued : i <= n}

\* What a marker noted lies behind the cursor or in the log, and what was
\* pending when it began is the beginning of the pending entries list.
MarkerBounds(m) ==
  /\ report[m] \in Reports
  /\ report[m].last <= cursor
  /\ report[m].lastAtStart <= LastId
  /\ \A i \in report[m].pelAtStart : i <= cursor
  /\ \A i \in report[m].pelAtStart, j \in pel : j <= i => j \in report[m].pelAtStart

\* Until its XACK a marker has room for every old pending entry: the count of
\* XPENDING, then the ids of the range.
MarkerClears(m) ==
  /\ pc[m] = "xpendingrange" =>
       Cardinality(pel \cap report[m].pelAtStart) <= report[m].count
  /\ pc[m] = "xack" => pel \cap report[m].pelAtStart \subseteq report[m].ids
  /\ pc[m] \in {"xrange", "setid", "xrevrange", "xlen", "done"} =>
       pel \cap report[m].pelAtStart = {}

MarkerEmpties(m) ==
  pc[m] \in {"xrevrange", "xlen", "done"} => report[m].lastAtStart <= cursor

\* The number it reports covers every old command that SETID can step over.
MarkerCounts(m) ==
  left.fault = MaxFaults =>
    /\ pc[m] = "setid" =>
         Cardinality(OldQueued(report[m].lastAtStart)) <= report[m].skipped
    /\ pc[m] \in {"xrevrange", "xlen", "done"} =>
         Cardinality(report[m].passed) <= report[m].skipped

PelBehindCursor == \A i \in pel : i <= cursor

MarkerInv(m) ==
  MarkerBounds(m) /\ MarkerClears(m) /\ MarkerEmpties(m) /\ MarkerCounts(m)

MarkAllInv == Spent /\ PelBehindCursor /\ \A m \in Markers : MarkerInv(m)

LEMMA CountMonotone ==
  ASSUME NEW n \in Nat, NEW T \in SUBSET (1 .. n), NEW S \in SUBSET T
  PROVE  /\ Cardinality(S) <= Cardinality(T)
         /\ Cardinality(S) \in Nat /\ Cardinality(T) \in Nat
         /\ IsFiniteSet(T)
<1>1. IsFiniteSet(1 .. n)
  BY FS_Interval
<1>2. IsFiniteSet(T)
  BY <1>1, FS_Subset
<1>3. IsFiniteSet(S) /\ Cardinality(S) <= Cardinality(T)
  BY <1>2, FS_Subset
<1> QED BY <1>2, <1>3, FS_CardinalityType

LEMMA PelStep ==
  TypeOK /\ TypeOK' /\ StreamMoves /\ PelBehindCursor => PelBehindCursor'
<1> SUFFICES ASSUME TypeOK, TypeOK', StreamMoves, PelBehindCursor, NEW i \in pel'
             PROVE  i <= cursor'
  BY DEF PelBehindCursor
<1>1. i \in Nat
  BY DEF TypeOK, StreamType, Ids
<1>2. CASE i \in pel
  BY <1>1, <1>2, StreamNumbers, NumbersAfter DEF PelBehindCursor, StreamMoves
<1>3. CASE i \notin pel
  BY <1>3 DEF StreamMoves
<1> QED BY <1>2, <1>3

\* The old queued commands and the old pending entries only get fewer.
LEMMA OldShrinks ==
  ASSUME TypeOK, TypeOK', StreamMoves
  PROVE  /\ \A n \in Nat : n <= LastId => OldQueued(n)' \subseteq OldQueued(n)
         /\ \A S \in SUBSET Nat : (\A i \in S : i <= cursor) => pel' \cap S \subseteq pel \cap S
<1>1. ASSUME NEW n \in Nat, n <= LastId, NEW i \in OldQueued(n)'
      PROVE  i \in OldQueued(n)
  <2>1. i \in Queued' /\ i <= n
    BY <1>1 DEF OldQueued
  <2>2. i \in Nat
    BY <2>1, NumbersAfter DEF Queued, Stream
  <2> QED BY <1>1, <2>1, <2>2, StreamNumbers DEF StreamMoves, OldQueued
<1>2. ASSUME NEW S \in SUBSET Nat, \A i \in S : i <= cursor
      PROVE  pel' \cap S \subseteq pel \cap S
  BY <1>2, StreamNumbers DEF StreamMoves
<1> QED BY <1>1, <1>2

\* The bounds survive any step that leaves what the marker saw at its start.
LEMMA BoundsKept ==
  ASSUME TypeOK, TypeOK', StreamMoves, NEW m \in Markers, MarkerBounds(m),
         report'[m] \in Reports,
         report'[m].lastAtStart = report[m].lastAtStart,
         report'[m].pelAtStart = report[m].pelAtStart,
         report'[m].last \in {report[m].last, 0, cursor}
  PROVE  MarkerBounds(m)'
<1>1. report'[m].last <= cursor' /\ report'[m].lastAtStart <= LastId'
  BY StreamNumbers, NumbersAfter DEF MarkerBounds, Reports, StreamMoves
<1>2. ASSUME NEW i \in report[m].pelAtStart PROVE i \in Nat /\ i <= cursor /\ i <= cursor'
  BY <1>2, StreamNumbers, NumbersAfter DEF MarkerBounds, Reports, StreamMoves
<1>3. ASSUME NEW i \in report[m].pelAtStart, NEW j \in pel', j <= i
      PROVE  j \in report[m].pelAtStart
  <2>1. j \in Nat
    BY DEF TypeOK, StreamType, Ids
  <2>2. j \in pel
    BY <1>2, <1>3, <2>1, StreamNumbers DEF StreamMoves
  <2> QED BY <1>3, <2>2 DEF MarkerBounds
<1> QED BY <1>1, <1>2, <1>3 DEF MarkerBounds

\* A marker that is before its XPENDING owes nothing yet.
LEMMA MarkerEarly ==
  ASSUME NEW m \in Markers, MarkerBounds(m)',
         pc'[m] \in {"idle", "ensure", "xinfo", "xpending"}
  PROVE  MarkerInv(m)'
  BY DEF MarkerInv, MarkerClears, MarkerEmpties, MarkerCounts

LEMMA MarkerReset ==
  ASSUME TypeOK', NEW m \in Markers, report'[m] = NoReport, pc'[m] = "idle"
  PROVE  MarkerInv(m)'
<1>1. NoReport \in Reports /\ NoReport.pelAtStart = {} /\ NoReport.last = 0
      /\ NoReport.lastAtStart = 0
  BY DEF NoReport, Reports
<1>2. MarkerBounds(m)'
  BY <1>1, NumbersAfter DEF MarkerBounds
<1> QED BY <1>2, MarkerEarly

\* The others run while a marker waits for its next command.
LEMMA MarkerKeeps ==
  ASSUME TypeOK, TypeOK', Spent, StreamMoves, NEW m \in Markers, MarkerInv(m),
         report'[m] = report[m], pc'[m] = pc[m]
  PROVE  MarkerInv(m)'
<1> DEFINE R == report[m]
<1>1. R \in Reports /\ R.lastAtStart <= LastId /\ \A i \in R.pelAtStart : i <= cursor
  BY DEF MarkerInv, MarkerBounds
<1>2. /\ R.lastAtStart \in Nat /\ R.pelAtStart \in SUBSET Nat /\ R.count \in Nat
      /\ R.skipped \in Nat /\ R.last \in Nat
  BY <1>1 DEF Reports
<1>3. /\ OldQueued(R.lastAtStart)' \subseteq OldQueued(R.lastAtStart)
      /\ pel' \cap R.pelAtStart \subseteq pel \cap R.pelAtStart
  <2>1. {i \in Queued' : i <= R.lastAtStart} \subseteq OldQueued(R.lastAtStart)
    BY <1>1, <1>2, OldShrinks DEF OldQueued
  <2> QED BY <1>1, <1>2, <2>1, OldShrinks DEF OldQueued
<1>4. MarkerBounds(m)'
  BY <1>1, BoundsKept DEF MarkerInv
<1>5. MarkerClears(m)'
  <2>1. Cardinality(pel' \cap R.pelAtStart) <= Cardinality(pel \cap R.pelAtStart)
        /\ Cardinality(pel' \cap R.pelAtStart) \in Nat
        /\ Cardinality(pel \cap R.pelAtStart) \in Nat
    BY <1>3, CountMonotone, StreamNumbers
  <2> QED BY <1>2, <1>3, <2>1 DEF MarkerInv, MarkerClears
<1>6. MarkerEmpties(m)'
  BY <1>2, StreamNumbers, NumbersAfter DEF MarkerInv, MarkerEmpties, StreamMoves
<1>7. MarkerCounts(m)'
  <2>1. left'.fault = MaxFaults => left.fault = MaxFaults
    BY BoundsAreNumbers DEF Spent, StreamMoves, TypeOK, HistoryType
  <2>2. /\ Cardinality(OldQueued(R.lastAtStart)') <= Cardinality(OldQueued(R.lastAtStart))
        /\ Cardinality(OldQueued(R.lastAtStart)') \in Nat
        /\ Cardinality(OldQueued(R.lastAtStart)) \in Nat
    <3>1. OldQueued(R.lastAtStart) \subseteq 1 .. LastId
      BY StreamNumbers DEF OldQueued
    <3> QED BY <1>3, <3>1, CountMonotone, StreamNumbers
  <2> QED BY <1>2, <2>1, <2>2 DEF MarkerInv, MarkerCounts
<1> QED BY <1>4, <1>5, <1>6, <1>7 DEF MarkerInv

LEMMA NoteEffect ==
  ASSUME TypeOK, NEW m \in Markers, NEW l, NEW r, Note(m, l, r)
  PROVE  /\ report'[m] = r /\ pc'[m] = l
         /\ \A n \in Markers : n # m => report'[n] = report[n] /\ pc'[n] = pc[n]
  BY DEF TypeOK, RequestType, Note, Goto, Requests

LEMMA MarkerBegins ==
  ASSUME TypeOK, TypeOK', StreamMoves, PelBehindCursor, NEW m \in Markers, MarkAll(m)
  PROVE  MarkerInv(m)'
<1>1. /\ report'[m] = [NoReport EXCEPT !.lastAtStart = LastId, !.pelAtStart = pel]
      /\ pc'[m] = AfterStart(m) /\ UNCHANGED redis
  BY NoteEffect DEF MarkAll
<1>2. pc'[m] \in {"ensure", "xinfo"}
  BY <1>1, SlotsAssumption DEF AfterStart, Command
<1>3. /\ report'[m] \in Reports /\ report'[m].last = 0
      /\ report'[m].lastAtStart = LastId /\ report'[m].pelAtStart = pel
  <2>1. pel \in SUBSET Nat /\ LastId \in Nat
    BY StreamNumbers
  <2>2. NoReport \in Reports /\ NoReport.last = 0
    BY DEF NoReport, Reports
  <2> QED BY <1>1, <2>1, <2>2 DEF Reports
<1>4. MarkerBounds(m)'
  BY <1>1, <1>3, StreamNumbers DEF MarkerBounds, PelBehindCursor, redis, LastId
<1> QED BY <1>2, <1>4, MarkerEarly

LEMMA MarkerReads ==
  ASSUME TypeOK, TypeOK', StreamMoves, NEW m \in Markers, MarkerInv(m), MarkCursor(m)
  PROVE  MarkerInv(m)'
<1>1. /\ report'[m] = [report[m] EXCEPT !.last = IF group THEN cursor ELSE 0]
      /\ pc'[m] = "xpending"
  BY NoteEffect DEF MarkCursor
<1>2. report[m] \in Reports /\ (IF group THEN cursor ELSE 0) \in Nat
  BY StreamNumbers DEF MarkerInv, MarkerBounds
<1>3. /\ report'[m] \in Reports
      /\ report'[m].lastAtStart = report[m].lastAtStart
      /\ report'[m].pelAtStart = report[m].pelAtStart
      /\ report'[m].last \in {report[m].last, 0, cursor}
  BY <1>1, <1>2 DEF Reports
<1>4. MarkerBounds(m)'
  BY <1>3, BoundsKept DEF MarkerInv
<1> QED BY <1>1, <1>4, MarkerEarly

LEMMA MarkerCountsPending ==
  ASSUME TypeOK, TypeOK', StreamMoves, NEW m \in Markers, MarkerInv(m), MarkPending(m)
  PROVE  MarkerInv(m)'
<1>1. /\ report'[m] = [report[m] EXCEPT !.count = Cardinality(pel)]
      /\ pc'[m] = IF pel = {} THEN "xrange" ELSE "xpendingrange"
      /\ pel' = pel
  BY NoteEffect DEF MarkPending, redis
<1>2. Cardinality(pel) \in Nat
      /\ Cardinality(pel \cap report[m].pelAtStart) <= Cardinality(pel)
  BY CountMonotone, StreamNumbers
<1>3. report[m] \in Reports
  BY DEF MarkerInv, MarkerBounds
<1>4. /\ report'[m] \in Reports /\ report'[m].count = Cardinality(pel)
      /\ report'[m].lastAtStart = report[m].lastAtStart
      /\ report'[m].pelAtStart = report[m].pelAtStart
      /\ report'[m].last = report[m].last
  BY <1>1, <1>2, <1>3 DEF Reports
<1>5. MarkerBounds(m)'
  BY <1>4, BoundsKept DEF MarkerInv
<1> QED BY <1>1, <1>2, <1>4, <1>5
        DEF MarkerInv, MarkerClears, MarkerEmpties, MarkerCounts

\* The ids of the range contain every old pending entry: the entries below one
\* of them are old themselves, so they are fewer than the count.
LEMMA MarkerGetsIds ==
  ASSUME TypeOK, TypeOK', StreamMoves, NEW m \in Markers, MarkerInv(m), MarkPendingIds(m)
  PROVE  MarkerInv(m)'
<1> DEFINE ids == FirstPending(report[m].count)
<1>1. /\ report'[m] = [report[m] EXCEPT !.ids = ids]
      /\ pc'[m] = IF ids = {} THEN "xrange" ELSE "xack"
      /\ pel' = pel /\ pc[m] = "xpendingrange"
  BY NoteEffect DEF MarkPendingIds, redis
<1>2. report[m] \in Reports /\ ids \in SUBSET Nat
  BY StreamNumbers DEF MarkerInv, MarkerBounds, FirstPending
<1>3. /\ report'[m] \in Reports /\ report'[m].ids = ids
      /\ report'[m].lastAtStart = report[m].lastAtStart
      /\ report'[m].pelAtStart = report[m].pelAtStart
      /\ report'[m].last = report[m].last
  BY <1>1, <1>2 DEF Reports
<1>4. ASSUME NEW i \in pel \cap report[m].pelAtStart PROVE i \in ids
  <2> DEFINE Old == pel \cap report[m].pelAtStart
             Below == {j \in pel : j < i}
  <2>1. Old \in SUBSET (1 .. LastId) /\ LastId \in Nat /\ i \in 1 .. LastId
    BY StreamNumbers
  <2>2. Below \subseteq Old \ {i}
    <3> SUFFICES ASSUME NEW j \in pel, j < i PROVE j \in report[m].pelAtStart /\ j # i
      OBVIOUS
    <3>1. j \in Nat /\ i \in Nat /\ i \in report[m].pelAtStart
      BY StreamNumbers
    <3> QED BY <3>1 DEF MarkerInv, MarkerBounds
  <2>3. IsFiniteSet(Old) /\ Cardinality(Old) \in Nat
    BY <2>1, CountMonotone
  <2>4. Cardinality(Old \ {i}) = Cardinality(Old) - 1
    BY <2>3, FS_RemoveElement
  <2>5. Cardinality(Below) <= Cardinality(Old \ {i}) /\ Cardinality(Below) \in Nat
    BY <2>1, <2>2, CountMonotone
  <2>6. Cardinality(Old) <= report[m].count /\ report[m].count \in Nat
    BY <1>1, <1>2 DEF MarkerInv, MarkerClears, Reports
  <2>7. Cardinality(Below) < report[m].count
    BY <2>3, <2>4, <2>5, <2>6
  <2> QED BY <2>7 DEF FirstPending
<1>5. MarkerBounds(m)'
  BY <1>3, BoundsKept DEF MarkerInv
<1> QED BY <1>1, <1>3, <1>4, <1>5
        DEF MarkerInv, MarkerClears, MarkerEmpties, MarkerCounts

LEMMA MarkerAcks ==
  ASSUME TypeOK, TypeOK', StreamMoves, NEW m \in Markers, MarkerInv(m), MarkAck(m)
  PROVE  MarkerInv(m)'
<1>1. /\ report'[m] = [report[m] EXCEPT !.pelAcked = Cardinality(pel \cap report[m].ids)]
      /\ pc'[m] = "xrange" /\ pel' = pel \ report[m].ids /\ pc[m] = "xack"
  BY NoteEffect DEF MarkAck
<1>2. report[m] \in Reports /\ Cardinality(pel \cap report[m].ids) \in Nat
  BY CountMonotone, StreamNumbers DEF MarkerInv, MarkerBounds
<1>3. /\ report'[m] \in Reports
      /\ report'[m].lastAtStart = report[m].lastAtStart
      /\ report'[m].pelAtStart = report[m].pelAtStart
      /\ report'[m].last = report[m].last
  BY <1>1, <1>2 DEF Reports
<1>4. MarkerBounds(m)'
  BY <1>3, BoundsKept DEF MarkerInv
<1>5. pel' \cap report'[m].pelAtStart = {}
  BY <1>1, <1>3 DEF MarkerInv, MarkerClears
<1> QED BY <1>1, <1>4, <1>5 DEF MarkerInv, MarkerClears, MarkerEmpties, MarkerCounts

\* XRANGE counts from the noted cursor, which only moved on: no old queued
\* command is missed.
LEMMA MarkerCountsQueued ==
  ASSUME TypeOK, TypeOK', StreamMoves, NEW m \in Markers, MarkerInv(m), MarkCount(m)
  PROVE  MarkerInv(m)'
<1> DEFINE R == report[m]
           After == {i \in Stream : i > R.last}
<1>1. /\ report'[m] = [report[m] EXCEPT !.skipped = Cardinality(After)]
      /\ pc'[m] = "setid" /\ pc[m] = "xrange" /\ UNCHANGED <<pel, redis>>
  BY NoteEffect DEF MarkCount, redis
<1>2. R \in Reports /\ R.last <= cursor /\ R.last \in Nat /\ R.lastAtStart \in Nat
  BY DEF MarkerInv, MarkerBounds, Reports
<1>3. After \in SUBSET (1 .. LastId)
  BY StreamNumbers DEF Stream
<1>4. OldQueued(R.lastAtStart) \subseteq After
  BY <1>2, StreamNumbers DEF OldQueued, Queued
<1>5. /\ Cardinality(OldQueued(R.lastAtStart)) <= Cardinality(After)
      /\ Cardinality(After) \in Nat
  BY <1>3, <1>4, CountMonotone, StreamNumbers
<1>6. /\ report'[m] \in Reports /\ report'[m].skipped = Cardinality(After)
      /\ report'[m].lastAtStart = R.lastAtStart
      /\ report'[m].pelAtStart = R.pelAtStart
      /\ report'[m].last = R.last
  BY <1>1, <1>2, <1>5 DEF Reports
<1>7. MarkerBounds(m)'
  BY <1>6, BoundsKept DEF MarkerInv
<1>8. OldQueued(R.lastAtStart)' = OldQueued(R.lastAtStart)
  BY <1>1, <1>6 DEF OldQueued, Queued, Stream, LastId, redis
<1> QED BY <1>1, <1>5, <1>6, <1>7, <1>8
        DEF MarkerInv, MarkerClears, MarkerEmpties, MarkerCounts

LEMMA MarkerCountFails ==
  ASSUME TypeOK, TypeOK', Spent, StreamMoves, NEW m \in Markers, MarkerInv(m),
         MarkCountFails(m)
  PROVE  MarkerInv(m)'
<1>1. /\ report'[m] = report[m] /\ pel' = pel
      /\ pc'[m] = "setid" /\ pc[m] = "xrange" /\ left'.fault # MaxFaults
  BY NoteEffect, StreamNumbers, BoundsAreNumbers DEF MarkCountFails, redis, Spent
<1>2. MarkerBounds(m)'
  BY <1>1, BoundsKept DEF MarkerInv, MarkerBounds
<1> QED BY <1>1, <1>2 DEF MarkerInv, MarkerClears, MarkerEmpties, MarkerCounts

LEMMA MarkerAdvances ==
  ASSUME TypeOK, TypeOK', StreamMoves, NEW m \in Markers, MarkerInv(m), MarkSetId(m)
  PROVE  MarkerInv(m)'
<1> DEFINE R == report[m]
<1>1. /\ report'[m] = [report[m] EXCEPT !.passed = {i \in Queued : i <= R.lastAtStart}]
      /\ pc'[m] = "xrevrange" /\ pc[m] = "setid"
      /\ pel' = pel /\ left' = left /\ cursor' = LastId
  BY NoteEffect DEF MarkSetId, XGroupSetId
<1>2. R \in Reports /\ OldQueued(R.lastAtStart) \in SUBSET Nat
  BY StreamNumbers DEF MarkerInv, MarkerBounds, OldQueued
<1>3. /\ report'[m] \in Reports /\ report'[m].passed = OldQueued(R.lastAtStart)
      /\ report'[m].lastAtStart = R.lastAtStart
      /\ report'[m].pelAtStart = R.pelAtStart
      /\ report'[m].last = R.last /\ report'[m].skipped = R.skipped
  BY <1>1, <1>2 DEF Reports, OldQueued
<1>4. MarkerBounds(m)'
  BY <1>3, BoundsKept DEF MarkerInv
<1>5. MarkerEmpties(m)'
  BY <1>1, <1>3 DEF MarkerInv, MarkerBounds, MarkerEmpties
<1>6. MarkerCounts(m)'
  BY <1>1, <1>3 DEF MarkerInv, MarkerCounts
<1> QED BY <1>1, <1>3, <1>4, <1>5, <1>6 DEF MarkerInv, MarkerClears

LEMMA MarkerReports ==
  ASSUME TypeOK, TypeOK', StreamMoves, NEW m \in Markers, MarkerInv(m),
         MarkLatest(m) \/ MarkLength(m)
  PROVE  MarkerInv(m)'
<1>1. PICK n \in Nat :
        /\ \/ report'[m] = [report[m] EXCEPT !.advancedTo = n]
           \/ report'[m] = [report[m] EXCEPT !.length = n]
        /\ pc[m] \in {"xrevrange", "xlen"} /\ pc'[m] \in {"xlen", "done"}
        /\ UNCHANGED <<pel, cursor, left>>
  <2>1. Cardinality(Stream) \in Nat /\ LastId \in Nat
    <3>1. Stream \in SUBSET (1 .. LastId) /\ LastId \in Nat
      BY StreamNumbers DEF Stream
    <3> QED BY <3>1, CountMonotone
  <2>2. CASE MarkLatest(m)
    BY <2>1, <2>2, NoteEffect DEF MarkLatest, redis
  <2>3. CASE MarkLength(m)
    BY <2>1, <2>3, NoteEffect DEF MarkLength, redis
  <2> QED BY <2>2, <2>3
<1>2. report[m] \in Reports
  BY DEF MarkerInv, MarkerBounds
<1>3. /\ report'[m] \in Reports /\ report'[m].passed = report[m].passed
      /\ report'[m].lastAtStart = report[m].lastAtStart
      /\ report'[m].pelAtStart = report[m].pelAtStart
      /\ report'[m].last = report[m].last /\ report'[m].skipped = report[m].skipped
  BY <1>1, <1>2 DEF Reports
<1>4. MarkerBounds(m)'
  BY <1>3, BoundsKept DEF MarkerInv
<1> QED BY <1>1, <1>3, <1>4 DEF MarkerInv, MarkerClears, MarkerEmpties, MarkerCounts

\* What a step means to a marker: one of its own commands, the group ensured,
\* its end, or nothing.
LEMMA MarkerMoves ==
  ASSUME TypeOK, [Next]_vars, NEW m \in Markers
  PROVE  \/ pc'[m] = pc[m] /\ report'[m] = report[m]
         \/ pc'[m] = "idle" /\ report'[m] = NoReport
         \/ pc'[m] = "xinfo" /\ report'[m] = report[m]
         \/ MarkAll(m) \/ MarkCursor(m) \/ MarkPending(m) \/ MarkPendingIds(m)
         \/ MarkAck(m) \/ MarkCount(m) \/ MarkCountFails(m) \/ MarkSetId(m)
         \/ MarkLatest(m) \/ MarkLength(m)
<1> DEFINE Rests == pc'[m] = pc[m] /\ report'[m] = report[m]
           Ends == pc'[m] = "idle" /\ report'[m] = NoReport
<1>0. /\ pc \in [Requests -> Labels] /\ m \in Requests /\ DOMAIN report = Markers
      /\ m \notin Senders /\ m \notin Pollers /\ m \notin Gauges
  BY SlotsAssumption DEF TypeOK, RequestType, Requests
<1>1. ASSUME NEW r \in Requests \ {m}, NEW l, Goto(r, l), report' = report PROVE Rests
  BY <1>0, <1>1 DEF Goto
<1>2. ASSUME NEW n \in Markers, n # m, NEW l, NEW v, Note(n, l, v) PROVE Rests
  BY <1>2, NoteEffect
<1>3. ASSUME NEW n \in Markers,
             \/ MarkAll(n) \/ MarkCursor(n) \/ MarkPending(n) \/ MarkPendingIds(n)
             \/ MarkAck(n) \/ MarkCount(n) \/ MarkCountFails(n) \/ MarkSetId(n)
             \/ MarkLatest(n) \/ MarkLength(n) \/ MarkDone(n)
      PROVE  \E l, v : Note(n, l, v)
  BY <1>3 DEF MarkAll, MarkCursor, MarkPending, MarkPendingIds, MarkAck, MarkCount,
              MarkCountFails, MarkSetId, MarkLatest, MarkLength, MarkDone
<1>4. ASSUME MarkDone(m) PROVE Ends
  BY <1>4, NoteEffect DEF MarkDone
<1>5. ASSUME NEW R, Abandon(R) PROVE Rests \/ Ends
  BY <1>0, <1>5 DEF Abandon
<1>6. ASSUME NEW r \in Requests, EnsureGroup(r)
      PROVE  Rests \/ (pc'[m] = "xinfo" /\ report'[m] = report[m])
  BY <1>0, <1>6 DEF EnsureGroup, Goto, Command, locals
<1>7. ASSUME NEW s \in Senders, Post(s) \/ AddCommand(s) PROVE Rests
  BY <1>0, <1>1, <1>7 DEF Post, AddCommand, Requests
<1>8. ASSUME NEW p \in Pollers,
             Poll(p) \/ ReadNothing(p) \/ ReadCommand(p) \/ AckRead(p) \/ Respond(p)
      PROVE  Rests
  BY <1>0, <1>1, <1>8 DEF Poll, ReadNothing, ReadCommand, AckRead, Respond, locals, Requests
<1>9. ASSUME NEW g \in Gauges,
             \/ Measure(g) \/ MeasureGroup(g) \/ MeasureLength(g) \/ MeasureRange(g)
             \/ MeasureDone(g)
      PROVE  Rests
  <2>1. report' = report /\ \E l : Goto(g, l)
    BY <1>9 DEF Measure, MeasureGroup, MeasureLength, MeasureRange, MeasureDone, Gauge
  <2> QED BY <1>0, <1>1, <2>1 DEF Requests
<1>10. ASSUME NEW r \in Requests, Resend(r) PROVE Rests
  BY <1>10 DEF Resend, locals
<1>11. CASE LoseData
  BY <1>11 DEF LoseData, locals
<1>12. CASE UNCHANGED vars
  BY <1>12 DEF vars, locals
<1>13. ASSUME NEW r \in Requests, Throw(r) \/ Fail(r) PROVE Rests \/ Ends
  BY <1>5, <1>13 DEF Throw, Fail
<1>14. ASSUME NEW n \in Instances, Crash(n) PROVE Rests \/ Ends
  BY <1>5, <1>14 DEF Crash
<1>15. ASSUME NEW n \in Markers, n # m,
              \/ MarkAll(n) \/ MarkCursor(n) \/ MarkPending(n) \/ MarkPendingIds(n)
              \/ MarkAck(n) \/ MarkCount(n) \/ MarkCountFails(n) \/ MarkSetId(n)
              \/ MarkLatest(n) \/ MarkLength(n) \/ MarkDone(n)
       PROVE  Rests
  BY <1>2, <1>3, <1>15
<1> QED BY <1>4, <1>6, <1>7, <1>8, <1>9, <1>10, <1>11, <1>12, <1>13, <1>14, <1>15
        DEF Next, Serve

LEMMA MarkerStep ==
  ASSUME TypeOK, TypeOK', Spent, StreamMoves, PelBehindCursor, [Next]_vars,
         NEW m \in Markers, MarkerInv(m)
  PROVE  MarkerInv(m)'
<1>1. CASE pc'[m] = pc[m] /\ report'[m] = report[m]
  BY <1>1, MarkerKeeps
<1>2. CASE pc'[m] = "idle" /\ report'[m] = NoReport
  BY <1>2, MarkerReset
<1>3. CASE pc'[m] = "xinfo" /\ report'[m] = report[m]
  <2>1. MarkerBounds(m)'
    BY <1>3, BoundsKept DEF MarkerInv, MarkerBounds
  <2> QED BY <1>3, <2>1, MarkerEarly
<1> QED BY <1>1, <1>2, <1>3, MarkerMoves, MarkerBegins, MarkerReads, MarkerCountsPending,
           MarkerGetsIds, MarkerAcks, MarkerCountsQueued, MarkerCountFails,
           MarkerAdvances, MarkerReports

LEMMA MarkAllInit == Init => MarkAllInv
<1> SUFFICES ASSUME Init PROVE MarkAllInv
  OBVIOUS
<1>1. Spent /\ PelBehindCursor
  BY BoundsAreNumbers DEF Init, Spent, PelBehindCursor
<1>2. ASSUME NEW m \in Markers PROVE MarkerInv(m)
  <2>1. /\ report[m] = NoReport /\ pc[m] = "idle" /\ LastId = 0 /\ cursor = 0
        /\ NoReport \in Reports /\ NoReport.pelAtStart = {}
        /\ NoReport.last = 0 /\ NoReport.lastAtStart = 0
    BY EmptySeq DEF Init, Requests, LastId, NoReport, Reports
  <2> QED BY <2>1
          DEF MarkerInv, MarkerBounds, MarkerClears, MarkerEmpties, MarkerCounts
<1> QED BY <1>1, <1>2 DEF MarkAllInv

LEMMA MarkAllFollows == TypeOK /\ MarkAllInv => MarkAllHolds
<1> SUFFICES ASSUME TypeOK, NEW m \in Markers, MarkerInv(m)
             PROVE  /\ pc[m] \in {"xrange", "setid", "xrevrange", "xlen", "done"} =>
                         report[m].pelAtStart \cap pel = {}
                    /\ pc[m] \in {"xrevrange", "xlen", "done"} =>
                         \A i \in Queued : i > report[m].lastAtStart
                    /\ pc[m] = "done" /\ left.fault = MaxFaults =>
                         report[m].skipped >= Cardinality(report[m].passed)
  BY DEF MarkAllInv, MarkAllHolds, MarkAllClearsPending, MarkAllEmptiesQueue,
         SkippedCountsQueued
<1>1. report[m].lastAtStart \in Nat
  BY DEF MarkerInv, MarkerBounds, Reports
<1> QED BY <1>1, StreamNumbers
        DEF MarkerInv, MarkerClears, MarkerEmpties, MarkerCounts

\* Mark-all keeps its three promises in the order of its commands, for any
\* number of polls, posts, other mark-alls and failures between them: what was
\* pending is cleared although the ids are read with an older count, what was
\* queued can not be handed out after SETID, and the report counts at least
\* what SETID stepped over.
THEOREM MarkAllCorrect == Spec => []MarkAllHolds
<1>1. Init => MarkAllInv
  BY MarkAllInit
<1>2. TypeOK /\ TypeOK' /\ MarkAllInv /\ [Next]_vars => MarkAllInv'
  <2> SUFFICES ASSUME TypeOK, TypeOK', MarkAllInv, [Next]_vars PROVE MarkAllInv'
    OBVIOUS
  <2>1. StreamMoves
    BY MovesStep
  <2>2. Spent' /\ PelBehindCursor'
    BY <2>1, SpentStep, PelStep DEF MarkAllInv
  <2>3. ASSUME NEW m \in Markers PROVE MarkerInv(m)'
    BY <2>1, <2>3, MarkerStep DEF MarkAllInv
  <2> QED BY <2>2, <2>3 DEF MarkAllInv
<1>3. TypeOK /\ MarkAllInv => MarkAllHolds
  BY MarkAllFollows
<1> QED BY <1>1, <1>2, <1>3, TypeCorrect, PTL DEF Spec

-----------------------------------------------------------------------------
(* The queue depth *)

Readings ==
  [last : Nat, lag : Nat \cup {NoLag}, pending : Nat, length : Nat, unread : Nat,
   waiting : SUBSET Nat]

\* The commands that have been waiting since a gauge began: they only get fewer.
StillWaiting(g) == reading[g].waiting \cap Queued

GaugeBounds(g) ==
  /\ reading[g] \in Readings
  /\ reading[g].last <= cursor
  /\ \A i \in reading[g].waiting : i <= LastId

\* A lag, and later the answer, counts at least these.
GaugeCounts(g) ==
  /\ pc[g] = "xlen" /\ reading[g].lag # NoLag =>
       reading[g].lag >= Cardinality(StillWaiting(g))
  /\ pc[g] = "done" =>
       reading[g].unread >= IMin(DepthCap, Cardinality(StillWaiting(g)))

GaugeInv(g) == GaugeBounds(g) /\ GaugeCounts(g)

DepthInv == \A g \in Gauges : GaugeInv(g)

\* The count of a set of queued commands, which are finitely many.
LEMMA QueuedCounts ==
  ASSUME TypeOK, NEW S \in SUBSET Queued
  PROVE  /\ Cardinality(S) \in Nat /\ Cardinality(Queued) \in Nat
         /\ Cardinality(S) <= Cardinality(Queued)
         /\ Cardinality(Queued) <= LastId - cursor
<1>1. Queued \in SUBSET (cursor + 1 .. LastId) /\ Queued \in SUBSET (1 .. LastId)
  BY StreamNumbers
<1>2. /\ IsFiniteSet(cursor + 1 .. LastId)
      /\ Cardinality(cursor + 1 .. LastId) = LastId - cursor
  <2>1. cursor + 1 \in Int /\ LastId \in Int /\ cursor <= LastId
    BY StreamNumbers
  <2>2. /\ IsFiniteSet(cursor + 1 .. LastId)
        /\ Cardinality(cursor + 1 .. LastId) =
             IF cursor + 1 > LastId THEN 0 ELSE LastId - (cursor + 1) + 1
    BY <2>1, FS_Interval
  <2> QED BY <2>1, <2>2, StreamNumbers
<1>3. Cardinality(Queued) <= LastId - cursor
  <2>1. Cardinality(Queued) <= Cardinality(cursor + 1 .. LastId)
    BY <1>1, <1>2, FS_Subset
  <2> QED BY <1>2, <2>1
<1> QED BY <1>1, <1>3, CountMonotone, StreamNumbers

LEMMA GaugeEarly ==
  ASSUME TypeOK', NEW g \in Gauges, GaugeBounds(g)',
         pc'[g] \in {"idle", "ensure", "xinfo", "xrange"}
  PROVE  GaugeInv(g)'
  BY DEF GaugeInv, GaugeCounts

LEMMA GaugeReset ==
  ASSUME TypeOK', NEW g \in Gauges, reading'[g] = NoReading, pc'[g] = "idle"
  PROVE  GaugeInv(g)'
<1>1. NoReading \in Readings /\ NoReading.last = 0 /\ NoReading.waiting = {}
  BY DEF NoReading, NoLag, Readings
<1> QED BY <1>1, NumbersAfter, GaugeEarly DEF GaugeBounds

LEMMA GaugeBoundsKept ==
  ASSUME TypeOK, TypeOK', StreamMoves, NEW g \in Gauges, GaugeBounds(g),
         reading'[g] \in Readings,
         reading'[g].waiting = reading[g].waiting,
         reading'[g].last \in {reading[g].last, 0, cursor}
  PROVE  GaugeBounds(g)'
  BY StreamNumbers, NumbersAfter DEF GaugeBounds, Readings, StreamMoves

\* The others run while a gauge waits for its next command.
LEMMA GaugeKeeps ==
  ASSUME TypeOK, TypeOK', StreamMoves, NEW g \in Gauges, GaugeInv(g),
         reading'[g] = reading[g], pc'[g] = pc[g]
  PROVE  GaugeInv(g)'
<1>1. /\ reading[g] \in Readings /\ reading[g].unread \in Nat
      /\ reading[g].lag \in Nat \cup {NoLag} /\ reading[g].waiting \in SUBSET Nat
  BY DEF GaugeInv, GaugeBounds, Readings
<1>2. GaugeBounds(g)'
  BY <1>1, GaugeBoundsKept DEF GaugeInv
<1>3. StillWaiting(g)' \subseteq StillWaiting(g)
  <2> SUFFICES ASSUME NEW i \in reading[g].waiting, i \in Queued' PROVE i \in Queued
    BY DEF StillWaiting
  <2> QED BY DEF GaugeInv, GaugeBounds, StreamMoves
<1>4. /\ Cardinality(StillWaiting(g)') <= Cardinality(StillWaiting(g))
      /\ Cardinality(StillWaiting(g)') \in Nat /\ Cardinality(StillWaiting(g)) \in Nat
  <2>1. StillWaiting(g) \in SUBSET (1 .. LastId) /\ LastId \in Nat
    BY StreamNumbers DEF StillWaiting
  <2> QED BY <1>3, <2>1, CountMonotone
<1>5. GaugeCounts(g)'
  <2>1. DepthCap \in Nat
    BY BoundsAssumption
  <2> QED BY <1>1, <1>4, <2>1 DEF GaugeInv, GaugeCounts, IMin, NoLag
<1> QED BY <1>2, <1>5 DEF GaugeInv

LEMMA GaugeEffect ==
  ASSUME TypeOK, NEW g \in Gauges, NEW l, NEW r, Gauge(g, l, r)
  PROVE  /\ reading'[g] = r /\ pc'[g] = l /\ UNCHANGED redis
         /\ \A h \in Gauges : h # g => reading'[h] = reading[h] /\ pc'[h] = pc[h]
  BY DEF TypeOK, RequestType, Gauge, Goto, Requests

LEMMA GaugeBegins ==
  ASSUME TypeOK, TypeOK', NEW g \in Gauges, Measure(g)
  PROVE  GaugeInv(g)'
<1>1. /\ reading'[g] = [NoReading EXCEPT !.waiting = Queued]
      /\ pc'[g] = AfterStart(g) /\ UNCHANGED redis
  BY GaugeEffect DEF Measure
<1>2. pc'[g] \in {"ensure", "xinfo"}
  BY <1>1, SlotsAssumption DEF AfterStart, Command
<1>3. /\ reading'[g] \in Readings /\ reading'[g].last = 0 /\ reading'[g].waiting = Queued
  <2>1. Queued \in SUBSET Nat
    BY StreamNumbers
  <2>2. NoReading \in Readings /\ NoReading.last = 0
    BY DEF NoReading, NoLag, Readings
  <2> QED BY <1>1, <2>1, <2>2 DEF Readings
<1>4. GaugeBounds(g)'
  BY <1>1, <1>3, StreamNumbers DEF GaugeBounds, redis, LastId
<1> QED BY <1>2, <1>4, GaugeEarly

\* Both values that Redis may report as the lag count every queued command.
LEMMA GaugeLag ==
  ASSUME TypeOK, TypeOK', StreamMoves, NEW g \in Gauges, GaugeInv(g), MeasureGroup(g)
  PROVE  GaugeInv(g)'
<1> DEFINE last == IF group THEN cursor ELSE 0
           pending == IF group THEN Cardinality(pel) ELSE 0
<1>1. PICK lag \in IF group THEN {NoLag, Cardinality(Queued), LastId - cursor} ELSE {NoLag} :
        /\ reading'[g] = [reading[g] EXCEPT !.last = last, !.pending = pending, !.lag = lag]
        /\ pc'[g] = "xlen" /\ UNCHANGED redis
  BY GaugeEffect DEF MeasureGroup
<1>2. /\ StillWaiting(g) \in SUBSET Queued
      /\ Cardinality(StillWaiting(g)) \in Nat /\ Cardinality(Queued) \in Nat
      /\ Cardinality(StillWaiting(g)) <= Cardinality(Queued)
      /\ Cardinality(Queued) <= LastId - cursor
  BY QueuedCounts DEF StillWaiting
<1>3. /\ lag \in Nat \cup {NoLag}
      /\ lag # NoLag => lag >= Cardinality(StillWaiting(g))
  BY <1>1, <1>2, StreamNumbers
<1>4. last \in Nat /\ pending \in Nat
  BY CountMonotone, StreamNumbers
<1>5. reading[g] \in Readings
  BY DEF GaugeInv, GaugeBounds
<1>6. /\ reading'[g] \in Readings /\ reading'[g].waiting = reading[g].waiting
      /\ reading'[g].last \in {0, cursor} /\ reading'[g].lag = lag
  BY <1>1, <1>3, <1>4, <1>5 DEF Readings
<1>7. GaugeBounds(g)'
  BY <1>6, GaugeBoundsKept DEF GaugeInv
<1>8. StillWaiting(g)' = StillWaiting(g)
  BY <1>1, <1>6 DEF StillWaiting, Queued, Stream, LastId, redis
<1> QED BY <1>1, <1>3, <1>6, <1>7, <1>8 DEF GaugeInv, GaugeCounts

LEMMA GaugeLength ==
  ASSUME TypeOK, TypeOK', StreamMoves, NEW g \in Gauges, GaugeInv(g), MeasureLength(g)
  PROVE  GaugeInv(g)'
<1> DEFINE n == Cardinality(Stream)
<1>1. /\ IF reading[g].lag = NoLag
         THEN reading'[g] = [reading[g] EXCEPT !.length = n] /\ pc'[g] = "xrange"
         ELSE /\ reading'[g] = [reading[g] EXCEPT !.length = n, !.unread = reading[g].lag]
              /\ pc'[g] = "done"
      /\ pc[g] = "xlen" /\ UNCHANGED redis
  <2>1. reading[g] \in Readings
    BY DEF GaugeInv, GaugeBounds
  <2>2. [reading[g] EXCEPT !.length = n].lag = reading[g].lag
    BY <2>1 DEF Readings
  <2> QED BY <2>2, GaugeEffect DEF MeasureLength
<1>2. n \in Nat
  <2>1. Stream \in SUBSET (1 .. LastId) /\ LastId \in Nat
    BY StreamNumbers DEF Stream
  <2> QED BY <2>1, CountMonotone
<1>3. reading[g] \in Readings
  BY DEF GaugeInv, GaugeBounds
<1>4. /\ reading'[g] \in Readings /\ reading'[g].waiting = reading[g].waiting
      /\ reading'[g].last = reading[g].last
      /\ reading[g].lag # NoLag => reading'[g].unread = reading[g].lag
  BY <1>1, <1>2, <1>3 DEF Readings
<1>5. GaugeBounds(g)'
  BY <1>4, GaugeBoundsKept DEF GaugeInv
<1>6. StillWaiting(g)' = StillWaiting(g)
  BY <1>1, <1>4 DEF StillWaiting, Queued, Stream, LastId, redis
<1>7. Cardinality(StillWaiting(g)) \in Nat /\ DepthCap \in Nat
      /\ reading[g].lag \in Nat \cup {NoLag}
  BY <1>3, QueuedCounts, BoundsAssumption DEF StillWaiting, Readings
<1> QED BY <1>1, <1>4, <1>5, <1>6, <1>7 DEF GaugeInv, GaugeCounts, IMin

LEMMA GaugeRange ==
  ASSUME TypeOK, TypeOK', StreamMoves, NEW g \in Gauges, GaugeInv(g), MeasureRange(g)
  PROVE  GaugeInv(g)'
<1> DEFINE n == AfterCursor(reading[g].last)
<1>1. /\ reading'[g] = [reading[g] EXCEPT !.unread = IMin(n, DepthCap)]
      /\ pc'[g] = "done" /\ UNCHANGED redis
  BY GaugeEffect DEF MeasureRange
<1>2. reading[g] \in Readings /\ reading[g].last <= cursor /\ reading[g].last \in Nat
  BY DEF GaugeInv, GaugeBounds, Readings
<1>3. /\ n \in Nat /\ Cardinality(StillWaiting(g)) \in Nat
      /\ Cardinality(StillWaiting(g)) <= n
  <2> DEFINE After == {i \in Stream : i > reading[g].last}
  <2>1. After \in SUBSET (1 .. LastId) /\ LastId \in Nat
    BY StreamNumbers DEF Stream
  <2>2. StillWaiting(g) \subseteq After
    BY <1>2, StreamNumbers DEF StillWaiting, Queued
  <2> QED BY <2>1, <2>2, CountMonotone DEF AfterCursor
<1>4. DepthCap \in Nat
  BY BoundsAssumption
<1>5. /\ reading'[g] \in Readings /\ reading'[g].waiting = reading[g].waiting
      /\ reading'[g].last = reading[g].last /\ reading'[g].unread = IMin(n, DepthCap)
  BY <1>1, <1>2, <1>3, <1>4 DEF Readings, IMin
<1>6. GaugeBounds(g)'
  BY <1>5, GaugeBoundsKept DEF GaugeInv
<1>7. StillWaiting(g)' = StillWaiting(g)
  BY <1>1, <1>5 DEF StillWaiting, Queued, Stream, LastId, redis
<1> QED BY <1>1, <1>3, <1>4, <1>5, <1>6, <1>7 DEF GaugeInv, GaugeCounts, IMin

\* What a step means to a gauge: one of its own commands, the group ensured,
\* its end, or nothing.
LEMMA GaugeMoves ==
  ASSUME TypeOK, [Next]_vars, NEW g \in Gauges
  PROVE  \/ pc'[g] = pc[g] /\ reading'[g] = reading[g]
         \/ pc'[g] = "idle" /\ reading'[g] = NoReading
         \/ pc'[g] = "xinfo" /\ reading'[g] = reading[g]
         \/ Measure(g) \/ MeasureGroup(g) \/ MeasureLength(g) \/ MeasureRange(g)
<1> DEFINE Rests == pc'[g] = pc[g] /\ reading'[g] = reading[g]
           Ends == pc'[g] = "idle" /\ reading'[g] = NoReading
<1>0. /\ pc \in [Requests -> Labels] /\ g \in Requests /\ DOMAIN reading = Gauges
      /\ g \notin Senders /\ g \notin Pollers /\ g \notin Markers
  BY SlotsAssumption DEF TypeOK, RequestType, Requests
<1>1. ASSUME NEW r \in Requests \ {g}, NEW l, Goto(r, l), reading' = reading PROVE Rests
  BY <1>0, <1>1 DEF Goto
<1>2. ASSUME NEW h \in Gauges, h # g,
             \/ Measure(h) \/ MeasureGroup(h) \/ MeasureLength(h) \/ MeasureRange(h)
             \/ MeasureDone(h)
      PROVE  Rests
  <2>1. \E l, r : Gauge(h, l, r)
    BY <1>2 DEF Measure, MeasureGroup, MeasureLength, MeasureRange, MeasureDone
  <2> QED BY <1>2, <2>1, GaugeEffect
<1>3. ASSUME MeasureDone(g) PROVE Ends
  BY <1>3, GaugeEffect DEF MeasureDone
<1>4. ASSUME NEW R, Abandon(R) PROVE Rests \/ Ends
  BY <1>0, <1>4 DEF Abandon
<1>5. ASSUME NEW r \in Requests, EnsureGroup(r)
      PROVE  Rests \/ (pc'[g] = "xinfo" /\ reading'[g] = reading[g])
  BY <1>0, <1>5 DEF EnsureGroup, Goto, Command, locals
<1>6. ASSUME NEW s \in Senders, Post(s) \/ AddCommand(s) PROVE Rests
  BY <1>0, <1>1, <1>6 DEF Post, AddCommand, Requests
<1>7. ASSUME NEW p \in Pollers,
             Poll(p) \/ ReadNothing(p) \/ ReadCommand(p) \/ AckRead(p) \/ Respond(p)
      PROVE  Rests
  BY <1>0, <1>1, <1>7 DEF Poll, ReadNothing, ReadCommand, AckRead, Respond, locals, Requests
<1>8. ASSUME NEW m \in Markers,
             \/ MarkAll(m) \/ MarkCursor(m) \/ MarkPending(m) \/ MarkPendingIds(m)
             \/ MarkAck(m) \/ MarkCount(m) \/ MarkCountFails(m) \/ MarkSetId(m)
             \/ MarkLatest(m) \/ MarkLength(m) \/ MarkDone(m)
      PROVE  Rests
  <2>1. reading' = reading /\ \E l : Goto(m, l)
    BY <1>8 DEF MarkAll, MarkCursor, MarkPending, MarkPendingIds, MarkAck, MarkCount,
                MarkCountFails, MarkSetId, MarkLatest, MarkLength, MarkDone, Note
  <2> QED BY <1>0, <1>1, <2>1 DEF Requests
<1>9. ASSUME NEW r \in Requests, Resend(r) PROVE Rests
  BY <1>9 DEF Resend, locals
<1>10. CASE LoseData
  BY <1>10 DEF LoseData, locals
<1>11. CASE UNCHANGED vars
  BY <1>11 DEF vars, locals
<1>12. ASSUME NEW r \in Requests, Throw(r) \/ Fail(r) PROVE Rests \/ Ends
  BY <1>4, <1>12 DEF Throw, Fail
<1>13. ASSUME NEW n \in Instances, Crash(n) PROVE Rests \/ Ends
  BY <1>4, <1>13 DEF Crash
<1> QED BY <1>2, <1>3, <1>5, <1>6, <1>7, <1>8, <1>9, <1>10, <1>11, <1>12, <1>13
        DEF Next, Serve

LEMMA GaugeStep ==
  ASSUME TypeOK, TypeOK', StreamMoves, [Next]_vars, NEW g \in Gauges, GaugeInv(g)
  PROVE  GaugeInv(g)'
<1>1. CASE pc'[g] = pc[g] /\ reading'[g] = reading[g]
  BY <1>1, GaugeKeeps
<1>2. CASE pc'[g] = "idle" /\ reading'[g] = NoReading
  BY <1>2, GaugeReset
<1>3. CASE pc'[g] = "xinfo" /\ reading'[g] = reading[g]
  <2>1. GaugeBounds(g)'
    BY <1>3, GaugeBoundsKept DEF GaugeInv, GaugeBounds
  <2> QED BY <1>3, <2>1, GaugeEarly
<1> QED BY <1>1, <1>2, <1>3, GaugeMoves, GaugeBegins, GaugeLag, GaugeLength, GaugeRange

LEMMA DepthInit == Init => DepthInv
<1> SUFFICES ASSUME Init, NEW g \in Gauges PROVE GaugeInv(g)
  BY DEF DepthInv
<1>1. /\ reading[g] = NoReading /\ pc[g] = "idle" /\ cursor = 0
      /\ NoReading \in Readings /\ NoReading.waiting = {} /\ NoReading.last = 0
  BY DEF Init, Requests, NoReading, NoLag, Readings
<1> QED BY <1>1 DEF GaugeInv, GaugeBounds, GaugeCounts

\* The unread badge never hides work: whichever way Redis lets it count, and
\* whatever is posted, polled, skipped or trimmed between its commands, the
\* answer counts every command that waited all along, up to the cap.
THEOREM DepthCorrect == Spec => []DepthCountsWaiting
<1>1. Init => DepthInv
  BY DepthInit
<1>2. TypeOK /\ TypeOK' /\ DepthInv /\ [Next]_vars => DepthInv'
  <2> SUFFICES ASSUME TypeOK, TypeOK', DepthInv, [Next]_vars PROVE DepthInv'
    OBVIOUS
  <2>1. ASSUME NEW g \in Gauges PROVE GaugeInv(g)'
    BY <2>1, MovesStep, GaugeStep DEF DepthInv
  <2> QED BY <2>1 DEF DepthInv
<1>3. DepthInv => DepthCountsWaiting
  BY DEF DepthInv, GaugeInv, GaugeCounts, DepthCountsWaiting, StillWaiting
<1> QED BY <1>1, <1>2, <1>3, TypeCorrect, PTL DEF Spec

-----------------------------------------------------------------------------
(* The broker implements the channel *)

FateNames == {"waiting", "taken", "delivered", "gone"}

LEMMA LossesIntro ==
  ASSUME NEW D, NEW f \in [D -> FateNames], NEW g \in [D -> FateNames],
         \A i \in D : \/ g[i] = f[i]
                      \/ f[i] \in {"waiting", "taken"} /\ g[i] = "gone"
  PROVE  g \in Channel!Losses(f)
<1> DEFINE S == {i \in D : g[i] # f[i]}
<1>1. S \in SUBSET {i \in DOMAIN f : f[i] \in {"waiting", "taken"}}
  OBVIOUS
<1>2. g = [i \in DOMAIN f |-> IF i \in S THEN "gone" ELSE f[i]]
  OBVIOUS
<1> QED BY <1>1, <1>2 DEF Channel!Losses

LEMMA FatesType ==
  /\ Fates \in [Ids -> FateNames]
  /\ \A i \in Ids : Fates[i] = Fate(i)
  BY DEF Fates, Fate, FateNames

LEMMA FatesTypeNext ==
  /\ Fates' \in [Ids' -> FateNames]
  /\ \A i \in Ids' : Fates'[i] = Fate(i)'
  BY DEF Fates, Fate, FateNames

\* A step that adds nothing, answers nothing and hands nothing to a poll: a
\* command that waits or is taken may be gone afterwards.
LEMMA FatesQuiet ==
  ASSUME TypeOK, TypeOK', EntriesOnce, StreamMoves,
         LastId' = LastId, received' = received,
         \A p \in Pollers : held'[p] \in {0, held[p]}
  PROVE  Channel!Lose
<1>1. Ids' = Ids
  BY DEF Ids
<1>2. ASSUME NEW i \in Ids
      PROVE  \/ Fate(i)' = Fate(i)
             \/ Fate(i) \in {"waiting", "taken"} /\ Fate(i)' = "gone"
  <2>1. i \in Nat /\ i # 0 /\ i <= LastId
    BY StreamNumbers DEF Ids
  <2>2. CASE \E n \in DOMAIN received : received[n] = i
    BY <2>2 DEF Fate
  <2>3. CASE (\A n \in DOMAIN received : received[n] # i) /\ \E p \in Pollers : held[p] = i
    <3>1. i <= cursor
      BY <2>3 , <2>1 DEF EntriesOnce
    <3>2. i \notin Queued'
      BY <2>1, <3>1, StreamNumbers, NumbersAfter DEF Queued, StreamMoves
    <3> QED BY <2>3, <3>2 DEF Fate
  <2>4. CASE (\A n \in DOMAIN received : received[n] # i) /\ \A p \in Pollers : held[p] # i
    <3>1. i \in Queued' => i \in Queued
      BY <2>1 DEF StreamMoves
    <3>2. \A p \in Pollers : held'[p] # i
      BY <2>1, <2>4
    <3> QED BY <2>4, <3>1, <3>2 DEF Fate
  <2> QED BY <2>2, <2>3, <2>4
<1>3. Fates' \in Channel!Losses(Fates)
  BY <1>1, <1>2, FatesType, FatesTypeNext, LossesIntro
<1> QED BY <1>3 DEF Channel!Lose

LEMMA LossesNone ==
  ASSUME NEW D, NEW f \in [D -> FateNames]
  PROVE  f \in Channel!Losses(f)
  BY LossesIntro

LEMMA FatesTake ==
  ASSUME TypeOK, TypeOK', EntriesOnce, NEW p \in Pollers, ReadCommand(p)
  PROVE  Channel!Take
<1>1. PICK i \in Queued : XReadGroup(i) /\ held' = [held EXCEPT ![p] = i]
  BY DEF ReadCommand
<1>2. /\ \A j \in Queued : i <= j
      /\ cursor' = i /\ trimmed' = trimmed /\ group' = group /\ log' = log
      /\ received' = received
      /\ held'[p] = i /\ held[p] = 0 /\ \A q \in Pollers : q # p => held'[q] = held[q]
  BY <1>1 DEF XReadGroup, ReadCommand, TypeOK, RequestType
<1>3. Ids' = Ids /\ i \in Ids /\ i \in Nat /\ i # 0
  BY <1>2, StreamNumbers DEF Ids, LastId
\* The entry is new to everybody.
<1>4. /\ \A n \in DOMAIN received : received[n] # i
      /\ \A q \in Pollers : held[q] # i
  <2>1. i \notin handed
    BY StreamNumbers DEF EntriesOnce
  <2> QED BY <1>3, <2>1 DEF EntriesOnce
<1>5. Fate(i) = "waiting" /\ Fate(i)' = "taken"
  BY <1>2, <1>4 DEF Fate
\* What was read before is not queued, and what is queued comes later.
<1>6. ASSUME NEW j \in Ids, j # i PROVE Fate(j)' = Fate(j)
  <2>1. j \in Queued' <=> j \in Queued
    BY <1>2, <1>6, StreamNumbers DEF Ids, Queued, Stream, LastId
  <2>2. (\E q \in Pollers : held'[q] = j) <=> (\E q \in Pollers : held[q] = j)
    BY <1>2, <1>6, StreamNumbers DEF Ids
  <2> QED BY <1>2, <2>1, <2>2 DEF Fate
<1>7. ASSUME NEW j \in 1 .. i - 1 PROVE Fates[j] # "waiting"
  <2>1. j \in Ids /\ j \notin Queued /\ j # i
    BY <1>2, <1>3, StreamNumbers DEF Ids
  <2> QED BY <2>1, FatesType DEF Fate
<1>8. Fates' = [Fates EXCEPT ![i] = "taken"]
  BY <1>3, <1>5, <1>6, FatesType, FatesTypeNext
<1>9. DOMAIN Fates = Ids /\ Fates \in Channel!Losses(Fates)
  BY FatesType, LossesNone
<1> QED BY <1>3, <1>5, <1>7, <1>8, <1>9, FatesType DEF Channel!Take

LEMMA FatesDeliver ==
  ASSUME TypeOK, TypeOK', EntriesOnce, NEW p \in Pollers, Respond(p)
  PROVE  Channel!Deliver
<1>0. PICK i \in Ids : i = held[p]
  BY DEF Respond, Ids, LastId, TypeOK, RequestType, StreamType
<1>1. /\ Ids' = Ids /\ Queued' = Queued
      /\ i # 0 /\ received' = Append(received, i)
      /\ held'[p] = 0 /\ \A q \in Pollers : q # p => held'[q] = held[q]
  BY <1>0 DEF Respond, redis, Ids, Queued, Stream, LastId, TypeOK, RequestType, StreamType
<1>2. /\ DOMAIN received' = 1 .. Len(received) + 1
      /\ DOMAIN received = 1 .. Len(received) /\ Len(received) \in Nat
      /\ \A n \in 1 .. Len(received) : received'[n] = received[n]
      /\ received'[Len(received) + 1] = i
  BY <1>1, AppendElements DEF TypeOK, HistoryType
<1>3. ASSUME NEW j
      PROVE  (\E n \in DOMAIN received' : received'[n] = j)
             <=> (j = i \/ \E n \in DOMAIN received : received[n] = j)
  BY <1>2
<1>4. Fate(i) = "taken" /\ Fate(i)' = "delivered"
  BY <1>0, <1>1, <1>3 DEF EntriesOnce, Fate
<1>5. ASSUME NEW j \in Ids, j # i PROVE Fate(j)' = Fate(j)
  <2>1. (\E q \in Pollers : held'[q] = j) <=> (\E q \in Pollers : held[q] = j)
    BY <1>0, <1>1, <1>5, StreamNumbers DEF Ids
  <2> QED BY <1>1, <1>3, <1>5, <2>1 DEF Fate
<1>6. Fates' = [Fates EXCEPT ![i] = "delivered"]
  BY <1>1, <1>4, <1>5, FatesType, FatesTypeNext
<1> QED BY <1>1, <1>4, <1>6, FatesType DEF Channel!Deliver

\* A function on 1 .. n + 1 is its restriction to 1 .. n and one element more.
LEMMA AppendLast ==
  ASSUME NEW n \in Nat, NEW S, NEW f \in [1 .. n + 1 -> S]
  PROVE  f = Append([i \in 1 .. n |-> f[i]], f[n + 1])
<1> DEFINE h == [i \in 1 .. n |-> f[i]]
<1>1. h \in Seq(S) /\ Len(h) = n /\ f[n + 1] \in S
  OBVIOUS
<1>2. /\ DOMAIN Append(h, f[n + 1]) = 1 .. n + 1
      /\ \A i \in 1 .. n : Append(h, f[n + 1])[i] = h[i]
      /\ Append(h, f[n + 1])[n + 1] = f[n + 1]
      /\ Append(h, f[n + 1]) \in Seq(S)
  BY <1>1, AppendElements
<1>3. \A i \in 1 .. n + 1 : Append(h, f[n + 1])[i] = f[i]
  BY <1>2
<1> QED BY <1>2, <1>3

\* XADD, by a sender or by the client library that repeats it.
LEMMA FatesAdd ==
  ASSUME TypeOK, TypeOK', EntriesOnce, StreamMoves, NEW c, XAdd(c),
         LastId' = LastId + 1, received' = received, held' = held
  PROVE  Channel!Add
<1>0. PICK n \in Nat : n = LastId
  BY StreamNumbers
<1>1. Ids = 1 .. n /\ Ids' = 1 .. n + 1 /\ cursor' = cursor
  BY <1>0 DEF Ids, XAdd
<1>2. ASSUME NEW i \in Ids
      PROVE  \/ Fate(i)' = Fate(i)
             \/ Fate(i) = "waiting" /\ Fate(i)' = "gone"
  <2>1. i \in Queued' => i \in Queued
    BY <1>0, <1>1 DEF StreamMoves
  <2> QED BY <2>1 DEF Fate
<1>3. Fate(n + 1)' \in {"waiting", "gone"}
  <2>1. \A m \in DOMAIN received : received[m] # n + 1
    BY SMTT(30), <1>1 DEF TypeOK, HistoryType
  <2>2. \A p \in Pollers : held[p] # n + 1
    BY <1>0 DEF TypeOK, RequestType
  <2> QED BY <2>1, <2>2 DEF Fate
<1> DEFINE f == [i \in 1 .. n |-> Fates'[i]]
<1>4. Fates' = Append(f, Fates'[n + 1])
  BY <1>1, FatesTypeNext, AppendLast
<1>5. f \in Channel!Losses(Fates)
  <2>1. /\ f \in [Ids -> FateNames] /\ Fates \in [Ids -> FateNames]
        /\ \A i \in Ids : f[i] = Fate(i)' /\ Fates[i] = Fate(i)
    BY <1>1, FatesType, FatesTypeNext
  <2>2. \A i \in Ids : \/ f[i] = Fates[i]
                       \/ Fates[i] \in {"waiting", "taken"} /\ f[i] = "gone"
    BY <1>2, <2>1
  <2> HIDE DEF f
  <2> QED BY <2>1, <2>2, LossesIntro
<1>6. Fates'[n + 1] \in {"waiting", "gone"}
  BY <1>1, <1>3, FatesTypeNext
<1> QED BY <1>4, <1>5, <1>6 DEF Channel!Add

\* Every other step leaves the log and the responses alone, and gives no poll
\* an entry.
LEMMA FatesStep ==
  TypeOK /\ TypeOK' /\ EntriesOnce /\ [Next]_vars => [Channel!Next]_Fates
<1> SUFFICES ASSUME TypeOK, TypeOK', EntriesOnce, [Next]_vars PROVE Channel!Next
  OBVIOUS
<1>0. StreamMoves
  BY MovesStep
<1>1. ASSUME UNCHANGED <<log, received, held>> PROVE Channel!Lose
  BY <1>0, <1>1, FatesQuiet DEF LastId
<1>2. ASSUME NEW r \in Requests, Post(r) \/ Poll(r) PROVE Channel!Lose
  BY <1>1, <1>2 DEF Post, Poll, redis, locals, history
<1>3. ASSUME NEW m \in Markers,
             \/ MarkAll(m) \/ MarkCursor(m) \/ MarkPending(m) \/ MarkPendingIds(m)
             \/ MarkAck(m) \/ MarkCount(m) \/ MarkCountFails(m) \/ MarkSetId(m)
             \/ MarkLatest(m) \/ MarkLength(m) \/ MarkDone(m)
      PROVE  Channel!Lose
  BY <1>1, <1>3 DEF MarkAll, MarkCursor, MarkPending, MarkPendingIds, MarkAck, MarkCount,
                    MarkCountFails, MarkSetId, MarkLatest, MarkLength, MarkDone, Note,
                    XGroupSetId, redis
<1>4. ASSUME NEW g \in Gauges,
             \/ Measure(g) \/ MeasureGroup(g) \/ MeasureLength(g) \/ MeasureRange(g)
             \/ MeasureDone(g)
      PROVE  Channel!Lose
  BY <1>1, <1>4 DEF Measure, MeasureGroup, MeasureLength, MeasureRange, MeasureDone,
                    Gauge, redis, history
<1>5. ASSUME NEW r \in Requests, EnsureGroup(r) PROVE Channel!Lose
  BY <1>1, <1>5 DEF EnsureGroup, locals, history
<1>6. ASSUME NEW R, Abandon(R), UNCHANGED <<log, received>> PROVE Channel!Lose
  BY <1>0, <1>6, FatesQuiet DEF Abandon, LastId
<1>7. ASSUME NEW s \in Senders, AddCommand(s) PROVE Channel!Add
  <2>1. cmd[s] \in 1 .. posted
    BY <1>7 DEF AddCommand, TypeOK, RequestType, StreamType
  <2> QED BY <1>0, <1>7, <2>1, MovesXAdd, FatesAdd DEF AddCommand
<1>8. ASSUME NEW p \in Pollers, ReadNothing(p) \/ AckRead(p) PROVE Channel!Lose
  BY <1>1, <1>8 DEF ReadNothing, AckRead, redis, locals, history
<1>9. ASSUME NEW r \in Requests, Throw(r) \/ Fail(r) PROVE Channel!Lose
  BY <1>6, <1>9 DEF Throw, Fail, redis, history
<1>10. ASSUME NEW n \in Instances, Crash(n) PROVE Channel!Lose
  BY <1>6, <1>10 DEF Crash, redis, history
<1>11. ASSUME NEW r \in Requests, Resend(r) PROVE Channel!Lose \/ Channel!Add
  <2>1. CASE pc[r] = "xadd" /\ XAdd(cmd[r])
    <3>1. r \in Senders
      BY <2>1 DEF TypeOK, RequestType, Pcs
    <3>2. cmd[r] \in 1 .. posted
      BY <2>1, <3>1 DEF TypeOK, RequestType, StreamType
    <3> QED BY <1>0, <1>11, <2>1, <3>2, MovesXAdd, FatesAdd DEF Resend, locals
  <2>2. CASE \E i \in Queued : XReadGroup(i)
    BY <1>1, <1>11, <2>2 DEF Resend, XReadGroup, locals
  <2>3. CASE XGroupSetId
    BY <1>1, <1>11, <2>3 DEF Resend, XGroupSetId, locals
  <2> QED BY <1>11, <2>1, <2>2, <2>3 DEF Resend
<1>12. CASE LoseData
  BY <1>1, <1>12 DEF LoseData, locals, history, Channel!Next
<1>13. CASE UNCHANGED vars
  BY <1>1, <1>13 DEF vars, redis, locals, history, Channel!Next
<1>14. ASSUME NEW r \in Requests, Serve(r) PROVE Channel!Next
  BY <1>3, <1>4, <1>5, <1>7, <1>8, <1>9, <1>14, FatesTake, FatesDeliver
  DEF Serve, Channel!Next
<1> QED BY <1>2, <1>3, <1>4, <1>9, <1>10, <1>11, <1>12, <1>13, <1>14
        DEF Next, Requests, Channel!Next

LEMMA FatesInit == Init => Channel!Init
<1> SUFFICES ASSUME Init PROVE Fates = <<>>
  BY DEF Channel!Init
<1>1. Ids = 1 .. 0
  BY EmptySeq DEF Init, Ids, LastId
<1>2. Fates \in Seq(FateNames) /\ Len(Fates) = 0
  BY <1>1, FatesType
<1> QED BY <1>2

\* The Redis broker is an at-most-once first-in first-out channel, for any
\* number of requests and processes and whatever fails, is repeated or is
\* lost: every Redis command of every handler is a step of CommandChannel.
THEOREM ChannelImplemented == Spec => ImplementsChannel
<1>1. Init => Channel!Init
  BY FatesInit
<1>2. TypeOK /\ TypeOK' /\ EntriesOnce /\ [Next]_vars => [Channel!Next]_Fates
  BY FatesStep
<1> QED BY <1>1, <1>2, TypeCorrect, EntriesCorrect, PTL DEF Spec, ImplementsChannel, Channel!Spec

=============================================================================
