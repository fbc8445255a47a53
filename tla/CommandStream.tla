--------------------------- MODULE CommandStream ---------------------------
(***************************************************************************)
(* The command channel of one controller on the Redis broker: the stream   *)
(* stream:mobile2fw:{controllerId}, its consumer group "fw", and the       *)
(* requests that work on them (src/src/redisStreamQueue.ts with the routes *)
(* in src/src/routes).                                                     *)
(*                                                                         *)
(* A request awaits every Redis command it issues, so one action is one    *)
(* Redis command, executed atomically by the server, together with the     *)
(* code that runs up to the next await.  Between two actions of a request  *)
(* the others run, a request may fail (Fail), an App Runner instance may   *)
(* be replaced (Crash), the client library may execute a command twice     *)
(* after a reconnect (Resend), and Redis may lose its data (LoseData).     *)
(*                                                                         *)
(* Stream ids are the positions 1..LastId of `log', the commands in the    *)
(* order in which they were ever added: what XADD, XREADGROUP, XRANGE and  *)
(* SETID see of an ms-seq id is its order alone.                           *)
(*                                                                         *)
(* A definition marked "Slip" is a faulty variant of the one below it; no  *)
(* action uses it.  It records which mistake the properties would detect.  *)
(***************************************************************************)
EXTENDS Integers, Sequences, FiniteSets

CONSTANTS
  Senders,     \* slots of POST /mobile/message requests
  Pollers,     \* slots of GET /controller/messages requests
  Markers,     \* slots of the dashboard's mark-all-received requests
  Gauges,      \* slots of the dashboard's queue-depth requests
  Instances,   \* server processes
  Home,        \* the process that serves each slot
  MaxLen,      \* STREAM_LIVE_MAXLEN
  DepthCap,    \* cap of the queue-depth fallback (10000 in the code)
  MaxPosts,    \* bound: commands posted
  MaxFaults,   \* bound: failed requests and crashes
  MaxResends,  \* bound: commands executed twice
  MaxLosses    \* bound: losses of Redis' data

Requests == Senders \cup Pollers \cup Markers \cup Gauges

ASSUME SlotsAssumption ==
  /\ Senders \cap (Pollers \cup Markers \cup Gauges) = {}
  /\ Pollers \cap (Markers \cup Gauges) = {}
  /\ Markers \cap Gauges = {}
  /\ Home \in [Requests -> Instances]

ASSUME BoundsAssumption ==
  /\ MaxLen \in Nat \ {0}
  /\ DepthCap \in Nat \ {0}
  /\ {MaxPosts, MaxFaults, MaxResends, MaxLosses} \subseteq Nat

VARIABLES
  \* Redis
  log,       \* every command ever added, in id order
  trimmed,   \* entries 1..trimmed have been removed by MAXLEN or lost
  group,     \* the consumer group exists
  cursor,    \* its last-delivered-id
  pel,       \* its pending entries list
  \* the server processes
  ensured,   \* instances whose groupsEnsured holds this stream
  pc,        \* the Redis command each request is about to issue
  cmd,       \* command carried by a sender
  held,      \* entry read by a poller (0: none)
  report,    \* what a marker has gathered
  reading,   \* what a gauge has gathered
  \* history
  posted,    \* commands posted so far
  handed,    \* entries XREADGROUP returned
  received,  \* entries the firmware got in a response, in that order
  skipped,   \* entries SETID stepped over
  left       \* how many faults, resends and losses may still happen

redis   == <<log, trimmed, group, cursor, pel>>
locals  == <<cmd, held, report, reading>>
history == <<posted, handed, received, skipped>>
vars    == <<redis, ensured, pc, locals, history, left>>

LastId == Len(log)
Stream == (trimmed + 1) .. LastId

\* The entries XREADGROUP `>' can still return.
Queued == IF group THEN {i \in Stream : i > cursor} ELSE {}

\* Redis keeps a key for a stream that has entries or a group.
KeyExists == group \/ Stream # {}

NoLag == -1   \* XINFO GROUPS reports no usable `lag'

NoReport == [last |-> 0, count |-> 0, ids |-> {}, pelAcked |-> 0,
             skipped |-> 0, advancedTo |-> 0, length |-> 0,
             \* history: the queue when the request began, and what SETID did
             lastAtStart |-> 0, pelAtStart |-> {}, passed |-> {}]

NoReading == [last |-> 0, lag |-> NoLag, pending |-> 0, length |-> 0,
              unread |-> 0,
              \* history: the entries queued when the request began
              waiting |-> {}]

Init ==
  /\ log = <<>> /\ trimmed = 0 /\ group = FALSE /\ cursor = 0 /\ pel = {}
  /\ ensured = {}
  /\ pc = [r \in Requests |-> "idle"]
  /\ cmd = [s \in Senders |-> 0]
  /\ held = [p \in Pollers |-> 0]
  /\ report = [m \in Markers |-> NoReport]
  /\ reading = [g \in Gauges |-> NoReading]
  /\ posted = 0 /\ handed = {} /\ received = <<>> /\ skipped = {}
  /\ left = [fault |-> MaxFaults, resend |-> MaxResends, loss |-> MaxLosses]

-----------------------------------------------------------------------------
(* Redis commands with an effect (external: the Redis server) *)

IMax(a, b) == IF a >= b THEN a ELSE b
IMin(a, b) == IF a <= b THEN a ELSE b

\* The approximate trim removes no entry among the newest MaxLen.
XAdd(c) ==
  /\ log' = Append(log, c)
  /\ trimmed' \in trimmed .. IMax(trimmed, LastId + 1 - MaxLen)
  /\ UNCHANGED <<group, cursor, pel, handed, skipped>>

\* Slip: the group's cursor lands one entry too far.
XReadGroupTooFar(i) ==
  /\ i \in Queued /\ \A j \in Queued : i <= j
  /\ cursor' = i + 1
  /\ pel' = pel \cup {i}
  /\ handed' = handed \cup {i}
  /\ UNCHANGED <<log, trimmed, group, skipped>>

\* Slip: a plain XRANGE read, which leaves the group where it is.
XRangeInstead(i) ==
  /\ i \in Queued /\ \A j \in Queued : i <= j
  /\ pel' = pel \cup {i}
  /\ handed' = handed \cup {i}
  /\ UNCHANGED <<log, trimmed, group, cursor, skipped>>

\* COUNT 1 STREAMS s > : the first entry after the cursor
XReadGroup(i) ==
  /\ i \in Queued /\ \A j \in Queued : i <= j
  /\ cursor' = i
  /\ pel' = pel \cup {i}
  /\ handed' = handed \cup {i}
  /\ UNCHANGED <<log, trimmed, group, skipped>>

\* Slip: XGROUP SETID s fw 0
XGroupSetIdZero ==
  /\ cursor' = 0
  /\ skipped' = skipped \cup Queued
  /\ UNCHANGED <<log, trimmed, group, pel, handed>>

\* Slip: the cursor is set to the id before the latest.
XGroupSetIdShort ==
  /\ cursor' = IMax(cursor, LastId - 1)
  /\ skipped' = skipped \cup Queued
  /\ UNCHANGED <<log, trimmed, group, pel, handed>>

\* XGROUP SETID s fw $
XGroupSetId ==
  /\ cursor' = LastId
  /\ skipped' = skipped \cup Queued
  /\ UNCHANGED <<log, trimmed, group, pel, handed>>

\* The first n ids of the pending entries list.
FirstPending(n) == {i \in pel : Cardinality({j \in pel : j < i}) < n}

-----------------------------------------------------------------------------
(* Control common to all requests *)

Goto(r, l) == pc' = [pc EXCEPT ![r] = l]

\* The first command of the handler after ensureConsumerGroup.
Command(r) == IF r \in Senders THEN "xadd"
              ELSE IF r \in Pollers THEN "xreadgroup" ELSE "xinfo"

\* Slip: the handler does not ensure the group.
StartUnensured(r) == Command(r)

\* ensureConsumerGroup returns at once for a stream in groupsEnsured.
AfterStart(r) == IF Home[r] \in ensured THEN Command(r) ELSE "ensure"

\* XGROUP CREATE s fw $ MKSTREAM; BUSYGROUP counts as success.
EnsureGroup(r) ==
  /\ pc[r] = "ensure"
  /\ group' = TRUE
  /\ cursor' = IF group THEN cursor ELSE LastId
  /\ ensured' = ensured \cup {Home[r]}
  /\ Goto(r, Command(r))
  /\ UNCHANGED <<log, trimmed, pel, locals, history, left>>

\* The requests R end without a result; what they had gathered is gone.
Abandon(R) ==
  /\ pc' = [r \in Requests |-> IF r \in R THEN "idle" ELSE pc[r]]
  /\ cmd' = [s \in Senders |-> IF s \in R THEN 0 ELSE cmd[s]]
  /\ held' = [p \in Pollers |-> IF p \in R THEN 0 ELSE held[p]]
  /\ report' = [m \in Markers |-> IF m \in R THEN NoReport ELSE report[m]]
  /\ reading' = [g \in Gauges |-> IF g \in R THEN NoReading ELSE reading[g]]

\* Redis answers with an error that the broker does not catch: no such key,
\* or NOGROUP outside getMobileAppMessage.
Refused(r) ==
  \/ pc[r] = "xinfo" /\ ~KeyExists
  \/ pc[r] \in {"xpending", "xpendingrange", "setid"} /\ ~group

Throw(r) ==
  /\ Refused(r)
  /\ Abandon({r})
  /\ UNCHANGED <<redis, ensured, history, left>>

-----------------------------------------------------------------------------
(* POST /mobile/message -> addMobileAppMessage *)

Post(s) ==
  /\ pc[s] = "idle" /\ posted < MaxPosts
  /\ posted' = posted + 1
  /\ cmd' = [cmd EXCEPT ![s] = posted + 1]
  /\ Goto(s, AfterStart(s))
  /\ UNCHANGED <<redis, ensured, held, report, reading, handed, received,
                 skipped, left>>

\* The firehose write that follows touches another stream and never fails
\* the request.
AddCommand(s) ==
  /\ pc[s] = "xadd"
  /\ XAdd(cmd[s])
  /\ cmd' = [cmd EXCEPT ![s] = 0]
  /\ Goto(s, "idle")
  /\ UNCHANGED <<ensured, held, report, reading, posted, received, left>>

-----------------------------------------------------------------------------
(* GET /controller/messages/:controllerId -> getMobileAppMessage *)

Poll(p) ==
  /\ pc[p] = "idle"
  /\ Goto(p, AfterStart(p))
  /\ UNCHANGED <<redis, ensured, locals, history, left>>

\* An empty read and NOGROUP both answer `message: null'.
ReadNothing(p) ==
  /\ pc[p] = "xreadgroup" /\ Queued = {}
  /\ Goto(p, "idle")
  /\ UNCHANGED <<redis, ensured, locals, history, left>>

ReadCommand(p) ==
  /\ pc[p] = "xreadgroup"
  /\ \E i \in Queued :
       /\ XReadGroup(i)
       /\ held' = [held EXCEPT ![p] = i]
  /\ Goto(p, "xack")
  /\ UNCHANGED <<ensured, cmd, report, reading, posted, received, left>>

AckRead(p) ==
  /\ pc[p] = "xack"
  /\ pel' = pel \ {held[p]}
  /\ Goto(p, "respond")
  /\ UNCHANGED <<log, trimmed, group, cursor, ensured, locals, history, left>>

Respond(p) ==
  /\ pc[p] = "respond"
  /\ received' = Append(received, held[p])
  /\ held' = [held EXCEPT ![p] = 0]
  /\ Goto(p, "idle")
  /\ UNCHANGED <<redis, ensured, cmd, report, reading, posted, handed, skipped,
                 left>>

-----------------------------------------------------------------------------
(* POST /dashboard/.../mark-all-received -> markAllReceived *)

\* A marker's step to l that records r and changes nothing else.
Note(m, l, r) ==
  /\ report' = [report EXCEPT ![m] = r]
  /\ Goto(m, l)
  /\ UNCHANGED <<ensured, cmd, held, reading, posted, received>>

MarkAll(m) ==
  /\ pc[m] = "idle"
  /\ Note(m, AfterStart(m),
          [NoReport EXCEPT !.lastAtStart = LastId, !.pelAtStart = pel])
  /\ UNCHANGED <<redis, handed, skipped, left>>

MarkCursor(m) ==
  /\ pc[m] = "xinfo" /\ ~Refused(m)
  /\ Note(m, "xpending",
          [report[m] EXCEPT !.last = IF group THEN cursor ELSE 0])
  /\ UNCHANGED <<redis, handed, skipped, left>>

MarkPending(m) ==
  /\ pc[m] = "xpending" /\ ~Refused(m)
  /\ Note(m, IF pel = {} THEN "xrange" ELSE "xpendingrange",
          [report[m] EXCEPT !.count = Cardinality(pel)])
  /\ UNCHANGED <<redis, handed, skipped, left>>

MarkPendingIds(m) ==
  /\ pc[m] = "xpendingrange" /\ ~Refused(m)
  /\ LET ids == FirstPending(report[m].count)
     IN  Note(m, IF ids = {} THEN "xrange" ELSE "xack",
              [report[m] EXCEPT !.ids = ids])
  /\ UNCHANGED <<redis, handed, skipped, left>>

MarkAck(m) ==
  /\ pc[m] = "xack"
  /\ pel' = pel \ report[m].ids
  /\ Note(m, "xrange",
          [report[m] EXCEPT !.pelAcked = Cardinality(pel \cap report[m].ids)])
  /\ UNCHANGED <<log, trimmed, group, cursor, handed, skipped, left>>

MarkCount(m) ==
  /\ pc[m] = "xrange"
  /\ Note(m, "setid", [report[m] EXCEPT !.skipped =
                         Cardinality({i \in Stream : i > report[m].last})])
  /\ UNCHANGED <<redis, handed, skipped, left>>

\* A failing XRANGE is caught and reported as nothing skipped.
MarkCountFails(m) ==
  /\ pc[m] = "xrange" /\ left.fault > 0
  /\ left' = [left EXCEPT !.fault = @ - 1]
  /\ Note(m, "setid", report[m])
  /\ UNCHANGED <<redis, handed, skipped>>

MarkSetId(m) ==
  /\ pc[m] = "setid" /\ ~Refused(m)
  /\ XGroupSetId
  /\ Note(m, "xrevrange",
          [report[m] EXCEPT !.passed = {i \in Queued : i <= report[m].lastAtStart}])
  /\ UNCHANGED left

MarkLatest(m) ==
  /\ pc[m] = "xrevrange"
  /\ Note(m, "xlen", [report[m] EXCEPT
                        !.advancedTo = IF Stream = {} THEN 0 ELSE LastId])
  /\ UNCHANGED <<redis, handed, skipped, left>>

MarkLength(m) ==
  /\ pc[m] = "xlen"
  /\ Note(m, "done", [report[m] EXCEPT !.length = Cardinality(Stream)])
  /\ UNCHANGED <<redis, handed, skipped, left>>

MarkDone(m) ==
  /\ pc[m] = "done"
  /\ Note(m, "idle", NoReport)
  /\ UNCHANGED <<redis, handed, skipped, left>>

-----------------------------------------------------------------------------
(* GET /dashboard/.../queue -> getQueueDepth *)

\* A gauge's step to l that records r: it only reads Redis.
Gauge(g, l, r) ==
  /\ reading' = [reading EXCEPT ![g] = r]
  /\ Goto(g, l)
  /\ UNCHANGED <<redis, ensured, cmd, held, report, history, left>>

Measure(g) ==
  /\ pc[g] = "idle"
  /\ Gauge(g, AfterStart(g), [NoReading EXCEPT !.waiting = Queued])

\* Redis reports a lag when it can tell one; it may count entries that were
\* trimmed before they were read.
MeasureGroup(g) ==
  /\ pc[g] = "xinfo" /\ ~Refused(g)
  /\ \E lag \in IF group THEN {NoLag, Cardinality(Queued), LastId - cursor}
                ELSE {NoLag} :
       Gauge(g, "xlen", [reading[g] EXCEPT
                           !.last = IF group THEN cursor ELSE 0,
                           !.pending = IF group THEN Cardinality(pel) ELSE 0,
                           !.lag = lag])

MeasureLength(g) ==
  /\ pc[g] = "xlen"
  /\ LET r == [reading[g] EXCEPT !.length = Cardinality(Stream)]
     IN  IF r.lag = NoLag THEN Gauge(g, "xrange", r)
         ELSE Gauge(g, "done", [r EXCEPT !.unread = r.lag])

\* Slip: the lower bound of the range excludes one entry more.
AfterNext(last) == Cardinality({i \in Stream : i > last + 1})

\* XRANGE (last + COUNT cap+1
AfterCursor(last) == Cardinality({i \in Stream : i > last})

MeasureRange(g) ==
  /\ pc[g] = "xrange"
  /\ Gauge(g, "done", [reading[g] EXCEPT
                         !.unread = IMin(AfterCursor(reading[g].last), DepthCap)])

MeasureDone(g) ==
  /\ pc[g] = "done"
  /\ Gauge(g, "idle", NoReading)

-----------------------------------------------------------------------------
(* Failures *)

\* A Redis command of r fails (retries exhausted, connection closed) or the
\* client of a response has gone: the handler ends, in the catch block.
\* A command that took effect and whose reply was lost is the effect
\* followed by Fail.
Fail(r) ==
  /\ pc[r] # "idle" /\ left.fault > 0
  /\ left' = [left EXCEPT !.fault = @ - 1]
  /\ Abandon({r})
  /\ UNCHANGED <<redis, ensured, history>>

\* The process ends with the requests it serves and its groupsEnsured.
Crash(n) ==
  /\ left.fault > 0
  /\ left' = [left EXCEPT !.fault = @ - 1]
  /\ Abandon({r \in Requests : Home[r] = n})
  /\ ensured' = ensured \ {n}
  /\ UNCHANGED <<redis, history>>

\* The connection drops after Redis executed a command and before the reply:
\* on reconnect the client library sends the command again.
Resend(r) ==
  /\ left.resend > 0
  /\ left' = [left EXCEPT !.resend = @ - 1]
  /\ \/ pc[r] = "xadd" /\ XAdd(cmd[r])
     \/ pc[r] = "xreadgroup" /\ \E i \in Queued : XReadGroup(i)
     \/ pc[r] = "setid" /\ ~Refused(r) /\ XGroupSetId
  /\ UNCHANGED <<ensured, pc, locals, posted, received>>

\* Redis restarts empty, or its data is flushed.  Later ids are still newer:
\* they start with the time of day.
LoseData ==
  /\ left.loss > 0
  /\ left' = [left EXCEPT !.loss = @ - 1]
  /\ trimmed' = LastId
  /\ group' = FALSE /\ cursor' = LastId /\ pel' = {}
  /\ UNCHANGED <<log, ensured, pc, locals, history>>

-----------------------------------------------------------------------------
\* The steps a request takes once it has begun and nothing fails.
Serve(r) ==
  \/ EnsureGroup(r)
  \/ Throw(r)
  \/ r \in Senders /\ AddCommand(r)
  \/ r \in Pollers /\ (ReadNothing(r) \/ ReadCommand(r) \/ AckRead(r) \/ Respond(r))
  \/ r \in Markers /\ \/ MarkCursor(r) \/ MarkPending(r) \/ MarkPendingIds(r)
                      \/ MarkAck(r) \/ MarkCount(r) \/ MarkSetId(r)
                      \/ MarkLatest(r) \/ MarkLength(r) \/ MarkDone(r)
  \/ r \in Gauges /\ \/ MeasureGroup(r) \/ MeasureLength(r) \/ MeasureRange(r)
                     \/ MeasureDone(r)

Next ==
  \/ \E s \in Senders : Post(s)
  \/ \E p \in Pollers : Poll(p)
  \/ \E m \in Markers : MarkAll(m) \/ MarkCountFails(m)
  \/ \E g \in Gauges : Measure(g)
  \/ \E r \in Requests : Serve(r) \/ Fail(r) \/ Resend(r)
  \/ \E n \in Instances : Crash(n)
  \/ LoseData

Spec == Init /\ [][Next]_vars

\* The firmware polls every ten seconds or so, and a request that has begun
\* is served: Redis answers and the event loop runs the continuation.
FairSpec ==
  /\ Spec
  /\ \A p \in Pollers : WF_vars(Poll(p))
  /\ \A r \in Requests : WF_vars(Serve(r))

-----------------------------------------------------------------------------
(* Properties *)

Pcs(r) ==
  IF r \in Senders THEN {"idle", "ensure", "xadd"}
  ELSE IF r \in Pollers THEN {"idle", "ensure", "xreadgroup", "xack", "respond"}
  ELSE IF r \in Markers THEN {"idle", "ensure", "xinfo", "xpending",
         "xpendingrange", "xack", "xrange", "setid", "xrevrange", "xlen", "done"}
  ELSE {"idle", "ensure", "xinfo", "xlen", "xrange", "done"}

Labels == {"idle", "ensure", "xadd", "xreadgroup", "xack", "respond", "xinfo",
           "xpending", "xpendingrange", "xrange", "setid", "xrevrange", "xlen",
           "done"}

Ids == 1 .. LastId

StreamType ==
  /\ posted \in Nat
  /\ log \in Seq(1 .. posted)
  /\ trimmed \in 0 .. LastId
  /\ group \in BOOLEAN
  /\ cursor \in 0 .. LastId
  /\ pel \subseteq Ids

HistoryType ==
  /\ handed \subseteq Ids
  /\ received \in Seq(Ids)
  /\ skipped \subseteq Ids
  /\ left \in [{"fault", "resend", "loss"} -> Nat]

RequestType ==
  /\ ensured \subseteq Instances
  /\ pc \in [Requests -> Labels]
  /\ \A r \in Requests : pc[r] \in Pcs(r)
  /\ cmd \in [Senders -> 0 .. posted]
  /\ \A s \in Senders : cmd[s] # 0 <=> pc[s] \in {"ensure", "xadd"}
  /\ held \in [Pollers -> 0 .. LastId]
  /\ \A p \in Pollers : held[p] # 0 <=> pc[p] \in {"xack", "respond"}
  /\ DOMAIN report = Markers
  /\ DOMAIN reading = Gauges

\* Every variable has its type: cursors and pending entries are ids of the
\* stream, a sender carries a command exactly until its XADD, and a poller
\* holds an entry exactly between XREADGROUP and its response.
TypeOK == StreamType /\ HistoryType /\ RequestType

\* At-most-once (redisStreamQueue.ts:16-18): whatever fails, crashes or is
\* lost between XADD, XREADGROUP, XACK and the response, and however many
\* polls overlap, the firmware never gets the same command in two responses.
AtMostOnce ==
  \A m, n \in DOMAIN received :
    log[received[m]] = log[received[n]] => m = n

\* An entry is in one place: everything behind the cursor that was handed out
\* is held by at most one poll or was sent in at most one response.  Unlike
\* AtMostOnce this holds when commands are executed twice, too.
EntriesOnce ==
  /\ \A i \in handed : i <= cursor
  /\ \A p \in Pollers : held[p] # 0 => held[p] \in handed
  /\ \A n \in DOMAIN received : received[n] \in handed
  /\ \A p, q \in Pollers : held[p] = held[q] /\ p # q => held[p] = 0
  /\ \A p \in Pollers, n \in DOMAIN received : held[p] # received[n]
  /\ \A m, n \in DOMAIN received : received[m] = received[n] => m = n

\* A command that is not executed twice is in one place: with one sender, or
\* in one entry of the log.
CommandsOnce ==
  /\ left.resend = 0
  /\ \A i, j \in Ids : log[i] = log[j] => i = j
  /\ \A s \in Senders : cmd[s] # 0 => \A i \in Ids : log[i] # cmd[s]
  /\ \A s, t \in Senders : cmd[s] = cmd[t] /\ s # t => cmd[s] = 0

\* No silent loss: while Redis keeps its data, a command that was added is
\* still queued, or was handed to a poll, or was stepped over by a mark-all,
\* or was trimmed.  The consumer group is created with `$', so an XADD that
\* ran before the creation would be lost to the firmware.
NoSilentLoss ==
  left.loss = MaxLosses =>
    Ids \subseteq handed \cup skipped \cup (1 .. trimmed) \cup Queued

\* The pending entries list is what getQueueDepth says it is ("normally
\* zero, but a crash between read and ack can leave entries"): without a
\* failure each entry belongs to a poll that is about to acknowledge it.
PelIsInFlight ==
  left.fault = MaxFaults /\ left.resend = MaxResends =>
    \A i \in pel : \E p \in Pollers : pc[p] = "xack" /\ held[p] = i

\* A command is accounted for at any time: it waits, is pending while a poll
\* holds it, or went the way the history says.
Accounted == NoSilentLoss /\ PelIsInFlight

\* Mark-all clears the pending entries: whatever polls, failures and other
\* mark-alls run meanwhile, no entry that was pending when the request began
\* is still pending after its XACK step, although the ids are enumerated
\* with a count taken one command earlier.
MarkAllClearsPending ==
  \A m \in Markers :
    pc[m] \in {"xrange", "setid", "xrevrange", "xlen", "done"} =>
      report[m].pelAtStart \cap pel = {}

\* Mark-all empties the queue ("After this, XREADGROUP > returns nothing
\* until a fresh XADD lands"): after SETID no command that was there when the
\* request began can be handed out any more.
MarkAllEmptiesQueue ==
  \A m \in Markers :
    pc[m] \in {"xrevrange", "xlen", "done"} =>
      \A i \in Queued : i > report[m].lastAtStart

\* The unread badge never hides work: a command that waited during the whole
\* queue-depth request is counted in its answer, up to the cap.
DepthCountsWaiting ==
  \A g \in Gauges :
    pc[g] = "done" =>
      reading[g].unread >= IMin(DepthCap, Cardinality(reading[g].waiting \cap Queued))

\* The report never hides work: a command that was queued when mark-all was
\* pressed and was stepped over by SETID is counted in `skipped' ("undelivered
\* entries skipped past via SETID"), whatever posts, polls, other mark-alls,
\* resent commands and trims fall between XINFO, XRANGE and SETID.
SkippedCountsQueued ==
  \A m \in Markers :
    pc[m] = "done" /\ left.fault = MaxFaults =>
      report[m].skipped >= Cardinality(report[m].passed)

\* The promises of mark-all in the order of its six commands, whatever runs
\* between them: what was pending is cleared, what was queued can not be
\* handed out, and the report counts it.
MarkAllHolds == MarkAllClearsPending /\ MarkAllEmptiesQueue /\ SkippedCountsQueued

\* Every command that is added is eventually got by the firmware, stepped
\* over by a mark-all or trimmed, when requests do not fail and Redis keeps
\* its data.
CommandsSettle ==
  \A i \in 1 .. MaxPosts :
    i <= LastId ~> \/ left.loss < MaxLosses
                   \/ \E n \in DOMAIN received : received[n] = i
                   \/ i \in skipped
                   \/ i <= trimmed

-----------------------------------------------------------------------------
(* What the channel promises: see CommandChannel *)

Fate(i) ==
  IF \E n \in DOMAIN received : received[n] = i THEN "delivered"
  ELSE IF \E p \in Pollers : held[p] = i THEN "taken"
  ELSE IF i \in Queued THEN "waiting" ELSE "gone"

Fates == [i \in Ids |-> Fate(i)]

Channel == INSTANCE CommandChannel WITH fate <- Fates

\* The broker implements the abstract at-most-once FIFO channel.
ImplementsChannel == Channel!Spec
=============================================================================
