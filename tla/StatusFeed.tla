----------------------------- MODULE StatusFeed -----------------------------
(***************************************************************************)
(* The heartbeat channel of one controller on the Redis broker, as a phone *)
(* reads it: stream:fw2mobile:{controllerId}, the backfill from the        *)
(* archive for what was trimmed, and GET /mobile/status with the phone's   *)
(* high-water mark (src/src/redisStreamQueue.ts, src/src/routes/mobile.ts).*)
(*                                                                         *)
(* Stream ids are positions in `kinds', as in CommandStream.  Besides      *)
(* heartbeats the stream carries the controller's answers to commands,     *)
(* which are not archived.  The archive is reduced to what getSince        *)
(* returns: its change-points in order, each with the entry at which its   *)
(* run began and the newest entry of the run, whose payload and stream id  *)
(* it holds ("latest wins", see ArchiveStore).                             *)
(*                                                                         *)
(* A definition marked "Slip" is a faulty variant of the one below it,     *)
(* used by no action: a mistake the properties would detect.               *)
(***************************************************************************)
EXTENDS Integers, Sequences, FiniteSets, SequencesExt

CONSTANTS
  Archiving,   \* ARCHIVE_ENABLED
  MaxCount,    \* SINCE_MAX_COUNT
  MaxLen,      \* STREAM_LIVE_MAXLEN
  MaxEntries,  \* bound: entries added
  MaxFaults,   \* bound: polls that fail, and archive writes that do
  MaxLosses    \* bound: losses of Redis' data

ASSUME FeedAssumption ==
  /\ Archiving \in BOOLEAN
  /\ {MaxCount, MaxLen} \subseteq Nat \ {0}
  /\ {MaxEntries, MaxFaults, MaxLosses} \subseteq Nat

VARIABLES
  kinds,     \* every entry ever added: "beat" or "answer"
  trimmed,   \* entries 1..trimmed have been removed by MAXLEN or lost
  points,    \* change-points in the archive: [ts, sid]
  archived,  \* entries 1..archived have been through the archive's write
  mark,      \* the phone's high-water mark, NoMark before its first poll
  read,      \* the poll in progress
  \* history
  from,      \* the mark the phone started with
  got,       \* the entries it has got since, in order
  late,      \* the entries that were trimmed before they were archived
  left       \* how many faults and losses may still happen

server == <<kinds, trimmed, points, archived, late>>
phone  == <<mark, from, got>>
vars   == <<server, phone, read, left>>

NoMark == -1
Idle == [pc |-> "idle", live |-> <<>>, oldest |-> 0]

Init ==
  /\ kinds = <<>> /\ trimmed = 0 /\ points = <<>> /\ archived = 0
  /\ mark = NoMark /\ read = Idle /\ from = NoMark /\ got = <<>>
  /\ late = {} /\ left = [fault |-> MaxFaults, loss |-> MaxLosses]

LastId == Len(kinds)

\* The ids a .. b in order, at most n of them.
FirstIds(a, b, n) == SubSeq([i \in 1 .. b |-> i], a, IF b < a + n THEN b ELSE a + n - 1)

FirstOf(s, n) == SubSeq(s, 1, IF Len(s) < n THEN Len(s) ELSE n)

\* The larger of two numbers; Max of the community modules is that of a set.
Larger(a, b) == IF a >= b THEN a ELSE b

-----------------------------------------------------------------------------
\* addControllerMessage: XADD with an approximate trim.  The archive's write
\* is started and never awaited.
AddControllerMessage(kind) ==
  /\ LastId < MaxEntries
  /\ kinds' = Append(kinds, kind)
  /\ trimmed' \in trimmed .. Larger(trimmed, LastId + 1 - MaxLen)
  /\ UNCHANGED <<points, archived, late, phone, read, left>>

\* The write of the next entry is over.
Archived ==
  /\ archived < LastId
  /\ archived' = archived + 1
  /\ late' = IF archived < trimmed THEN late \cup {archived + 1} ELSE late
  /\ UNCHANGED <<kinds, trimmed, phone, read>>

\* ArchiveStore.write: an answer is ignored; an unchanged reading extends the
\* newest change-point; a change or a gap adds one.
Archive ==
  /\ Archiving /\ Archived
  /\ LET e == archived'
     IN  \/ kinds[e] = "answer" /\ UNCHANGED points
         \/ kinds[e] = "beat" /\ points' = Append(points, [ts |-> e, sid |-> e])
         \/ /\ kinds[e] = "beat" /\ points # <<>>
            /\ points' = [points EXCEPT ![Len(points)].sid = e]
  /\ UNCHANGED left

\* A failing write is logged and swallowed.
ArchiveFails ==
  /\ Archiving /\ Archived /\ left.fault > 0
  /\ left' = [left EXCEPT !.fault = @ - 1]
  /\ UNCHANGED points

\* A phone without a mark takes the id of the latest entry (mode 1).
Bootstrap ==
  /\ mark = NoMark /\ trimmed < LastId
  /\ mark' = LastId /\ from' = LastId /\ got' = <<>>
  /\ UNCHANGED <<server, read, left>>

\* status: null, when the stream is empty or its latest entry is stale
BootstrapNothing ==
  /\ mark = NoMark
  /\ UNCHANGED vars

\* The phone keeps its mark in memory only.
PhoneRestart ==
  /\ mark # NoMark
  /\ mark' = NoMark /\ read' = Idle
  /\ UNCHANGED <<server, from, got, left>>

\* Slip: the checkpoint itself is in the range.
LiveFromMark == FirstIds(Larger(mark, trimmed + 1), LastId, MaxCount + 1)

\* XRANGE (mark + COUNT MaxCount+1; when it fails, the phone gets an empty
\* answer with the mark it sent, which changes nothing.
Live == FirstIds(Larger(mark, trimmed) + 1, LastId, MaxCount + 1)

ReadLive ==
  /\ read.pc = "idle" /\ mark # NoMark
  /\ read' = [read EXCEPT !.pc = IF Archiving THEN "oldest" ELSE "respond",
                          !.live = Live]
  /\ UNCHANGED <<server, phone, left>>

-----------------------------------------------------------------------------
\* Slip: the id of the last entry fetched, not of the last one sent.
NewMarkFetched(messages) == IF read.live = <<>> THEN mark ELSE Last(read.live)

\* highWaterMark
NewMark(messages) == IF messages = <<>> THEN mark ELSE Last(messages)

\* Slip: the early return looks at the backfill alone.
CombinedIfBackfill(backfill) ==
  IF backfill = <<>> THEN <<>> ELSE backfill \o FirstOf(read.live, MaxCount)

Combined(backfill) == backfill \o FirstOf(read.live, MaxCount)

\* The response: the backfill and then the live entries, cut to MaxCount.
\* The phone keeps the mark that comes with it; the response may be lost on
\* the way.
Answer(backfill) ==
  LET messages == FirstOf(Combined(backfill), MaxCount)
  IN  /\ read' = Idle
      /\ \/ /\ got' = got \o messages
            /\ mark' = NewMark(messages)
            /\ UNCHANGED left
         \/ /\ left.fault > 0
            /\ left' = [left EXCEPT !.fault = @ - 1]
            /\ UNCHANGED <<got, mark>>
      /\ UNCHANGED <<server, from>>

Respond ==
  /\ read.pc = "respond"
  /\ Answer(<<>>)

\* XRANGE - + COUNT 1: there is no gap unless the mark predates the oldest
\* retained entry.
ReadOldest ==
  /\ read.pc = "oldest"
  /\ \/ trimmed < LastId /\ mark > trimmed
        /\ read' = [read EXCEPT !.pc = "respond"]
     \/ trimmed < LastId /\ mark <= trimmed
        /\ read' = [read EXCEPT !.pc = "getSince", !.oldest = trimmed + 1]
     \/ trimmed = LastId
        /\ read' = [read EXCEPT !.pc = "getSince", !.oldest = MaxEntries + 1]
  /\ UNCHANGED <<server, phone, left>>

\* How many of the change-points are at t or before it: they are in order.
UpTo(t) == Cardinality({j \in DOMAIN points : points[j].ts <= t})

\* Slip: the newest points after the mark, not the oldest.
PointsSinceNewest ==
  SubSeq(points, Larger(UpTo(mark) + 1, Len(points) - MaxCount), Len(points))

\* archive.getSince(controllerId, sinceTs, maxCount + 1): ts > sinceTs
PointsSince == FirstOf(SubSeq(points, UpTo(mark) + 1, Len(points)), MaxCount + 1)

\* The points of the gap (ts < oldestTs), each as a message with the id of
\* its newest entry.
Backfill ==
  LET inGap == FirstOf(PointsSince, UpTo(read.oldest - 1) - UpTo(mark))
  IN  [j \in DOMAIN inGap |-> inGap[j].sid]

GetSince ==
  /\ read.pc = "getSince"
  /\ \E backfill \in {Backfill} : Answer(backfill)

\* The second XRANGE or the archive fails: the response goes without a
\* backfill.
BackfillFails ==
  /\ read.pc \in {"oldest", "getSince"} /\ left.fault > 0
  /\ left' = [left EXCEPT !.fault = @ - 1]
  /\ read' = [read EXCEPT !.pc = "respond"]
  /\ UNCHANGED <<server, phone>>

\* The poll ends without an answer or with a 500, because the process is
\* replaced or something throws; the phone polls again.
FailRead ==
  /\ read.pc # "idle" /\ left.fault > 0
  /\ left' = [left EXCEPT !.fault = @ - 1]
  /\ read' = Idle
  /\ UNCHANGED <<server, phone>>

LoseData ==
  /\ left.loss > 0
  /\ left' = [left EXCEPT !.loss = @ - 1]
  /\ trimmed' = LastId
  /\ UNCHANGED <<kinds, points, archived, late, phone, read>>

Poll == ReadLive \/ ReadOldest \/ GetSince \/ Respond

Next ==
  \/ \E kind \in {"beat", "answer"} : AddControllerMessage(kind)
  \/ Archive \/ ArchiveFails
  \/ Bootstrap \/ BootstrapNothing \/ PhoneRestart
  \/ Poll
  \/ BackfillFails \/ FailRead \/ LoseData

Spec == Init /\ [][Next]_vars

\* A running phone polls every five seconds, and a poll gets its answer.
FairSpec == Spec /\ WF_vars(Poll) /\ WF_vars(Bootstrap)

-----------------------------------------------------------------------------
(* Properties *)

Ids == 1 .. LastId

\* A phone gets the entries in the order of the stream and none of them
\* twice, although polls fail after the read and entries are trimmed between
\* two polls.
InOrder == \A m, n \in DOMAIN got : m < n => got[m] < got[n]

\* "containing every fw2mobile entry with id strictly greater than the
\* caller's `since`" (mobile.ts:137): an entry that is still in Redis and that
\* the phone's mark has passed was in one of its answers.
NothingSkipped ==
  mark # NoMark =>
    \A i \in Ids : i > trimmed /\ from < i /\ i <= mark => i \in Range(got)

\* Without the archive a phone gets each retained entry behind its mark
\* exactly once and in order.
EachOnce == InOrder /\ NothingSkipped

\* The mark makes progress: an answer with messages moves it forward, so that
\* a phone that polls again at once (hasMore) does not turn in circles, even
\* when Redis lost its data between the two reads of the poll.
MarkAdvances ==
  [][Len(got') > Len(got) => mark' > mark]_vars

\* The reconnect fallback (FR-7): a phone that comes back after a long
\* absence gets a message from the run of each change-point that its mark
\* passes, unless a read of the archive failed or its write lagged behind the
\* trimming.
GapIsFilled ==
  mark # NoMark /\ left.fault = MaxFaults =>
    \A j \in DOMAIN points :
      from < points[j].ts /\ points[j].ts <= mark /\ points[j].ts \notin late =>
        \E i \in Range(got) : i \in points[j].ts .. points[j].sid

\* A polling phone catches up with what the stream holds.
CatchesUp == <>[](\A i \in Ids : i > trimmed => mark >= i \/ mark = NoMark)
=============================================================================
