------------------------------ MODULE Analytics ------------------------------
(***************************************************************************)
(* The two reads of a machine's history.  GET /analytics/controller/:id    *)
(* (src/src/routes/analytics.ts) reads the archive's change-points, raw or *)
(* in buckets (src/src/services/archiveStore.ts).  GET                     *)
(* /devices/:id/analytics (src/src/routes/dashboard.ts) joins the archive, *)
(* up to a live edge, with the stream after it, and the strip of Charts    *)
(* reads what it answers.                                                  *)
(*                                                                         *)
(* `beats' gives the fingerprinted reading of each heartbeat at its        *)
(* instant; powerTotal, which no fingerprint contains, is modelled by the  *)
(* instant itself: it only grows.  A definition marked "Slip" is a faulty  *)
(* variant of the one below it, used by no action.                         *)
(***************************************************************************)
EXTENDS Charts, FiniteSetsExt

CONSTANTS
  Now,           \* the instant of the request
  GapTime,       \* ARCHIVE_GAP_SECONDS
  Retention,     \* ARCHIVE_RETENTION_DAYS
  MaxRaw,        \* ANALYTICS_MAX_RAW_POINTS
  HourFactor,    \* how many times MaxRaw escalates to hours (12)
  Widths,        \* RESOLUTION_MS: the width of a bucket for each resolution
  LiveEdge,      \* ANALYTICS_LIVE_EDGE_MS
  LongHeld,      \* a run this long is drawn from its start (10 s)
  SampleCap,     \* sampleCap
  Pages          \* how many points 1 MB may hold: DynamoDB answers one page

ASSUME AnalyticsAssumption ==
  /\ {Now, GapTime, Retention, MaxRaw, HourFactor, LiveEdge, LongHeld, SampleCap} \subseteq Nat \ {0}
  /\ Widths \in [{"5m", "1h"} -> Nat \ {0}]
  /\ SampleCap > LiveEdge     \* every live heartbeat is in the history
  /\ Pages \subseteq Nat \ {0}

VARIABLE analysis   \* a request, the machine's past, and the answer

Readings == {"low", "high"}

\* The two readings are interchangeable: the first one is named "low".
Past == {beats \in UNION {[S -> Readings] : S \in SUBSET (0 .. Now)} :
           DOMAIN beats = {} \/ beats[Min(DOMAIN beats)] = "low"}

-----------------------------------------------------------------------------
(* The change-points that ArchiveStore leaves of some heartbeats *)

Before(S, t) == {u \in S : u < t}

\* The heartbeats that begin a run: the first, another reading, or after a
\* silence.
Starts(beats) ==
  {t \in DOMAIN beats :
     LET earlier == Before(DOMAIN beats, t)
     IN  earlier = {} \/ LET p == Max(earlier) IN beats[p] # beats[t] \/ t - p > GapTime}

ChangePoints(beats) ==
  {[ts |-> s, v |-> beats[s],
    lastTs |-> Max({t \in DOMAIN beats : t >= s /\ ~\E u \in Starts(beats) : s < u /\ u <= t})] :
   s \in Starts(beats)}

\* #ttl > :now
Unexpired(p) == p.ts + Retention > Now

ByTime(points) == InOrder(points, LAMBDA p, q : p.ts < q.ts)

-----------------------------------------------------------------------------
(* ArchiveStore.query *)

\* The newest point at or before `from', unless it has expired.
CarryIn(points, from) ==
  LET before == {p \in points : p.ts <= from}
  IN  {p \in before : Unexpired(p) /\ \A q \in before : q.ts <= p.ts}

\* One QueryCommand, oldest first, whose LastEvaluatedKey nobody follows: the
\* page ends when it is full, and what has expired is filtered out afterwards.
InWindow(points, from, to, page) ==
  LET window == {p \in points : from < p.ts /\ p.ts <= to}
  IN  {p \in window : Unexpired(p) /\ Cardinality({q \in window : q.ts < p.ts}) < page}

\* A raw answer that would be too long becomes a coarse one.
Effective(resolution, n) ==
  IF resolution # "raw" \/ n <= MaxRaw THEN resolution
  ELSE IF n > MaxRaw * HourFactor THEN "1h" ELSE "5m"

\* Slip: the values that changed inside the bucket alone.
ActiveInside(points, b, width) == {p \in points : b <= p.ts /\ p.ts < b + width}

\* The points inside the bucket and the one carried in from before it.
ActiveIn(points, b, width) ==
  {p \in points : b <= p.ts /\ p.ts < b + width}
  \cup {p \in points : p.ts < b /\ \A q \in points : q.ts < b => q.ts <= p.ts}

Bucketed(points, from, to, width) ==
  {[ts |-> b, values |-> {p.v : p \in ActiveIn(points, b, width)}] :
   b \in {c \in (from \div width) * width .. to - 1 :
            c % width = 0 /\ ActiveIn(points, c, width) # {}}}

QueryAnswer(points, from, to, resolution, page) ==
  LET window == InWindow(points, from, to, page)
      carry  == CarryIn(points, from)
      effective == Effective(resolution, Cardinality(window))
  IN  [effective |-> effective,
       raw     |-> IF effective # "raw" THEN <<>>
                   ELSE ByTime({p \in carry : p.ts >= from /\ p.ts <= to})
                        \o ByTime({p \in window : p.ts >= from /\ p.ts <= to}),
       buckets |-> IF effective = "raw" THEN {}
                   ELSE Bucketed(carry \cup window, from, to, Widths[effective])]

-----------------------------------------------------------------------------
(* GET /devices/:id/analytics *)

Edge == Now - LiveEdge

\* getRange: the newest points that began in the range, at most SampleCap and
\* one page; what has expired is older than what has not.
RangeOf(points, from, to, page) ==
  LET visible == {p \in points : Unexpired(p) /\ from <= p.ts /\ p.ts <= to}
  IN  {p \in visible : Cardinality({q \in visible : q.ts > p.ts}) < Min({SampleCap, page})}

EndOf(p) == Min({p.lastTs, Edge - 1})

\* Slip: a run is drawn at its end only.
SpanStartsNone(p, cutoff) == {}

\* A long-held run is also drawn at its start.
SpanStarts(p, cutoff) ==
  LET start == Max({p.ts, cutoff}) IN IF EndOf(p) - start >= LongHeld THEN {start} ELSE {}

\* powerTotal is that of the run's last heartbeat.
UsageInstants(p, cutoff) == {EndOf(p)}

\* The history of the stream, newest first, up to the live cut.
LiveBeats(beats, cutoff) ==
  {t \in DOMAIN beats : /\ t >= Max({cutoff, Edge})
                        /\ Cardinality({u \in DOMAIN beats : u > t}) < SampleCap}

SortedSeries(samples) == InOrder(samples, LAMBDA a, b : a.t < b.t)

\* decodeInto for an archived run and for a live heartbeat
SpanReadings(p, cutoff) == {[t |-> t, v |-> p.v] : t \in SpanStarts(p, cutoff) \cup {EndOf(p)}}
SpanUsage(p, cutoff) == {[t |-> t, v |-> p.lastTs] : t \in UsageInstants(p, cutoff)}
LiveReading(beats, t) == [t |-> t, v |-> beats[t]]
LiveUsage(t) == [t |-> t, v |-> t]

\* What is archived before the live edge; nothing when the chart starts after it
RunsFor(points, cutoff, page) == IF cutoff < Edge THEN RangeOf(points, cutoff, Edge - 1, page) ELSE {}

ReadingSamples(points, beats, cutoff, page) ==
  (UNION {SpanReadings(p, cutoff) : p \in RunsFor(points, cutoff, page)})
  \cup {LiveReading(beats, t) : t \in LiveBeats(beats, cutoff)}

UsageSamples(points, beats, cutoff, page) ==
  (UNION {SpanUsage(p, cutoff) : p \in RunsFor(points, cutoff, page)})
  \cup {LiveUsage(t) : t \in LiveBeats(beats, cutoff)}

\* Each archived run and each live heartbeat decoded, then sorted
ChartAnswer(points, beats, cutoff, page) ==
  [reading |-> SortedSeries(ReadingSamples(points, beats, cutoff, page)),
   usage   |-> UsageSamples(points, beats, cutoff, page)]

-----------------------------------------------------------------------------
NoAnalysis == [kind |-> "none", beats |-> <<>>, from |-> 0, to |-> 0, resolution |-> "raw", lag |-> 0,
               page |-> 1, answer |-> Nothing]

\* A query, or a chart while the archive lags behind by up to LiveEdge.
AnalyticsInit ==
  \/ \E beats \in Past, from, to \in -1 .. Now, r \in {"raw", "5m", "1h"}, page \in Pages :
       analysis = [NoAnalysis EXCEPT !.kind = "query", !.beats = beats,
                                     !.from = from, !.to = to, !.resolution = r, !.page = page]
  \/ \E beats \in Past, cutoff \in 0 .. Now, lag \in 0 .. LiveEdge, page \in Pages :
       analysis = [NoAnalysis EXCEPT !.kind = "chart", !.beats = beats, !.from = cutoff, !.lag = lag,
                                     !.page = page]

AnalyticsIdle == analysis = NoAnalysis

Archived(a) == ChangePoints([t \in {u \in DOMAIN a.beats : u <= Now - a.lag} |-> a.beats[t]])

\* 400 when `to' is before `from' or `from' outside the retention window
QueryHistory ==
  /\ analysis.kind = "query"
  /\ analysis.from <= analysis.to /\ analysis.from >= Now - Retention
  /\ analysis' = [analysis EXCEPT !.kind = "queried",
       !.answer = QueryAnswer(Archived(analysis), analysis.from, analysis.to, analysis.resolution, analysis.page)]

ShowChart ==
  /\ analysis.kind = "chart"
  /\ analysis' = [analysis EXCEPT !.kind = "charted",
       !.answer = ChartAnswer(Archived(analysis), analysis.beats, analysis.from, analysis.page)]

AnalyticsNext == QueryHistory \/ ShowChart

AnalyticsSpec == AnalyticsInit /\ [][AnalyticsNext]_analysis

-----------------------------------------------------------------------------
(* Properties *)

\* The run that holds at t: the last one that began by then.
HoldsAt(points, t) == {p \in points : p.ts <= t /\ \A q \in points : q.ts <= t => q.ts <= p.ts}

\* No more changes after `from' and up to t than one page holds.
FitsPage(points, from, t, page) == Cardinality({p \in points : from < p.ts /\ p.ts <= t}) <= page

\* "aggregate every value active during the window" (archiveStore.ts:460): a
\* reading that holds at some instant asked for is among the values of its
\* bucket, as far as the changes fit a page, and a bucket contains no value but
\* those that held in it or at the instant before it.  Only after a full page
\* it goes on with the last value of the page, whatever changed since.
BucketsAreTrue ==
  analysis.kind = "queried" /\ analysis.answer.effective # "raw" =>
    LET points  == ChangePoints(analysis.beats)
        width   == Widths[analysis.answer.effective]
        fits(t) == FitsPage(points, analysis.from, t, analysis.page)
    IN  /\ \A t \in analysis.from .. analysis.to - 1 :
             \A p \in HoldsAt(points, t) :
               Unexpired(p) /\ fits(t) => \E b \in analysis.answer.buckets :
                                            b.ts = (t \div width) * width /\ p.v \in b.values
        /\ \A b \in analysis.answer.buckets : \A v \in b.values :
             \/ \E t \in b.ts - 1 .. b.ts + width - 1 : \E p \in HoldsAt(points, t) : p.v = v
             \/ /\ ~fits(b.ts - 1)
                /\ \E p \in points : /\ p.v = v /\ fits(p.ts)
                                     /\ \A q \in points : fits(q.ts) => q.ts <= p.ts

\* A raw answer has every change-point of the window that fits the page and is
\* not expired once and in order, so that nothing is missing before its end; it
\* is never longer than the limit and the point at `from'.
RawIsComplete ==
  analysis.kind = "queried" /\ analysis.answer.effective = "raw" =>
    LET points == ChangePoints(analysis.beats)
    IN  /\ analysis.answer.raw =
             ByTime({p \in points : /\ Unexpired(p) /\ analysis.from <= p.ts /\ p.ts <= analysis.to
                                    /\ FitsPage(points, analysis.from, p.ts, analysis.page)})
        /\ Len(analysis.answer.raw) <= MaxRaw + 1

\* The archive's answer is what the change-points say, raw and in buckets, up
\* to where a page is full.
ArchiveAnswersTrue == BucketsAreTrue /\ RawIsComplete

\* At every heartbeat since the first sample the strip shows what the machine
\* reported, although the archive keeps changes only and may lag behind: if
\* the heartbeat is live, or if its run began in the chart's window, is not
\* expired, and is drawn at that heartbeat or from its start; a run that the
\* archive does not know as long-held yet shows at its end only.
StripIsTrue ==
  analysis.kind = "charted" /\ analysis.answer.reading # <<>> =>
    \A t \in DOMAIN analysis.beats :
      /\ t >= analysis.answer.reading[1].t
      /\ \/ t >= Edge
         \/ \E p \in HoldsAt(Archived(analysis), t) :
              /\ p.ts >= analysis.from /\ Unexpired(p)
              /\ t >= EndOf(p) \/ EndOf(p) - p.ts >= LongHeld
      => StateAt(analysis.answer.reading, t) = analysis.beats[t]

\* "stamping it at the start would show the whole span's consumption arriving
\* instantly" (dashboard.ts:440): a point of the usage line has the total of
\* its own instant, except at the live edge, where a run that goes on is cut.
UsageIsTrue ==
  analysis.kind = "charted" =>
    \A s \in analysis.answer.usage : s.v = s.t \/ s.t = Edge - 1

\* The chart shows what the machine reported, when it reported it.
ChartIsTrue == StripIsTrue /\ UsageIsTrue
=============================================================================
