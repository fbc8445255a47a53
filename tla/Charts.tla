------------------------------- MODULE Charts -------------------------------
(***************************************************************************)
(* What the analytics page makes of the series it gets                     *)
(* (src/web/src/lib/chartSeries.ts, tempScale.ts and the overlay of        *)
(* pages/DeviceDetail/Analytics.tsx): the state strip under the pointer,   *)
(* the shading by run mode, the coloured temperature line, the alarm marks *)
(* and the usage line with its gaps.  Each is computed on its own from the *)
(* same samples, so they can contradict each other.                        *)
(*                                                                         *)
(* A series is a sequence of samples [t, v] with increasing t.             *)
(*                                                                         *)
(* A definition marked "Slip" is a faulty variant of the one below it,     *)
(* used by no action: a mistake the properties would detect.               *)
(***************************************************************************)
EXTENDS Sequences, SequencesExt, Sorting

CONSTANTS
  Horizon,      \* bound: samples are taken at 0 .. Horizon
  MaxModes,     \* bound: samples of the mode
  Coldest,      \* bound: the temperatures are Coldest .. Hottest
  Hottest

ASSUME ChartsAssumption ==
  /\ {Horizon, MaxModes} \subseteq Nat
  /\ {Coldest, Hottest} \subseteq Int

VARIABLE chart   \* a set of series, and once it is drawn, the picture

Instants == 0 .. Horizon
Reports == 0 .. 2 * Horizon
RunModes == {"COOL", "HEAT", "STANDBY"}
Conditioning == {"COOL", "HEAT"}
Flags == {"clear", "set"}     \* 0 and 1
Nothing == "nothing"
Forever == Horizon + 1        \* Infinity: after every sample

\* What a function from instants to values looks like as a series.
Samples(f) ==
  LET times == Ascending(DOMAIN f) IN [i \in DOMAIN times |-> [t |-> times[i], v |-> f[times[i]]]]

-----------------------------------------------------------------------------
(* The state strip *)

\* The loop of stateAt, from the values of its variables lo, hi and found: what
\* it leaves in found.
Limits(n) == (1 .. n + 1) \X (0 .. n) \X (0 .. n)

Search(points, t) ==
  LET search[s \in Limits(Len(points))] ==
        LET mid == (s[1] + s[2]) \div 2
        IN  IF s[1] > s[2] THEN s[3]
            ELSE IF points[mid].t <= t THEN search[<<mid + 1, s[2], mid>>]
            ELSE search[<<s[1], mid - 1, s[3]>>]
  IN  search

\* stateAt: the latest sample at or before t, by binary search
StateAt(points, t) ==
  LET found == Search(points, t)[<<1, Len(points), 0>>]
  IN  IF found = 0 THEN Nothing ELSE points[found].v

\* cockpitAt: an alarm is shown while its event or its latched flag is set.
AlarmShown(series, t) == \E leaf \in DOMAIN series : StateAt(series[leaf], t) \notin {Nothing, "clear"}

\* alarmEdges: where a series goes from 0, or nothing, to something else
AlarmEdges(series) ==
  UNION {{series[leaf][i].t : i \in {j \in DOMAIN series[leaf] :
            series[leaf][j].v # "clear" /\ (j = 1 \/ series[leaf][j - 1].v = "clear")}} :
         leaf \in DOMAIN series}

-----------------------------------------------------------------------------
(* The shading and the scales *)

\* The samples at which a run of equal modes begins.
RunStarts(points) ==
  Ascending({i \in DOMAIN points : i = 1 \/ points[i].v # points[i - 1].v})

Later(a, b) == IF a >= b THEN a ELSE b

\* Slip: a run ends at its last sample.
ModeSegmentsToLast(points, end) ==
  LET starts == RunStarts(points)
  IN  [i \in DOMAIN starts |->
        [from |-> points[starts[i]].t, mode |-> points[starts[i]].v,
         to |-> IF i < Len(starts) THEN points[starts[i + 1] - 1].t
                ELSE Later(end, points[starts[i]].t)]]

\* modeSegments: the last run extends to the right edge of the chart.
ModeSegments(points, end) ==
  LET starts == RunStarts(points)
  IN  [i \in DOMAIN starts |->
        [from |-> points[starts[i]].t, mode |-> points[starts[i]].v,
         to |-> IF i < Len(starts) THEN points[starts[i + 1]].t
                ELSE Later(end, points[starts[i]].t)]]

\* segmentScales: a run that does not condition inherits the scale of the
\* conditioning run before it, or else of the one after it.
ScaleOf(segments, i) ==
  LET runs   == {j \in DOMAIN segments : segments[j].mode \in Conditioning}
      before == {j \in runs : j <= i}
  IN  IF before # {} THEN segments[Max(before)].mode
      ELSE IF runs # {} THEN segments[Min(runs)].mode
      ELSE "COOL"

\* The spans of the coloured line: stretched to cover the whole window.
TempSpans(segments) ==
  IF segments = <<>> THEN <<[to |-> Forever, scale |-> "COOL"]>>
  ELSE [i \in DOMAIN segments |->
         [to |-> IF i = Len(segments) THEN Forever ELSE segments[i].to,
          scale |-> ScaleOf(segments, i)]]

\* How many samples the loop of TempGradientOverlay has taken after k spans:
\* those before the end of a span so far.
Taken(times, spans, k) ==
  Cardinality({i \in DOMAIN times : \E j \in 1 .. k : times[i] < spans[j].to})

\* Slip: a span starts with its own first sample, not the one before it.
SegmentAlone(taken) == taken + 1

\* prev: a span starts with the last sample that was taken before it.
SegmentFrom(taken) == IF taken = 0 THEN 1 ELSE taken

\* TempGradientOverlay: the paths, by the spans that have two samples to join.
LinePaths(times, spans) ==
  LET first(k) == SegmentFrom(Taken(times, spans, k - 1))
      last(k)  == Taken(times, spans, k)
  IN  [k \in {j \in DOMAIN spans : first(j) < last(j)} |->
        [seg |-> SubSeq(times, first(k), last(k)), scale |-> spans[k].scale]]

-----------------------------------------------------------------------------
(* The colours of a temperature; hundredths of a degree where they are needed *)

Edges == [COOL |-> {70, 75, 80, 85, 90}, HEAT |-> {55, 60, 65, 70, 75}]

\* bandColor: the number of band edges at or below a temperature
BandColor(scale, hundredths) == Cardinality({e \in Edges[scale] : 100 * e <= hundredths})

\* tempDomain; min - 1.2 and max + 1.2 are in tenths here.
TempDomain(min, max) ==
  LET lo == ((10 * min - 12) \div 20) * 2
      hi == -((-(10 * max + 12)) \div 20) * 2
      short == IF hi - lo < 8 THEN (9 - (hi - lo)) \div 2 ELSE 0
  IN  <<lo - short, hi + short>>

Clamp(n, lo, hi) == IF n < lo THEN lo ELSE IF n > hi THEN hi ELSE n

\* The feather of an edge overlaps the domain.
Feathers(e, lo, hi) == e - 1 < hi /\ e + 1 > lo

\* gradientStops: an edge is two stops one degree from it; the offset of a
\* stop is given as its temperature.
GradientStops(scale, lo, hi) ==
  LET stop(at, of) == [at |-> Clamp(100 * at, 100 * lo, 100 * hi), color |-> BandColor(scale, of)]
      inner == Ascending({e \in Edges[scale] : Feathers(e, lo, hi)})
      feather(e, before) == IF before THEN stop(e - 1, 100 * e - 1) ELSE stop(e + 1, 100 * e + 1)
  IN  <<stop(lo, 100 * lo)>>
      \o [i \in 1 .. 2 * Len(inner) |-> feather(inner[(i + 1) \div 2], i % 2 = 1)]
      \o <<stop(hi, 100 * hi)>>

-----------------------------------------------------------------------------
(* The usage line *)

\* deltas.sort, and the one in the middle
MedianOf(deltas) ==
  LET at == InOrder(DOMAIN deltas, LAMBDA i, j : deltas[i] < deltas[j] \/ (deltas[i] = deltas[j] /\ i < j))
  IN  deltas[at[Len(deltas) \div 2 + 1]]

\* medianInterval
MedianInterval(times) == MedianOf([i \in 1 .. Len(times) - 1 |-> times[i + 1] - times[i]])

\* mergeSeries: the instants of the secondary series at which the primary
\* gets an interpolated value.  GAP_FACTOR is 2.5.
Interpolated(primary, secondary) ==
  IF Len(primary) < 2 THEN {}
  ELSE LET interval == MedianInterval(primary)
       IN  {t \in secondary \ ToSet(primary) :
              \E i \in 1 .. Len(primary) - 1 :
                /\ primary[i] <= t /\ t < primary[i + 1]
                /\ 2 * (primary[i + 1] - primary[i]) <= 5 * interval}

-----------------------------------------------------------------------------
Blank == [drawn |-> FALSE, mode |-> <<>>, temps |-> <<>>, alarms |-> [event |-> <<>>],
          range |-> <<Coldest, Coldest>>, power |-> <<>>, picture |-> Nothing]

Series(V, n) == UNION {{Samples(f) : f \in [S -> V]} : S \in {T \in SUBSET Instants : Cardinality(T) <= n}}

\* One part of the page varies at a time.
ChartInit ==
  \/ \E m \in Series(RunModes, MaxModes), S \in SUBSET Instants :
       chart = [Blank EXCEPT !.mode = m, !.temps = Ascending(S)]
  \/ \E e, l \in Series(Flags, 2) : chart = [Blank EXCEPT !.alarms = [event |-> e, latched |-> l]]
  \/ \E a, b \in Coldest .. Hottest : a <= b /\ chart = [Blank EXCEPT !.range = <<a, b>>]
  \/ \E S \in SUBSET Reports : chart = [Blank EXCEPT !.power = Ascending(S)]

ChartIdle == chart = Blank

Picture ==
  LET end == IF chart.temps = <<>> THEN 0 ELSE Last(chart.temps)
      segments == ModeSegments(chart.mode, end)
      domain == TempDomain(chart.range[1], chart.range[2])
  IN  [segments |-> segments,
       paths |-> IF Len(chart.temps) < 2 THEN <<>> ELSE LinePaths(chart.temps, TempSpans(segments)),
       marks |-> AlarmEdges(chart.alarms),
       domain |-> domain,
       stops |-> [scale \in Conditioning |-> GradientStops(scale, domain[1], domain[2])],
       filled |-> Interpolated(chart.power, Reports)]

\* The page renders.
Draw ==
  /\ ~chart.drawn
  /\ chart' = [chart EXCEPT !.drawn = TRUE, !.picture = Picture]

ChartsSpec == ChartInit /\ [][Draw]_chart

-----------------------------------------------------------------------------
(* Properties *)

\* The shading and the strip agree: at every instant up to the right edge the
\* segment there has the mode that the strip shows, and where there is no
\* segment the strip shows none.
ShadingAgreesWithStrip ==
  chart.drawn =>
    \A t \in {u \in Instants : chart.temps # <<>> /\ u < Last(chart.temps)} :
      {s.mode : s \in {r \in ToSet(chart.picture.segments) : r.from <= t /\ t < r.to}}
        = {StateAt(chart.mode, t)} \ {Nothing}

\* The coloured line is whole: each two neighbouring temperature samples are
\* joined exactly once, whatever spans lie between them, and while the
\* machine cools or heats in the scale of what it does.
LineIsWhole ==
  chart.drawn =>
    \A i \in 1 .. Len(chart.temps) - 1 :
      LET paths == chart.picture.paths
          joins == {d \in (DOMAIN paths) \X (1 .. Len(chart.temps)) :
                      /\ d[2] < Len(paths[d[1]].seg)
                      /\ paths[d[1]].seg[d[2]] = chart.temps[i]
                      /\ paths[d[1]].seg[d[2] + 1] = chart.temps[i + 1]}
          mode == StateAt(chart.mode, chart.temps[i + 1])
      IN  /\ Cardinality(joins) = 1
          /\ \A d \in joins : mode \in Conditioning => paths[d[1]].scale = mode

\* The alarm marks and the strip agree: an alarm is shown at every mark, and
\* an alarm is never shown without a mark before it.
MarksAgreeWithStrip ==
  chart.drawn =>
    /\ \A t \in chart.picture.marks : AlarmShown(chart.alarms, t)
    /\ \A t \in Instants :
         AlarmShown(chart.alarms, t) => \E u \in chart.picture.marks : u <= t

\* The stops do not go back, and a temperature more than a degree away from
\* every band edge has exactly its band's colour: the stops around it have it.
\* So it is at the borders of the axis too, which hold every sample.
GradientIsTrue ==
  chart.drawn =>
    \A scale \in Conditioning :
      LET stops == chart.picture.stops[scale]
      IN  /\ \A i, j \in DOMAIN stops : i < j => stops[i].at <= stops[j].at
          /\ \A t \in chart.range[1] .. chart.range[2] :
               (\A e \in Edges[scale] : e \notin t - 1 .. t + 1) =>
                 \E i \in 1 .. Len(stops) - 1 :
                   /\ stops[i].at <= 100 * t /\ 100 * t <= stops[i + 1].at
                   /\ {stops[i].color, stops[i + 1].color} = {BandColor(scale, 100 * t)}

\* "rows inside a real outage stay undefined and render as a gap": where most
\* reports are one instant apart, a silence of three or more is never bridged
\* and one of two is.
OutageStaysBlank ==
  chart.drawn =>
    LET p == chart.power
        near == {i \in 1 .. Len(p) - 1 : p[i + 1] - p[i] = 1}
    IN  2 * Cardinality(near) > Len(p) - 1 =>
          \A i \in 1 .. Len(p) - 1 :
            (p[i] + 1 .. p[i + 1] - 1) \cap chart.picture.filled
               = IF p[i + 1] - p[i] < 3 THEN p[i] + 1 .. p[i + 1] - 1 ELSE {}

\* What is drawn beside the pointer never contradicts the strip.
PictureAgreesWithStrip == ShadingAgreesWithStrip /\ MarksAgreeWithStrip

\* The two lines show each sample, in its colour, and no silence.
LinesAreTrue == LineIsWhole /\ GradientIsTrue /\ OutageStaysBlank
=============================================================================
