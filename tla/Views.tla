-------------------------------- MODULE Views --------------------------------
(***************************************************************************)
(* The dashboard's lists: a payload filter as it is typed, sent and        *)
(* applied (src/web/src/components/SearchBar.tsx,                          *)
(* src/src/services/protoDecoder.ts), the history of a machine, merged     *)
(* from its two streams (src/src/routes/dashboard.ts), and the list of     *)
(* machines, sorted and cut into pages (src/web/src/pages/DevicesPage.tsx).*)
(*                                                                         *)
(* The right side of a filter is the sequence of the parts that colons     *)
(* separate.  A definition marked "Slip" is a faulty variant of the one    *)
(* below it, used by no action.                                            *)
(***************************************************************************)
EXTENDS Sequences, SequencesExt, Sorting

CONSTANTS
  PageSize,     \* PAGE_SIZE
  MaxStream,    \* bound: messages in each stream of a machine
  MaxCount,     \* bound: the count of a history request
  MaxRows,      \* bound: machines in the list
  Words,        \* bound: the parts a filter is typed from
  MaxParts,     \* bound: the parts of a filter
  LastMs        \* bound: the last millisecond of a message

ASSUME ViewsAssumption ==
  /\ {PageSize, MaxCount} \subseteq Nat \ {0} /\ {MaxStream, MaxRows, MaxParts, LastMs} \subseteq Nat
  /\ Words \subseteq STRING

VARIABLE view   \* a request and, once it is served, the answer

-----------------------------------------------------------------------------
(* Filters *)

Ops == {"eq", "ne", "gt", "gte", "lt", "lte", "contains", "exists"}

\* Number(s), where it is a number, and String(n)
Numeral == [s \in {"70", "070", "80"} |-> IF s = "80" THEN 80 ELSE 70]
Written == [n \in {70, 80} |-> IF n = 80 THEN "80" ELSE "70"]

Typed(type, parts) == [type |-> type, parts |-> parts]

\* A value that is compared is read as a number or a Boolean if it is one.
Literal(parts) ==
  IF Len(parts) = 1 /\ parts[1] \in DOMAIN Numeral THEN Typed("number", <<Written[Numeral[parts[1]]]>>)
  ELSE IF parts \in {<<"true">>, <<"false">>} THEN Typed("boolean", parts)
  ELSE Typed("string", parts)

\* The operator and the text after it; a single "exists" is an operator.
Split(rhs) ==
  IF rhs = <<"exists">> THEN [op |-> "exists", text |-> <<"true">>]
  ELSE IF Len(rhs) > 1 /\ rhs[1] \in Ops THEN [op |-> rhs[1], text |-> Tail(rhs)]
  ELSE [op |-> "eq", text |-> rhs]

\* parseFilterText: what the search bar keeps of the text
TypedFilter(rhs) ==
  LET s == Split(rhs)
  IN  [op |-> s.op,
       value |-> IF s.op \in {"contains", "exists"} THEN Typed("string", s.text) ELSE Literal(s.text)]

\* Slip: the operator is written in front of every value.
FilterQueryBare(f) == f.value.parts

\* filtersToQuery
FilterQuery(f) ==
  IF f.op = "exists" THEN <<"exists">>
  ELSE IF f.op = "eq" THEN f.value.parts
  ELSE <<f.op>> \o f.value.parts

\* parseFilterParam: the filter the server applies
ParamFilter(rhs) ==
  LET s == Split(rhs)
  IN  [op |-> s.op,
       value |-> CASE s.op = "contains" -> Typed("string", s.text)
                   [] s.op = "exists" -> Typed("boolean", IF s.text = <<"false">> THEN s.text ELSE <<"true">>)
                   [] OTHER -> Literal(s.text)]

\* What a decoded message may have at the path of the filter.
Fields == {Typed("undefined", <<"undefined">>), Typed("number", <<"70">>), Typed("number", <<"80">>),
           Typed("boolean", <<"true">>), Typed("string", <<"70">>), Typed("string", <<"cool">>),
           Typed("string", <<"gt", "70">>)}

\* evaluateFilter: texts are compared, numbers are ordered
Matches(field, f) ==
  LET numbers == field.type = "number" /\ f.value.type = "number"
      n == Numeral[field.parts[1]]  m == Numeral[f.value.parts[1]]
  IN  CASE f.op = "exists" -> (f.value.parts = <<"false">>) = (field.type = "undefined")
        [] f.op = "eq"  -> field.parts = f.value.parts
        [] f.op = "ne"  -> field.parts # f.value.parts
        [] f.op = "gt"  -> numbers /\ n > m
        [] f.op = "gte" -> numbers /\ n >= m
        [] f.op = "lt"  -> numbers /\ n < m
        [] f.op = "lte" -> numbers /\ n <= m
        [] f.op = "contains" -> field.type = "string" /\
             (f.value.parts = <<"">> \/ \E i, j \in DOMAIN field.parts : SubSeq(field.parts, i, j) = f.value.parts)

Selected(rhs) == {field \in Fields : Matches(field, ParamFilter(rhs))}

-----------------------------------------------------------------------------
(* GET /devices/:id/history *)

\* xrevrange: the newest messages of a stream, newest first
NewestOf(stream, count) == SubSeq(Reverse(stream), 1, IF count < Len(stream) THEN count ELSE Len(stream))

\* Slip: one stream after the other.
MergedUnsorted(first, second) == first \o second

\* Sorted by the milliseconds of the identifiers; sort is stable.
Merged(first, second) ==
  LET all == first \o second
      at  == InOrder(DOMAIN all, LAMBDA i, j : all[i].ms > all[j].ms \/ (all[i].ms = all[j].ms /\ i < j))
  IN  [k \in DOMAIN all |-> all[at[k]]]

\* messages.filter(...)
Matching(messages) ==
  LET at == Ascending({k \in DOMAIN messages : messages[k].match})
  IN  [n \in DOMAIN at |-> messages[at[n]]]

HistoryAnswer(up, down, count, filtered) ==
  LET merged == Merged(NewestOf(up, count), NewestOf(down, count))
      kept   == IF filtered THEN Matching(merged) ELSE merged
  IN  SubSeq(kept, 1, IF count < Len(kept) THEN count ELSE Len(kept))

-----------------------------------------------------------------------------
(* The list of machines *)

\* Machines with a raised beacon first, then by number; those whose number
\* has the text that was typed.
Listed(rows) ==
  InOrder({r \in rows : r.found},
          LAMBDA a, b : IF a.beacon # b.beacon THEN a.beacon ELSE a.id < b.id)

PageCount(n) == IF n = 0 THEN 1 ELSE (n + PageSize - 1) \div PageSize

\* safePage: a page that no longer exists becomes the last one.
SafePage(page, n) == IF page < PageCount(n) - 1 THEN page ELSE PageCount(n) - 1

VisibleRows(rows, page) ==
  LET list == Listed(rows)  start == SafePage(page, Len(list)) * PageSize
  IN  SubSeq(list, start + 1, IF start + PageSize < Len(list) THEN start + PageSize ELSE Len(list))

-----------------------------------------------------------------------------
NoView == [kind |-> "none"]

Texts == UNION {[1 .. n -> Words] : n \in 1 .. MaxParts}

\* The machines' streams: oldest first, with repeated milliseconds.
Rising(n) == {f \in [1 .. n -> 0 .. LastMs] : \A i, j \in 1 .. n : i < j => f[i] <= f[j]}

StreamOf(dir, ms, match) ==
  [i \in DOMAIN ms |-> [dir |-> dir, seq |-> i, ms |-> ms[i], match |-> i \in match]]

Streams(dir) ==
  UNION {{StreamOf(dir, ms, match) : ms \in Rising(n), match \in SUBSET (1 .. n)} : n \in 0 .. MaxStream}

ViewsInit ==
  \/ \E rhs \in Texts : view = [kind |-> "filter", rhs |-> rhs]
  \/ \E up \in Streams("fw2mobile"), down \in Streams("mobile2fw"), n \in 1 .. MaxCount, f \in BOOLEAN :
       view = [kind |-> "history", up |-> up, down |-> down, count |-> n, filtered |-> f, answer |-> <<>>]
  \/ \E beacon, found \in [1 .. MaxRows -> BOOLEAN], page \in 0 .. MaxRows :
       view = [kind |-> "list", page |-> page, visible |-> <<>>,
               rows |-> {[id |-> i, beacon |-> beacon[i], found |-> found[i]] : i \in 1 .. MaxRows}]

ViewsIdle == view = NoView

\* The search bar sends a filter, and the server applies it.
SendFilter ==
  /\ view.kind = "filter"
  /\ view' = [kind |-> "filtered", rhs |-> view.rhs, sent |-> FilterQuery(TypedFilter(view.rhs))]

ReadHistory ==
  /\ view.kind = "history"
  /\ view' = [view EXCEPT !.kind = "read",
                          !.answer = HistoryAnswer(view.up, view.down, view.count, view.filtered)]

ShowList ==
  /\ view.kind = "list"
  /\ view' = [view EXCEPT !.kind = "shown", !.visible = VisibleRows(view.rows, view.page)]

ViewsNext == SendFilter \/ ReadHistory \/ ShowList

ViewsSpec == ViewsInit /\ [][ViewsNext]_view

-----------------------------------------------------------------------------
(* Properties *)

\* "what you type here maps 1:1 to backend filtering" (SearchBar.tsx:18): the
\* query selects what the text itself would, through a second parsing of what
\* was parsed and written out; except that `exists:false' loses its value and
\* that `eq:' is dropped before a value that reads as an operator.
FilterSurvives ==
  view.kind = "filtered" =>
    \/ view.rhs[1] = "exists" /\ Len(view.rhs) > 1
    \/ view.rhs[1] = "eq" /\ Len(view.rhs) > 1 /\ view.rhs[2] \in Ops
    \/ Selected(view.sent) = Selected(view.rhs)

\* The history of a machine is its newest messages: as many as were asked
\* for or there are, newest first and each stream in its own order, and none
\* that is left out is newer than one that is shown.  With a filter, a match
\* among the newest messages of the machine is always shown.
HistoryIsNewest ==
  view.kind = "read" =>
    LET all == ToSet(view.up) \cup ToSet(view.down)
        shown == ToSet(view.answer)
        older(a, b) == a.ms < b.ms \/ (a.dir = b.dir /\ a.seq < b.seq)
    IN  /\ \A i, j \in DOMAIN view.answer : i < j => ~older(view.answer[i], view.answer[j])
        /\ Len(view.answer) = Cardinality(shown) /\ Len(view.answer) <= view.count
        /\ ~view.filtered => /\ Len(view.answer) = view.count \/ shown = all
                             /\ \A a \in shown, b \in all \ shown : ~older(a, b)
        /\ view.filtered => \A b \in all :
             b.match /\ Cardinality({a \in all : a.ms >= b.ms}) <= view.count => b \in shown

\* Whatever page was chosen before the list grew or shrank, a page of the
\* list as it is now is shown, never an empty one if there are machines; each
\* machine is on one page, once, and a machine without a beacon is never on an
\* earlier page than one with a beacon.
PageIsShown ==
  view.kind = "shown" =>
    LET list == Listed(view.rows)
        pages == [p \in 1 .. PageCount(Len(list)) |-> VisibleRows(view.rows, p - 1)]
    IN  /\ list # <<>> => view.visible # <<>>
        /\ view.visible \in ToSet(pages)
        /\ \A r \in view.rows : r.found =>
             \E p \in DOMAIN pages, k \in 1 .. PageSize :
               /\ k \in DOMAIN pages[p] /\ pages[p][k] = r
               /\ \A q \in DOMAIN pages : \A l \in DOMAIN pages[q] :
                    pages[q][l] = r => q = p /\ l = k
        /\ \A i, j \in DOMAIN pages : \A a \in ToSet(pages[i]), b \in ToSet(pages[j]) :
             i < j /\ b.beacon => a.beacon

\* Neither list loses, repeats or misplaces an entry at its cuts.
ListsAreTrue == HistoryIsNewest /\ PageIsShown
=============================================================================
