---------------------------- MODULE OperatorPanel ----------------------------
(***************************************************************************)
(* The detail page of a machine in the dashboard: the button "Mark all     *)
(* received" (src/web/src/pages/DeviceDetail/index.tsx), its mutation      *)
(* (useDeviceMutations.ts) and the count of queued commands beside it,     *)
(* polled by useDeviceQueue.ts.                                            *)
(*                                                                         *)
(* The page stays mounted when the operator opens another machine, while   *)
(* requests are on their way.  The server and the query cache of TanStack  *)
(* are external; an answer of the count is the number of times the queue   *)
(* had been emptied when the server read it.  A query that has no data yet *)
(* is not started again by an invalidation: TanStack joins the fetch that  *)
(* is on its way, as its fetch() does whenever there is nothing to keep.   *)
(* A definition marked "Slip" is a faulty variant of the one below it,     *)
(* used by no action.                                                      *)
(***************************************************************************)
EXTENDS ServiceClock

CONSTANTS
  Panels,       \* machines whose page the operator opens
  ConfirmTime,  \* a staged confirmation is cancelled after this (4 s)
  ResultTime,   \* the summary is hidden after this (6 s)
  MaxMarks      \* bound: requests of one machine

ASSUME PanelAssumption ==
  /\ Panels # {} /\ ConfirmTime \in Nat /\ ResultTime \in Nat /\ MaxMarks \in Nat

VARIABLES
  page,       \* controllerId of the page
  staged,     \* confirming, and since when
  marking,    \* the mutation that is pending, and whether the server has it
  summary,    \* recentResult, and since when
  marks,      \* how often the server emptied the queue of each machine
  badge,      \* the query cache: the last answer for each machine, or NoData
  poll,       \* the query of each machine that is on its way
  lastClick,  \* ghost: the last click on the button
  known       \* ghost: the marks of each machine whose success its page has shown

panelVars == <<page, staged, marking, summary, marks, badge, poll, lastClick, known>>

NoTime == -1
NoRequest == [of |-> "nobody", at |-> "nowhere"]
NoData == -1
NoPoll == [state |-> "idle", read |-> 0]
Asked == [state |-> "asked", read |-> 0]

PanelInit ==
  /\ page \in Panels
  /\ staged = NoTime /\ marking = NoRequest /\ summary = NoTime
  /\ marks = [c \in Panels |-> 0] /\ badge = [c \in Panels |-> NoData]
  /\ poll = [c \in Panels |-> NoPoll]
  /\ lastClick = [of |-> "nobody", at |-> NoTime] /\ known = [c \in Panels |-> 0]

-----------------------------------------------------------------------------
(* The button *)

\* Slip: the staged confirmation outlives the page it was made on.
OpenPageStaged(c) ==
  /\ c # page
  /\ page' = c /\ summary' = NoTime
  /\ UNCHANGED <<staged, marking, marks, badge, poll, lastClick, known, clock>>

\* Another machine: the effects on controllerId run with the render.
OpenPage(c) ==
  /\ c # page
  /\ page' = c /\ staged' = NoTime /\ summary' = NoTime
  /\ UNCHANGED <<marking, marks, badge, poll, lastClick, known, clock>>

\* onClick: there is no button while a summary is shown, and it is disabled
\* while a request is pending.
StageClick ==
  /\ summary = NoTime /\ marking = NoRequest /\ staged = NoTime
  /\ staged' = clock
  /\ lastClick' = [of |-> page, at |-> clock]
  /\ UNCHANGED <<page, marking, summary, marks, badge, poll, known, clock>>

ConfirmClick ==
  /\ summary = NoTime /\ marking = NoRequest /\ staged # NoTime
  /\ marks[page] < MaxMarks
  /\ staged' = NoTime
  /\ marking' = [of |-> page, at |-> "sent"]
  /\ lastClick' = [of |-> page, at |-> clock]
  /\ UNCHANGED <<page, summary, marks, badge, poll, known, clock>>

\* The timers of the two effects.
Unstage ==
  /\ staged # NoTime /\ clock >= staged + ConfirmTime
  /\ staged' = NoTime
  /\ UNCHANGED <<page, marking, summary, marks, badge, poll, lastClick, known, clock>>

HideSummary ==
  /\ summary # NoTime /\ clock >= summary + ResultTime
  /\ summary' = NoTime
  /\ UNCHANGED <<page, staged, marking, marks, badge, poll, lastClick, known, clock>>

-----------------------------------------------------------------------------
(* The mutation *)

\* POST /devices/:id/mark-all-received
ServerMarks ==
  /\ marking.at = "sent"
  /\ marking' = [marking EXCEPT !.at = "done"]
  /\ marks' = [marks EXCEPT ![marking.of] = @ + 1]
  /\ UNCHANGED <<page, staged, summary, badge, poll, lastClick, known, clock>>

\* Slip: a query that is on its way is as good as a new one.
InvalidateJoining(c) == IF poll[c] = NoPoll THEN Asked ELSE poll[c]

\* invalidateQueries: the query of the page that is shown starts again, and an
\* answer that is on its way is dropped if there is a count to go on showing;
\* the first fetch of a page is joined.  Other queries are left alone.
Invalidate(c) == IF poll[c] = NoPoll \/ badge[c] # NoData THEN Asked ELSE poll[c]

\* onSuccess of the hook and of the button, which stays mounted.
MarkSucceeds ==
  /\ marking.at = "done"
  /\ marking' = NoRequest /\ summary' = clock
  /\ poll' = [poll EXCEPT ![page] = Invalidate(page)]
  /\ known' = IF marking.of = page THEN [known EXCEPT ![page] = marks[page]] ELSE known
  /\ UNCHANGED <<page, staged, marks, badge, lastClick, clock>>

\* The request or its answer is lost: the queue may have been emptied.
MarkFails ==
  /\ marking # NoRequest
  /\ marking' = NoRequest
  /\ UNCHANGED <<page, staged, summary, marks, badge, poll, lastClick, known, clock>>

-----------------------------------------------------------------------------
(* The count *)

\* refetchInterval and the fetch on mount: of the page that is shown
StartPoll ==
  /\ poll[page] = NoPoll
  /\ poll' = [poll EXCEPT ![page] = Asked]
  /\ UNCHANGED <<page, staged, marking, summary, marks, badge, lastClick, known, clock>>

\* GET /devices/:id/queue
ReadDepth(c) ==
  /\ poll[c].state = "asked"
  /\ poll' = [poll EXCEPT ![c] = [state |-> "read", read |-> marks[c]]]
  /\ UNCHANGED <<page, staged, marking, summary, marks, badge, lastClick, known, clock>>

\* The answer is cached, whether the page is still shown or not.
CacheDepth(c) ==
  /\ poll[c].state = "read"
  /\ badge' = [badge EXCEPT ![c] = poll[c].read]
  /\ poll' = [poll EXCEPT ![c] = NoPoll]
  /\ UNCHANGED <<page, staged, marking, summary, marks, lastClick, known, clock>>

\* No answer: the same fetch asks again (`retry: 1'; how often is left open).
PollRetries(c) ==
  /\ poll[c].state = "read"
  /\ poll' = [poll EXCEPT ![c] = Asked]
  /\ UNCHANGED <<page, staged, marking, summary, marks, badge, lastClick, known, clock>>

\* It asks no more: the query keeps what it has.
PollFails(c) ==
  /\ poll[c] # NoPoll
  /\ poll' = [poll EXCEPT ![c] = NoPoll]
  /\ UNCHANGED <<page, staged, marking, summary, marks, badge, lastClick, known, clock>>

\* The cache drops what has not been shown for long (gcTime).
Forget(c) ==
  /\ c # page /\ poll[c] = NoPoll /\ badge[c] # NoData
  /\ badge' = [badge EXCEPT ![c] = NoData]
  /\ UNCHANGED <<page, staged, marking, summary, marks, poll, lastClick, known, clock>>

\* A timer that is due fires before time goes on.
PanelTick ==
  /\ staged # NoTime => clock < staged + ConfirmTime
  /\ summary # NoTime => clock < summary + ResultTime
  /\ ClockTick /\ UNCHANGED panelVars

PanelNext ==
  \/ \E c \in Panels :
       \/ OpenPage(c) \/ ReadDepth(c) \/ CacheDepth(c)
       \/ PollRetries(c) \/ PollFails(c) \/ Forget(c)
  \/ StageClick \/ ConfirmClick \/ Unstage \/ HideSummary
  \/ ServerMarks \/ MarkSucceeds \/ MarkFails \/ StartPoll
  \/ PanelTick

PanelSpec == PanelInit /\ ClockInit /\ [][PanelNext]_<<panelVars, clock>>

-----------------------------------------------------------------------------
(* Properties *)

\* Every variable has its type, and nothing is staged while a request is
\* pending.
PanelTypeOK ==
  /\ marking = NoRequest \/ staged = NoTime
  /\ page \in Panels /\ {staged, summary, lastClick.at} \subseteq NoTime .. MaxTime
  /\ marking \in {NoRequest} \cup [of : Panels, at : {"sent", "done"}]
  /\ \A f \in {marks, known} : f \in [Panels -> 0 .. MaxMarks]
  /\ badge \in [Panels -> NoData .. MaxMarks]
  /\ poll \in [Panels -> [state : {"idle", "asked", "read"}, read : 0 .. MaxMarks]]

\* "a deliberate confirm before discarding queued mobile commands"
\* (index.tsx:155): the queue of a machine is only marked after a click
\* on the page of that machine, and a second one at most ConfirmTime later.
MarkIsDeliberate ==
  [][marking'.at = "sent" /\ marking.at # "sent" =>
       lastClick.of = marking'.of /\ clock - lastClick.at <= ConfirmTime]_<<panelVars, clock>>

\* "every device-scoped query is invalidated so the UI reflects the cleared
\* queue immediately" (useDeviceMutations.ts:10): from when the success is
\* known on a machine's page, no count read before it replaces the one shown.
\* The first count of a page is exempt: its fetch may have been joined.
CountIsFresh ==
  [][\A c \in Panels :
       badge'[c] # badge[c] /\ badge[c] # NoData /\ badge'[c] # NoData =>
         badge'[c] >= known[c]]_<<panelVars, clock>>
=============================================================================
