------------------------------- MODULE Beacons -------------------------------
(***************************************************************************)
(* Help beacons (src/src/services/beacons.ts): the DynamoDB items, POST    *)
(* /mobile/beacon which stores one and starts an e-mail alert without      *)
(* waiting for it (src/src/services/beaconAlerts.ts), the dashboard's      *)
(* /devices request, which flags controllers with an active beacon, and    *)
(* an operator's Clear (src/src/routes/dashboard.ts).                      *)
(*                                                                         *)
(* A beacon is its position in `raised', the order of createdAt and so of  *)
(* the sort key.  Every request to DynamoDB is a step of its own between   *)
(* the code before and after its await.  A definition marked "Slip" is a   *)
(* faulty variant of the one below it, used by no action.                  *)
(***************************************************************************)
EXTENDS ServiceClock, Sequences, FiniteSets, FiniteSetsExt, SequencesExt

CONSTANTS
  Phones,
  Machines,      \* controllerIds
  Lifetime,      \* ONE_DAY_SECONDS
  FetchLimit,    \* ACTIVE_BEACONS_FETCH_LIMIT
  Lookback,      \* the window of /devices
  MaxBeacons,    \* bound: beacons
  MaxClears,     \* bound: resolve requests at a time
  MaxBeaconFaults

ASSUME BeaconAssumption ==
  /\ {Lifetime, FetchLimit, Lookback} \subseteq Nat \ {0}
  /\ {MaxBeacons, MaxClears, MaxBeaconFaults} \subseteq Nat

VARIABLES
  raised,    \* every beacon: its controller and expiresAt
  items,     \* those that are in the table
  posts,     \* the request of each phone
  topic,     \* SNS_BEACON_TOPIC_ARN is set
  alerts,    \* what notifyBeaconRaised knows of the alert of each beacon
  publishing,\* publish requests that SNS has not answered
  heard,     \* when each controller was last heard, Never if it has no stream
  clears,    \* resolve requests on their way: the beacon and its :now
  board,     \* the /devices request in progress
  rows,      \* its latest answer, with when and on what it was based
  cleared,   \* history: beacons whose Clear was confirmed
  confirmed, \* history: beacons the phone got a 201 for
  faults     \* how many requests may still fail

beaconVars == <<raised, items, posts, topic, alerts, publishing, heard, clears,
                board, rows, cleared, confirmed, faults>>

Never == -1
NoBeacon == 0
NoPost  == [pc |-> "idle", id |-> NoBeacon]
NoBoard == [pc |-> "idle", asOf |-> 0, had |-> {}, gone |-> {}, active |-> {}]
NoRows  == [list |-> <<>>, had |-> {}, gone |-> {}]

BeaconsInit ==
  /\ raised = <<>> /\ items = {} /\ posts = [p \in Phones |-> NoPost]
  /\ topic \in BOOLEAN /\ alerts = <<>> /\ publishing = {}
  /\ heard \in [Machines -> {Never, 0}] /\ clears = {}
  /\ board = NoBoard /\ rows = NoRows /\ cleared = {} /\ confirmed = {}
  /\ faults \in 0 .. MaxBeaconFaults

Fault == faults > 0 /\ faults' = faults - 1

-----------------------------------------------------------------------------
(* POST /mobile/beacon *)

\* Slip: the controllerId is not looked at.
ValidBeaconAny(body) == body.message \in {"none", "short"}

\* The checks of the route, up to the sub of the token.
ValidBeacon(body) ==
  /\ body.controllerId \in Machines
  /\ body.message \in {"none", "short"}

Bodies == [controllerId : Machines \cup {Never}, message : {"none", "short", "long", "notString"}]

\* createBeacon up to the PutCommand
RaiseBeacon(p) ==
  /\ posts[p].pc = "idle" /\ Len(raised) < MaxBeacons
  /\ \E body \in Bodies :
       /\ ValidBeacon(body)
       /\ raised' = Append(raised, [machine |-> body.controllerId, expiresAt |-> clock + Lifetime])
  /\ posts' = [posts EXCEPT ![p] = [pc |-> "put", id |-> Len(raised')]]
  /\ alerts' = Append(alerts, "none")
  /\ UNCHANGED <<topic, items, publishing, heard, clears, board, rows, cleared, confirmed, faults, clock>>

\* The item is stored; the code after the await starts the alert.
PutBeacon(p) ==
  LET id == posts[p].id IN
  /\ posts[p].pc = "put"
  /\ items' = items \cup {id}
  /\ posts' = [posts EXCEPT ![p].pc = "answer"]
  /\ IF topic THEN /\ alerts' = [alerts EXCEPT ![id] = "sending"]
                   /\ publishing' = publishing \cup {id}
              ELSE alerts' = [alerts EXCEPT ![id] = "skipped"] /\ UNCHANGED publishing
  /\ UNCHANGED <<topic, raised, heard, clears, board, rows, cleared, confirmed, faults, clock>>

\* PutCommand fails, or its reply is lost: 500 and no alert.
PutBeaconFails(p) ==
  /\ posts[p].pc = "put" /\ Fault
  /\ items' \in {items, items \cup {posts[p].id}}
  /\ posts' = [posts EXCEPT ![p] = NoPost]
  /\ UNCHANGED <<topic, raised, alerts, publishing, heard, clears, board, rows, cleared, confirmed, clock>>

\* Slip: the answer waits for the alert.
ConfirmAfterAlert(p) ==
  /\ posts[p].pc = "answer" /\ alerts[posts[p].id] # "sending"
  /\ posts' = [posts EXCEPT ![p] = NoPost]
  /\ confirmed' = confirmed \cup {posts[p].id}
  /\ UNCHANGED <<topic, raised, items, alerts, publishing, heard, clears, board, rows, cleared, faults, clock>>

\* Slip: the answer does not wait for DynamoDB.
ConfirmEarly(p) ==
  /\ posts[p].pc \in {"put", "answer"}
  /\ posts' = [posts EXCEPT ![p] = NoPost]
  /\ confirmed' = confirmed \cup {posts[p].id}
  /\ UNCHANGED <<topic, raised, items, alerts, publishing, heard, clears, board, rows, cleared, faults, clock>>

\* 201
ConfirmBeacon(p) ==
  /\ posts[p].pc = "answer"
  /\ posts' = [posts EXCEPT ![p] = NoPost]
  /\ confirmed' = confirmed \cup {posts[p].id}
  /\ UNCHANGED <<topic, raised, items, alerts, publishing, heard, clears, board, rows, cleared, faults, clock>>

-----------------------------------------------------------------------------
(* notifyBeaconRaised: the publish request races a timer *)

\* The race is settled once; what comes later is ignored.
Settle(id, outcome) ==
  alerts' = [alerts EXCEPT ![id] = IF @ = "sending" THEN outcome ELSE @]

Publish(id) ==
  /\ id \in publishing
  /\ publishing' = publishing \ {id}
  /\ Settle(id, "sent")
  /\ UNCHANGED <<topic, raised, items, posts, heard, clears, board, rows, cleared, confirmed, faults, clock>>

PublishFails(id) ==
  /\ id \in publishing
  /\ publishing' = publishing \ {id}
  /\ Settle(id, "failed")
  /\ UNCHANGED <<topic, raised, items, posts, heard, clears, board, rows, cleared, confirmed, faults, clock>>

\* The timer fires; the publish request is not cancelled.
PublishTimeout(id) ==
  /\ alerts[id] = "sending"
  /\ Settle(id, "failed")
  /\ UNCHANGED <<topic, raised, items, posts, publishing, heard, clears, board, rows, cleared, confirmed, faults, clock>>

-----------------------------------------------------------------------------
(* Clear: POST /dashboard/api/beacons/:createdAt/:beaconId/resolve *)

\* An operator may clear any beacon ever listed; two may clear the same one.
SendClear(id) ==
  /\ id \in items /\ Cardinality(clears) < MaxClears
  /\ clears' = clears \cup {[id |-> id, at |-> clock]}
  /\ board' = [board EXCEPT !.gone = @ \ {id}]
  /\ UNCHANGED <<topic, raised, items, posts, alerts, publishing, heard, rows, cleared, confirmed, faults, clock>>

\* SET expiresAt = :now
Expire(c) == raised' = [raised EXCEPT ![c.id].expiresAt = c.at]

ResolveBeacon(c) ==
  /\ c \in clears /\ c.id \in items
  /\ Expire(c)
  /\ cleared' = cleared \cup {c.id}
  /\ clears' = clears \ {c}
  /\ UNCHANGED <<topic, items, posts, alerts, publishing, heard, board, rows, confirmed, faults, clock>>

\* ConditionalCheckFailedException, 404: the ttl has removed the item.
ResolveMissing(c) ==
  /\ c \in clears /\ c.id \notin items
  /\ clears' = clears \ {c}
  /\ UNCHANGED <<topic, raised, items, posts, alerts, publishing, heard, board, rows, cleared, confirmed, faults, clock>>

-----------------------------------------------------------------------------
(* listBeacons and GET /dashboard/api/devices *)

\* expiresAt > :now
Active(id, asOf) == raised[id].expiresAt > asOf

\* The newest n items of the partition: Limit counts items before the filter.
Newest(n) == {id \in items : Cardinality({j \in items : j > id}) < n}

ListBeacons(asOf, n) == {id \in Newest(n) : Active(id, asOf)}

OpenBoard ==
  /\ board.pc = "idle"
  /\ board' = [NoBoard EXCEPT !.pc = "query", !.asOf = clock,
                              !.had = items, !.gone = cleared \ {c.id : c \in clears}]
  /\ rows' = NoRows
  /\ UNCHANGED <<topic, raised, items, posts, alerts, publishing, heard, clears, cleared, confirmed, faults, clock>>

QueryBeacons ==
  /\ board.pc = "query"
  /\ board' = [board EXCEPT !.pc = "rows",
                 !.active = {raised[id].machine : id \in ListBeacons(board.asOf, FetchLimit)}]
  /\ UNCHANGED <<topic, raised, items, posts, alerts, publishing, heard, clears, rows, cleared, confirmed, faults, clock>>

\* ageMs ?? MAX_SAFE_INTEGER
Age(m) == IF heard[m] = Never THEN MaxTime + 1 ELSE clock - heard[m]

\* Beacons first, then the most recently heard.
RowBefore(a, b) ==
  \/ a.beacon /\ ~b.beacon
  \/ a.beacon = b.beacon /\ a.age < b.age

\* Slip: rows come from the heartbeats of the window alone.
RowsHeard(active) ==
  LET fresh == {m \in Machines : heard[m] # Never /\ heard[m] >= board.asOf - Lookback}
  IN  {[machine |-> m, beacon |-> m \in active, age |-> Age(m)] : m \in fresh}

\* A row for every controller heard in the window and for every other one
\* with an active beacon.
Rows(active) ==
  LET fresh == {m \in Machines : heard[m] # Never /\ heard[m] >= board.asOf - Lookback}
  IN  {[machine |-> m, beacon |-> m \in active, age |-> Age(m)] : m \in fresh \cup active}

\* devices.sort: rows that compare equal stay as they came, in any order.
Sorted(set) ==
  {list \in [1 .. Cardinality(set) -> set] :
     /\ Range(list) = set
     /\ \A i, j \in DOMAIN list : i < j => ~RowBefore(list[j], list[i])}

ShowRows ==
  /\ board.pc = "rows"
  /\ \E list \in Sorted(Rows(board.active)) :
       rows' = [list |-> list, had |-> board.had, gone |-> board.gone]
  /\ board' = NoBoard
  /\ UNCHANGED <<topic, raised, items, posts, alerts, publishing, heard, clears, cleared, confirmed, faults, clock>>

-----------------------------------------------------------------------------
\* DynamoDB's TTL removes an expired item some time later.
PurgeBeacon(id) ==
  /\ id \in items /\ raised[id].expiresAt < clock
  /\ items' = items \ {id}
  /\ UNCHANGED <<topic, raised, posts, alerts, publishing, heard, clears, board, rows, cleared, confirmed, faults, clock>>

\* The process is replaced: requests and alerts in progress are gone.
ServerRestart ==
  /\ Fault
  /\ posts' = [p \in Phones |-> NoPost] /\ board' = NoBoard
  /\ alerts' = [id \in DOMAIN alerts |-> IF alerts[id] = "sending" THEN "lost" ELSE alerts[id]]
  /\ publishing' = {} /\ clears' = {}
  /\ UNCHANGED <<topic, raised, items, heard, rows, cleared, confirmed, clock>>

BeaconTick ==
  /\ ClockTick
  /\ UNCHANGED <<topic, raised, items, posts, alerts, publishing, heard, clears, board, rows, cleared, confirmed, faults>>

\* DynamoDB and the code after it; nothing is assumed of SNS.
PostSteps(p) == PutBeacon(p) \/ ConfirmBeacon(p)

PostsNext  == \E p \in Phones : RaiseBeacon(p) \/ PutBeaconFails(p) \/ PostSteps(p)
AlertsNext == \E id \in DOMAIN raised : Publish(id) \/ PublishFails(id) \/ PublishTimeout(id)
BoardNext  == OpenBoard \/ QueryBeacons \/ ShowRows
ItemsNext  ==
  \/ \E id \in DOMAIN raised : SendClear(id) \/ PurgeBeacon(id)
  \/ \E c \in clears : ResolveBeacon(c) \/ ResolveMissing(c)

BeaconsNext ==
  \/ PostsNext \/ AlertsNext \/ BoardNext \/ ItemsNext
  \/ ServerRestart \/ BeaconTick

BeaconsSpec == BeaconsInit /\ ClockInit /\ [][BeaconsNext]_<<beaconVars, clock>>

-----------------------------------------------------------------------------
(* Properties *)

\* Every variable has its type.
BeaconsTypeOK ==
  /\ clock \in 0 .. MaxTime
  /\ \A id \in DOMAIN raised : /\ raised[id].machine \in Machines
                               /\ raised[id].expiresAt \in 0 .. MaxTime + Lifetime
  /\ items \subseteq DOMAIN raised /\ Len(alerts) = Len(raised)
  /\ Range(alerts) \subseteq {"none", "sending", "sent", "failed", "lost", "skipped"}
  /\ \A p \in Phones : posts[p].pc \in {"idle", "put", "answer"} /\ posts[p].id \in 0 .. Len(raised)
  /\ heard \in [Machines -> Never .. MaxTime]

Flagged == {r.machine : r \in {x \in Range(rows.list) : x.beacon}}

\* "A raised beacon must NEVER be invisible" (dashboard.ts:174): a beacon
\* that was stored when the request began and is still active has a flagged
\* row, machine powered down or not, as long as fewer than FetchLimit later
\* beacons were raised, whatever is cleared, purged or restarted meanwhile.
RecentIsVisible ==
  \A id \in rows.had :
    Active(id, clock) /\ Len(raised) - id < FetchLimit => raised[id].machine \in Flagged

\* "cleared beacons disappear from the dashboard immediately" (beacons.ts:12):
\* a cleared beacon is never active again, and a request that begins after
\* the Clear flags the machine for another beacon only, unless a second Clear
\* of the same beacon is on its way then.
ClearedIsGone ==
  /\ \A id \in cleared : ~Active(id, clock)
  /\ \A m \in Flagged : \E id \in DOMAIN raised \ rows.gone : raised[id].machine = m

\* The device list flags those machines that have a beacon, although it is
\* made of a query and of rows while beacons come and go.
BoardIsCurrent == RecentIsVisible /\ ClearedIsGone

\* What the phone was told stays true: a confirmed beacon is in the table
\* until it was cleared or its day is over, and SNS was asked to announce it
\* unless the process died.
ConfirmedIsDurable ==
  \A id \in confirmed :
    /\ id \in items \/ raised[id].expiresAt < clock
    /\ alerts[id] # "none"

\* The outcome that was logged for an alert stands, whichever of the publish
\* request and the timer ends later.
OutcomeStands ==
  [][\A id \in DOMAIN alerts : alerts[id] \in {"sent", "failed", "lost"} => alerts'[id] = alerts[id]]_beaconVars

\* SNS "must never delay the HTTP confirmation" (beacons.ts:18): a phone gets
\* its answer as soon as DynamoDB gives one, whether or not SNS ever answers
\* and the alert's timer ever fires.
PhoneIsAnswered == \A p \in Phones : posts[p].pc = "put" ~> posts[p].pc = "idle"
=============================================================================
