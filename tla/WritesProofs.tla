---------------------------- MODULE WritesProofs ----------------------------
(***************************************************************************)
(* Theorems about the components of MCWrites, each for every value of its  *)
(* constants: the beacons, the operator's panel, the life of the process   *)
(* and the ledgers of consents and associations.                           *)
(***************************************************************************)
EXTENDS Beacons, OperatorPanel, ServerLife, Ledgers, SequenceTheorems, FiniteSetTheorems,
        WellFoundedInduction, TLAPS

-----------------------------------------------------------------------------
(***************************************************************************)
(* Theorems about Beacons for every number of phones, machines, beacons    *)
(* and faults: what a phone was told of its beacon stays true, and the     *)
(* outcome of an alert is settled once.                                    *)
(*                                                                         *)
(* A request knows its beacon before it is confirmed, so the invariant     *)
(* follows the requests: no two have the same beacon (PostsAreApart), one  *)
(* that is not stored yet has no alert (NoAlertYet), and one that is about *)
(* to be confirmed has its item and its alert already (AnswersAreTrue).    *)
(*                                                                         *)
(* The device list is made of a query and of rows, and beacons come and go *)
(* in between.  BoardInv says what each stage may rely on: while the query *)
(* is on its way, what the request had is stored or inactive and what was  *)
(* gone stays gone, for no Clear of it is pending; after it, the machines  *)
(* to flag are all the recent ones and none but earned ones.               *)
(***************************************************************************)

Outcomes == {"none", "sending", "sent", "failed", "lost", "skipped"}

\* BeaconsTypeOK, with what it leaves out
BeaconsTyped ==
  /\ clock \in 0 .. MaxTime
  /\ raised \in Seq([machine : Machines, expiresAt : 0 .. MaxTime + Lifetime])
  /\ alerts \in Seq(Outcomes) /\ Len(alerts) = Len(raised)
  /\ items \subseteq DOMAIN raised /\ publishing \subseteq DOMAIN raised
  /\ confirmed \subseteq DOMAIN raised
  /\ posts \in [Phones -> [pc : {"idle", "put", "answer"}, id : Nat]]
  /\ \A p \in Phones : /\ posts[p].id \in 0 .. Len(raised)
                       /\ posts[p].pc # "idle" => posts[p].id \in DOMAIN raised
  /\ \A c \in clears : c.id \in DOMAIN raised /\ c.at \in 0 .. clock
  /\ heard \in [Machines -> Never .. MaxTime]

PostsAreApart ==
  \A p, q \in Phones :
    posts[p].pc # "idle" /\ posts[q].pc # "idle" /\ posts[p].id = posts[q].id => p = q

NoAlertYet == \A p \in Phones : posts[p].pc = "put" => alerts[posts[p].id] = "none"

\* What is said of a beacon that is stored or was
Durable(id) ==
  /\ id \in items \/ raised[id].expiresAt < clock
  /\ alerts[id] # "none"

AnswersAreTrue == \A p \in Phones : posts[p].pc = "answer" => Durable(posts[p].id)

BeaconsInv ==
  /\ BeaconsTyped /\ PostsAreApart /\ NoAlertYet /\ AnswersAreTrue
  /\ \A id \in confirmed : Durable(id)

-----------------------------------------------------------------------------
LEMMA BeaconsInitial == BeaconsInit /\ ClockInit => BeaconsInv
<1> SUFFICES ASSUME BeaconsInit, ClockInit PROVE BeaconsInv
  OBVIOUS
<1>1. raised = <<>> /\ alerts = <<>> /\ items = {} /\ publishing = {} /\ confirmed = {} /\ clears = {}
      /\ posts = [p \in Phones |-> NoPost] /\ clock = 0
  BY DEF BeaconsInit, ClockInit
<1>2. BeaconsTyped
  <2>1. heard \in [Machines -> Never .. MaxTime]
    BY ClockAssumption DEF BeaconsInit, Never
  <2>2. raised \in Seq([machine : Machines, expiresAt : 0 .. MaxTime + Lifetime])
        /\ alerts \in Seq(Outcomes) /\ Len(alerts) = Len(raised) /\ Len(raised) = 0
    BY <1>1
  <2>3. posts \in [Phones -> [pc : {"idle", "put", "answer"}, id : Nat]]
        /\ \A p \in Phones : posts[p].pc = "idle" /\ posts[p].id = 0
    BY <1>1 DEF NoPost, NoBeacon
  <2> QED BY <1>1, <2>1, <2>2, <2>3, ClockAssumption DEF BeaconsTyped
<1> QED BY <1>1, <1>2 DEF BeaconsInv, PostsAreApart, NoAlertYet, AnswersAreTrue, NoPost

\* A phone's request that begins: its beacon is nobody else's.
LEMMA RaiseStep ==
  ASSUME BeaconsInv, NEW p \in Phones, RaiseBeacon(p)
  PROVE  BeaconsInv'
<1> DEFINE n == Len(raised) + 1
<1>1. PICK b \in [machine : Machines, expiresAt : 0 .. MaxTime + Lifetime] : raised' = Append(raised, b)
  <2>1. PICK m \in Machines : raised' = Append(raised, [machine |-> m, expiresAt |-> clock + Lifetime])
    BY DEF RaiseBeacon, ValidBeacon
  <2>2. clock + Lifetime \in 0 .. MaxTime + Lifetime
    BY ClockAssumption, BeaconAssumption DEF BeaconsInv, BeaconsTyped
  <2> QED BY <2>1, <2>2
<1>2. /\ posts' = [posts EXCEPT ![p] = [pc |-> "put", id |-> Len(raised')]]
      /\ alerts' = Append(alerts, "none")
      /\ UNCHANGED <<items, publishing, heard, clears, confirmed, clock>>
  BY DEF RaiseBeacon
<1>3. /\ raised' \in Seq([machine : Machines, expiresAt : 0 .. MaxTime + Lifetime])
      /\ Len(raised') = n /\ DOMAIN raised' = 1 .. n /\ DOMAIN raised = 1 .. Len(raised)
      /\ Len(raised) \in Nat
      /\ \A id \in DOMAIN raised : id \in DOMAIN raised' /\ raised'[id] = raised[id]
  BY <1>1 DEF BeaconsInv, BeaconsTyped
<1>4. /\ alerts' \in Seq(Outcomes) /\ Len(alerts') = n /\ alerts'[n] = "none"
      /\ \A id \in DOMAIN raised : alerts'[id] = alerts[id]
  BY <1>2 DEF BeaconsInv, BeaconsTyped, Outcomes
<1>5. /\ posts' \in [Phones -> [pc : {"idle", "put", "answer"}, id : Nat]]
      /\ posts'[p].pc = "put" /\ posts'[p].id = n
      /\ \A q \in Phones : q # p => posts'[q] = posts[q]
  BY <1>2, <1>3 DEF BeaconsInv, BeaconsTyped
<1> HIDE DEF n
<1>6. BeaconsTyped'
  <2>1. \A q \in Phones : /\ posts'[q].id \in 0 .. Len(raised')
                          /\ posts'[q].pc # "idle" => posts'[q].id \in DOMAIN raised'
    <3>1. n \in Nat /\ n \in 1 .. n /\ n \in 0 .. n /\ 1 .. Len(raised) \subseteq 1 .. n
          /\ 0 .. Len(raised) \subseteq 0 .. n
      BY <1>3 DEF n
    <3>2. \A q \in Phones : q # p =>
            /\ posts'[q].id \in 0 .. Len(raised)
            /\ posts'[q].pc # "idle" => posts'[q].id \in DOMAIN raised
      BY <1>5 DEF BeaconsInv, BeaconsTyped
    <3> QED BY <1>3, <1>5, <3>1, <3>2
  <2>2. /\ items' \subseteq DOMAIN raised' /\ publishing' \subseteq DOMAIN raised'
        /\ confirmed' \subseteq DOMAIN raised'
        /\ \A c \in clears' : c.id \in DOMAIN raised' /\ c.at \in 0 .. clock'
    BY <1>2, <1>3 DEF BeaconsInv, BeaconsTyped
  <2>3. clock' \in 0 .. MaxTime /\ heard' \in [Machines -> Never .. MaxTime]
    BY <1>2 DEF BeaconsInv, BeaconsTyped
  <2> QED BY <1>3, <1>4, <1>5, <2>1, <2>2, <2>3 DEF BeaconsTyped
<1>7. \A q \in Phones : q # p /\ posts[q].pc # "idle" => posts[q].id \in DOMAIN raised /\ posts[q].id # n
  BY <1>3 DEF BeaconsInv, BeaconsTyped, n
<1>8. PostsAreApart' /\ NoAlertYet'
  BY SMTT(30), <1>4, <1>5, <1>7 DEF BeaconsInv, PostsAreApart, NoAlertYet
<1>9. \A id \in DOMAIN raised : Durable(id) => Durable(id)'
  BY <1>2, <1>3, <1>4 DEF Durable
<1>10. AnswersAreTrue'
  BY <1>5, <1>7, <1>9 DEF BeaconsInv, AnswersAreTrue
<1>11. \A id \in confirmed' : Durable(id)'
  BY <1>2, <1>9 DEF BeaconsInv, BeaconsTyped
<1> QED BY <1>6, <1>8, <1>10, <1>11 DEF BeaconsInv

\* Every other step leaves the beacons that were raised, and moves the item,
\* the alert or the expiry of one at a time.
LEMMA KeepsStep ==
  ASSUME BeaconsInv, BeaconsTyped',
         \A p \in Phones : posts'[p].pc # "idle" => posts[p].pc # "idle" /\ posts'[p].id = posts[p].id,
         \A p \in Phones : posts'[p].pc = "put" => posts[p].pc = "put" /\ alerts'[posts[p].id] = "none",
         \A p \in Phones : posts'[p].pc = "answer" /\ posts[p].pc # "answer" => Durable(posts[p].id)',
         \A id \in DOMAIN raised : Durable(id) => Durable(id)',
         \A id \in confirmed' : id \in confirmed \/ \E p \in Phones : posts[p].pc = "answer" /\ posts[p].id = id
  PROVE  BeaconsInv'
<1>1. PostsAreApart'
  BY DEF BeaconsInv, PostsAreApart
<1>2. NoAlertYet'
  BY DEF NoAlertYet
<1>3. \A p \in Phones : posts[p].pc = "answer" => posts[p].id \in DOMAIN raised /\ Durable(posts[p].id)
  BY DEF BeaconsInv, BeaconsTyped, AnswersAreTrue
<1>4. AnswersAreTrue'
  BY <1>3 DEF AnswersAreTrue
<1>5. ASSUME NEW id \in confirmed'
      PROVE  Durable(id)'
  <2>1. id \in DOMAIN raised /\ Durable(id)
    BY <1>3 DEF BeaconsInv, BeaconsTyped
  <2> QED BY <2>1
<1> QED BY <1>1, <1>2, <1>4, <1>5 DEF BeaconsInv

\* The request of one phone goes on.
LEMMA PutStep ==
  ASSUME BeaconsInv, NEW p \in Phones, PutBeacon(p)
  PROVE  BeaconsInv'
<1> DEFINE id == posts[p].id
           b == IF topic THEN "sending" ELSE "skipped"
<1>1. /\ posts[p].pc = "put" /\ id \in DOMAIN raised /\ alerts \in Seq(Outcomes)
      /\ DOMAIN raised = 1 .. Len(alerts) /\ Len(alerts) \in Nat
  BY DEF PutBeacon, BeaconsInv, BeaconsTyped
<1>2. /\ items' = items \cup {id} /\ alerts' = [alerts EXCEPT ![id] = b]
      /\ publishing' \subseteq publishing \cup {id}
      /\ posts' = [posts EXCEPT ![p].pc = "answer"]
      /\ UNCHANGED <<raised, heard, clears, confirmed, clock>>
  BY DEF PutBeacon
<1>3. b \in Outcomes /\ b # "none"
  BY DEF Outcomes
<1> HIDE DEF b
<1>4. /\ alerts' \in Seq(Outcomes) /\ Len(alerts') = Len(alerts)
      /\ \A j \in DOMAIN raised : alerts'[j] = IF j = id THEN b ELSE alerts[j]
  BY <1>1, <1>2, <1>3, ExceptSeq
<1>5. /\ posts' \in [Phones -> [pc : {"idle", "put", "answer"}, id : Nat]]
      /\ posts'[p].pc = "answer" /\ posts'[p].id = id
      /\ \A q \in Phones : q # p => posts'[q] = posts[q]
  BY <1>2 DEF BeaconsInv, BeaconsTyped
<1>6. BeaconsTyped'
  BY <1>1, <1>2, <1>4, <1>5 DEF BeaconsInv, BeaconsTyped
<1>7. \A j \in DOMAIN raised : Durable(j) => Durable(j)'
  BY <1>2, <1>3, <1>4 DEF Durable
<1>8. Durable(id)'
  BY <1>1, <1>2, <1>3, <1>4 DEF Durable
<1>9. \A q \in Phones : posts'[q].pc = "put" => posts[q].pc = "put" /\ alerts'[posts[q].id] = "none"
  BY <1>1, <1>4, <1>5 DEF BeaconsInv, BeaconsTyped, PostsAreApart, NoAlertYet
<1> QED BY <1>1, <1>2, <1>5, <1>6, <1>7, <1>8, <1>9, KeepsStep

LEMMA EndPostStep ==
  ASSUME BeaconsInv, NEW p \in Phones, PutBeaconFails(p) \/ ConfirmBeacon(p)
  PROVE  BeaconsInv'
<1>1. /\ posts' = [posts EXCEPT ![p] = NoPost] /\ items \subseteq items'
      /\ items' \subseteq items \cup {posts[p].id} /\ posts[p].pc # "idle"
      /\ \A id \in confirmed' : id \in confirmed \/ (posts[p].pc = "answer" /\ posts[p].id = id)
      /\ UNCHANGED <<raised, alerts, publishing, heard, clears, clock>>
  BY DEF PutBeaconFails, ConfirmBeacon
<1>2. /\ posts' \in [Phones -> [pc : {"idle", "put", "answer"}, id : Nat]]
      /\ posts'[p].pc = "idle" /\ posts'[p].id = 0
      /\ \A q \in Phones : q # p => posts'[q] = posts[q]
  BY <1>1 DEF BeaconsInv, BeaconsTyped, NoPost, NoBeacon
<1>3. BeaconsTyped'
  <2>1. Len(raised) \in Nat /\ posts[p].id \in DOMAIN raised
    BY <1>1 DEF BeaconsInv, BeaconsTyped
  <2> QED BY <1>1, <1>2, <2>1 DEF BeaconsInv, BeaconsTyped
<1>4. \A j \in DOMAIN raised : Durable(j) => Durable(j)'
  BY <1>1 DEF Durable
<1>5. \A q \in Phones : posts'[q].pc = "put" => posts[q].pc = "put" /\ alerts'[posts[q].id] = "none"
  BY <1>1, <1>2 DEF BeaconsInv, NoAlertYet
<1> QED BY <1>1, <1>2, <1>3, <1>4, <1>5, KeepsStep

\* The race of an alert settles, or is too late.
LEMMA SettleStep ==
  ASSUME BeaconsInv, NEW id \in DOMAIN raised, Publish(id) \/ PublishFails(id) \/ PublishTimeout(id)
  PROVE  BeaconsInv'
<1>1. PICK outcome \in {"sent", "failed"} : Settle(id, outcome)
  BY DEF Publish, PublishFails, PublishTimeout
<1>2. /\ publishing' \subseteq publishing
      /\ UNCHANGED <<raised, items, posts, heard, clears, confirmed, clock>>
  BY DEF Publish, PublishFails, PublishTimeout
<1>3. alerts \in Seq(Outcomes) /\ Len(alerts) = Len(raised) /\ DOMAIN raised = 1 .. Len(alerts)
  BY DEF BeaconsInv, BeaconsTyped
<1> DEFINE b == IF alerts[id] = "sending" THEN outcome ELSE alerts[id]
<1>4. b \in Outcomes /\ alerts' = [alerts EXCEPT ![id] = b] /\ (b = "none" <=> alerts[id] = "none")
  BY <1>1, <1>3 DEF Settle, Outcomes
<1> HIDE DEF b
<1>5. /\ alerts' \in Seq(Outcomes) /\ Len(alerts') = Len(alerts)
      /\ \A j \in DOMAIN raised : alerts'[j] = IF j = id THEN b ELSE alerts[j]
  BY <1>3, <1>4, ExceptSeq
<1>6. BeaconsTyped'
  BY <1>2, <1>5 DEF BeaconsInv, BeaconsTyped
<1>7. \A j \in DOMAIN raised : /\ alerts'[j] = "none" <=> alerts[j] = "none"
                               /\ Durable(j) => Durable(j)'
  BY <1>2, <1>4, <1>5 DEF Durable
<1>8. \A q \in Phones : posts'[q].pc = "put" => posts[q].pc = "put" /\ alerts'[posts[q].id] = "none"
  BY <1>2, <1>7 DEF BeaconsInv, BeaconsTyped, NoAlertYet
<1> QED BY <1>2, <1>6, <1>7, <1>8, KeepsStep

\* An operator's Clear takes effect: the expiry of one item is the instant at
\* which it was asked for.
LEMMA ResolveStep ==
  ASSUME BeaconsInv, NEW c \in clears, ResolveBeacon(c)
  PROVE  BeaconsInv'
<1> DEFINE R == [machine : Machines, expiresAt : 0 .. MaxTime + Lifetime]
           b == [raised[c.id] EXCEPT !.expiresAt = c.at]
<1>1. /\ c.id \in items /\ raised' = [raised EXCEPT ![c.id] = b] /\ clears' \subseteq clears
      /\ UNCHANGED <<items, posts, alerts, publishing, heard, confirmed, clock>>
  BY DEF ResolveBeacon, Expire
<1>2. raised \in Seq(R) /\ c.id \in DOMAIN raised /\ DOMAIN raised = 1 .. Len(raised) /\ c.at \in 0 .. clock
      /\ clock \in 0 .. MaxTime
  BY DEF BeaconsInv, BeaconsTyped
<1>3. b \in R
  <2>1. raised[c.id] \in R
    BY <1>2, ElementOfSeq
  <2>2. c.at \in 0 .. MaxTime + Lifetime
    BY <1>2, ClockAssumption, BeaconAssumption
  <2> QED BY <2>1, <2>2
<1> HIDE DEF b
<1>4. /\ raised' \in Seq(R) /\ Len(raised') = Len(raised)
      /\ \A j \in DOMAIN raised : raised'[j] = IF j = c.id THEN b ELSE raised[j]
  BY <1>1, <1>2, <1>3, ExceptSeq
<1>5. DOMAIN raised' = DOMAIN raised
  BY <1>2, <1>4
<1>6. BeaconsTyped'
  BY <1>1, <1>4, <1>5 DEF BeaconsInv, BeaconsTyped
<1>7. \A j \in DOMAIN raised : Durable(j) => Durable(j)'
  BY <1>1, <1>4 DEF Durable
<1>8. \A q \in Phones : posts'[q].pc = "put" => posts[q].pc = "put" /\ alerts'[posts[q].id] = "none"
  BY <1>1 DEF BeaconsInv, NoAlertYet
<1> QED BY <1>1, <1>6, <1>7, <1>8, KeepsStep

\* The table's own expiry, what no request waits for, and time.
LEMMA QuietStep ==
  ASSUME BeaconsInv,
         \/ \E id \in DOMAIN raised : SendClear(id) \/ PurgeBeacon(id)
         \/ \E c \in clears : ResolveMissing(c)
         \/ BoardNext \/ BeaconTick \/ UNCHANGED <<beaconVars, clock>>
  PROVE  BeaconsInv'
<1> DEFINE Quiet ==
      /\ UNCHANGED <<raised, posts, alerts, publishing, heard, confirmed>>
      /\ clock' \in 0 .. MaxTime /\ clock' >= clock /\ clock \in 0 .. MaxTime
      /\ items' \subseteq items /\ \A id \in items \ items' : raised[id].expiresAt < clock
      /\ \A c \in clears' : c \in clears \/ (c.id \in items /\ c.at = clock)
<1>1. Quiet
  <2> USE DEF BeaconsInv, BeaconsTyped
  <2>1. ASSUME NEW id \in DOMAIN raised, SendClear(id)
        PROVE  Quiet
    BY <2>1 DEF SendClear
  <2>2. ASSUME NEW id \in DOMAIN raised, PurgeBeacon(id)
        PROVE  Quiet
    BY <2>2 DEF PurgeBeacon
  <2>3. ASSUME NEW c \in clears, ResolveMissing(c)
        PROVE  Quiet
    BY <2>3 DEF ResolveMissing
  <2>4. CASE BoardNext
    BY <2>4 DEF BoardNext, OpenBoard, QueryBeacons, ShowRows
  <2>5. CASE BeaconTick
    BY <2>5, ClockAssumption DEF BeaconTick, ClockTick
  <2>6. CASE UNCHANGED <<beaconVars, clock>>
    BY <2>6 DEF beaconVars
  <2> QED BY <2>1, <2>2, <2>3, <2>4, <2>5, <2>6
<1>2. BeaconsTyped'
  BY <1>1 DEF BeaconsInv, BeaconsTyped
<1>3. \A j \in DOMAIN raised : raised[j].expiresAt \in Int
  <2> DEFINE R == [machine : Machines, expiresAt : 0 .. MaxTime + Lifetime]
  <2>1. raised \in Seq(R) /\ DOMAIN raised = 1 .. Len(raised)
    BY DEF BeaconsInv, BeaconsTyped
  <2>2. \A j \in DOMAIN raised : raised[j] \in R
    BY <2>1, ElementOfSeq
  <2> QED BY <2>2, ClockAssumption, BeaconAssumption
<1>4. \A j \in DOMAIN raised : Durable(j) => Durable(j)'
  BY <1>1, <1>3, ClockAssumption DEF Durable
<1>5. \A q \in Phones : posts'[q].pc = "put" => posts[q].pc = "put" /\ alerts'[posts[q].id] = "none"
  BY <1>1 DEF BeaconsInv, NoAlertYet
<1> QED BY <1>1, <1>2, <1>4, <1>5, KeepsStep

\* A restart forgets the requests and the alerts that are on their way.
LEMMA RestartStep ==
  ASSUME BeaconsInv, ServerRestart
  PROVE  BeaconsInv'
<1>1. /\ posts' = [p \in Phones |-> NoPost] /\ publishing' = {} /\ clears' = {}
      /\ alerts' = [id \in DOMAIN alerts |-> IF alerts[id] = "sending" THEN "lost" ELSE alerts[id]]
      /\ UNCHANGED <<raised, items, heard, confirmed, clock>>
  BY DEF ServerRestart
<1>2. /\ posts' \in [Phones -> [pc : {"idle", "put", "answer"}, id : Nat]]
      /\ \A p \in Phones : posts'[p].pc = "idle" /\ posts'[p].id = 0
  BY <1>1 DEF NoPost, NoBeacon
<1>3. alerts \in Seq(Outcomes) /\ Len(alerts) = Len(raised) /\ DOMAIN alerts = 1 .. Len(alerts)
      /\ DOMAIN raised = 1 .. Len(raised) /\ Len(raised) \in Nat
  BY DEF BeaconsInv, BeaconsTyped
<1>4. alerts' \in Seq(Outcomes) /\ Len(alerts') = Len(alerts)
  <2>1. alerts' \in [1 .. Len(alerts) -> Outcomes]
    BY <1>1, <1>3 DEF Outcomes
  <2> QED BY <1>3, <2>1, SeqDef
<1>5. BeaconsTyped'
  BY <1>1, <1>2, <1>3, <1>4 DEF BeaconsInv, BeaconsTyped
<1>6. \A j \in DOMAIN raised : Durable(j) => Durable(j)'
  BY <1>1, <1>3 DEF Durable
<1>7. \A q \in Phones : posts'[q].pc = "idle"
  BY <1>2
<1> QED BY <1>1, <1>5, <1>6, <1>7, KeepsStep

LEMMA BeaconsStep == BeaconsInv /\ [BeaconsNext]_<<beaconVars, clock>> => BeaconsInv'
<1> SUFFICES ASSUME BeaconsInv, [BeaconsNext]_<<beaconVars, clock>> PROVE BeaconsInv'
  OBVIOUS
<1>1. ASSUME NEW p \in Phones, RaiseBeacon(p) \/ PutBeaconFails(p) \/ PostSteps(p)
      PROVE  BeaconsInv'
  BY <1>1, RaiseStep, PutStep, EndPostStep DEF PostSteps
<1>2. CASE AlertsNext
  BY <1>2, SettleStep DEF AlertsNext
<1>3. CASE ItemsNext
  BY <1>3, QuietStep, ResolveStep DEF ItemsNext
<1>4. CASE BoardNext \/ BeaconTick \/ UNCHANGED <<beaconVars, clock>>
  BY <1>4, QuietStep
<1>5. CASE ServerRestart
  BY <1>5, RestartStep
<1> QED BY <1>1, <1>2, <1>3, <1>4, <1>5 DEF BeaconsNext, PostsNext

LEMMA BeaconsInvariant == BeaconsSpec => []BeaconsInv
BY BeaconsInitial, BeaconsStep, PTL DEF BeaconsSpec

LEMMA BeaconsTyping == BeaconsInv => BeaconsTypeOK
<1> SUFFICES ASSUME BeaconsInv PROVE BeaconsTypeOK
  OBVIOUS
<1>1. /\ alerts \in Seq(Outcomes) /\ DOMAIN alerts = 1 .. Len(alerts)
      /\ raised \in Seq([machine : Machines, expiresAt : 0 .. MaxTime + Lifetime])
      /\ DOMAIN raised = 1 .. Len(raised)
  BY DEF BeaconsInv, BeaconsTyped
<1>2. Range(alerts) \subseteq Outcomes
  BY <1>1, ElementOfSeq DEF Range
<1>3. \A id \in DOMAIN raised : raised[id] \in [machine : Machines, expiresAt : 0 .. MaxTime + Lifetime]
  BY <1>1, ElementOfSeq
<1>4. \A id \in DOMAIN raised : /\ raised[id].machine \in Machines
                               /\ raised[id].expiresAt \in 0 .. MaxTime + Lifetime
  BY <1>3
<1> QED BY <1>2, <1>4 DEF BeaconsInv, BeaconsTyped, BeaconsTypeOK, Outcomes

\* The beacons, the items and the requests to them keep their types: nothing is
\* stored, cleared or announced that no phone raised (beacons.ts).
THEOREM BeaconsTypeCorrect == BeaconsSpec => []BeaconsTypeOK
BY BeaconsTyping, BeaconsInvariant, PTL

\* A beacon that a phone got a 201 for is in the table until it is cleared or
\* its day is over, and was announced unless the process died or no topic is
\* set (createBeacon in beacons.ts, the route in dashboard.ts).
THEOREM ConfirmedCorrect == BeaconsSpec => []ConfirmedIsDurable
<1>1. BeaconsInv => ConfirmedIsDurable
  BY DEF BeaconsInv, Durable, ConfirmedIsDurable
<1> QED BY <1>1, BeaconsInvariant, PTL

\* An alert is settled once, whichever of the publish request and the timer
\* ends later, and whoever raises another beacon (beaconAlerts.ts).
THEOREM OutcomeCorrect == BeaconsSpec => OutcomeStands
<1>1. BeaconsInv /\ [BeaconsNext]_<<beaconVars, clock>> =>
        [\A id \in DOMAIN alerts :
           alerts[id] \in {"sent", "failed", "lost"} => alerts'[id] = alerts[id]]_beaconVars
  <2> SUFFICES ASSUME BeaconsInv, BeaconsNext,
                      NEW id \in DOMAIN alerts, alerts[id] \in {"sent", "failed", "lost"}
               PROVE  alerts'[id] = alerts[id]
    BY DEF beaconVars
  <2>1. alerts \in Seq(Outcomes) /\ id \in 1 .. Len(alerts)
    BY DEF BeaconsInv, BeaconsTyped
  <2>2. ASSUME NEW p \in Phones, RaiseBeacon(p)
        PROVE  alerts'[id] = alerts[id]
    BY <2>1, <2>2 DEF RaiseBeacon, Outcomes
  <2>3. ASSUME NEW p \in Phones, PutBeacon(p)
        PROVE  alerts'[id] = alerts[id]
    <3>1. alerts[posts[p].id] = "none"
      BY <2>3 DEF PutBeacon, BeaconsInv, NoAlertYet
    <3>2. id # posts[p].id
      BY <3>1
    <3> QED BY <2>1, <2>3, <3>2 DEF PutBeacon
  <2>4. ASSUME NEW j, NEW outcome, Settle(j, outcome)
        PROVE  alerts'[id] = alerts[id]
    BY <2>1, <2>4 DEF Settle
  <2>5. CASE ServerRestart
    BY <2>5 DEF ServerRestart
  <2>6. CASE UNCHANGED alerts
    BY <2>6
  <2> QED BY <2>2, <2>3, <2>4, <2>5, <2>6
       DEF BeaconsNext, PostsNext, PostSteps, AlertsNext, BoardNext, ItemsNext, PutBeaconFails,
           ConfirmBeacon, Publish, PublishFails, PublishTimeout, SendClear, PurgeBeacon,
           ResolveBeacon, ResolveMissing, OpenBoard, QueryBeacons, ShowRows, BeaconTick
<1> QED BY <1>1, BeaconsInvariant, PTL DEF BeaconsSpec, OutcomeStands

-----------------------------------------------------------------------------
(* The device list: what a request in progress knows of the world. *)

\* A beacon that was stored when the request began is stored, or no longer active.
HadIsStored == \A id \in board.had : id \in items \/ ~Active(id, clock)

\* A beacon that was cleared before the request began is not active in its
\* sense, and no Clear of it is on its way that could make it so.
GoneIsSettled ==
  \A id \in board.gone : ~Active(id, board.asOf) /\ \A c \in clears : c.id # id

\* The machines to flag, once the beacons are read
ActiveIsComplete ==
  \A id \in board.had :
    Active(id, clock) /\ Len(raised) - id < FetchLimit => raised[id].machine \in board.active

ActiveIsEarned ==
  \A m \in board.active : \E id \in DOMAIN raised \ board.gone : raised[id].machine = m

BoardInv ==
  /\ board.pc \in {"idle", "query", "rows"} /\ board.asOf \in 0 .. clock
  /\ board.had \subseteq DOMAIN raised /\ board.gone \subseteq DOMAIN raised
  /\ cleared \subseteq DOMAIN raised /\ rows.had \subseteq DOMAIN raised
  /\ board.pc = "query" => HadIsStored /\ GoneIsSettled
  /\ board.pc = "rows" => ActiveIsComplete /\ ActiveIsEarned
  /\ BoardIsCurrent

LEMMA BoardNumbers ==
  ASSUME BeaconsInv
  PROVE  /\ clock \in Nat /\ Len(raised) \in Nat /\ DOMAIN raised = 1 .. Len(raised)
         /\ \A id \in DOMAIN raised : raised[id].expiresAt \in Nat /\ id \in Nat
         /\ items \subseteq 1 .. Len(raised)
         /\ \A c \in clears : c.id \in DOMAIN raised /\ c.at \in 0 .. clock
<1>1. clock \in 0 .. MaxTime
      /\ raised \in Seq([machine : Machines, expiresAt : 0 .. MaxTime + Lifetime])
      /\ items \subseteq DOMAIN raised
      /\ \A c \in clears : c.id \in DOMAIN raised /\ c.at \in 0 .. clock
  BY DEF BeaconsInv, BeaconsTyped
<1>2. Len(raised) \in Nat /\ DOMAIN raised = 1 .. Len(raised)
  BY <1>1
<1>3. \A id \in DOMAIN raised : raised[id] \in [machine : Machines, expiresAt : 0 .. MaxTime + Lifetime]
  BY <1>1, <1>2, ElementOfSeq
<1> QED BY <1>1, <1>2, <1>3

LEMMA BoardInitial == BeaconsInit /\ ClockInit => BoardInv
<1> SUFFICES ASSUME BeaconsInit, ClockInit PROVE BoardInv
  OBVIOUS
<1>1. /\ board.pc = "idle" /\ board.asOf = 0 /\ board.had = {} /\ board.gone = {} /\ clock = 0
      /\ cleared = {} /\ rows.had = {} /\ rows.list = <<>>
  BY DEF BeaconsInit, ClockInit, NoBoard, NoRows
<1>2. Flagged = {}
  BY <1>1 DEF Flagged, Range
<1> QED BY <1>1, <1>2 DEF BoardInv, BoardIsCurrent, RecentIsVisible, ClearedIsGone

\* Beacons come and go while a request, if it is not forgotten, stays where it is.
LEMMA WorldMoves ==
  ASSUME BeaconsInv, BoardInv, rows' = rows, clock' \in Nat, clock <= clock',
         Len(raised') \in Nat, Len(raised) <= Len(raised'), DOMAIN raised' = 1 .. Len(raised'),
         \A id \in DOMAIN raised :
           /\ raised'[id].machine = raised[id].machine
           /\ raised'[id].expiresAt > clock' => raised[id].expiresAt > clock
           /\ id \in items => id \in items' \/ ~(raised'[id].expiresAt > clock')
           /\ board.pc = "query" /\ id \in board'.gone => raised'[id] = raised[id]
           /\ id \in cleared' => id \in cleared \/ ~(raised'[id].expiresAt > clock'),
         cleared' \subseteq DOMAIN raised,
         \A c \in clears' : c \in clears \/ c.id \notin board'.gone,
         \/ board' = NoBoard
         \/ /\ board'.pc = board.pc /\ board'.asOf = board.asOf /\ board'.had = board.had
            /\ board'.active = board.active /\ board'.gone \subseteq board.gone
  PROVE  BoardInv'
<1>1. /\ clock \in Nat /\ Len(raised) \in Nat /\ DOMAIN raised = 1 .. Len(raised)
      /\ \A id \in DOMAIN raised : id \in Nat /\ id \in DOMAIN raised'
  BY BoardNumbers
<1>2. \A id \in DOMAIN raised : Len(raised') - id < FetchLimit => Len(raised) - id < FetchLimit
  BY <1>1, BeaconAssumption DEF BeaconAssumption
<1>3. RecentIsVisible'
  BY <1>1, <1>2 DEF BoardInv, BoardIsCurrent, RecentIsVisible, Active, Flagged
<1>4. ClearedIsGone'
  <2>1. \A id \in cleared' : ~(raised'[id].expiresAt > clock')
    BY DEF BoardInv, BoardIsCurrent, ClearedIsGone, Active
  <2>2. \A m \in Flagged : \E id \in DOMAIN raised' \ rows.gone : raised'[id].machine = m
    <3> SUFFICES ASSUME NEW m \in Flagged
                 PROVE  \E id \in DOMAIN raised' \ rows.gone : raised'[id].machine = m
      OBVIOUS
    <3>1. PICK id \in DOMAIN raised \ rows.gone : raised[id].machine = m
      BY DEF BoardInv, BoardIsCurrent, ClearedIsGone
    <3> QED BY <1>1, <3>1
  <2> QED BY <2>1, <2>2 DEF ClearedIsGone, Active, Flagged
<1>5. /\ board'.pc \in {"idle", "query", "rows"} /\ board'.asOf \in 0 .. clock'
      /\ board'.had \subseteq DOMAIN raised' /\ board'.gone \subseteq DOMAIN raised'
      /\ cleared' \subseteq DOMAIN raised' /\ rows'.had \subseteq DOMAIN raised'
  BY <1>1 DEF BoardInv, NoBoard
<1>6. CASE board' = NoBoard
  BY <1>3, <1>4, <1>5, <1>6 DEF BoardInv, BoardIsCurrent, NoBoard
<1>7. CASE /\ board'.pc = board.pc /\ board'.asOf = board.asOf /\ board'.had = board.had
           /\ board'.active = board.active /\ board'.gone \subseteq board.gone
  <2>1. ASSUME board.pc = "query" PROVE HadIsStored' /\ GoneIsSettled'
    <3>1. HadIsStored /\ GoneIsSettled /\ board.had \subseteq DOMAIN raised
          /\ board.gone \subseteq DOMAIN raised
      BY <2>1 DEF BoardInv
    <3>2. HadIsStored'
      BY <1>7, <3>1 DEF HadIsStored, Active
    <3>3. ASSUME NEW id \in board'.gone
          PROVE  ~(raised'[id].expiresAt > board'.asOf) /\ \A c \in clears' : c.id # id
      BY <1>7, <2>1, <3>1, <3>3 DEF GoneIsSettled, Active
    <3> QED BY <3>2, <3>3 DEF GoneIsSettled, Active
  <2>2. ASSUME board.pc = "rows" PROVE ActiveIsComplete' /\ ActiveIsEarned'
    <3>1. ActiveIsComplete /\ ActiveIsEarned /\ board.had \subseteq DOMAIN raised
      BY <2>2 DEF BoardInv
    <3>2. ActiveIsComplete'
      BY <1>1, <1>2, <1>7, <3>1 DEF ActiveIsComplete, Active
    <3>3. ASSUME NEW m \in board.active
          PROVE  \E id \in DOMAIN raised' \ board'.gone : raised'[id].machine = m
      <4>1. PICK id \in DOMAIN raised \ board.gone : raised[id].machine = m
        BY <3>1 DEF ActiveIsEarned
      <4> QED BY <1>1, <1>7, <4>1
    <3> QED BY <1>7, <3>2, <3>3 DEF ActiveIsEarned
  <2> QED BY <1>3, <1>4, <1>5, <1>7, <2>1, <2>2 DEF BoardInv, BoardIsCurrent
<1> QED BY <1>6, <1>7

\* The query begins: what it can see and what it must not show.
LEMMA OpenBoardStep ==
  ASSUME BeaconsInv, BoardInv, OpenBoard
  PROVE  BoardInv'
<1> DEFINE g == cleared \ {c.id : c \in clears}
<1>1. /\ board'.pc = "query" /\ board'.asOf = clock /\ board'.had = items /\ board'.gone = g
      /\ rows' = NoRows /\ UNCHANGED <<raised, items, clears, cleared, clock>>
  BY DEF OpenBoard, NoBoard
<1>2. clock \in Nat /\ items \subseteq DOMAIN raised /\ cleared \subseteq DOMAIN raised
      /\ DOMAIN raised = 1 .. Len(raised)
  BY BoardNumbers DEF BoardInv
<1>3. \A id \in cleared : ~Active(id, clock)
  BY DEF BoardInv, BoardIsCurrent, ClearedIsGone
<1>4. HadIsStored'
  BY <1>1 DEF HadIsStored
<1>5. GoneIsSettled'
  BY <1>1, <1>3 DEF GoneIsSettled, Active
<1>6. rows'.had = {} /\ rows'.list = <<>>
  BY <1>1 DEF NoRows
<1>7. Flagged' = {}
  BY <1>6 DEF Flagged, Range
<1>8. BoardIsCurrent'
  BY <1>1, <1>3, <1>6, <1>7 DEF BoardIsCurrent, RecentIsVisible, ClearedIsGone, Active
<1> QED BY <1>1, <1>2, <1>4, <1>5, <1>6, <1>8 DEF BoardInv

\* A beacon among the newest is in the page that is read.
LEMMA RecentIsRead ==
  ASSUME BeaconsInv, NEW id \in items, Len(raised) - id < FetchLimit
  PROVE  id \in Newest(FetchLimit)
<1> DEFINE later == {j \in items : j > id}
<1>1. Len(raised) \in Nat /\ id \in 1 .. Len(raised) /\ items \subseteq 1 .. Len(raised)
  BY BoardNumbers
<1>2. later \in SUBSET (id + 1 .. Len(raised))
  <2> SUFFICES ASSUME NEW j \in items, j > id PROVE j \in id + 1 .. Len(raised)
    OBVIOUS
  <2>1. j \in 1 .. Len(raised)
    BY <1>1
  <2> QED BY <1>1, <2>1
<1>3. /\ IsFiniteSet(id + 1 .. Len(raised))
      /\ Cardinality(id + 1 .. Len(raised)) = Len(raised) - id
  <2>1. id + 1 \in Int /\ Len(raised) \in Int
    BY <1>1
  <2>2. /\ IsFiniteSet(id + 1 .. Len(raised))
        /\ Cardinality(id + 1 .. Len(raised)) =
             IF id + 1 > Len(raised) THEN 0 ELSE Len(raised) - (id + 1) + 1
    BY <2>1, FS_Interval
  <2> QED BY <1>1, <2>2
<1> HIDE DEF later
<1>4. IsFiniteSet(later) /\ Cardinality(later) <= Cardinality(id + 1 .. Len(raised))
  BY <1>2, <1>3, FS_Subset
<1>5. Cardinality(later) \in Nat
  BY <1>4, FS_CardinalityType
<1>6. Cardinality(later) < FetchLimit
  BY <1>1, <1>3, <1>4, <1>5, BeaconAssumption DEF BeaconAssumption
<1> QED BY <1>6 DEF Newest, later

LEMMA QueryStep ==
  ASSUME BeaconsInv, BoardInv, QueryBeacons
  PROVE  BoardInv'
<1> DEFINE a == {raised[id].machine : id \in ListBeacons(board.asOf, FetchLimit)}
<1>1. /\ board.pc = "query" /\ board'.pc = "rows" /\ board'.active = a
      /\ board'.asOf = board.asOf /\ board'.had = board.had /\ board'.gone = board.gone
      /\ UNCHANGED <<raised, items, clears, cleared, rows, clock>>
  <2>1. board' = [board EXCEPT !.pc = "rows", !.active = a] /\ board.pc = "query"
    BY DEF QueryBeacons
  <2>2. UNCHANGED <<raised, items, clears, cleared, rows, clock>>
    BY DEF QueryBeacons
  <2> HIDE DEF a
  <2> QED BY <2>1, <2>2 DEF BoardInv
<1>2. HadIsStored /\ GoneIsSettled /\ board.asOf \in 0 .. clock /\ board.had \subseteq DOMAIN raised
  BY <1>1 DEF BoardInv
<1>3. ASSUME NEW id \in board.had, Active(id, clock), Len(raised) - id < FetchLimit
      PROVE  raised[id].machine \in a
  <2>1. id \in items
    BY <1>2, <1>3 DEF HadIsStored
  <2>2. Active(id, board.asOf)
    BY <1>2, <1>3, BoardNumbers DEF Active
  <2> QED BY <1>3, <2>1, <2>2, RecentIsRead DEF ListBeacons
<1>4. ASSUME NEW m \in a
      PROVE  \E id \in DOMAIN raised \ board.gone : raised[id].machine = m
  <2>1. PICK id \in ListBeacons(board.asOf, FetchLimit) : raised[id].machine = m
    BY <1>4
  <2>2. id \in items /\ Active(id, board.asOf)
    BY <2>1 DEF ListBeacons, Newest
  <2>3. id \in DOMAIN raised /\ id \notin board.gone
    BY <1>2, <2>2, BoardNumbers DEF GoneIsSettled
  <2> QED BY <2>1, <2>3
<1> HIDE DEF a
<1>5. ActiveIsComplete'
  BY <1>1, <1>3 DEF ActiveIsComplete, Active
<1>6. ActiveIsEarned'
  BY <1>1, <1>4 DEF ActiveIsEarned
<1>7. BoardIsCurrent'
  BY <1>1 DEF BoardInv, BoardIsCurrent, RecentIsVisible, ClearedIsGone, Active, Flagged
<1> QED BY <1>1, <1>5, <1>6, <1>7 DEF BoardInv

\* The machines with a row that says so are those with an active beacon,
\* whatever the order of the rows.
LEMMA ShowRowsStep ==
  ASSUME BeaconsInv, BoardInv, ShowRows
  PROVE  BoardInv'
<1>1. PICK list \in Sorted(Rows(board.active)) :
        rows' = [list |-> list, had |-> board.had, gone |-> board.gone]
  BY DEF ShowRows
<1>2. /\ board.pc = "rows" /\ board' = NoBoard
      /\ UNCHANGED <<raised, items, clears, cleared, clock>>
  BY DEF ShowRows
<1>3. Range(list) = Rows(board.active)
  BY DEF Sorted
<1>4. Flagged' = board.active
  <2>1. rows'.list = list
    BY <1>1
  <2>2. Flagged' = {r.machine : r \in {x \in Rows(board.active) : x.beacon}}
    BY <1>3, <2>1 DEF Flagged, Range
  <2>3. ASSUME NEW m \in board.active
        PROVE  \E r \in Rows(board.active) : r.beacon /\ r.machine = m
    <3>1. [machine |-> m, beacon |-> m \in board.active, age |-> Age(m)] \in Rows(board.active)
      BY <2>3 DEF Rows
    <3> QED BY <2>3, <3>1
  <2>4. ASSUME NEW r \in Rows(board.active), r.beacon
        PROVE  r.machine \in board.active
    <3>1. PICK m : r = [machine |-> m, beacon |-> m \in board.active, age |-> Age(m)]
      BY <2>4 DEF Rows
    <3>2. r.machine = m /\ r.beacon = (m \in board.active)
      BY <3>1, Zenon
    <3> QED BY <2>4, <3>2
  <2> QED BY <2>2, <2>3, <2>4
<1>5. ActiveIsComplete /\ ActiveIsEarned /\ board.had \subseteq DOMAIN raised
  BY <1>2 DEF BoardInv
<1>6. RecentIsVisible'
  BY <1>1, <1>2, <1>4, <1>5 DEF RecentIsVisible, ActiveIsComplete, Active
<1>7. ClearedIsGone'
  <2>1. \A id \in cleared' : ~Active(id, clock)'
    BY <1>2 DEF BoardInv, BoardIsCurrent, ClearedIsGone, Active
  <2>2. \A m \in Flagged' : \E id \in DOMAIN raised' \ rows'.gone : raised'[id].machine = m
    BY <1>1, <1>2, <1>4, <1>5 DEF ActiveIsEarned
  <2> QED BY <2>1, <2>2 DEF ClearedIsGone, Active
<1>8. board'.pc = "idle" /\ board'.asOf = 0 /\ board'.had = {} /\ board'.gone = {} /\ rows'.had = board.had
  BY <1>1, <1>2 DEF NoBoard
<1>9. clock \in Nat
  BY BoardNumbers
<1> QED BY <1>2, <1>5, <1>6, <1>7, <1>8, <1>9 DEF BoardInv, BoardIsCurrent

\* A phone raises or stores a beacon.
LEMMA PostsBoardStep ==
  ASSUME BeaconsInv, BoardInv, BeaconsInv', NEW p \in Phones,
         RaiseBeacon(p) \/ PutBeaconFails(p) \/ PostSteps(p)
  PROVE  BoardInv'
<1>1. /\ clock \in Nat /\ Len(raised) \in Nat /\ DOMAIN raised = 1 .. Len(raised)
  BY BoardNumbers
<1>2. Len(raised') \in Nat /\ DOMAIN raised' = 1 .. Len(raised')
  BY DEF BeaconsInv, BeaconsTyped
<1>3. /\ UNCHANGED <<clears, board, rows, cleared, clock>> /\ items \subseteq items'
  BY DEF RaiseBeacon, PutBeaconFails, PostSteps, PutBeacon, ConfirmBeacon
<1>4. Len(raised) <= Len(raised') /\ \A id \in DOMAIN raised : raised'[id] = raised[id]
  <2>1. CASE RaiseBeacon(p)
    <3>1. raised \in Seq([machine : Machines, expiresAt : 0 .. MaxTime + Lifetime])
      BY DEF BeaconsInv, BeaconsTyped
    <3>2. PICK m \in Machines : raised' = Append(raised, [machine |-> m, expiresAt |-> clock + Lifetime])
      BY <2>1 DEF RaiseBeacon, ValidBeacon
    <3>3. PICK b \in [machine : Machines, expiresAt : 0 .. MaxTime + Lifetime] : raised' = Append(raised, b)
      <4>1. clock \in 0 .. MaxTime
        BY DEF BeaconsInv, BeaconsTyped
      <4>2. clock + Lifetime \in 0 .. MaxTime + Lifetime
        BY <4>1, ClockAssumption, BeaconAssumption
      <4> QED BY <3>2, <4>2
    <3>4. Len(raised') = Len(raised) + 1 /\ \A id \in 1 .. Len(raised) : raised'[id] = raised[id]
      BY <3>1, <3>3, AppendProperties
    <3> QED BY <1>1, <3>4
  <2>2. CASE raised' = raised
    BY <1>1, <2>2
  <2> QED BY <2>1, <2>2 DEF PutBeaconFails, PostSteps, PutBeacon, ConfirmBeacon
<1>5. cleared \subseteq DOMAIN raised /\ clock <= clock
  BY <1>1 DEF BoardInv
<1> QED BY <1>1, <1>2, <1>3, <1>4, <1>5, WorldMoves

\* A Clear is sent, takes effect or comes too late; an item is purged; time
\* passes; the process is replaced.
LEMMA ItemsBoardStep ==
  ASSUME BeaconsInv, BoardInv,
         \/ \E id \in DOMAIN raised : SendClear(id) \/ PurgeBeacon(id)
         \/ \E c \in clears : ResolveMissing(c)
         \/ ServerRestart \/ BeaconTick \/ AlertsNext \/ UNCHANGED <<beaconVars, clock>>
  PROVE  BoardInv'
<1>1. /\ clock \in Nat /\ Len(raised) \in Nat /\ DOMAIN raised = 1 .. Len(raised)
      /\ \A id \in DOMAIN raised : raised[id].expiresAt \in Nat
      /\ cleared \subseteq DOMAIN raised /\ Len(raised) <= Len(raised) /\ clock <= clock
  BY BoardNumbers DEF BoardInv
<1>2. ASSUME NEW id \in DOMAIN raised, SendClear(id) PROVE BoardInv'
  <2>1. /\ UNCHANGED <<raised, items, rows, cleared, clock>>
        /\ clears' = clears \cup {[id |-> id, at |-> clock]}
        /\ board' = [board EXCEPT !.gone = @ \ {id}]
    BY <1>2 DEF SendClear
  <2>2. \/ board' = NoBoard
        \/ /\ board'.pc = board.pc /\ board'.asOf = board.asOf /\ board'.had = board.had
           /\ board'.active = board.active /\ board'.gone \subseteq board.gone
    BY <2>1
  <2>3. \A c \in clears' : c \in clears \/ c.id \notin board'.gone
    BY <2>1
  <2> QED BY <1>1, <2>1, <2>2, <2>3, WorldMoves
<1>3. ASSUME NEW id \in DOMAIN raised, PurgeBeacon(id) PROVE BoardInv'
  <2>1. /\ UNCHANGED <<raised, clears, board, rows, cleared, clock>>
        /\ items' = items \ {id} /\ raised[id].expiresAt < clock
    BY <1>3 DEF PurgeBeacon
  <2>2. ~(raised[id].expiresAt > clock)
    BY <1>1, <2>1
  <2>3. \A j \in DOMAIN raised : j \in items => j \in items' \/ ~(raised'[j].expiresAt > clock')
    BY <2>1, <2>2
  <2> QED BY <1>1, <2>1, <2>3, WorldMoves
<1>4. ASSUME NEW c \in clears, ResolveMissing(c) PROVE BoardInv'
  BY <1>1, <1>4, WorldMoves DEF ResolveMissing
<1>5. CASE ServerRestart
  BY <1>1, <1>5, WorldMoves DEF ServerRestart, NoBoard
<1>6. CASE BeaconTick
  <2>1. /\ UNCHANGED <<raised, items, clears, board, rows, cleared>>
        /\ clock' = clock + 1
    BY <1>6 DEF BeaconTick, ClockTick
  <2>2. clock' \in Nat /\ clock <= clock'
        /\ \A id \in DOMAIN raised : raised'[id].expiresAt > clock' => raised[id].expiresAt > clock
    BY <1>1, <2>1
  <2> QED BY <1>1, <2>1, <2>2, WorldMoves
<1>7. CASE AlertsNext \/ UNCHANGED <<beaconVars, clock>>
  <2>1. UNCHANGED <<raised, items, clears, board, rows, cleared, clock>>
    BY <1>7 DEF AlertsNext, Publish, PublishFails, PublishTimeout, beaconVars
  <2> QED BY <1>1, <2>1, WorldMoves
<1> QED BY <1>2, <1>3, <1>4, <1>5, <1>6, <1>7

\* A Clear takes effect: its beacon is not active from then on.
LEMMA ResolveBoardStep ==
  ASSUME BeaconsInv, BoardInv, NEW c \in clears, ResolveBeacon(c)
  PROVE  BoardInv'
<1>1. /\ clock \in Nat /\ Len(raised) \in Nat /\ DOMAIN raised = 1 .. Len(raised)
      /\ cleared \subseteq DOMAIN raised /\ c.id \in DOMAIN raised /\ c.at \in 0 .. clock
      /\ Len(raised) <= Len(raised) /\ clock <= clock
  BY BoardNumbers DEF BoardInv
<1>2. /\ UNCHANGED <<items, board, rows, clock>> /\ cleared' = cleared \cup {c.id}
      /\ clears' = clears \ {c} /\ raised' = [raised EXCEPT ![c.id].expiresAt = c.at]
  BY DEF ResolveBeacon, Expire
<1>3. raised \in Seq([machine : Machines, expiresAt : 0 .. MaxTime + Lifetime])
  BY DEF BeaconsInv, BeaconsTyped
<1>4. /\ DOMAIN raised' = DOMAIN raised /\ Len(raised') = Len(raised)
      /\ \A id \in DOMAIN raised : id # c.id => raised'[id] = raised[id]
      /\ raised'[c.id] = [raised[c.id] EXCEPT !.expiresAt = c.at]
  BY <1>1, <1>2, <1>3
<1>5. /\ raised'[c.id].machine = raised[c.id].machine /\ raised'[c.id].expiresAt = c.at
  <2>1. raised[c.id] \in [machine : Machines, expiresAt : 0 .. MaxTime + Lifetime]
    BY <1>1, <1>3, ElementOfSeq
  <2> QED BY <1>4, <2>1
<1>6. ~(raised'[c.id].expiresAt > clock)
  BY <1>1, <1>5
<1>7. board.pc = "query" => c.id \notin board.gone
  BY DEF BoardInv, GoneIsSettled
<1>8. \A id \in DOMAIN raised :
        /\ raised'[id].machine = raised[id].machine
        /\ raised'[id].expiresAt > clock' => raised[id].expiresAt > clock
        /\ board.pc = "query" /\ id \in board'.gone => raised'[id] = raised[id]
        /\ id \in cleared' => id \in cleared \/ ~(raised'[id].expiresAt > clock')
  BY <1>2, <1>4, <1>5, <1>6, <1>7
<1> QED BY <1>1, <1>2, <1>4, <1>8, WorldMoves

LEMMA BoardStep ==
  BeaconsInv /\ BeaconsInv' /\ BoardInv /\ [BeaconsNext]_<<beaconVars, clock>> => BoardInv'
<1> SUFFICES ASSUME BeaconsInv, BeaconsInv', BoardInv, [BeaconsNext]_<<beaconVars, clock>>
             PROVE  BoardInv'
  OBVIOUS
<1>1. CASE PostsNext
  BY <1>1, PostsBoardStep DEF PostsNext
<1>2. CASE BoardNext
  BY <1>2, OpenBoardStep, QueryStep, ShowRowsStep DEF BoardNext
<1>3. CASE ItemsNext
  BY <1>3, ItemsBoardStep, ResolveBoardStep DEF ItemsNext
<1>4. CASE AlertsNext \/ ServerRestart \/ BeaconTick \/ UNCHANGED <<beaconVars, clock>>
  BY <1>4, ItemsBoardStep
<1> QED BY <1>1, <1>2, <1>3, <1>4 DEF BeaconsNext

LEMMA BoardInvariant == BeaconsSpec => []BoardInv
<1>1. BeaconsInit /\ ClockInit => BoardInv
  BY BoardInitial
<1> QED BY <1>1, BeaconsInvariant, BoardStep, PTL DEF BeaconsSpec

\* An active beacon among the newest is flagged on the device list that was
\* asked for after it was stored, and a cleared one is not (GET /devices in
\* dashboard.ts), whatever happens between the query and the rows.
THEOREM BoardCorrect == BeaconsSpec => []BoardIsCurrent
<1>1. BoardInv => BoardIsCurrent
  BY DEF BoardInv
<1> QED BY <1>1, BoardInvariant, PTL

-----------------------------------------------------------------------------
(***************************************************************************)
(* Theorems about OperatorPanel for every set of machines, every timer and *)
(* every number of requests: a queue is emptied by a deliberate second     *)
(* click, and no stale count replaces one that is known to be out of date. *)
(*                                                                         *)
(* A staged confirmation remembers the click that made it (StagedByClick), *)
(* which is what the page change resets.  What a page knows of its queue   *)
(* was so at the server before (KnownIsTrue), and a count that is read for *)
(* a page that shows one is at least that (ReadsAreFresh): the mutation    *)
(* restarts such a query.  Only the first count of a page, whose fetch is  *)
(* joined, may be older.                                                   *)
(***************************************************************************)

\* PanelTypeOK, with the clock, and room for the request that is on its way
PanelTyped ==
  /\ PanelTypeOK
  /\ clock \in 0 .. MaxTime
  /\ lastClick \in [of : Panels \cup {"nobody"}, at : NoTime .. MaxTime]
  /\ marking.at = "sent" => marks[marking.of] < MaxMarks

StagedByClick ==
  staged # NoTime =>
    /\ lastClick = [of |-> page, at |-> staged]
    /\ staged <= clock /\ clock <= staged + ConfirmTime

KnownIsTrue == \A c \in Panels : known[c] <= marks[c]

ReadsAreFresh ==
  \A c \in Panels : poll[c].state = "read" /\ badge[c] # NoData => known[c] <= poll[c].read

PanelInv == PanelTyped /\ StagedByClick /\ KnownIsTrue /\ ReadsAreFresh

LEMMA PanelInitial == PanelInit /\ ClockInit => PanelInv
BY PanelAssumption, ClockAssumption
   DEF PanelInit, ClockInit, PanelInv, PanelTyped, PanelTypeOK, StagedByClick, KnownIsTrue,
       ReadsAreFresh, NoTime, NoRequest, NoData, NoPoll, Asked

\* What the operator does, and the timers of the button.
LEMMA ButtonStep ==
  ASSUME PanelInv,
         \/ \E c \in Panels : OpenPage(c)
         \/ StageClick \/ ConfirmClick \/ Unstage \/ HideSummary
  PROVE  PanelInv'
<1> USE PanelAssumption, ClockAssumption
    DEF PanelInv, PanelTyped, PanelTypeOK, StagedByClick, KnownIsTrue, ReadsAreFresh
<1>1. ASSUME NEW c \in Panels, OpenPage(c)
      PROVE  PanelInv'
  BY <1>1 DEF OpenPage, NoTime
<1>2. CASE StageClick
  BY <1>2 DEF StageClick, NoTime, NoRequest
<1>3. CASE ConfirmClick
  BY <1>3 DEF ConfirmClick, NoTime, NoRequest
<1>4. CASE Unstage
  BY <1>4 DEF Unstage, NoTime
<1>5. CASE HideSummary
  BY <1>5 DEF HideSummary, NoTime
<1> QED BY <1>1, <1>2, <1>3, <1>4, <1>5

\* The mutation: it ends on whatever page is shown then.
LEMMA MutationStep ==
  ASSUME PanelInv, ServerMarks \/ MarkSucceeds \/ MarkFails
  PROVE  PanelInv'
<1> USE PanelAssumption, ClockAssumption
    DEF PanelInv, PanelTyped, PanelTypeOK, StagedByClick, KnownIsTrue, ReadsAreFresh
<1>1. CASE ServerMarks
  BY <1>1 DEF ServerMarks, NoTime, NoRequest
<1>2. CASE MarkSucceeds
  BY <1>2 DEF MarkSucceeds, Invalidate, NoTime, NoRequest, NoPoll, Asked
<1>3. CASE MarkFails
  BY <1>3 DEF MarkFails, NoTime, NoRequest
<1> QED BY <1>1, <1>2, <1>3

\* The count that is polled, and time.
LEMMA CountStep ==
  ASSUME PanelInv,
         \/ \E c \in Panels :
              ReadDepth(c) \/ CacheDepth(c) \/ PollRetries(c) \/ PollFails(c) \/ Forget(c)
         \/ StartPoll \/ PanelTick \/ UNCHANGED <<panelVars, clock>>
  PROVE  PanelInv'
<1> USE PanelAssumption, ClockAssumption
    DEF PanelInv, PanelTyped, PanelTypeOK, StagedByClick, KnownIsTrue, ReadsAreFresh
<1>1. ASSUME NEW c \in Panels, ReadDepth(c)
      PROVE  PanelInv'
  BY <1>1 DEF ReadDepth, NoPoll, Asked
<1>2. ASSUME NEW c \in Panels, CacheDepth(c)
      PROVE  PanelInv'
  BY <1>2 DEF CacheDepth, NoPoll, NoData
<1>3. ASSUME NEW c \in Panels, PollRetries(c) \/ PollFails(c)
      PROVE  PanelInv'
  <2>1. CASE PollRetries(c)
    BY <2>1 DEF PollRetries, Asked
  <2>2. CASE PollFails(c)
    BY <2>2 DEF PollFails, NoPoll
  <2> QED BY <1>3, <2>1, <2>2
<1>4. CASE StartPoll
  BY <1>4 DEF StartPoll, NoPoll, Asked
<1>5. CASE PanelTick
  BY <1>5 DEF PanelTick, ClockTick, panelVars, NoTime
<1>6. CASE UNCHANGED <<panelVars, clock>>
  BY <1>6 DEF panelVars
<1>7. ASSUME NEW c \in Panels, Forget(c)
      PROVE  PanelInv'
  BY <1>7 DEF Forget, NoPoll, NoData
<1> QED BY <1>1, <1>2, <1>3, <1>4, <1>5, <1>6, <1>7

LEMMA PanelInvariant == PanelSpec => []PanelInv
<1>1. PanelInv /\ [PanelNext]_<<panelVars, clock>> => PanelInv'
  BY ButtonStep, MutationStep, CountStep DEF PanelNext
<1> QED BY <1>1, PanelInitial, PTL DEF PanelSpec

\* Every variable of the page keeps its type, and nothing is staged while a
\* request is pending (index.tsx).
THEOREM PanelTypeCorrect == PanelSpec => []PanelTypeOK
<1>1. PanelInv => PanelTypeOK
  BY DEF PanelInv, PanelTyped
<1> QED BY <1>1, PanelInvariant, PTL

\* The queue of a machine is only marked by two clicks on its own page, the
\* second within the time a confirmation is staged (index.tsx).
THEOREM DeliberateCorrect == PanelSpec => MarkIsDeliberate
<1>1. PanelInv /\ [PanelNext]_<<panelVars, clock>> =>
        [marking'.at = "sent" /\ marking.at # "sent" =>
           lastClick.of = marking'.of /\ clock - lastClick.at <= ConfirmTime]_<<panelVars, clock>>
  <2> SUFFICES ASSUME PanelInv, PanelNext, marking'.at = "sent", marking.at # "sent"
               PROVE  lastClick.of = marking'.of /\ clock - lastClick.at <= ConfirmTime
    OBVIOUS
  <2>1. ConfirmClick
    BY DEF PanelNext, OpenPage, ReadDepth, CacheDepth, PollRetries, PollFails, Forget, StageClick, Unstage, HideSummary,
       ServerMarks, MarkSucceeds, MarkFails, StartPoll, PanelTick, panelVars, NoRequest, PanelInv,
       PanelTyped, PanelTypeOK
  <2> QED BY <2>1, PanelAssumption, ClockAssumption
       DEF ConfirmClick, PanelInv, PanelTyped, PanelTypeOK, StagedByClick, NoTime
<1> QED BY <1>1, PanelInvariant, PTL DEF PanelSpec, MarkIsDeliberate

\* Once a page that shows a count knows that its queue was emptied, no count
\* read before that replaces the one shown (useDeviceMutations.ts).
THEOREM FreshCountCorrect == PanelSpec => CountIsFresh
<1>1. PanelInv /\ [PanelNext]_<<panelVars, clock>> =>
        [\A c \in Panels : badge'[c] # badge[c] /\ badge[c] # NoData /\ badge'[c] # NoData =>
           badge'[c] >= known[c]]_<<panelVars, clock>>
  <2> SUFFICES ASSUME PanelInv, PanelNext, NEW c \in Panels,
                      badge'[c] # badge[c], badge[c] # NoData, badge'[c] # NoData
               PROVE  badge'[c] >= known[c]
    OBVIOUS
  <2>1. /\ badge \in [Panels -> NoData .. MaxMarks] /\ known \in [Panels -> 0 .. MaxMarks]
        /\ poll[c].read \in 0 .. MaxMarks
    BY DEF PanelInv, PanelTyped, PanelTypeOK
  <2>2. ~\E d \in Panels : Forget(d)
    BY <2>1 DEF Forget
  <2>3. PICK d \in Panels : CacheDepth(d)
    BY <2>2 DEF PanelNext, OpenPage, ReadDepth, PollRetries, PollFails, StageClick, ConfirmClick, Unstage, HideSummary,
       ServerMarks, MarkSucceeds, MarkFails, StartPoll, PanelTick, panelVars
  <2>4. badge' = [badge EXCEPT ![d] = poll[d].read] /\ poll[d].state = "read"
    BY <2>3 DEF CacheDepth
  <2> QED BY <2>1, <2>4, PanelAssumption DEF PanelInv, ReadsAreFresh
<1> QED BY <1>1, PanelInvariant, PTL DEF PanelSpec, CountIsFresh

-----------------------------------------------------------------------------
(***************************************************************************)
(* Theorems about ServerLife for every number of connections that fail: a  *)
(* wait for Redis is timed, a process that listens has its broker, and one *)
(* that listens ends by a signal only.                                     *)
(*                                                                         *)
(* What the runs check is inductive as it stands: that a wait is timed     *)
(* belongs to the type invariant because nothing else ends the wait.       *)
(***************************************************************************)

LifeInv == LifeTypeOK /\ ListensWithBroker

LEMMA LifeInitial == LifeInit => LifeInv
BY LifeAssumption DEF LifeInit, LifeInv, LifeTypeOK, ListensWithBroker

LEMMA LifeStep == LifeInv /\ [LifeNext]_lifeVars => LifeInv'
<1> SUFFICES ASSUME LifeInv, [LifeNext]_lifeVars PROVE LifeInv'
  OBVIOUS
<1> USE LifeAssumption DEF LifeInv, LifeTypeOK, ListensWithBroker, Exit
<1>1. CASE StartMemory \/ StartRedis \/ StartFails
  BY <1>1 DEF StartMemory, StartRedis, StartFails
<1>2. CASE BecomesReady
  BY <1>2 DEF BecomesReady
<1>3. CASE ConnectionDrops
  BY <1>3 DEF ConnectionDrops
<1>4. CASE ConnectTimeout
  BY <1>4 DEF ConnectTimeout
<1>5. ASSUME NEW s \in Signals, Signal(s)
      PROVE  LifeInv'
  BY <1>5 DEF Signal
<1>6. CASE ShutdownEnds
  BY <1>6 DEF ShutdownEnds
<1>7. CASE ProbeSteps
  BY <1>7 DEF ProbeSteps, Probe, ProbeAnswer
<1>8. CASE UNCHANGED lifeVars
  BY <1>8 DEF lifeVars
<1> QED BY <1>1, <1>2, <1>3, <1>4, <1>5, <1>6, <1>7, <1>8 DEF LifeNext, LifeSteps

LEMMA LifeInvariant == LifeSpec => []LifeInv
BY LifeInitial, LifeStep, PTL DEF LifeSpec

\* Every variable keeps its type, and a wait for the client is always timed
\* (getRedisClient in redisClient.ts).
THEOREM LifeTypeCorrect == LifeSpec => []LifeTypeOK
<1>1. LifeInv => LifeTypeOK
  BY DEF LifeInv
<1> QED BY <1>1, LifeInvariant, PTL

\* A process that listens has populated app.locals with its broker (start in
\* server.ts).
THEOREM ListeningCorrect == LifeSpec => []ListensWithBroker
<1>1. LifeInv => ListensWithBroker
  BY DEF LifeInv
<1> QED BY <1>1, LifeInvariant, PTL

\* Neither the armed timer of getRedisClient nor a lost connection ends a
\* process that listens; a signal does (shutdown in server.ts).
THEOREM ServingCorrect == LifeSpec => ServesUntilSignalled
<1>1. LifeInv /\ [LifeNext]_lifeVars =>
        [life = "listening" /\ life' = "exited" => stopping # {}]_lifeVars
  BY DEF LifeInv, LifeTypeOK, LifeNext, LifeSteps, ProbeSteps, StartMemory, StartRedis,
     StartFails, BecomesReady, ConnectionDrops, ConnectTimeout, Signal, ShutdownEnds, Probe, ProbeAnswer
<1> QED BY <1>1, LifeInvariant, PTL DEF LifeSpec, ServesUntilSignalled

-----------------------------------------------------------------------------
(***************************************************************************)
(* Theorems about Ledgers for every number of requests, users, devices and *)
(* faults: an item is what one of the writes left that no answered one     *)
(* came after, a consent is recorded once, and the latest one is as recent *)
(* as promised.                                                            *)
(*                                                                         *)
(* An answer alone says nothing of the table, so the invariant says what   *)
(* a request in progress knows of it.  What a write may still make of its  *)
(* item stays possible (EffectsAreTold), writes in progress know of each   *)
(* other (RivalsAreKnown), and one whose reply is there knows what the     *)
(* item is (RepliesAreHeld), so that an answer rules out no effect but     *)
(* those of writes that ended before it was sent.  A number belongs to one *)
(* request, and its record to that number (NumbersAreOwn); and what a read *)
(* has to reach was in the ledger when it was sent (ReadsReachTheLatest).  *)
(***************************************************************************)

Requested ==
  [pc : {"sent", "done", "refused"}, op : {"store", "delete", "get", "record", "latest"},
   key : (Owners \X Devices) \cup (Owners \X ConsentTypes), at : Nat, id : Nat,
   rivals : SUBSET {"there", "gone"}, floor : Int, reply : Int]

IsWrite(c) == c.op \in {"store", "delete"}

\* LedgersTypeOK, with the requests and where each of them goes
LedgersTyped ==
  /\ LedgersTypeOK
  /\ clock \in 0 .. MaxTime /\ called \in Nat
  /\ accepted \in [Owners \X ConsentTypes -> Int]
  /\ \A c \in ledger : c.id \in Nat
  /\ call \in [Callers -> {Idle} \cup Requested]
  /\ \A r \in Callers : call[r].pc # "idle" =>
       /\ call[r].op \in {"store", "delete", "get"} => call[r].key \in Owners \X Devices
       /\ call[r].op \in {"record", "latest"} => call[r].key \in Owners \X ConsentTypes
       /\ call[r].at <= clock
  /\ \A r \in Callers : call[r].pc = "done" /\ call[r].op = "record" => RecordOf(r) \in ledger

WritesInProgress(r, s) ==
  /\ call[r].pc # "idle" /\ IsWrite(call[r]) /\ call[s].pc # "idle" /\ IsWrite(call[s])
  /\ call[s].key = call[r].key

EffectsAreTold ==
  \A r \in Callers : call[r].pc # "idle" /\ IsWrite(call[r]) => Effect(call[r].op) \in told[call[r].key]

RivalsAreKnown ==
  \A r, s \in Callers : WritesInProgress(r, s) => Effect(call[s].op) \in call[r].rivals

RepliesAreHeld ==
  \A r \in Callers : call[r].pc = "done" /\ IsWrite(call[r]) => Held(call[r].key) \in call[r].rivals

WritesKnown == EffectsAreTold /\ RivalsAreKnown /\ RepliesAreHeld /\ AnswersHold

NumbersAreOwn ==
  /\ \A r \in Callers : call[r].pc # "idle" => call[r].id < called
  /\ \A r, s \in Callers :
       call[r].pc # "idle" /\ call[s].pc # "idle" /\ call[r].id = call[s].id => r = s
  /\ \A c \in ledger : \A r \in Callers :
       call[r].pc # "idle" /\ call[r].id = c.id => call[r].op = "record" /\ c = RecordOf(r)

ReadsReachTheLatest ==
  \A r \in Callers : call[r].pc # "idle" /\ call[r].op = "latest" =>
    /\ call[r].floor = NotYet \/ call[r].floor \in Times(call[r].key)
    /\ call[r].pc = "done" => call[r].reply >= call[r].floor

LedgersInv ==
  /\ LedgersTyped /\ WritesKnown /\ NumbersAreOwn /\ ReadsReachTheLatest
  /\ ConsentOnce /\ ConsentIsLatest

-----------------------------------------------------------------------------
(* The latest of the records of an item exists: the instants count back from *)
(* the clock in a well-founded order.                                        *)

Less == {pair \in Nat \X Nat : pair[1] < pair[2]}

LEMMA LessIsWellFounded == IsWellFoundedOn(Less, Nat)
<1>1. Less = OpToRel(<, Nat)
  BY Zenon DEF Less, OpToRel
<1> QED BY <1>1, NatLessThanWellFounded, Zenon

LEMMA LatestExists ==
  ASSUME NEW S \in SUBSET Nat, NEW b \in Nat, S # {}, \A t \in S : t <= b
  PROVE  \E m \in S : \A t \in S : t <= m
<1> DEFINE T == {b - t : t \in S}
<1>1. T \subseteq Nat /\ T # {}
  <2>1. \A t \in S : b - t \in Nat
    OBVIOUS
  <2>2. PICK t \in S : TRUE
    OBVIOUS
  <2> QED BY <2>1, <2>2
<1>2. PICK x \in T : \A y \in T : ~(<<y, x>> \in Less)
  BY <1>1, LessIsWellFounded, WFMin
<1>3. PICK m \in S : x = b - m
  BY <1>2
<1>4. \A t \in S : ~(b - t < b - m)
  BY <1>1, <1>2, <1>3 DEF Less
<1> QED BY <1>4

LEMMA LatestOfIsLatest ==
  ASSUME LedgersTyped, NEW key
  PROVE  LatestOf(key) \in Int /\ LatestOf(key) >= NotYet /\ \A t \in Times(key) : t <= LatestOf(key)
<1>1. Times(key) \in SUBSET Nat /\ clock \in Nat /\ \A t \in Times(key) : t <= clock
  BY ClockAssumption DEF LedgersTyped, LedgersTypeOK, Times
<1>2. CASE Times(key) = {}
  BY <1>2 DEF LatestOf, NotYet
<1>3. CASE Times(key) # {}
  <2>1. \E m \in Times(key) : \A t \in Times(key) : t <= m
    BY <1>1, <1>3, LatestExists
  <2>2. LatestOf(key) \in Times(key) /\ \A t \in Times(key) : t <= LatestOf(key)
    BY <1>3, <2>1 DEF LatestOf
  <2> QED BY <1>1, <2>2 DEF NotYet
<1> QED BY <1>2, <1>3

-----------------------------------------------------------------------------
LEMMA LedgersInitial == LedgersInit /\ ClockInit => LedgersInv
<1> SUFFICES ASSUME LedgersInit, ClockInit PROVE LedgersInv
  OBVIOUS
<1>1. LedgersTyped
  BY ClockAssumption DEF LedgersInit, ClockInit, LedgersTyped, LedgersTypeOK, NotYet, Idle
<1>2. WritesKnown /\ NumbersAreOwn
  BY DEF LedgersInit, WritesKnown, EffectsAreTold, RivalsAreKnown, RepliesAreHeld, AnswersHold, WritesInProgress,
     Held, NumbersAreOwn, Idle
<1>3. ReadsReachTheLatest /\ ConsentOnce /\ ConsentIsLatest
  BY DEF LedgersInit, ReadsReachTheLatest, ConsentOnce, ConsentIsLatest, Idle, NotYet
<1> QED BY <1>1, <1>2, <1>3 DEF LedgersInv

\* A write that is sent: its number is nobody else's, and the writes of its
\* item that are in progress learn of it.
LEMMA SendsWriteStep ==
  ASSUME LedgersInv, NEW r \in Callers, NEW op \in {"store", "delete"},
         NEW key \in Owners \X Devices, SendsWrite(r, op, key)
  PROVE  LedgersInv'
<1> DEFINE others == {Effect(call[w].op) : w \in Writers(key)}
           q == Request(op, key, {Effect(op)} \cup others, NotYet)
           Told(s) == [call[s] EXCEPT !.rivals = @ \cup {Effect(op)}]
<1>1. /\ call[r] = Idle \/ call[r] \in Requested
      /\ call[r].pc = "idle" /\ called' = called + 1 /\ called \in Nat
      /\ UNCHANGED <<associations, ledger, accepted, shown, ledgerFaults, clock>>
      /\ told' = [told EXCEPT ![key] = @ \cup {Effect(op)}]
      /\ told \in [Owners \X Devices -> SUBSET {"there", "gone"}]
  BY DEF LedgersInv, LedgersTyped, LedgersTypeOK, SendsWrite, Sends
<1>2. Effect(op) \in {"there", "gone"} /\ others \subseteq {"there", "gone"}
  BY DEF Effect
<1> HIDE DEF others
<1>3. /\ q.pc = "sent" /\ q.op = op /\ q.key = key /\ q.at = clock /\ q.id = called
      /\ Effect(op) \in q.rivals /\ others \subseteq q.rivals
      /\ q \in Requested
  <2>1. q = [pc |-> "sent", op |-> op, key |-> key, at |-> clock, id |-> called,
             rivals |-> {Effect(op)} \cup others, floor |-> NotYet, reply |-> NotYet]
    BY DEF Request
  <2>2. /\ {Effect(op)} \cup others \in SUBSET {"there", "gone"}
        /\ key \in (Owners \X Devices) \cup (Owners \X ConsentTypes)
        /\ clock \in Nat /\ called \in Nat /\ NotYet \in Int
    <3>1. {Effect(op)} \cup others \in SUBSET {"there", "gone"}
      BY <1>2
    <3>2. clock \in Nat /\ called \in Nat /\ NotYet \in Int
      BY <1>1, ClockAssumption DEF LedgersInv, LedgersTyped, NotYet
    <3> QED BY <3>1, <3>2
  <2> HIDE DEF q
  <2> QED BY <2>1, <2>2 DEF Requested
<1>4. /\ call'[r] = q /\ call' \in [Callers -> {Idle} \cup Requested]
      /\ \A s \in Callers : s # r =>
           call'[s] = IF s \in Writers(key) THEN Told(s) ELSE call[s]
  <2>1. call' = [s \in Callers |->
          IF s = r THEN q ELSE IF s \in Writers(key) THEN Told(s) ELSE call[s]]
    BY DEF SendsWrite, others
  <2> HIDE DEF q
  <2>2. ASSUME NEW s \in Writers(key)
        PROVE  s \in Callers /\ Told(s) \in Requested
    <3>1. s \in Callers /\ call[s] \in Requested
      BY DEF Writers, LedgersInv, LedgersTyped, Idle
    <3> QED BY <1>2, <3>1 DEF Requested
  <2>3. call \in [Callers -> {Idle} \cup Requested]
    BY DEF LedgersInv, LedgersTyped
  <2> HIDE DEF Told
  <2> QED BY <1>3, <2>1, <2>2, <2>3
<1> HIDE DEF q
<1>5. ASSUME NEW s \in Callers, s # r
      PROVE  /\ call'[s].pc = call[s].pc
             /\ call[s].pc # "idle" =>
                  /\ call'[s].op = call[s].op /\ call'[s].key = call[s].key
                  /\ call'[s].at = call[s].at /\ call'[s].id = call[s].id
                  /\ call'[s].floor = call[s].floor /\ call'[s].reply = call[s].reply
                  /\ call[s].rivals \subseteq call'[s].rivals
                  /\ s \in Writers(key) => Effect(op) \in call'[s].rivals
  <2>1. call[s] = Idle \/ call[s] \in Requested
    BY DEF LedgersInv, LedgersTyped
  <2>2. s \in Writers(key) => call[s].pc # "idle"
    BY DEF Writers
  <2> QED BY <1>4, <1>5, <2>1, <2>2 DEF Idle, Requested
<1> HIDE DEF Told
<1>6. LedgersTyped'
  <2>0. /\ LedgersTyped /\ clock \in Nat
        /\ UNCHANGED <<associations, ledger, accepted, clock>> /\ called' = called + 1
    BY <1>1, ClockAssumption DEF LedgersInv, LedgersTyped
  <2>1. \A s \in Callers : call'[s].pc \in {"idle", "sent", "done", "refused"}
    BY <1>3, <1>4, <1>5, <2>0 DEF LedgersTyped, LedgersTypeOK
  <2>2. \A c \in ledger' : c.key \in Owners \X ConsentTypes /\ c.at \in 0 .. clock' /\ c.id < called'
    BY <1>1, <2>0 DEF LedgersTyped, LedgersTypeOK
  <2>3. LedgersTypeOK'
    BY <1>1, <1>2, <2>0, <2>1, <2>2 DEF LedgersTyped, LedgersTypeOK
  <2>4. \A s \in Callers : call'[s].pc # "idle" =>
          /\ call'[s].op \in {"store", "delete", "get"} => call'[s].key \in Owners \X Devices
          /\ call'[s].op \in {"record", "latest"} => call'[s].key \in Owners \X ConsentTypes
          /\ call'[s].at <= clock'
    BY <1>3, <1>4, <1>5, <2>0 DEF LedgersTyped
  <2>5. \A s \in Callers : call'[s].pc = "done" /\ call'[s].op = "record" => RecordOf(s)' \in ledger'
    BY <1>3, <1>4, <1>5, <2>0 DEF LedgersTyped, RecordOf
  <2> QED BY <1>1, <1>4, <2>0, <2>3, <2>4, <2>5 DEF LedgersTyped
<1>7. EffectsAreTold' /\ AnswersHold'
  <2>1. \A k \in Owners \X Devices : told[k] \subseteq told'[k] /\ Effect(op) \in told'[key]
    BY <1>1
  <2>2. AnswersHold'
    BY <1>1, <2>1 DEF LedgersInv, WritesKnown, AnswersHold, Held
  <2>3. ASSUME NEW s \in Callers, call'[s].pc # "idle", IsWrite(call'[s])
        PROVE  Effect(call'[s].op) \in told'[call'[s].key]
    <3>1. CASE s = r
      BY <1>3, <1>4, <2>1, <3>1
    <3>2. CASE s # r
      <4>1. /\ call[s].pc # "idle" /\ call'[s].op = call[s].op /\ call'[s].key = call[s].key
            /\ IsWrite(call[s]) /\ call[s].key \in Owners \X Devices
        BY <1>5, <2>3, <3>2 DEF IsWrite, LedgersInv, LedgersTyped
      <4> QED BY <2>1, <4>1 DEF LedgersInv, WritesKnown, EffectsAreTold
    <3> QED BY <3>1, <3>2
  <2> QED BY <2>2, <2>3 DEF EffectsAreTold
<1>8. RivalsAreKnown' /\ RepliesAreHeld'
  <2>1. ASSUME NEW s \in Callers, s # r, call'[s].pc # "idle", IsWrite(call'[s])
        PROVE  /\ call[s].pc = call'[s].pc /\ call[s].pc # "idle" /\ IsWrite(call[s])
               /\ call'[s].op = call[s].op /\ call'[s].key = call[s].key
               /\ call[s].rivals \subseteq call'[s].rivals
               /\ call[s].key = key =>
                    s \in Writers(key) /\ Effect(op) \in call'[s].rivals /\ Effect(call[s].op) \in q.rivals
    <3>1. /\ call[s].pc = call'[s].pc /\ call[s].pc # "idle" /\ IsWrite(call[s])
          /\ call'[s].op = call[s].op /\ call'[s].key = call[s].key
          /\ call[s].rivals \subseteq call'[s].rivals
      BY <1>5, <2>1 DEF IsWrite
    <3>2. call[s].key = key => s \in Writers(key)
      BY <3>1 DEF IsWrite, Writers
    <3>3. s \in Writers(key) => Effect(call[s].op) \in others
      BY DEF others
    <3> QED BY <1>3, <1>5, <2>1, <3>1, <3>2, <3>3
  <2>2. ASSUME NEW s \in Callers, NEW t \in Callers, WritesInProgress(s, t)'
        PROVE  Effect(call'[t].op) \in call'[s].rivals
    <3>1. CASE s = r
      BY <1>3, <1>4, <2>1, <2>2, <3>1 DEF WritesInProgress
    <3>2. CASE s # r /\ t = r
      BY <1>3, <1>4, <2>1, <2>2, <3>2 DEF WritesInProgress
    <3>3. CASE s # r /\ t # r
      <4>1. WritesInProgress(s, t)
        BY <2>1, <2>2, <3>3 DEF WritesInProgress
      <4>2. Effect(call[t].op) \in call[s].rivals
        BY <4>1 DEF LedgersInv, WritesKnown, RivalsAreKnown
      <4> QED BY <2>1, <2>2, <3>3, <4>2 DEF WritesInProgress
    <3> QED BY <3>1, <3>2, <3>3
  <2>3. RivalsAreKnown'
    BY <2>2 DEF RivalsAreKnown
  <2>4. \A k : Held(k)' = Held(k)
    BY <1>1 DEF Held
  <2>5. RepliesAreHeld'
    BY <1>3, <1>4, <2>1, <2>4 DEF LedgersInv, WritesKnown, RepliesAreHeld
  <2> QED BY <2>3, <2>5
<1>9. NumbersAreOwn' /\ ConsentOnce'
  <2>1. ASSUME NEW s \in Callers, call'[s].pc # "idle"
        PROVE  /\ s = r => call'[s].id = called
               /\ s # r => call[s].pc # "idle" /\ call'[s].id = call[s].id /\ call[s].id < called
                            /\ call'[s].op = call[s].op /\ RecordOf(s)' = RecordOf(s)
    BY <1>3, <1>4, <1>5, <2>1 DEF LedgersInv, NumbersAreOwn, RecordOf
  <2>2. \A s \in Callers : call[s].pc # "idle" => call[s].id \in Nat
    BY DEF LedgersInv, LedgersTyped, Requested, Idle
  <2>3. \A c \in ledger : c.id \in Nat /\ c.id < called
    BY DEF LedgersInv, LedgersTyped, LedgersTypeOK
  <2>4. \A s \in Callers : call'[s].pc # "idle" => call'[s].id < called'
    BY <1>1, <2>1, <2>2
  <2>5. \A s, t \in Callers :
          call'[s].pc # "idle" /\ call'[t].pc # "idle" /\ call'[s].id = call'[t].id => s = t
    BY <1>1, <2>1, <2>2 DEF LedgersInv, NumbersAreOwn
  <2>6. \A c \in ledger : \A s \in Callers : call'[s].pc # "idle" /\ call'[s].id = c.id =>
          call'[s].op = "record" /\ c = RecordOf(s)'
    BY <1>1, <2>1, <2>2, <2>3 DEF LedgersInv, NumbersAreOwn
  <2> QED BY <1>1, <2>4, <2>5, <2>6 DEF LedgersInv, NumbersAreOwn, ConsentOnce
<1>10. ReadsReachTheLatest' /\ ConsentIsLatest'
  BY <1>1, <1>3, <1>4, <1>5 DEF LedgersInv, ReadsReachTheLatest, Times, ConsentIsLatest
<1> QED BY <1>6, <1>7, <1>8, <1>9, <1>10 DEF LedgersInv, WritesKnown

LEMMA SendsReadStep ==
  ASSUME LedgersInv, NEW r \in Callers, NEW op \in {"get", "record", "latest"}, NEW key, NEW floor \in Int,
         op = "get" => key \in Owners \X Devices,
         op # "get" => key \in Owners \X ConsentTypes,
         op = "latest" => floor = NotYet \/ floor \in Times(key),
         SendsRead(r, op, key, floor)
  PROVE  LedgersInv'
<1> DEFINE q == Request(op, key, {}, floor)
<1>1. /\ LedgersTyped /\ call[r].pc = "idle" /\ called' = called + 1 /\ called \in Nat /\ clock \in Nat
      /\ UNCHANGED <<associations, ledger, told, accepted, shown, ledgerFaults, clock>>
  BY ClockAssumption DEF LedgersInv, LedgersTyped, SendsRead, Sends
<1>2. /\ q.pc = "sent" /\ q.op = op /\ q.key = key /\ q.at = clock /\ q.id = called
      /\ q.floor = floor /\ q \in Requested
  BY <1>1 DEF Request, Requested, NotYet
<1> HIDE DEF q
<1>3. /\ call'[r] = q /\ call' \in [Callers -> {Idle} \cup Requested]
      /\ \A s \in Callers : s # r => call'[s] = call[s]
  BY <1>1, <1>2 DEF SendsRead, LedgersTyped, q
<1>4. LedgersTyped'
  <2>1. \A c \in ledger' : c.key \in Owners \X ConsentTypes /\ c.at \in 0 .. clock' /\ c.id < called'
    BY <1>1 DEF LedgersTyped, LedgersTypeOK
  <2>2. \A s \in Callers : call'[s].pc \in {"idle", "sent", "done", "refused"}
    BY <1>1, <1>2, <1>3 DEF LedgersTyped, LedgersTypeOK
  <2>3. \A s \in Callers : call'[s].pc = "done" /\ call'[s].op = "record" => RecordOf(s)' \in ledger'
    BY <1>1, <1>2, <1>3 DEF LedgersTyped, RecordOf
  <2> QED BY <1>1, <1>2, <1>3, <2>1, <2>2, <2>3 DEF LedgersTyped, LedgersTypeOK
<1>5. WritesKnown'
  <2>1. \A s \in Callers : call'[s].pc # "idle" /\ IsWrite(call'[s]) => s # r /\ call'[s] = call[s]
    BY <1>2, <1>3 DEF IsWrite
  <2>2. \A k : Held(k)' = Held(k)
    BY <1>1 DEF Held
  <2>3. \A s, t \in Callers : WritesInProgress(s, t)' =>
          WritesInProgress(s, t) /\ call'[s] = call[s] /\ call'[t] = call[t]
    BY <2>1 DEF WritesInProgress
  <2>4. RivalsAreKnown'
    BY <2>3 DEF LedgersInv, WritesKnown, RivalsAreKnown
  <2>5. RepliesAreHeld'
    BY <2>1, <2>2 DEF LedgersInv, WritesKnown, RepliesAreHeld
  <2>6. EffectsAreTold' /\ AnswersHold'
    BY <1>1, <2>1, <2>2 DEF LedgersInv, WritesKnown, EffectsAreTold, AnswersHold
  <2> QED BY <2>4, <2>5, <2>6 DEF WritesKnown
<1>6. NumbersAreOwn' /\ ConsentOnce'
  <2>1. ASSUME NEW s \in Callers, call'[s].pc # "idle"
        PROVE  /\ s = r => call'[s].id = called
               /\ s # r => call[s].pc # "idle" /\ call'[s].id = call[s].id /\ call[s].id < called
                            /\ call'[s].op = call[s].op /\ RecordOf(s)' = RecordOf(s)
    BY <1>2, <1>3, <2>1 DEF LedgersInv, NumbersAreOwn, RecordOf
  <2>2. \A s \in Callers : call[s].pc # "idle" => call[s].id \in Nat
    BY <1>1 DEF LedgersTyped, Requested, Idle
  <2>3. \A c \in ledger : c.id \in Nat /\ c.id < called
    BY <1>1 DEF LedgersTyped, LedgersTypeOK
  <2>4. \A s \in Callers : call'[s].pc # "idle" => call'[s].id < called'
    BY <1>1, <2>1, <2>2
  <2>5. \A s, t \in Callers :
          call'[s].pc # "idle" /\ call'[t].pc # "idle" /\ call'[s].id = call'[t].id => s = t
    BY <1>1, <2>1, <2>2 DEF LedgersInv, NumbersAreOwn
  <2>6. \A c \in ledger : \A s \in Callers : call'[s].pc # "idle" /\ call'[s].id = c.id =>
          call'[s].op = "record" /\ c = RecordOf(s)'
    BY <1>1, <2>1, <2>2, <2>3 DEF LedgersInv, NumbersAreOwn
  <2> QED BY <1>1, <2>4, <2>5, <2>6 DEF LedgersInv, NumbersAreOwn, ConsentOnce
<1>7. ReadsReachTheLatest' /\ ConsentIsLatest'
  BY <1>1, <1>2, <1>3 DEF LedgersInv, ReadsReachTheLatest, Times, ConsentIsLatest
<1> QED BY <1>4, <1>5, <1>6, <1>7 DEF LedgersInv

\* A request that goes on keeps what it asks for, and its number.
Continues(r, q) ==
  /\ call[r].pc # "idle" /\ q.pc # "idle" /\ q \in Requested
  /\ q.op = call[r].op /\ q.key = call[r].key /\ q.at = call[r].at /\ q.id = call[r].id
  /\ q.rivals = call[r].rivals /\ q.floor = call[r].floor
  /\ call' = [call EXCEPT ![r] = q]
  /\ UNCHANGED <<called, told, accepted, clock>>

LEMMA ContinuesFacts ==
  ASSUME LedgersInv, NEW r \in Callers, NEW q, Continues(r, q),
         ledger' = ledger \/ (call[r].op = "record" /\ ledger' = ledger \cup {RecordOf(r)})
  PROVE  /\ call' \in [Callers -> {Idle} \cup Requested]
         /\ \A s \in Callers : /\ call'[s].pc # "idle" <=> call[s].pc # "idle"
                               /\ call[s].pc # "idle" =>
                                    /\ call'[s].op = call[s].op /\ call'[s].key = call[s].key
                                    /\ call'[s].at = call[s].at /\ call'[s].id = call[s].id
                                    /\ call'[s].rivals = call[s].rivals
                                    /\ RecordOf(s)' = RecordOf(s)
         /\ EffectsAreTold' /\ RivalsAreKnown' /\ NumbersAreOwn' /\ ConsentOnce'
<1>1. /\ call'[r] = q /\ call' \in [Callers -> {Idle} \cup Requested]
      /\ \A s \in Callers : s # r => call'[s] = call[s]
  BY DEF Continues, LedgersInv, LedgersTyped
<1>2. \A s \in Callers : /\ call'[s].pc # "idle" <=> call[s].pc # "idle"
                         /\ call[s].pc # "idle" =>
                              /\ call'[s].op = call[s].op /\ call'[s].key = call[s].key
                              /\ call'[s].at = call[s].at /\ call'[s].id = call[s].id
                              /\ call'[s].rivals = call[s].rivals
                              /\ RecordOf(s)' = RecordOf(s)
  BY <1>1 DEF Continues, RecordOf
<1>3. EffectsAreTold' /\ RivalsAreKnown'
  <2>1. \A s, t \in Callers : WritesInProgress(s, t)' =>
          WritesInProgress(s, t) /\ call'[s].rivals = call[s].rivals /\ call'[t].op = call[t].op
    BY <1>2 DEF WritesInProgress, IsWrite
  <2>2. RivalsAreKnown'
    BY <2>1 DEF LedgersInv, WritesKnown, RivalsAreKnown
  <2>3. EffectsAreTold'
    BY <1>2 DEF Continues, LedgersInv, WritesKnown, EffectsAreTold, IsWrite
  <2> QED BY <2>2, <2>3
<1>4. /\ \A s \in Callers : call'[s].pc # "idle" => call'[s].id < called'
      /\ \A s, t \in Callers :
           call'[s].pc # "idle" /\ call'[t].pc # "idle" /\ call'[s].id = call'[t].id => s = t
  BY <1>2 DEF Continues, LedgersInv, NumbersAreOwn
<1>5. \A c \in ledger : \A s \in Callers :
        call'[s].pc # "idle" /\ call'[s].id = c.id => call'[s].op = "record" /\ c = RecordOf(s)'
  BY <1>2 DEF LedgersInv, NumbersAreOwn
<1>6. call[r].op = "record" => \A s \in Callers :
        call'[s].pc # "idle" /\ call'[s].id = RecordOf(r).id => call'[s].op = "record" /\ RecordOf(r) = RecordOf(s)'
  BY <1>2 DEF Continues, LedgersInv, NumbersAreOwn, RecordOf
<1>7. NumbersAreOwn'
  BY <1>4, <1>5, <1>6 DEF NumbersAreOwn
<1>8. ConsentOnce'
  BY DEF Continues, LedgersInv, NumbersAreOwn, ConsentOnce, RecordOf
<1> QED BY <1>1, <1>2, <1>3, <1>7, <1>8

\* The parts of the invariant that are the same for every request that goes
\* on; what is left is what its reply says.
LEMMA ContinuesStep ==
  ASSUME LedgersInv, NEW r \in Callers, NEW q, Continues(r, q),
         \/ ledger' = ledger
         \/ call[r].op = "record" /\ ledger' = ledger \cup {RecordOf(r)},
         associations' \in [Owners \X Devices -> {NotYet} \cup 0 .. MaxTime],
         q.pc = "done" /\ q.op = "record" => RecordOf(r) \in ledger',
         q.pc = "done" /\ q.op = "latest" => q.reply >= q.floor,
         shown' = shown, RepliesAreHeld', AnswersHold'
  PROVE  LedgersInv'
<1>0. /\ LedgersTyped /\ clock \in Nat /\ call[r] \in Requested
      /\ UNCHANGED <<called, told, accepted, clock>>
  BY ClockAssumption DEF LedgersInv, LedgersTyped, Continues, Idle
<1>1. /\ call'[r] = q /\ call' \in [Callers -> {Idle} \cup Requested]
      /\ \A s \in Callers : s # r => call'[s] = call[s]
  BY DEF Continues, LedgersInv, LedgersTyped
<1>2. ledger \subseteq ledger'
  OBVIOUS
<1>3. \A c \in ledger' : /\ c.key \in Owners \X ConsentTypes /\ c.at \in 0 .. clock
                         /\ c.id < called /\ c.id \in Nat
  <2>1. call[r].op = "record" =>
          /\ RecordOf(r).key \in Owners \X ConsentTypes /\ RecordOf(r).at \in 0 .. clock
          /\ RecordOf(r).id < called /\ RecordOf(r).id \in Nat
    BY <1>0 DEF LedgersInv, LedgersTyped, NumbersAreOwn, Continues, RecordOf, Requested
  <2> QED BY <1>0, <2>1 DEF LedgersTyped, LedgersTypeOK
<1>4. \A k \in Owners \X ConsentTypes : accepted'[k] \in {NotYet} \cup {c.at : c \in {d \in ledger' : d.key = k}}
  BY <1>0, <1>2 DEF LedgersTyped, LedgersTypeOK
<1>5. \A s \in Callers : call'[s].pc \in {"idle", "sent", "done", "refused"}
  BY <1>1, <1>0 DEF Continues, LedgersTyped, LedgersTypeOK, Requested
<1>6. LedgersTypeOK'
  BY <1>0, <1>3, <1>4, <1>5 DEF LedgersTyped, LedgersTypeOK
<1>7. \A s \in Callers : call'[s].pc # "idle" =>
        /\ call'[s].op \in {"store", "delete", "get"} => call'[s].key \in Owners \X Devices
        /\ call'[s].op \in {"record", "latest"} => call'[s].key \in Owners \X ConsentTypes
        /\ call'[s].at <= clock'
  BY <1>0, <1>1 DEF Continues, LedgersTyped
<1>8. \A s \in Callers : call'[s].pc = "done" /\ call'[s].op = "record" => RecordOf(s)' \in ledger'
  BY <1>0, <1>1, <1>2 DEF Continues, LedgersTyped, RecordOf
<1>9. LedgersTyped'
  BY <1>0, <1>1, <1>3, <1>6, <1>7, <1>8 DEF LedgersTyped
<1>10. \A k : Times(k) \subseteq Times(k)'
  BY <1>2 DEF Times
<1>11. ReadsReachTheLatest'
  BY <1>1, <1>10 DEF Continues, LedgersInv, ReadsReachTheLatest
<1>12. ConsentIsLatest'
  BY DEF LedgersInv, ConsentIsLatest
<1> QED BY <1>9, <1>11, <1>12, ContinuesFacts DEF LedgersInv, WritesKnown

\* A write that takes effect: the answered ones left it possible, and the
\* writes of its item that have their reply know of it.
LEMMA TakesEffect ==
  ASSUME LedgersInv, NEW r \in Callers, NEW q, Continues(r, q), ledger' = ledger, IsWrite(q),
         \A k \in Owners \X Devices : Held(k)' = IF k = q.key THEN Effect(q.op) ELSE Held(k)
  PROVE  RepliesAreHeld' /\ AnswersHold'
<1>1. /\ call[r].pc # "idle" /\ IsWrite(call[r]) /\ q.op = call[r].op /\ q.key = call[r].key
      /\ told' = told /\ told \in [Owners \X Devices -> SUBSET {"there", "gone"}]
  BY DEF Continues, IsWrite, LedgersInv, LedgersTyped, LedgersTypeOK
<1>2. AnswersHold'
  <2>1. Effect(q.op) \in told[q.key]
    BY <1>1 DEF LedgersInv, WritesKnown, EffectsAreTold
  <2> QED BY <1>1, <2>1 DEF LedgersInv, WritesKnown, AnswersHold
<1>3. ASSUME NEW s \in Callers, call'[s].pc = "done", IsWrite(call'[s])
      PROVE  \A k : k = call'[s].key => Held(k)' \in call'[s].rivals
  <2>1. /\ call[s].pc # "idle" /\ IsWrite(call[s]) /\ call'[s].key = call[s].key
        /\ call'[s].rivals = call[s].rivals /\ call[s].key \in Owners \X Devices
        /\ s # r => call'[s] = call[s]
    <3>1. /\ call'[s].pc # "idle" <=> call[s].pc # "idle"
          /\ call[s].pc # "idle" =>
               /\ call'[s].op = call[s].op /\ call'[s].key = call[s].key
               /\ call'[s].rivals = call[s].rivals
      BY ContinuesFacts
    <3>2. s # r => call'[s] = call[s]
      BY DEF Continues, LedgersInv, LedgersTyped
    <3> QED BY <1>3, <3>1, <3>2 DEF IsWrite, LedgersInv, LedgersTyped
  <2>2. CASE call[s].key = q.key
    <3>1. WritesInProgress(s, r)
      BY <1>1, <2>1, <2>2 DEF WritesInProgress
    <3> QED BY <1>1, <2>1, <2>2, <3>1 DEF LedgersInv, WritesKnown, RivalsAreKnown
  <2>3. CASE call[s].key # q.key
    <3>1. s # r
      BY <1>1, <2>3
    <3> QED BY <1>3, <2>1, <2>3, <3>1 DEF LedgersInv, WritesKnown, RepliesAreHeld
  <2> QED BY <2>2, <2>3
<1> QED BY <1>2, <1>3 DEF RepliesAreHeld

\* Nothing else changes what an answer to a write says.
LEMMA LeavesWrites ==
  ASSUME LedgersInv, NEW r \in Callers, NEW q, Continues(r, q),
         ~(IsWrite(q) /\ q.pc = "done"), associations' = associations
  PROVE  RepliesAreHeld' /\ AnswersHold'
<1>1. told' = told /\ \A k : Held(k)' = Held(k)
  BY DEF Continues, Held
<1>2. call'[r] = q /\ \A s \in Callers : s # r => call'[s] = call[s]
  BY DEF Continues, LedgersInv, LedgersTyped
<1>3. AnswersHold'
  BY <1>1 DEF LedgersInv, WritesKnown, AnswersHold
<1>4. RepliesAreHeld'
  BY <1>1, <1>2 DEF LedgersInv, WritesKnown, RepliesAreHeld
<1> QED BY <1>3, <1>4

\* What DynamoDB executes for r: an item of the table, a record, or nothing.
LEMMA ExecuteStep ==
  ASSUME LedgersInv, NEW r \in Callers, Execute(r)
  PROVE  LedgersInv'
<1>0. /\ LedgersTyped /\ clock \in Nat /\ clock \in 0 .. MaxTime
      /\ UNCHANGED <<called, told, accepted, shown, ledgerFaults, clock>>
      /\ associations \in [Owners \X Devices -> {NotYet} \cup 0 .. MaxTime]
  BY ClockAssumption DEF LedgersInv, LedgersTyped, LedgersTypeOK, Execute
<1>1. ASSUME NEW value \in Int, Reply(r, value), call[r].pc = "sent"
      PROVE  /\ call[r] \in Requested /\ call \in [Callers -> {Idle} \cup Requested]
             /\ Continues(r, [call[r] EXCEPT !.pc = "done", !.reply = value])
             /\ [call[r] EXCEPT !.pc = "done", !.reply = value].pc = "done"
             /\ [call[r] EXCEPT !.pc = "done", !.reply = value].op = call[r].op
             /\ [call[r] EXCEPT !.pc = "done", !.reply = value].floor = call[r].floor
             /\ [call[r] EXCEPT !.pc = "done", !.reply = value].reply = value
  <2>1. call \in [Callers -> {Idle} \cup Requested] /\ call[r] \in Requested
    BY <1>0, <1>1 DEF LedgersTyped, Idle
  <2> QED BY <1>0, <1>1, <2>1 DEF Reply, Continues, Requested
<1>2. CASE StoreAssociation(r)
  <2> DEFINE q == [call[r] EXCEPT !.pc = "done", !.reply = NotYet]
  <2>1. /\ Continues(r, q) /\ q.pc = "done" /\ q.op = "store" /\ call[r].op = "store"
        /\ call[r] \in Requested /\ call[r].at \in 0 .. MaxTime
        /\ call[r].key \in Owners \X Devices /\ call[r].pc = "sent"
    <3>1. Reply(r, NotYet) /\ call[r].pc = "sent" /\ call[r].op = "store" /\ NotYet \in Int
      BY <1>2 DEF StoreAssociation, Reached, NotYet
    <3>2. Continues(r, q) /\ q.pc = "done" /\ q.op = "store"
      BY <3>1, <1>1
    <3>3. /\ call[r].key \in Owners \X Devices /\ call[r] \in Requested
          /\ call[r].at <= clock /\ call[r].at \in Nat
      BY <1>0, <1>1, <3>1 DEF LedgersTyped, Requested
    <3> QED BY <1>0, <3>1, <3>2, <3>3, ClockAssumption
  <2>2. associations' = [associations EXCEPT ![call[r].key] = call[r].at] /\ UNCHANGED <<ledger, shown>>
    BY <1>0, <1>2 DEF StoreAssociation
  <2> HIDE DEF q
  <2>3. associations'[call[r].key] # NotYet
        /\ associations' \in [Owners \X Devices -> {NotYet} \cup 0 .. MaxTime]
    BY <1>0, <2>1, <2>2 DEF NotYet
  <2>4. /\ IsWrite(q) /\ q.key = call[r].key
        /\ \A k \in Owners \X Devices : Held(k)' = IF k = q.key THEN Effect(q.op) ELSE Held(k)
    BY <1>0, <2>1, <2>2, <2>3 DEF Continues, IsWrite, Held, Effect
  <2>5. RepliesAreHeld' /\ AnswersHold'
    BY <2>1, <2>2, <2>4, TakesEffect
  <2> QED BY <2>1, <2>2, <2>3, <2>5, ContinuesStep
<1>3. CASE DeleteAssociation(r)
  <2> DEFINE q == [call[r] EXCEPT !.pc = "done", !.reply = NotYet]
  <2>1. /\ Continues(r, q) /\ q.pc = "done" /\ q.op = "delete" /\ call[r].op = "delete"
        /\ call[r].key \in Owners \X Devices /\ call[r].pc = "sent"
    <3>1. Reply(r, NotYet) /\ call[r].pc = "sent" /\ call[r].op = "delete" /\ NotYet \in Int
      BY <1>3 DEF DeleteAssociation, Reached, NotYet
    <3>2. Continues(r, q) /\ q.pc = "done" /\ q.op = "delete"
      BY <3>1, <1>1
    <3> QED BY <1>0, <3>1, <3>2 DEF LedgersTyped
  <2>2. associations' = [associations EXCEPT ![call[r].key] = NotYet] /\ UNCHANGED <<ledger, shown>>
    BY <1>0, <1>3 DEF DeleteAssociation
  <2> HIDE DEF q
  <2>3. associations'[call[r].key] = NotYet
        /\ associations' \in [Owners \X Devices -> {NotYet} \cup 0 .. MaxTime]
    BY <1>0, <2>1, <2>2 DEF NotYet
  <2>4. /\ IsWrite(q) /\ q.key = call[r].key
        /\ \A k \in Owners \X Devices : Held(k)' = IF k = q.key THEN Effect(q.op) ELSE Held(k)
    BY <1>0, <2>1, <2>2, <2>3 DEF Continues, IsWrite, Held, Effect
  <2>5. RepliesAreHeld' /\ AnswersHold'
    BY <2>1, <2>2, <2>4, TakesEffect
  <2> QED BY <2>1, <2>2, <2>3, <2>5, ContinuesStep
<1>4. ASSUME NEW value \in Int, Reply(r, value), call[r].pc = "sent", call[r].op \in {"get", "latest"},
             call[r].op = "latest" => value >= call[r].floor, UNCHANGED <<associations, ledger>>
      PROVE  LedgersInv'
  <2> DEFINE q == [call[r] EXCEPT !.pc = "done", !.reply = value]
  <2>1. /\ Continues(r, q) /\ q.pc = "done" /\ q.op = call[r].op
        /\ q.floor = call[r].floor /\ q.reply = value
    BY <1>1, <1>4
  <2> HIDE DEF q
  <2>2. AnswersHold' /\ RepliesAreHeld'
    <3>1. ~(IsWrite(q) /\ q.pc = "done")
      BY <1>4, <2>1 DEF IsWrite
    <3> QED BY <1>4, <2>1, <3>1, LeavesWrites
  <2> QED BY <1>0, <1>4, <2>1, <2>2, ContinuesStep
<1>5. CASE GetAssociation(r)
  <2>1. Reply(r, associations[call[r].key]) /\ call[r].pc = "sent" /\ call[r].op = "get"
        /\ call[r].key \in Owners \X Devices /\ UNCHANGED <<associations, ledger>>
    BY <1>0, <1>5 DEF GetAssociation, Reached, LedgersTyped
  <2>2. associations[call[r].key] \in Int
    BY <1>0, <2>1 DEF NotYet
  <2> QED BY <1>4, <2>1, <2>2
<1>6. CASE GetLatestConsent(r)
  <2>1. Reply(r, LatestOf(call[r].key)) /\ call[r].pc = "sent" /\ call[r].op = "latest"
        /\ UNCHANGED <<associations, ledger>>
    BY <1>6 DEF GetLatestConsent, Reached
  <2>2. LatestOf(call[r].key) \in Int /\ LatestOf(call[r].key) >= call[r].floor
    BY <1>0, <2>1, LatestOfIsLatest DEF LedgersInv, ReadsReachTheLatest
  <2> QED BY <1>4, <2>1, <2>2
<1>7. CASE RecordConsent(r)
  <2> DEFINE q == [call[r] EXCEPT !.pc = IF RecordOf(r) \in ledger THEN "refused" ELSE "done"]
  <2>1. /\ call[r] \in Requested /\ call[r].pc = "sent" /\ call[r].op = "record"
        /\ call' = [call EXCEPT ![r] = q] /\ UNCHANGED associations
        /\ ledger' = ledger \cup {RecordOf(r)} /\ call \in [Callers -> {Idle} \cup Requested]
    BY <1>0, <1>7 DEF RecordConsent, Reached, LedgersTyped, Idle
  <2>2. /\ q \in Requested /\ q.pc \in {"refused", "done"} /\ q.op = "record"
        /\ Continues(r, q)
    BY <1>0, <2>1 DEF Requested, Continues
  <2> HIDE DEF q
  <2>3. ~(IsWrite(q) /\ q.pc = "done")
    BY <2>2 DEF IsWrite
  <2>4. RepliesAreHeld' /\ AnswersHold'
    BY <2>1, <2>2, <2>3, LeavesWrites
  <2>5. q.pc = "done" /\ q.op = "record" => RecordOf(r) \in ledger'
    BY <2>1
  <2>6. q.pc = "done" /\ q.op = "latest" => q.reply >= q.floor
    BY <2>2
  <2> QED BY <1>0, <2>1, <2>2, <2>4, <2>5, <2>6, ContinuesStep
<1> QED BY <1>2, <1>3, <1>5, <1>6, <1>7 DEF Execute

\* The SDK sends the request of r again.
LEMMA SentAgainStep ==
  ASSUME LedgersInv, NEW r \in Callers, SentAgain(r)
  PROVE  LedgersInv'
<1> DEFINE q == [call[r] EXCEPT !.pc = "sent"]
<1>1. /\ LedgersTyped /\ call[r] \in Requested /\ call[r].pc = "done" /\ call' = [call EXCEPT ![r] = q]
      /\ UNCHANGED <<associations, ledger, called, told, accepted, shown, clock>>
      /\ call \in [Callers -> {Idle} \cup Requested]
  BY DEF SentAgain, LedgersInv, LedgersTyped, Idle
<1>2. q \in Requested /\ q.pc = "sent" /\ q.op = call[r].op /\ Continues(r, q)
  BY <1>1 DEF Requested, Continues
<1> HIDE DEF q
<1>3. AnswersHold' /\ RepliesAreHeld'
  BY <1>1, <1>2, LeavesWrites
<1>4. associations' \in [Owners \X Devices -> {NotYet} \cup 0 .. MaxTime]
  BY <1>1 DEF LedgersTyped, LedgersTypeOK
<1> QED BY <1>1, <1>2, <1>3, <1>4, ContinuesStep

\* What a request that ends leaves: the others are as they were.
LEMMA EndsStep ==
  ASSUME LedgersInv, NEW r \in Callers, call[r].pc # "idle",
         call' = [call EXCEPT ![r] = Idle],
         UNCHANGED <<associations, ledger, called, clock>>,
         told' \in [Owners \X Devices -> SUBSET {"there", "gone"}],
         \A k \in Owners \X Devices : told'[k] # told[k] =>
           /\ call[r].pc = "done" /\ IsWrite(call[r]) /\ k = call[r].key
           /\ told'[k] = told[k] \cap call[r].rivals,
         accepted' \in [Owners \X ConsentTypes -> Int],
         \A k \in Owners \X ConsentTypes : accepted'[k] \in {NotYet} \cup {c.at : c \in {d \in ledger : d.key = k}},
         ConsentIsLatest'
  PROVE  LedgersInv'
<1>1. /\ LedgersTyped /\ call' \in [Callers -> {Idle} \cup Requested]
      /\ call'[r].pc = "idle" /\ \A s \in Callers : s # r => call'[s] = call[s]
      /\ told \in [Owners \X Devices -> SUBSET {"there", "gone"}]
  BY DEF LedgersInv, LedgersTyped, LedgersTypeOK, Idle
<1>2. \A s \in Callers : call'[s].pc # "idle" =>
        s # r /\ call[s].pc # "idle" /\ call'[s] = call[s] /\ RecordOf(s)' = RecordOf(s)
  BY <1>1 DEF RecordOf
<1>3. LedgersTyped'
  <2>1. \A s \in Callers : call'[s].pc \in {"idle", "sent", "done", "refused"}
    BY <1>1 DEF LedgersTyped, LedgersTypeOK
  <2>2. \A s \in Callers : call'[s].pc = "done" /\ call'[s].op = "record" => RecordOf(s)' \in ledger'
    BY <1>1, <1>2 DEF LedgersTyped
  <2>3. \A s \in Callers : call'[s].pc # "idle" =>
          /\ call'[s].op \in {"store", "delete", "get"} => call'[s].key \in Owners \X Devices
          /\ call'[s].op \in {"record", "latest"} => call'[s].key \in Owners \X ConsentTypes
          /\ call'[s].at <= clock'
    BY <1>1, <1>2 DEF LedgersTyped
  <2> QED BY <1>1, <2>1, <2>2, <2>3 DEF LedgersTyped, LedgersTypeOK
<1>4. EffectsAreTold' /\ RivalsAreKnown'
  <2>1. ASSUME NEW s \in Callers, call'[s].pc # "idle", IsWrite(call'[s])
        PROVE  Effect(call'[s].op) \in told'[call'[s].key]
    <3>1. /\ s # r /\ call[s].pc # "idle" /\ call'[s] = call[s] /\ call[s].key \in Owners \X Devices
          /\ IsWrite(call[s]) /\ Effect(call[s].op) \in told[call[s].key]
      BY <1>1, <1>2, <2>1 DEF LedgersInv, LedgersTyped, WritesKnown, EffectsAreTold, IsWrite
    <3>2. told'[call[s].key] # told[call[s].key] => Effect(call[s].op) \in call[r].rivals
      <4>1. told'[call[s].key] # told[call[s].key] => WritesInProgress(r, s)
        BY <3>1 DEF WritesInProgress
      <4> QED BY <4>1 DEF LedgersInv, WritesKnown, RivalsAreKnown
    <3> QED BY <3>1, <3>2
  <2>2. \A s, t \in Callers : WritesInProgress(s, t)' =>
          WritesInProgress(s, t) /\ call'[s] = call[s] /\ call'[t] = call[t]
    BY <1>2 DEF WritesInProgress
  <2>3. RivalsAreKnown'
    BY <2>2 DEF LedgersInv, WritesKnown, RivalsAreKnown
  <2> QED BY <2>1, <2>3 DEF EffectsAreTold
<1>5. (\A k : Held(k)' = Held(k)) /\ RepliesAreHeld'
  <2>1. \A k : Held(k)' = Held(k)
    BY DEF Held
  <2> QED BY <1>2, <2>1 DEF LedgersInv, WritesKnown, RepliesAreHeld
<1>6. NumbersAreOwn' /\ ConsentOnce'
  BY <1>2 DEF LedgersInv, NumbersAreOwn, ConsentOnce
<1>7. ReadsReachTheLatest'
  BY <1>2 DEF LedgersInv, ReadsReachTheLatest, Times
<1>8. AnswersHold'
  <2>1. ASSUME NEW k \in Owners \X Devices
        PROVE  Held(k)' \in told'[k]
    <3>1. Held(k) \in told[k]
      BY <1>1 DEF LedgersInv, WritesKnown, AnswersHold
    <3>2. told'[k] # told[k] => Held(k) \in call[r].rivals
      BY DEF LedgersInv, WritesKnown, RepliesAreHeld
    <3> QED BY <1>5, <3>1, <3>2
  <2> QED BY <2>1 DEF AnswersHold
<1> QED BY <1>3, <1>4, <1>5, <1>6, <1>7, <1>8 DEF LedgersInv, WritesKnown

LEMMA AnswersStep ==
  ASSUME LedgersInv, NEW r \in Callers, Answers(r)
  PROVE  LedgersInv'
<1> DEFINE c == call[r]
<1>1. /\ c.pc = "done" /\ c \in Requested /\ LedgersTyped
      /\ told \in [Owners \X Devices -> SUBSET {"there", "gone"}]
      /\ accepted \in [Owners \X ConsentTypes -> Int]
      /\ IsWrite(c) => c.key \in Owners \X Devices
      /\ c.op = "record" => c.key \in Owners \X ConsentTypes /\ RecordOf(r) \in ledger
  BY DEF Answers, MayAnswer, LedgersInv, LedgersTyped, LedgersTypeOK, Idle, IsWrite
<1>2. call' = [call EXCEPT ![r] = Idle] /\ UNCHANGED <<associations, ledger, called, clock>>
  BY DEF Answers
<1>3. /\ told' \in [Owners \X Devices -> SUBSET {"there", "gone"}]
      /\ \A k \in Owners \X Devices : told'[k] # told[k] =>
           /\ IsWrite(c) /\ k = c.key
           /\ told'[k] = told[k] \cap c.rivals
  <2>1. told' = IF c.op \in {"store", "delete"} THEN [told EXCEPT ![c.key] = @ \cap c.rivals] ELSE told
    BY DEF Answers
  <2> QED BY <1>1, <2>1 DEF IsWrite
<1>4. /\ accepted' \in [Owners \X ConsentTypes -> Int]
      /\ \A k \in Owners \X ConsentTypes : accepted'[k] \in {NotYet} \cup {d.at : d \in {e \in ledger : e.key = k}}
  <2>1. accepted' = IF c.op = "record" /\ c.at > accepted[c.key]
                    THEN [accepted EXCEPT ![c.key] = c.at] ELSE accepted
    BY DEF Answers
  <2>2. \A k \in Owners \X ConsentTypes : accepted[k] \in {NotYet} \cup {d.at : d \in {e \in ledger : e.key = k}}
    BY <1>1 DEF LedgersTyped, LedgersTypeOK
  <2>3. c.at \in Int /\ (c.op = "record" => c.at \in {d.at : d \in {e \in ledger : e.key = c.key}})
    BY <1>1 DEF RecordOf, Requested
  <2> QED BY <1>1, <2>1, <2>2, <2>3
<1>5. ConsentIsLatest'
  <2>1. shown' = IF c.op = "latest" THEN [at |-> c.reply, floor |-> c.floor] ELSE shown
    BY DEF Answers
  <2>2. c.op = "latest" => c.reply >= c.floor
    BY <1>1 DEF LedgersInv, ReadsReachTheLatest
  <2> QED BY <2>1, <2>2 DEF LedgersInv, ConsentIsLatest
<1> QED BY <1>1, <1>2, <1>3, <1>4, <1>5, EndsStep

LEMMA AnswersErrorStep ==
  ASSUME LedgersInv, NEW r \in Callers, AnswersRefusal(r) \/ AnswersFailure(r)
  PROVE  LedgersInv'
<1>1. /\ call[r].pc # "idle" /\ call' = [call EXCEPT ![r] = Idle]
      /\ UNCHANGED <<associations, ledger, called, told, accepted, shown, clock>>
  BY DEF AnswersRefusal, AnswersFailure
<1>2. /\ told' \in [Owners \X Devices -> SUBSET {"there", "gone"}]
      /\ accepted' \in [Owners \X ConsentTypes -> Int]
      /\ \A k \in Owners \X ConsentTypes : accepted'[k] \in {NotYet} \cup {d.at : d \in {e \in ledger : e.key = k}}
  BY <1>1 DEF LedgersInv, LedgersTyped, LedgersTypeOK
<1>3. ConsentIsLatest'
  BY <1>1 DEF LedgersInv, ConsentIsLatest
<1> QED BY <1>1, <1>2, <1>3, EndsStep

\* Nothing but time passes.
LEMMA LedgersTimeStep ==
  ASSUME LedgersInv, LedgersTick \/ UNCHANGED <<ledgerVars, clock>>
  PROVE  LedgersInv'
<1>1. /\ UNCHANGED <<associations, ledger, call, called, told, accepted, shown>>
      /\ clock' \in 0 .. MaxTime /\ clock' >= clock /\ clock \in 0 .. MaxTime /\ MaxTime \in Nat
  BY ClockAssumption DEF LedgersTick, ClockTick, ledgerVars, LedgersInv, LedgersTyped
<1>2. LedgersTyped'
  <2>1. \A c \in ledger' : c.key \in Owners \X ConsentTypes /\ c.at \in 0 .. clock' /\ c.id < called'
    BY <1>1 DEF LedgersInv, LedgersTyped, LedgersTypeOK
  <2>2. \A s \in Callers : call[s].pc # "idle" => call[s].at \in Nat /\ call[s].at <= clock
    BY DEF LedgersInv, LedgersTyped, Requested, Idle
  <2>3. \A s \in Callers : call'[s].pc # "idle" => call'[s].at <= clock'
    BY <1>1, <2>2
  <2>4. \A s \in Callers : RecordOf(s)' = RecordOf(s)
    BY <1>1 DEF RecordOf
  <2> QED BY <1>1, <2>1, <2>3, <2>4 DEF LedgersInv, LedgersTyped, LedgersTypeOK
<1>3. NumbersAreOwn' /\ ReadsReachTheLatest'
  BY <1>1 DEF LedgersInv, NumbersAreOwn, ReadsReachTheLatest, RecordOf, Times
<1>4. WritesKnown'
  BY <1>1 DEF LedgersInv, WritesKnown, EffectsAreTold, RivalsAreKnown, RepliesAreHeld, AnswersHold,
     WritesInProgress, Held
<1> QED BY <1>1, <1>2, <1>3, <1>4 DEF LedgersInv, ConsentOnce, ConsentIsLatest

\* A request of a phone that is sent.
LEMMA DeviceRequestStep ==
  ASSUME LedgersInv, NEW r \in Callers, NEW user \in Owners, NEW device \in Devices,
         PostDevice(r, user, device) \/ DeleteDevice(r, user, device) \/ GetDevice(r, user, device)
  PROVE  LedgersInv'
<1> DEFINE key == <<user, device>>
<1>1. key \in Owners \X Devices /\ NotYet \in Int
  BY DEF NotYet
<1> HIDE DEF key
<1>2. CASE PostDevice(r, user, device)
  <2>1. SendsWrite(r, "store", key)
    BY <1>2 DEF PostDevice, key
  <2> QED BY <1>1, <2>1, SendsWriteStep
<1>3. CASE DeleteDevice(r, user, device)
  <2>1. SendsWrite(r, "delete", key)
    BY <1>3 DEF DeleteDevice, key
  <2> QED BY <1>1, <2>1, SendsWriteStep
<1>4. CASE GetDevice(r, user, device)
  <2>1. SendsRead(r, "get", key, NotYet)
    BY <1>4 DEF GetDevice, key
  <2> QED BY <1>1, <2>1, SendsReadStep
<1> QED BY <1>2, <1>3, <1>4

LEMMA ConsentRequestStep ==
  ASSUME LedgersInv, NEW r \in Callers, NEW user \in Owners, NEW type \in ConsentTypes,
         PostConsent(r, user, type) \/ GetConsent(r, user, type)
  PROVE  LedgersInv'
<1> DEFINE key == <<user, type>>
<1>1. key \in Owners \X ConsentTypes /\ NotYet \in Int
  BY DEF NotYet
<1>2. accepted[key] \in Int /\ (accepted[key] = NotYet \/ accepted[key] \in Times(key))
  BY <1>1 DEF LedgersInv, LedgersTyped, LedgersTypeOK, Times
<1> HIDE DEF key
<1>3. CASE PostConsent(r, user, type)
  <2>1. SendsRead(r, "record", key, NotYet)
    BY <1>3 DEF PostConsent, key
  <2> QED BY <1>1, <2>1, SendsReadStep
<1>4. CASE GetConsent(r, user, type)
  <2>1. SendsRead(r, "latest", key, accepted[key])
    BY <1>4 DEF GetConsent, key
  <2> QED BY <1>1, <1>2, <2>1, SendsReadStep
<1> QED BY <1>3, <1>4

LEMMA LedgersStep == LedgersInv /\ [LedgersNext]_<<ledgerVars, clock>> => LedgersInv'
<1> SUFFICES ASSUME LedgersInv, [LedgersNext]_<<ledgerVars, clock>> PROVE LedgersInv'
  OBVIOUS
<1>1. CASE LedgersTick \/ UNCHANGED <<ledgerVars, clock>>
  BY <1>1, LedgersTimeStep
<1>2. ASSUME NEW r \in Callers, NEW user \in Owners, NEW device \in Devices,
             PostDevice(r, user, device) \/ DeleteDevice(r, user, device) \/ GetDevice(r, user, device)
      PROVE  LedgersInv'
  BY <1>2, DeviceRequestStep
<1>3. ASSUME NEW r \in Callers, NEW user \in Owners, NEW type \in ConsentTypes,
             PostConsent(r, user, type) \/ GetConsent(r, user, type)
      PROVE  LedgersInv'
  BY <1>3, ConsentRequestStep
<1>4. ASSUME NEW r \in Callers, TurnedAway(r)
      PROVE  LedgersInv'
  <2>1. UNCHANGED <<ledgerVars, clock>>
    BY <1>4 DEF TurnedAway
  <2> QED BY <2>1, LedgersTimeStep
<1>5. ASSUME NEW r \in Callers, Execute(r)
      PROVE  LedgersInv'
  BY <1>5, ExecuteStep
<1>6. ASSUME NEW r \in Callers, SentAgain(r)
      PROVE  LedgersInv'
  BY <1>6, SentAgainStep
<1>7. ASSUME NEW r \in Callers, Answers(r)
      PROVE  LedgersInv'
  BY <1>7, AnswersStep
<1>8. ASSUME NEW r \in Callers, AnswersRefusal(r) \/ AnswersFailure(r)
      PROVE  LedgersInv'
  BY <1>8, AnswersErrorStep
<1> QED BY <1>1, <1>2, <1>3, <1>4, <1>5, <1>6, <1>7, <1>8 DEF LedgersNext

\* The invariant that holds every answer of the phone's two tables.
LEMMA LedgersInvariant == LedgersSpec => []LedgersInv
<1>1. LedgersInit /\ ClockInit => LedgersInv
  BY LedgersInitial
<1>2. LedgersInv /\ [LedgersNext]_<<ledgerVars, clock>> => LedgersInv'
  BY LedgersStep
<1> QED BY <1>1, <1>2, PTL DEF LedgersSpec

\* Every variable of the two tables, and of the requests to them, keeps its
\* type (config.ts, consent.ts).
THEOREM LedgersTypeCorrect == LedgersSpec => []LedgersTypeOK
<1>1. LedgersInv => LedgersTypeOK
  BY DEF LedgersInv, LedgersTyped
<1> QED BY <1>1, LedgersInvariant, PTL

\* A 200 to an association stored or deleted stays true until it is undone by
\* a write of the same item that was sent later or that overlapped it; an item
\* is what one of the writes left that no answered one came after (config.ts,
\* dynamodb.ts).
THEOREM AnswersCorrect == LedgersSpec => []AnswersHold
<1>1. LedgersInv => AnswersHold
  BY DEF LedgersInv, WritesKnown
<1> QED BY <1>1, LedgersInvariant, PTL

\* A POST leaves at most one record, although its request may be sent twice
\* (recordConsent in consents.ts).
THEOREM ConsentOnceCorrect == LedgersSpec => []ConsentOnce
<1>1. LedgersInv => ConsentOnce
  BY DEF LedgersInv
<1> QED BY <1>1, LedgersInvariant, PTL

\* The latest consent a GET answers is at least as recent as every one answered
\* 201 before it was asked (getLatestConsent in consents.ts).
THEOREM LatestConsentCorrect == LedgersSpec => []ConsentIsLatest
<1>1. LedgersInv => ConsentIsLatest
  BY DEF LedgersInv
<1> QED BY <1>1, LedgersInvariant, PTL

\* The ledger of consents keeps one record for a POST and finds the latest one.
THEOREM ConsentsCorrect == LedgersSpec => []ConsentsHold
BY ConsentOnceCorrect, LatestConsentCorrect, PTL DEF ConsentsHold
=============================================================================
