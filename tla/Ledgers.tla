------------------------------ MODULE Ledgers ------------------------------
(***************************************************************************)
(* The two tables a phone writes: user-device associations                 *)
(* (src/src/routes/config.ts, src/src/services/dynamodb.ts) and the        *)
(* append-only ledger of consents (src/src/routes/consent.ts,              *)
(* src/src/services/consents.ts), with calls that overlap at their only    *)
(* await, requests whose reply is lost and that the AWS client sends       *)
(* again, and requests that fail.                                          *)
(*                                                                         *)
(* A malformed request is answered 400, one without a user 401, one over   *)
(* the limit 429 (see RateLimiter): none of these touches a table.  The    *)
(* optional fields of a consent are one of its identity.                   *)
(*                                                                         *)
(* A definition marked "Slip" is a faulty variant of the one below it,     *)
(* used by no action: a mistake the properties would detect.               *)
(***************************************************************************)
EXTENDS ServiceClock, FiniteSets

CONSTANTS
  Callers,         \* HTTP requests in progress at a time
  Owners,          \* Cognito subs
  Devices,         \* controller ids
  ConsentTypes,    \* RESERVED_CONSENT_TYPES
  MaxCalls,        \* bound: requests that reach a table
  MaxLedgerFaults  \* bound: requests that fail, and lost replies

ASSUME LedgersAssumption ==
  /\ {MaxCalls, MaxLedgerFaults} \subseteq Nat
  /\ Devices \cap ConsentTypes = {}

VARIABLES
  associations,        \* seaair-user-devices: createdAt of each item, or NotYet
  ledger,       \* seaair-consents: the records
  call,         \* the request in each slot
  \* history
  called,       \* requests so far, which also gives each its recordId
  told,         \* what the answered writes of an item leave possible: "there", "gone"
  accepted,     \* recordedAt of the newest consent answered 201
  shown,        \* the latest answer about a consent
  ledgerFaults  \* how many faults may still happen

ledgerVars == <<associations, ledger, call, called, told, accepted, shown, ledgerFaults>>

NotYet == -1
Idle  == [pc |-> "idle"]

LedgersInit ==
  /\ associations = [k \in Owners \X Devices |-> NotYet]
  /\ ledger = {} /\ call = [r \in Callers |-> Idle] /\ called = 0
  /\ told = [k \in Owners \X Devices |-> {"gone"}]
  /\ accepted = [k \in Owners \X ConsentTypes |-> NotYet]
  /\ shown = [at |-> NotYet, floor |-> NotYet]
  /\ ledgerFaults = MaxLedgerFaults

\* The writes of an association in progress.
Writers(key) ==
  {r \in Callers : /\ call[r].pc # "idle" /\ call[r].op \in {"store", "delete"}
                   /\ call[r].key = key}

\* What a write makes of its item.
Effect(op) == IF op = "store" THEN "there" ELSE "gone"

\* `rivals': what the item may be when the call is answered, by the call itself
\* and by the writes that overlapped it.
Request(op, key, rivals, floor) ==
  [pc |-> "sent", op |-> op, key |-> key, at |-> clock, id |-> called,
   rivals |-> rivals, floor |-> floor, reply |-> NotYet]

\* Handler r sends its request and awaits the reply.
Sends(r) ==
  /\ call[r].pc = "idle" /\ called < MaxCalls
  /\ called' = called + 1
  /\ UNCHANGED <<associations, ledger, accepted, shown, ledgerFaults, clock>>

\* A write overlaps the others in progress on its key.
SendsWrite(r, op, key) ==
  /\ Sends(r)
  /\ call' = [s \in Callers |->
       IF s = r THEN Request(op, key, {Effect(op)} \cup {Effect(call[w].op) : w \in Writers(key)}, NotYet)
       ELSE IF s \in Writers(key) THEN [call[s] EXCEPT !.rivals = @ \cup {Effect(op)}]
       ELSE call[s]]
  /\ told' = [told EXCEPT ![key] = @ \cup {Effect(op)}]

SendsRead(r, op, key, floor) ==
  /\ Sends(r)
  /\ call' = [call EXCEPT ![r] = Request(op, key, {}, floor)]
  /\ UNCHANGED told

-----------------------------------------------------------------------------
\* POST /config/device
PostDevice(r, user, device) == SendsWrite(r, "store", <<user, device>>)

\* DELETE /config/device/:controllerId
DeleteDevice(r, user, device) == SendsWrite(r, "delete", <<user, device>>)

\* GET /config/device/:controllerId
GetDevice(r, user, device) ==
  SendsRead(r, "get", <<user, device>>, NotYet)

\* POST /mobile/consent: recordedAt is taken before the record is sent.
PostConsent(r, user, type) ==
  SendsRead(r, "record", <<user, type>>, NotYet)

\* GET /mobile/consent/:consentType
GetConsent(r, user, type) ==
  SendsRead(r, "latest", <<user, type>>, accepted[<<user, type>>])

\* 400, 401 or 429: the handler returns before it sends anything.
TurnedAway(r) ==
  /\ call[r].pc = "idle"
  /\ UNCHANGED <<ledgerVars, clock>>

-----------------------------------------------------------------------------
(* What DynamoDB makes of a request that reaches it. *)

Reached(r, op) == call[r].pc = "sent" /\ call[r].op = op

Reply(r, value) == call' = [call EXCEPT ![r].pc = "done", ![r].reply = value]

\* storeUserDeviceAssociation: PutItem, which replaces an item that is there.
StoreAssociation(r) ==
  /\ Reached(r, "store") /\ Reply(r, NotYet)
  /\ associations' = [associations EXCEPT ![call[r].key] = call[r].at]
  /\ UNCHANGED ledger

\* deleteUserDeviceAssociation: DeleteItem, also when there is no item.
DeleteAssociation(r) ==
  /\ Reached(r, "delete") /\ Reply(r, NotYet)
  /\ associations' = [associations EXCEPT ![call[r].key] = NotYet]
  /\ UNCHANGED ledger

\* getUserDeviceAssociation: GetItem
GetAssociation(r) ==
  /\ Reached(r, "get") /\ Reply(r, associations[call[r].key])
  /\ UNCHANGED <<associations, ledger>>

\* Slip: recordedAt is taken when the record is written.
RecordOfNow(r) == [key |-> call[r].key, at |-> clock, id |-> call[r].id]

\* Its sort key is type#recordedAt#version#recordId.
RecordOf(r) == [key |-> call[r].key, at |-> call[r].at, id |-> call[r].id]

\* recordConsent: PutItem if attribute_not_exists(sk).  A request sent again
\* after its reply was lost meets its own record and is refused.
RecordConsent(r) ==
  /\ Reached(r, "record")
  /\ call' = [call EXCEPT ![r].pc = IF RecordOf(r) \in ledger THEN "refused" ELSE "done"]
  /\ ledger' = ledger \cup {RecordOf(r)}
  /\ UNCHANGED associations

Times(key) == {c.at : c \in {d \in ledger : d.key = key}}

\* begins_with(sk, type#), newest first, Limit 1
LatestOf(key) ==
  IF Times(key) = {} THEN NotYet ELSE CHOOSE t \in Times(key) : \A u \in Times(key) : u <= t

\* getLatestConsent
GetLatestConsent(r) ==
  /\ Reached(r, "latest") /\ Reply(r, LatestOf(call[r].key))
  /\ UNCHANGED <<associations, ledger>>

Execute(r) ==
  /\ \/ StoreAssociation(r) \/ DeleteAssociation(r) \/ GetAssociation(r)
     \/ RecordConsent(r) \/ GetLatestConsent(r)
  /\ UNCHANGED <<called, told, accepted, shown, ledgerFaults, clock>>

\* The reply is lost and the AWS client sends the request again.
SentAgain(r) ==
  /\ call[r].pc = "done" /\ ledgerFaults > 0
  /\ ledgerFaults' = ledgerFaults - 1
  /\ call' = [call EXCEPT ![r].pc = "sent"]
  /\ UNCHANGED <<associations, ledger, called, told, accepted, shown, clock>>

-----------------------------------------------------------------------------
\* Slip: the handler does not await the reply.
MayAnswerEarly(r) == call[r].pc \in {"sent", "done"}

MayAnswer(r) == call[r].pc = "done"

\* 200 or 201
Answers(r) ==
  LET c == call[r]
  IN  /\ MayAnswer(r)
      /\ told' = IF c.op \in {"store", "delete"} THEN [told EXCEPT ![c.key] = @ \cap c.rivals] ELSE told
      /\ accepted' = IF c.op = "record" /\ c.at > accepted[c.key]
                     THEN [accepted EXCEPT ![c.key] = c.at] ELSE accepted
      /\ shown' = IF c.op = "latest" THEN [at |-> c.reply, floor |-> c.floor] ELSE shown
      /\ call' = [call EXCEPT ![r] = Idle]
      /\ UNCHANGED <<associations, ledger, called, ledgerFaults, clock>>

\* 500: DynamoDB refused the record.
AnswersRefusal(r) ==
  /\ call[r].pc = "refused"
  /\ call' = [call EXCEPT ![r] = Idle]
  /\ UNCHANGED <<associations, ledger, called, told, accepted, shown, ledgerFaults, clock>>

\* 500: the request failed, before or after it took effect.
AnswersFailure(r) ==
  /\ call[r].pc \in {"sent", "done"} /\ ledgerFaults > 0
  /\ ledgerFaults' = ledgerFaults - 1
  /\ call' = [call EXCEPT ![r] = Idle]
  /\ UNCHANGED <<associations, ledger, called, told, accepted, shown, clock>>

LedgersTick == ClockTick /\ UNCHANGED <<associations, ledger, call, called, told, accepted, shown, ledgerFaults>>

LedgersNext ==
  \/ \E r \in Callers :
       \/ \E user \in Owners :
            \/ \E device \in Devices :
                 PostDevice(r, user, device) \/ DeleteDevice(r, user, device) \/ GetDevice(r, user, device)
            \/ \E type \in ConsentTypes : PostConsent(r, user, type) \/ GetConsent(r, user, type)
       \/ TurnedAway(r) \/ Execute(r) \/ SentAgain(r)
       \/ Answers(r) \/ AnswersRefusal(r) \/ AnswersFailure(r)
  \/ LedgersTick

LedgersSpec == LedgersInit /\ ClockInit /\ [][LedgersNext]_<<ledgerVars, clock>>

-----------------------------------------------------------------------------
(* Properties *)

\* Every variable has its type.
LedgersTypeOK ==
  /\ associations \in [Owners \X Devices -> {NotYet} \cup 0 .. MaxTime]
  /\ \A c \in ledger : c.key \in Owners \X ConsentTypes /\ c.at \in 0 .. clock /\ c.id < called
  /\ \A r \in Callers : call[r].pc \in {"idle", "sent", "done", "refused"}
  /\ told \in [Owners \X Devices -> SUBSET {"there", "gone"}]
  /\ \A k \in Owners \X ConsentTypes : accepted[k] \in {NotYet} \cup {c.at : c \in {d \in ledger : d.key = k}}

Held(key) == IF associations[key] = NotYet THEN "gone" ELSE "there"

\* A 200 to an association stored or deleted stays true until it is undone by
\* another write of the same user and controller that was sent later or that
\* overlapped it, whether that one was answered, failed or was sent again: an
\* item is what one of the writes left that no answered write came after.
\* Writes that overlap may take effect in either order (dynamodb.ts), so after
\* a DELETE answered 200 an older POST may still store the item.
AnswersHold == \A k \in DOMAIN told : Held(k) \in told[k]

\* docs/CONSENT_SCHEMA.md, "Latest action": the answer to a GET is at least as
\* recent as every consent of the same user and type that was answered 201
\* before, although records are written in another order than they are dated.
ConsentIsLatest == shown.at >= shown.floor

\* A POST leaves at most one record in the ledger, although the AWS client
\* may send its request twice.
ConsentOnce == \A c, d \in ledger : c.id = d.id => c = d

\* The ledger of consents: one record for a POST, and the latest one is found.
ConsentsHold == ConsentIsLatest /\ ConsentOnce
=============================================================================
