------------------------------ MODULE ReadsProofs ------------------------------
(***************************************************************************)
(* Theorems about what is answered from a cache or a message: the two      *)
(* caches of answers of Cognito, for every number of users and requests    *)
(* and every lifetime, and the readings of a heartbeat, for any two        *)
(* heartbeats and every threshold.                                         *)
(*                                                                         *)
(* AdminGate: who is let through was a member, and who is refused was      *)
(* none, within the staleness the gate adds up to.                         *)
(* Neither is inductive: a verdict rests on the cache, the cache on a      *)
(* claim or on a lookup that was answered before, and both on the history  *)
(* of the group.  The invariant says of each of the three how old it may   *)
(* be: the history is current, an answered lookup is as old as the reply   *)
(* may be late, and a cached membership counts back from its expiry.       *)
(*                                                                         *)
(* CognitoUser: the Map stays within its bound with one entry for a key,   *)
(* and what it answers was in the pool within the entry's lifetime.  Here  *)
(* too the invariant dates what is known: an answer is no older than the   *)
(* request, and an entry expires a lifetime after its e-mail was last      *)
(* seen in the pool.                                                       *)
(*                                                                         *)
(* Telemetry: nothing is remembered, and the proof is about the readings   *)
(* themselves: what each of them says of a leaf, whatever the wire leaves  *)
(* out.                                                                    *)
(*                                                                         *)
(* MCReads: the composition of the read side.  Each of its behaviours is   *)
(* one of a component, so that what is proved of the component holds in    *)
(* it, and the beacons and the users keep their types in all of them.      *)
(***************************************************************************)
EXTENDS MCReads, AdminGate, WritesProofs, SequenceTheorems, TLAPS

\* The latest instant at which u was, or was not, a member.
LastSeen(u, admin) == IF admin THEN in[u] ELSE out[u]

HistoryIsCurrent ==
  \A u \in Users : /\ in[u] <= clock /\ out[u] <= clock
                   /\ (u \in group => in[u] = clock)
                   /\ (u \notin group => out[u] = clock)

AnswersAreRecent ==
  \A r \in Requests : request[r].pc = "answered" =>
    /\ request[r].at <= clock /\ clock <= request[r].at + LookupDelay
    /\ LastSeen(request[r].user, request[r].admin) >= request[r].at

CacheIsRecent ==
  \A u \in Users : gate[u].expiresAt >= 0 =>
    LastSeen(u, gate[u].admin) >= gate[u].expiresAt - Staleness

VerdictIsRecent ==
  verdict.user # Nobody => LastSeen(verdict.user, verdict.pass) >= verdict.at - Staleness

GateInv ==
  GateTypeOK /\ HistoryIsCurrent /\ AnswersAreRecent /\ CacheIsRecent /\ VerdictIsRecent

-----------------------------------------------------------------------------
LEMMA Lifetimes ==
  /\ GateTtl \in Nat /\ TokenLife \in Nat /\ LookupDelay \in Nat
  /\ Staleness \in Nat /\ Long \in Int /\ Nobody \notin Users
  /\ Staleness >= GateTtl + TokenLife /\ Staleness >= GateTtl + LookupDelay
  BY GateAssumption DEF GateAssumption, Staleness, Long

\* What a verdict leaves of the request: nothing, or a change of the group.
LEMMA DecideFacts ==
  ASSUME NEW r \in Requests, NEW u \in Users, NEW a \in BOOLEAN, Decide(r, u, a)
  PROVE  /\ verdict' = [user |-> u, pass |-> a, at |-> clock]
         /\ \E q \in RequestStates : /\ request' = [request EXCEPT ![r] = q]
                                     /\ q.pc \in {"idle", "change"}
                                     /\ q.pc = "change" => q.target \in Users
<1>1. verdict' = [user |-> u, pass |-> a, at |-> clock]
  BY DEF Decide
<1>2. CASE request' = [request EXCEPT ![r] = Quiet]
  <2>1. Quiet \in RequestStates /\ Quiet.pc = "idle"
    BY DEF Quiet, RequestStates
  <2> QED BY <1>1, <1>2, <2>1
<1>3. ASSUME NEW v \in Users, NEW g \in BOOLEAN,
             request' = [request EXCEPT ![r] =
               [Quiet EXCEPT !.pc = "change", !.user = u, !.target = v, !.grant = g]]
      PROVE  \E q \in RequestStates : /\ request' = [request EXCEPT ![r] = q]
                                      /\ q.pc \in {"idle", "change"}
                                      /\ q.pc = "change" => q.target \in Users
  <2> DEFINE q == [Quiet EXCEPT !.pc = "change", !.user = u, !.target = v, !.grant = g]
  <2>1. q \in RequestStates /\ q.pc = "change" /\ q.target = v
    BY DEF Quiet, RequestStates
  <2> QED BY <1>3, <2>1
<1> QED BY <1>1, <1>2, <1>3 DEF Decide

LEMMA GateInitial == GateInit /\ ClockInit => GateInv
<1> SUFFICES ASSUME GateInit, ClockInit PROVE GateInv
  OBVIOUS
<1>1. GateTypeOK
  BY Lifetimes DEF GateInit, ClockInit, GateTypeOK, Absent, Quiet, RequestStates
<1>2. HistoryIsCurrent
  BY Lifetimes, GateAssumption DEF GateInit, ClockInit, HistoryIsCurrent, Long
<1>3. AnswersAreRecent /\ CacheIsRecent /\ VerdictIsRecent
  BY DEF GateInit, AnswersAreRecent, CacheIsRecent, VerdictIsRecent, Quiet, Absent
<1> QED BY <1>1, <1>2, <1>3 DEF GateInv

-----------------------------------------------------------------------------
(* One lemma for each way the parts of the invariant change *)

\* A verdict, with the membership it rests on.
LEMMA VerdictStep ==
  ASSUME GateInv, NEW r \in Requests, NEW u \in Users, NEW a \in BOOLEAN,
         Decide(r, u, a), LastSeen(u, a) >= clock - Staleness,
         UNCHANGED <<group, in, out, clock>>,
         CacheIsRecent', gate' \in [Users -> [admin : BOOLEAN, expiresAt : Int]]
  PROVE  GateInv'
<1> USE DEF GateInv
<1>1. PICK q \in RequestStates : /\ request' = [request EXCEPT ![r] = q]
                                 /\ q.pc \in {"idle", "change"}
                                 /\ q.pc = "change" => q.target \in Users
  BY DecideFacts
<1>2. verdict' = [user |-> u, pass |-> a, at |-> clock]
  BY DecideFacts
<1>3. GateTypeOK'
  BY <1>1, <1>2 DEF GateTypeOK
<1>4. HistoryIsCurrent'
  BY DEF HistoryIsCurrent
<1>5. AnswersAreRecent'
  BY <1>1 DEF AnswersAreRecent, GateTypeOK, LastSeen
<1>6. VerdictIsRecent'
  BY <1>2 DEF VerdictIsRecent, LastSeen
<1> QED BY <1>3, <1>4, <1>5, <1>6

\* What setCache stores counts back from its own expiry.
LEMMA CacheStep ==
  ASSUME GateInv, NEW u \in Users, NEW a \in BOOLEAN, SetCache(u, a),
         LastSeen(u, a) >= clock + GateTtl - Staleness, UNCHANGED <<in, out>>
  PROVE  CacheIsRecent' /\ gate' \in [Users -> [admin : BOOLEAN, expiresAt : Int]]
  BY Lifetimes DEF GateInv, GateTypeOK, CacheIsRecent, LastSeen, SetCache

\* A request goes on, the verdict, the cache and the group stay.
LEMMA RequestStep ==
  ASSUME GateInv, NEW r \in Requests, NEW q \in RequestStates,
         request' = [request EXCEPT ![r] = q],
         q.pc \in {"lookup", "answered"} => q.user \in Users,
         q.pc = "change" => q.target \in Users,
         q.pc = "answered" => /\ q.at = clock
                              /\ LastSeen(q.user, q.admin) >= clock,
         UNCHANGED <<group, in, out, verdict, clock>>,
         CacheIsRecent', gate' \in [Users -> [admin : BOOLEAN, expiresAt : Int]]
  PROVE  GateInv'
<1> USE DEF GateInv
<1>1. GateTypeOK'
  BY DEF GateTypeOK
<1>2. HistoryIsCurrent' /\ VerdictIsRecent'
  BY DEF HistoryIsCurrent, VerdictIsRecent, LastSeen
<1>3. AnswersAreRecent'
  BY Lifetimes DEF AnswersAreRecent, GateTypeOK, LastSeen
<1> QED BY <1>1, <1>2, <1>3

\* What was seen stays seen, and time passes for nobody's request too long.
LEMMA HistoryStep ==
  ASSUME GateInv, in' \in [Users -> Int], out' \in [Users -> Int],
         \A u \in Users : in'[u] >= in[u] /\ out'[u] >= out[u],
         UNCHANGED <<gate, verdict>>
  PROVE  CacheIsRecent' /\ VerdictIsRecent'
<1>1. \A u \in Users : \A a \in BOOLEAN : LastSeen(u, a)' >= LastSeen(u, a)
  BY DEF GateInv, GateTypeOK, LastSeen
<1>2. \A u \in Users : \A a \in BOOLEAN : LastSeen(u, a) \in Int /\ LastSeen(u, a)' \in Int
  BY DEF GateInv, GateTypeOK, LastSeen
<1>3. CacheIsRecent'
  BY <1>1, <1>2, Lifetimes DEF GateInv, GateTypeOK, CacheIsRecent, LastSeen
<1>4. VerdictIsRecent'
  BY <1>1, <1>2, Lifetimes DEF GateInv, GateTypeOK, VerdictIsRecent, LastSeen
<1> QED BY <1>3, <1>4

-----------------------------------------------------------------------------
LEMMA GateStep == GateInv /\ [GateNext]_<<gateVars, clock>> => GateInv'
<1> SUFFICES ASSUME GateInv, [GateNext]_<<gateVars, clock>> PROVE GateInv'
  OBVIOUS
<1>0. /\ GateTypeOK /\ clock \in Nat
      /\ request \in [Requests -> RequestStates]
      /\ gate \in [Users -> [admin : BOOLEAN, expiresAt : Int]]
      /\ \A u \in Users : in[u] \in Int /\ out[u] \in Int
  BY DEF GateInv, GateTypeOK
<1>1. ASSUME NEW r \in Requests, NEW u \in Users, NEW claim \in Claims, ClaimDecides(r, u, claim)
      PROVE  GateInv'
  <2> DEFINE a == claim = "admin"
  <2>1. a \in BOOLEAN /\ SetCache(u, a) /\ Decide(r, u, a) /\ UNCHANGED <<group, in, out, clock>>
    BY <1>1 DEF ClaimDecides
  <2>2. LastSeen(u, a) >= clock - TokenLife
    BY <1>1 DEF ClaimDecides, Presents, LastSeen, Claims
  <2>3. LastSeen(u, a) \in Int
    BY <1>0 DEF LastSeen
  <2>4. LastSeen(u, a) >= clock - Staleness /\ LastSeen(u, a) >= clock + GateTtl - Staleness
    BY <1>0, <2>2, <2>3, Lifetimes
  <2>5. CacheIsRecent' /\ gate' \in [Users -> [admin : BOOLEAN, expiresAt : Int]]
    BY <2>1, <2>4, CacheStep
  <2> QED BY <2>1, <2>4, <2>5, VerdictStep
<1>2. ASSUME NEW r \in Requests, NEW u \in Users, CacheDecides(r, u)
      PROVE  GateInv'
  <2>1. Decide(r, u, gate[u].admin) /\ UNCHANGED <<group, in, out, gate, clock>>
    BY <1>2 DEF CacheDecides
  <2>2. gate[u].admin \in BOOLEAN /\ gate[u].expiresAt \in Int /\ gate[u].expiresAt >= clock
    BY <1>0, <1>2 DEF CacheDecides, Cached
  <2>3. LastSeen(u, gate[u].admin) >= clock - Staleness
    BY <1>0, <2>2, Lifetimes DEF GateInv, CacheIsRecent, LastSeen
  <2>4. CacheIsRecent'
    BY <2>1 DEF GateInv, CacheIsRecent, LastSeen
  <2> QED BY <1>0, <2>1, <2>2, <2>3, <2>4, VerdictStep
<1>3. ASSUME NEW r \in Requests, NEW u \in Users, StartGroups(r, u)
      PROVE  GateInv'
  <2> DEFINE q == [Quiet EXCEPT !.pc = "lookup", !.user = u]
  <2>1. q \in RequestStates /\ q.pc = "lookup" /\ q.user = u
    BY DEF Quiet, RequestStates
  <2>2. /\ request' = [request EXCEPT ![r] = q] /\ gate' = [gate EXCEPT ![u] = Absent]
        /\ UNCHANGED <<group, in, out, verdict, clock>>
    BY <1>3 DEF StartGroups
  <2>3. CacheIsRecent' /\ gate' \in [Users -> [admin : BOOLEAN, expiresAt : Int]]
    BY <1>0, <2>2 DEF GateInv, CacheIsRecent, LastSeen, Absent
  <2> QED BY <2>1, <2>2, <2>3, RequestStep
<1>4. ASSUME NEW r \in Requests, ListGroups(r)
      PROVE  GateInv'
  <2>1. request[r].user \in Users
    BY <1>0, <1>4 DEF ListGroups, GateTypeOK
  <2>a. PICK a \in BOOLEAN : a = (request[r].user \in group)
    <3>1. CASE request[r].user \in group
      BY <3>1, TRUE = (request[r].user \in group), TRUE \in BOOLEAN
    <3>2. CASE request[r].user \notin group
      BY <3>2, FALSE = (request[r].user \in group), FALSE \in BOOLEAN
    <3> QED BY <3>1, <3>2
  <2> DEFINE q == [request[r] EXCEPT !.pc = "answered", !.at = clock, !.admin = a]
  <2>2. q \in RequestStates /\ q.pc = "answered" /\ q.user = request[r].user
        /\ q.at = clock /\ q.admin = a
    BY <1>0 DEF RequestStates
  <2>3. /\ request' = [request EXCEPT ![r] = q]
        /\ UNCHANGED <<group, in, out, gate, verdict, clock>>
    BY <1>0, <1>4, <2>a DEF ListGroups, RequestStates
  <2>4. LastSeen(q.user, q.admin) >= clock
    BY <1>0, <2>1, <2>a, <2>2 DEF GateInv, HistoryIsCurrent, LastSeen
  <2>5. CacheIsRecent'
    BY <2>3 DEF GateInv, CacheIsRecent, LastSeen
  <2>6. gate' \in [Users -> [admin : BOOLEAN, expiresAt : Int]]
    BY <1>0, <2>3
  <2> HIDE DEF q
  <2> QED BY <2>1, <2>2, <2>3, <2>4, <2>5, <2>6, RequestStep
<1>5. ASSUME NEW r \in Requests, GroupsDecide(r)
      PROVE  GateInv'
  <2> DEFINE u == request[r].user
             a == request[r].admin
  <2>1. u \in Users /\ a \in BOOLEAN /\ request[r].at \in Nat
    BY <1>0, <1>5 DEF GroupsDecide, GateTypeOK, RequestStates
  <2>2. SetCache(u, a) /\ Decide(r, u, a) /\ UNCHANGED <<group, in, out, clock>>
    BY <1>5 DEF GroupsDecide
  <2>3. LastSeen(u, a) >= request[r].at /\ clock <= request[r].at + LookupDelay
    BY <1>5 DEF GroupsDecide, GateInv, AnswersAreRecent
  <2>4. LastSeen(u, a) \in Int
    BY <1>0, <2>1 DEF LastSeen
  <2>5. LastSeen(u, a) >= clock - Staleness /\ LastSeen(u, a) >= clock + GateTtl - Staleness
    BY <1>0, <2>1, <2>3, <2>4, Lifetimes
  <2>6. CacheIsRecent' /\ gate' \in [Users -> [admin : BOOLEAN, expiresAt : Int]]
    BY <2>1, <2>2, <2>5, CacheStep
  <2> QED BY <2>1, <2>2, <2>5, <2>6, VerdictStep
<1>6. ASSUME NEW r \in Requests, GroupsFail(r)
      PROVE  GateInv'
  <2>1. Quiet \in RequestStates /\ Quiet.pc = "idle"
    BY DEF Quiet, RequestStates
  <2>2. /\ request' = [request EXCEPT ![r] = Quiet]
        /\ UNCHANGED <<group, in, out, gate, verdict, clock>>
    BY <1>6 DEF GroupsFail
  <2>3. CacheIsRecent'
    BY <2>2 DEF GateInv, CacheIsRecent, LastSeen
  <2> QED BY <1>0, <2>1, <2>2, <2>3, RequestStep
<1>7. ASSUME NEW r \in Requests, ChangeGroup(r)
      PROVE  GateInv'
  <2> DEFINE v == request[r].target
  <2>1. v \in Users /\ Quiet \in RequestStates /\ Quiet.pc = "idle"
    BY <1>0, <1>7 DEF ChangeGroup, GateTypeOK, Quiet, RequestStates
  <2>2. request' = [request EXCEPT ![r] = Quiet] /\ UNCHANGED <<gate, verdict, clock>>
    BY <1>7 DEF ChangeGroup
  <2>3. \/ group' = group \cup {v} /\ in' = [in EXCEPT ![v] = clock] /\ out' = out
        \/ group' = group \ {v} /\ out' = [out EXCEPT ![v] = clock] /\ in' = in
    BY <1>7 DEF ChangeGroup
  <2>4. /\ group' \subseteq Users /\ in' \in [Users -> Int] /\ out' \in [Users -> Int]
        /\ \A u \in Users : in'[u] >= in[u] /\ out'[u] >= out[u]
    BY <1>0, <2>1, <2>3 DEF GateInv, GateTypeOK, HistoryIsCurrent
  <2>5. GateTypeOK'
    BY <1>0, <2>1, <2>2, <2>4 DEF GateTypeOK
  <2>6. HistoryIsCurrent'
    BY <1>0, <2>1, <2>2, <2>3 DEF GateInv, GateTypeOK, HistoryIsCurrent
  <2>7. AnswersAreRecent'
    <3>1. ASSUME NEW s \in Requests, request'[s].pc = "answered"
          PROVE  /\ request'[s].at <= clock' /\ clock' <= request'[s].at + LookupDelay
                 /\ LastSeen(request[s].user, request[s].admin)' >= request'[s].at
      <4>1. request'[s] = request[s] /\ request[s].user \in Users /\ request[s].at \in Nat
            /\ request[s].admin \in BOOLEAN
        BY <1>0, <2>1, <2>2, <3>1 DEF GateTypeOK, RequestStates
      <4>2. LastSeen(request[s].user, request[s].admin)' >= request[s].at
        BY <1>0, <2>4, <3>1, <4>1 DEF GateInv, AnswersAreRecent, LastSeen
      <4> QED BY <2>2, <3>1, <4>1, <4>2 DEF GateInv, AnswersAreRecent
    <3> QED BY <3>1 DEF AnswersAreRecent
  <2>8. CacheIsRecent' /\ VerdictIsRecent'
    BY <2>2, <2>4, HistoryStep
  <2> QED BY <2>5, <2>6, <2>7, <2>8 DEF GateInv
<1>8. CASE GateRestart
  <2>1. /\ gate' = [u \in Users |-> Absent] /\ request' = [r \in Requests |-> Quiet]
        /\ UNCHANGED <<group, in, out, verdict, clock>>
    BY <1>8 DEF GateRestart
  <2>2. GateTypeOK'
    BY <1>0, <2>1 DEF GateTypeOK, Absent, Quiet, RequestStates
  <2>3. HistoryIsCurrent' /\ VerdictIsRecent'
    BY <2>1 DEF GateInv, HistoryIsCurrent, VerdictIsRecent, LastSeen
  <2>4. AnswersAreRecent' /\ CacheIsRecent'
    BY <2>1 DEF AnswersAreRecent, CacheIsRecent, Quiet, Absent
  <2> QED BY <2>2, <2>3, <2>4 DEF GateInv
<1>9. CASE GateTick
  <2>1. /\ clock' = clock + 1 /\ UNCHANGED <<group, gate, request, verdict>>
        /\ \A r \in Requests : request[r].pc = "answered" => clock < request[r].at + LookupDelay
        /\ in'  = [u \in Users |-> IF u \in group THEN clock' ELSE in[u]]
        /\ out' = [u \in Users |-> IF u \in group THEN out[u] ELSE clock']
    BY <1>9 DEF GateTick, ClockTick
  <2>2. /\ in' \in [Users -> Int] /\ out' \in [Users -> Int]
        /\ \A u \in Users : in'[u] >= in[u] /\ out'[u] >= out[u]
    BY <1>0, <2>1 DEF GateInv, HistoryIsCurrent
  <2>3. GateTypeOK'
    BY <1>0, <2>1, <2>2 DEF GateTypeOK
  <2>4. HistoryIsCurrent'
    BY <1>0, <2>1 DEF GateInv, HistoryIsCurrent
  <2>5. AnswersAreRecent'
    <3>1. ASSUME NEW s \in Requests, request[s].pc = "answered"
          PROVE  /\ request[s].at <= clock' /\ clock' <= request[s].at + LookupDelay
                 /\ LastSeen(request[s].user, request[s].admin)' >= request[s].at
      <4>1. /\ request[s].user \in Users /\ request[s].at \in Nat
            /\ request[s].admin \in BOOLEAN /\ request'[s] = request[s]
        BY <1>0, <2>1, <3>1 DEF GateTypeOK, RequestStates
      <4>2. LastSeen(request[s].user, request[s].admin)' >= request[s].at
        BY <1>0, <2>2, <3>1, <4>1 DEF GateInv, AnswersAreRecent, LastSeen
      <4>3. request[s].at <= clock /\ clock < request[s].at + LookupDelay
        BY <2>1, <3>1 DEF GateInv, AnswersAreRecent
      <4> QED BY <1>0, <2>1, <4>1, <4>2, <4>3, Lifetimes
    <3> QED BY <2>1, <3>1 DEF AnswersAreRecent
  <2>6. CacheIsRecent' /\ VerdictIsRecent'
    BY <2>1, <2>2, HistoryStep
  <2> QED BY <2>3, <2>4, <2>5, <2>6 DEF GateInv
<1>10. CASE UNCHANGED <<gateVars, clock>>
  BY <1>10 DEF gateVars, GateInv, GateTypeOK, HistoryIsCurrent, AnswersAreRecent,
               CacheIsRecent, VerdictIsRecent, LastSeen
<1> QED BY <1>1, <1>2, <1>3, <1>4, <1>5, <1>6, <1>7, <1>8, <1>9, <1>10 DEF GateNext

LEMMA GateInvariant == GateSpec => []GateInv
<1> QED BY GateInitial, GateStep, PTL DEF GateSpec

-----------------------------------------------------------------------------
\* The gate's variables keep their types, and a request that waits for the
\* group lookup (requireDashboardAdmin.ts:72) has a user.
THEOREM GateTypeCorrect == GateSpec => []GateTypeOK
<1>1. GateInv => GateTypeOK
  BY DEF GateInv
<1> QED BY <1>1, GateInvariant, PTL

\* Nobody gets through the gate on a membership that ended longer ago than a
\* token, or a slow lookup, and the cache may live.
THEOREM AccessCorrect == GateSpec => []AccessIsRecent
<1>1. GateInv => AccessIsRecent
  BY DEF GateInv, VerdictIsRecent, LastSeen, AccessIsRecent
<1> QED BY <1>1, GateInvariant, PTL

\* Nobody who has been a member for that long is refused.
THEOREM RefusalCorrect == GateSpec => []RefusalIsRecent
<1>1. GateInv => RefusalIsRecent
  BY DEF GateInv, VerdictIsRecent, LastSeen, RefusalIsRecent
<1> QED BY <1>1, GateInvariant, PTL

\* Both verdicts of the gate rest on a recent membership.
THEOREM GateCorrect == GateSpec => []GateIsRecent
BY AccessCorrect, RefusalCorrect, PTL DEF GateIsRecent

-----------------------------------------------------------------------------
(* The cache of users *)

Emails == Mails \cup {NoMail}

Expiries == 0 .. MaxTime + HitTtl

CacheEntries == [sub : Subs, email : Emails, expires : Expiries]

\* The requests' states: an idle one has no user.
LookupStates ==
  [pc : {"idle", "sent", "replied"}, sub : Subs \cup {NoLookup.sub}, now : 0 .. MaxTime, email : Emails]

UsersShape ==
  /\ clock \in 0 .. MaxTime
  /\ book \in [Subs -> Emails]
  /\ held \in [Subs -> [Emails -> Int]]
  /\ entries \in Seq(CacheEntries)
  /\ lookup \in [Lookups -> LookupStates]
  /\ \A l \in Lookups : lookup[l].pc # "idle" => lookup[l].sub \in Subs
  /\ outages \in 0 .. MaxOutages

PoolIsCurrent ==
  \A s \in Subs : held[s][book[s]] = clock /\ \A e \in Emails : held[s][e] <= clock

\* What was asked is not in the future, what was answered was true after the request.
LookupsAreRecent ==
  \A l \in Lookups :
    /\ lookup[l].now <= clock
    /\ lookup[l].pc = "replied" => lookup[l].now <= held[lookup[l].sub][lookup[l].email]

\* An entry expires a lifetime after its e-mail was last seen in the pool.
Backed(e) == e.expires <= held[e.sub][e.email] + Ttl(e.email)

EntriesAreBacked == \A n \in DOMAIN entries : Backed(entries[n])

UsersInv ==
  UsersShape /\ PoolIsCurrent /\ LookupsAreRecent /\ EntriesAreBacked /\ CacheIsBounded

Distinct(map) == \A m, n \in DOMAIN map : m # n => map[m].sub # map[n].sub

LEMMA UserLifetimes ==
  /\ HitTtl \in Nat \ {0} /\ MissTtl \in Nat \ {0} /\ MissTtl <= HitTtl
  /\ MaxEntries \in Nat \ {0} /\ MaxOutages \in Nat /\ MaxTime \in Nat
  /\ \A e : Ttl(e) \in 1 .. HitTtl
<1>1. /\ HitTtl \in Nat \ {0} /\ MissTtl \in Nat \ {0} /\ MissTtl <= HitTtl
      /\ MaxEntries \in Nat \ {0} /\ MaxOutages \in Nat /\ MaxTime \in Nat
  BY UserAssumption, ClockAssumption DEF UserAssumption, ClockAssumption
<1>2. \A e : Ttl(e) \in 1 .. HitTtl
  BY <1>1 DEF Ttl
<1> QED BY <1>1, <1>2

\* Taking a pair out of a map leaves the others in their order.
LEMMA RemovedFacts ==
  ASSUME NEW map \in Seq(CacheEntries), NEW i \in DOMAIN map, NEW r, r = RemoveAt(map, i)
  PROVE  /\ r \in Seq(CacheEntries) /\ Len(r) = Len(map) - 1
         /\ \A n \in DOMAIN r : /\ (n < i => n \in DOMAIN map /\ r[n] = map[n])
                                /\ (n >= i => n + 1 \in DOMAIN map /\ r[n] = map[n + 1])
<1> DEFINE a == SubSeq(map, 1, i - 1)
           b == SubSeq(map, i + 1, Len(map))
<1>1. DOMAIN map = 1 .. Len(map) /\ Len(map) \in Nat /\ i \in 1 .. Len(map)
  OBVIOUS
<1>2. /\ a \in Seq(CacheEntries) /\ Len(a) = i - 1
      /\ \A n \in 1 .. i - 1 : a[n] = map[n]
  BY <1>1
<1>3. /\ b \in Seq(CacheEntries) /\ Len(b) = Len(map) - i
      /\ \A n \in 1 .. Len(map) - i : b[n] = map[i + n]
  <2>1. i + 1 \in 1 .. Len(map) + 1
    BY <1>1
  <2>2. /\ b \in Seq(CacheEntries)
        /\ Len(b) = IF i + 1 <= Len(map) THEN Len(map) - (i + 1) + 1 ELSE 0
        /\ \A n \in 1 .. Len(map) - (i + 1) + 1 : b[n] = map[i + 1 + n - 1]
    BY <1>1, <2>1, SubSeqProperties
  <2> QED BY <1>1, <2>2
<1>4. r = a \o b
  BY DEF RemoveAt
<1> HIDE DEF a, b
<1>5. /\ r \in Seq(CacheEntries) /\ Len(r) = Len(a) + Len(b)
      /\ \A n \in 1 .. Len(a) : r[n] = a[n]
      /\ \A n \in Len(a) + 1 .. Len(a) + Len(b) : r[n] = b[n - Len(a)]
  <2>0. a \in Seq(CacheEntries) /\ b \in Seq(CacheEntries)
    BY <1>2, <1>3
  <2>1. /\ a \o b \in Seq(CacheEntries) /\ Len(a \o b) = Len(a) + Len(b)
        /\ \A n \in 1 .. Len(a) + Len(b) : (a \o b)[n] = IF n <= Len(a) THEN a[n] ELSE b[n - Len(a)]
    BY <2>0, ConcatProperties
  <2>2. Len(a) \in Nat /\ Len(b) \in Nat
    BY <1>2, <1>3
  <2> QED BY <1>4, <2>1, <2>2
<1>6. Len(r) = Len(map) - 1 /\ DOMAIN r = 1 .. Len(map) - 1
  BY <1>1, <1>2, <1>3, <1>5
<1>7. ASSUME NEW n \in DOMAIN r
      PROVE  /\ (n < i => n \in DOMAIN map /\ r[n] = map[n])
             /\ (n >= i => n + 1 \in DOMAIN map /\ r[n] = map[n + 1])
  <2>1. n \in 1 .. Len(map) - 1 /\ n + 1 \in DOMAIN map /\ n \in DOMAIN map
    BY <1>1, <1>6
  <2>2. CASE n < i
    <3>1. n \in 1 .. i - 1 /\ n \in 1 .. Len(a)
      BY <1>1, <1>2, <2>1, <2>2
    <3> QED BY <1>2, <1>5, <2>1, <2>2, <3>1
  <2>3. CASE n >= i
    <3>1. n \in Len(a) + 1 .. Len(a) + Len(b) /\ n - Len(a) \in 1 .. Len(map) - i
          /\ i + (n - Len(a)) = n + 1
      BY <1>1, <1>2, <1>3, <2>1, <2>3
    <3>2. r[n] = b[n - Len(a)]
      BY <1>5, <3>1
    <3>3. b[n - Len(a)] = map[i + (n - Len(a))]
      BY <1>3, <3>1
    <3> QED BY <1>1, <2>1, <2>3, <3>1, <3>2, <3>3
  <2> QED BY <1>1, <2>1, <2>2, <2>3
<1> QED BY <1>5, <1>6, <1>7

\* What is left of a map when at most one pair is taken out.
Rest(r, map) ==
  /\ r \in Seq(CacheEntries) /\ Len(r) <= Len(map)
  /\ \A n \in DOMAIN r : \E m \in DOMAIN map : r[n] = map[m]
  /\ Distinct(map) => Distinct(r)

LEMMA RemovedIsRest ==
  ASSUME NEW map \in Seq(CacheEntries), NEW i \in DOMAIN map
  PROVE  Rest(RemoveAt(map, i), map)
<1>1. PICK r : r = RemoveAt(map, i)
  OBVIOUS
<1>2. DOMAIN map = 1 .. Len(map) /\ Len(map) \in Nat /\ i \in Nat
  OBVIOUS
<1>3. /\ r \in Seq(CacheEntries) /\ Len(r) = Len(map) - 1
      /\ \A n \in DOMAIN r : /\ (n < i => n \in DOMAIN map /\ r[n] = map[n])
                             /\ (n >= i => n + 1 \in DOMAIN map /\ r[n] = map[n + 1])
  BY <1>1, RemovedFacts
<1>4. \A n \in DOMAIN r : n \in Nat
  BY <1>3
<1>5. \A n \in DOMAIN r : \E m \in DOMAIN map : r[n] = map[m]
  BY <1>2, <1>3, <1>4
<1>6. ASSUME Distinct(map), NEW m \in DOMAIN r, NEW n \in DOMAIN r, m # n
      PROVE  r[m].sub # r[n].sub
  <2>1. PICK k \in DOMAIN map : r[m] = map[k] /\ k = IF m < i THEN m ELSE m + 1
    BY <1>2, <1>3, <1>4
  <2>2. PICK l \in DOMAIN map : r[n] = map[l] /\ l = IF n < i THEN n ELSE n + 1
    BY <1>2, <1>3, <1>4
  <2>3. k # l
    BY <1>2, <1>4, <1>6, <2>1, <2>2
  <2> QED BY <1>6, <2>1, <2>2, <2>3 DEF Distinct
<1> QED BY <1>1, <1>2, <1>3, <1>5, <1>6 DEF Rest, Distinct

LEMMA WithoutFacts ==
  ASSUME NEW map \in Seq(CacheEntries), NEW sub
  PROVE  Rest(Without(map, sub), map)
<1>1. CASE \E n \in DOMAIN map : map[n].sub = sub
  <2>1. PICK i \in DOMAIN map : i = CHOOSE n \in DOMAIN map : map[n].sub = sub
    BY <1>1
  <2> QED BY <1>1, <2>1, RemovedIsRest DEF Without
<1>2. CASE ~\E n \in DOMAIN map : map[n].sub = sub
  BY <1>2 DEF Without, Rest
<1> QED BY <1>1, <1>2

LEMMA EvictedFacts ==
  ASSUME NEW map \in Seq(CacheEntries), Len(map) <= MaxEntries, NEW r, r = Evicted(map)
  PROVE  Rest(r, map) /\ Len(r) < MaxEntries
<1>1. MaxEntries \in Nat \ {0} /\ Len(map) \in Nat /\ DOMAIN map = 1 .. Len(map)
  BY UserLifetimes
<1>2. CASE Len(map) < MaxEntries
  BY <1>1, <1>2 DEF Evicted, Rest
<1>3. CASE ~(Len(map) < MaxEntries)
  <2>0. Len(map) >= MaxEntries
    BY <1>1, <1>3
  <2>1. map # <<>> /\ r = Tail(map)
    BY <1>1, <2>0 DEF Evicted
  <2>2. r \in Seq(CacheEntries) /\ Len(r) = Len(map) - 1
        /\ \A n \in 1 .. Len(map) - 1 : r[n] = map[n + 1]
    BY <2>1, HeadTailProperties
  <2>3. \A n \in DOMAIN r : n \in Nat /\ n + 1 \in DOMAIN map /\ r[n] = map[n + 1]
    BY <1>1, <2>2
  <2>4. ASSUME Distinct(map), NEW m \in DOMAIN r, NEW n \in DOMAIN r, m # n
        PROVE  r[m].sub # r[n].sub
    BY <2>3, <2>4 DEF Distinct
  <2>5. \A n \in DOMAIN r : \E m \in DOMAIN map : r[n] = map[m]
    BY <2>3
  <2>6. Len(r) <= Len(map) /\ Len(r) < MaxEntries
    BY <1>1, <2>2, <1>3, UserLifetimes
  <2> QED BY <2>2, <2>4, <2>5, <2>6 DEF Rest, Distinct
<1> QED BY <1>2, <1>3

LEMMA SetFacts ==
  ASSUME NEW map \in Seq(CacheEntries), Distinct(map), Len(map) < MaxEntries,
         NEW e \in CacheEntries, NEW r, r = Set(map, e)
  PROVE  /\ r \in Seq(CacheEntries) /\ Len(r) <= MaxEntries /\ Distinct(r)
         /\ \A n \in DOMAIN r : r[n] = e \/ \E m \in DOMAIN map : r[n] = map[m]
<1>1. MaxEntries \in Nat \ {0} /\ Len(map) \in Nat /\ DOMAIN map = 1 .. Len(map)
      /\ \A n \in DOMAIN map : map[n] \in CacheEntries
  BY UserLifetimes
<1>2. CASE \E n \in DOMAIN map : map[n].sub = e.sub
  <2>1. r = [n \in DOMAIN map |-> IF map[n].sub = e.sub THEN e ELSE map[n]]
    BY <1>2 DEF Set
  <2>2. r \in Seq(CacheEntries) /\ DOMAIN r = DOMAIN map /\ Len(r) = Len(map)
    BY <1>1, <2>1
  <2>3. \A n \in DOMAIN r : r[n].sub = map[n].sub /\ (r[n] = e \/ r[n] = map[n])
    BY <2>1, <2>2
  <2> QED BY <1>1, <2>2, <2>3 DEF Distinct
<1>3. CASE ~\E n \in DOMAIN map : map[n].sub = e.sub
  <2>1. r = Append(map, e)
    BY <1>3 DEF Set
  <2>2. r \in Seq(CacheEntries) /\ Len(r) = Len(map) + 1
        /\ (\A n \in 1 .. Len(map) : r[n] = map[n]) /\ r[Len(map) + 1] = e
    BY <2>1, AppendProperties
  <2>3. \A n \in DOMAIN r : n = Len(map) + 1 \/ n \in DOMAIN map
    BY <1>1, <2>2
  <2>4. \A n \in DOMAIN map : r[n] = map[n]
    BY <1>1, <2>2
  <2>5. Len(r) <= MaxEntries
    BY <1>1, <2>2
  <2> QED BY <1>3, <2>2, <2>3, <2>4, <2>5 DEF Distinct
<1> QED BY <1>2, <1>3

-----------------------------------------------------------------------------
LEMMA UsersInitial == UsersInit /\ ClockInit => UsersInv
<1> SUFFICES ASSUME UsersInit, ClockInit PROVE UsersInv
  OBVIOUS
<1>1. UsersShape
  <2>1. clock \in 0 .. MaxTime /\ outages \in 0 .. MaxOutages /\ book \in [Subs -> Emails]
    BY UserLifetimes DEF UsersInit, ClockInit, Emails
  <2>2. held \in [Subs -> [Emails -> Int]]
    BY UserLifetimes DEF UsersInit, Emails
  <2>3. entries \in Seq(CacheEntries)
    BY DEF UsersInit
  <2>4. /\ lookup \in [Lookups -> LookupStates]
        /\ \A l \in Lookups : lookup[l].pc = "idle"
    <3>1. NoLookup \in LookupStates /\ NoLookup.pc = "idle"
      BY UserLifetimes DEF NoLookup, LookupStates, Emails
    <3> QED BY <3>1 DEF UsersInit
  <2> QED BY <2>1, <2>2, <2>3, <2>4 DEF UsersShape
<1>2. PoolIsCurrent
  <2> SUFFICES ASSUME NEW s \in Subs
               PROVE  held[s][book[s]] = 0 /\ \A e \in Emails : held[s][e] <= 0
    BY DEF PoolIsCurrent, ClockInit
  <2>1. book[s] \in Emails /\ held[s] = [e \in Emails |-> IF e = book[s] THEN 0 ELSE -HitTtl]
    BY DEF UsersInit, Emails
  <2>2. -HitTtl <= 0
    BY UserLifetimes
  <2> QED BY <2>1, <2>2
<1>3. LookupsAreRecent
  BY DEF LookupsAreRecent, UsersInit, ClockInit, NoLookup
<1>4. EntriesAreBacked /\ CacheIsBounded
  BY UserLifetimes DEF EntriesAreBacked, CacheIsBounded, UsersInit
<1> QED BY <1>1, <1>2, <1>3, <1>4 DEF UsersInv

\* What the book says of a user keeps or advances what was held.
LEMMA HeldFacts ==
  ASSUME UsersShape, NEW s \in Subs, NEW e \in Emails
  PROVE  held[s] \in [Emails -> Int] /\ held[s][e] \in Int /\ book[s] \in Emails /\ clock \in Nat
BY DEF UsersShape

\* A cache that lost entries is as sound.
LEMMA RestStep ==
  ASSUME UsersInv, held' = held, Rest(entries', entries)
  PROVE  EntriesAreBacked' /\ CacheIsBounded'
<1>1. EntriesAreBacked'
  BY DEF UsersInv, EntriesAreBacked, Backed, Rest
<1>2. Len(entries) <= MaxEntries /\ Len(entries) \in Nat /\ Len(entries') \in Nat
      /\ MaxEntries \in Nat /\ Distinct(entries)
  BY UserLifetimes DEF UsersInv, UsersShape, CacheIsBounded, Rest, Distinct
<1>3. Distinct(entries') /\ Len(entries') <= MaxEntries
  BY <1>2 DEF Rest
<1> QED BY <1>1, <1>3 DEF CacheIsBounded, Distinct

LEMMA StartLookupStep ==
  ASSUME UsersInv, NEW l \in Lookups, NEW s \in Subs, StartLookup(l, s)
  PROVE  UsersInv'
<1> DEFINE q == [NoLookup EXCEPT !.pc = "sent", !.sub = s, !.now = clock]
<1>1. UsersShape /\ UNCHANGED <<book, held, outages, clock>> /\ entries' = Without(entries, s)
      /\ lookup' = [lookup EXCEPT ![l] = q]
  BY DEF UsersInv, StartLookup
<1>2. Rest(entries', entries)
  BY <1>1, WithoutFacts DEF UsersShape
<1>3. q \in LookupStates /\ q.pc = "sent" /\ q.sub = s /\ q.now = clock
  BY <1>1 DEF NoLookup, LookupStates, UsersShape, Emails
<1> HIDE DEF q
<1>4. lookup' \in [Lookups -> LookupStates] /\ lookup'[l] = q
      /\ \A k \in Lookups : k # l => lookup'[k] = lookup[k]
  BY <1>1, <1>3 DEF UsersShape
<1>5. UsersShape'
  BY <1>1, <1>2, <1>3, <1>4 DEF UsersShape, Rest
<1>6. LookupsAreRecent' /\ PoolIsCurrent'
  <2>1. clock <= clock
    BY <1>1 DEF UsersShape
  <2> QED BY <1>1, <1>3, <1>4, <2>1 DEF UsersInv, LookupsAreRecent, PoolIsCurrent
<1> QED BY <1>1, <1>2, <1>5, <1>6, RestStep DEF UsersInv

LEMMA ListUsersStep ==
  ASSUME UsersInv, NEW l \in Lookups, ListUsers(l)
  PROVE  UsersInv'
<1> DEFINE q == [lookup[l] EXCEPT !.pc = "replied", !.email = book[lookup[l].sub]]
<1>1. UsersShape /\ UNCHANGED <<book, held, entries, outages, clock>>
      /\ lookup[l].pc = "sent" /\ lookup[l] \in LookupStates /\ lookup[l].sub \in Subs
  BY DEF UsersInv, ListUsers, UsersShape
<1>2. lookup' = [lookup EXCEPT ![l] = q]
  BY DEF ListUsers
<1>3. q \in LookupStates /\ q.pc = "replied" /\ q.sub = lookup[l].sub /\ q.now = lookup[l].now
      /\ q.email = book[lookup[l].sub]
  BY <1>1 DEF LookupStates, UsersShape
<1> HIDE DEF q
<1>4. lookup' \in [Lookups -> LookupStates] /\ lookup'[l] = q
      /\ \A k \in Lookups : k # l => lookup'[k] = lookup[k]
  BY <1>1, <1>2, <1>3 DEF UsersShape
<1>5. UsersShape'
  BY <1>1, <1>3, <1>4 DEF UsersShape
<1>6. LookupsAreRecent'
  <2>1. q.now <= clock /\ held[q.sub][q.email] = clock
    BY <1>1, <1>3 DEF UsersInv, LookupsAreRecent, PoolIsCurrent
  <2> QED BY <1>1, <1>4, <2>1 DEF UsersInv, LookupsAreRecent
<1>7. PoolIsCurrent' /\ EntriesAreBacked' /\ CacheIsBounded'
  BY <1>1 DEF UsersInv, PoolIsCurrent, EntriesAreBacked, Backed, CacheIsBounded
<1> QED BY <1>5, <1>6, <1>7 DEF UsersInv

LEMMA LookupFailsStep ==
  ASSUME UsersInv, NEW l \in Lookups, LookupFails(l)
  PROVE  UsersInv'
<1>1. UsersShape /\ UNCHANGED <<book, held, entries, clock>>
      /\ lookup' = [lookup EXCEPT ![l] = NoLookup] /\ outages' \in 0 .. MaxOutages
  BY UserLifetimes DEF UsersInv, LookupFails, UsersShape
<1>2. NoLookup \in LookupStates /\ NoLookup.pc = "idle" /\ NoLookup.now = 0 /\ 0 <= clock
  BY <1>1, UserLifetimes DEF NoLookup, LookupStates, Emails, UsersShape
<1>3. lookup' \in [Lookups -> LookupStates] /\ lookup'[l] = NoLookup
      /\ \A k \in Lookups : k # l => lookup'[k] = lookup[k]
  BY <1>1, <1>2 DEF UsersShape
<1>4. UsersShape'
  BY <1>1, <1>2, <1>3 DEF UsersShape
<1>5. LookupsAreRecent'
  BY <1>1, <1>2, <1>3 DEF UsersInv, LookupsAreRecent
<1>6. PoolIsCurrent' /\ EntriesAreBacked' /\ CacheIsBounded'
  BY <1>1 DEF UsersInv, PoolIsCurrent, EntriesAreBacked, Backed, CacheIsBounded
<1> QED BY <1>4, <1>5, <1>6 DEF UsersInv

\* The answer is stored in place of an older one of the user, or of the oldest key.
LEMMA StoreUserStep ==
  ASSUME UsersInv, NEW l \in Lookups, StoreUser(l)
  PROVE  UsersInv'
<1>1. UsersShape /\ UNCHANGED <<book, held, outages, clock>>
      /\ lookup' = [lookup EXCEPT ![l] = NoLookup]
      /\ lookup[l].pc = "replied" /\ lookup[l] \in LookupStates /\ lookup[l].sub \in Subs
  BY DEF UsersInv, StoreUser, UsersShape
<1>2. PICK e : e = EntryOf(l)
  OBVIOUS
<1>3. e \in CacheEntries
  <2>1. /\ lookup[l].now \in 0 .. MaxTime /\ lookup[l].email \in Emails
        /\ Ttl(lookup[l].email) \in 1 .. HitTtl
    BY <1>1, UserLifetimes DEF LookupStates
  <2>2. lookup[l].now + Ttl(lookup[l].email) \in Expiries
    BY <2>1, UserLifetimes DEF Expiries
  <2> QED BY <1>1, <1>2, <2>1, <2>2 DEF EntryOf, CacheEntries
<1>4. Backed(e)
  <2>1. /\ e.sub = lookup[l].sub /\ e.email = lookup[l].email
        /\ e.expires = lookup[l].now + Ttl(e.email)
    BY <1>2 DEF EntryOf
  <2>2. lookup[l].now <= held[e.sub][e.email]
    BY <1>1, <2>1 DEF UsersInv, LookupsAreRecent
  <2>3. lookup[l].now \in Int /\ held[e.sub][e.email] \in Int /\ Ttl(e.email) \in Int
    BY <1>1, <2>1, HeldFacts, UserLifetimes DEF LookupStates
  <2> QED BY <2>1, <2>2, <2>3 DEF Backed
<1>5. PICK map : map = Evicted(entries)
  OBVIOUS
<1>6. entries \in Seq(CacheEntries) /\ Len(entries) <= MaxEntries /\ Distinct(entries)
  BY DEF UsersInv, UsersShape, CacheIsBounded, Distinct
<1>7. Rest(map, entries) /\ Len(map) < MaxEntries
  BY <1>5, <1>6, EvictedFacts
<1>8. entries' = Set(map, e)
  BY <1>2, <1>5 DEF StoreUser
<1>9. map \in Seq(CacheEntries) /\ Distinct(map)
  BY <1>6, <1>7 DEF Rest
<1>10. /\ entries' \in Seq(CacheEntries) /\ Len(entries') <= MaxEntries /\ Distinct(entries')
       /\ \A n \in DOMAIN entries' : entries'[n] = e \/ \E m \in DOMAIN map : entries'[n] = map[m]
  BY <1>3, <1>7, <1>8, <1>9, SetFacts
<1>11. \A n \in DOMAIN entries' : entries'[n] = e \/ \E m \in DOMAIN entries : entries'[n] = entries[m]
  BY <1>7, <1>10 DEF Rest
<1>12. EntriesAreBacked'
  BY <1>1, <1>4, <1>11 DEF UsersInv, EntriesAreBacked, Backed
<1>13. CacheIsBounded'
  BY <1>10 DEF CacheIsBounded, Distinct
<1>14. NoLookup \in LookupStates /\ NoLookup.pc = "idle" /\ NoLookup.now = 0 /\ 0 <= clock
  BY <1>1, UserLifetimes DEF NoLookup, LookupStates, Emails, UsersShape
<1>15. lookup' \in [Lookups -> LookupStates] /\ lookup'[l] = NoLookup
       /\ \A k \in Lookups : k # l => lookup'[k] = lookup[k]
  BY <1>1, <1>14 DEF UsersShape
<1>16. UsersShape'
  BY <1>1, <1>10, <1>14, <1>15 DEF UsersShape
<1>17. LookupsAreRecent' /\ PoolIsCurrent'
  BY <1>1, <1>14, <1>15 DEF UsersInv, LookupsAreRecent, PoolIsCurrent
<1> QED BY <1>12, <1>13, <1>16, <1>17 DEF UsersInv

\* Time passes and users change: what was held only gets more recent.
LEMMA HeldStep ==
  ASSUME UsersInv, UNCHANGED <<entries, lookup, outages>>, UsersShape', PoolIsCurrent', clock <= clock',
         \A s \in Subs, e \in Emails : held[s][e] <= held'[s][e]
  PROVE  UsersInv'
<1>1. UsersShape
  BY DEF UsersInv
<1>2. LookupsAreRecent'
  <2> SUFFICES ASSUME NEW l \in Lookups
               PROVE  /\ lookup[l].now <= clock'
                      /\ lookup[l].pc = "replied" =>
                           lookup[l].now <= held'[lookup[l].sub][lookup[l].email]
    BY DEF LookupsAreRecent
  <2>1. /\ lookup[l] \in LookupStates /\ lookup[l].now \in Int /\ lookup[l].email \in Emails
        /\ lookup[l].pc = "replied" => lookup[l].sub \in Subs
    BY <1>1 DEF UsersShape, LookupStates
  <2>2. lookup[l].now <= clock
        /\ (lookup[l].pc = "replied" => lookup[l].now <= held[lookup[l].sub][lookup[l].email])
    BY DEF UsersInv, LookupsAreRecent
  <2>3. lookup[l].now <= clock'
    BY <1>1, <2>1, <2>2 DEF UsersShape
  <2>4. ASSUME lookup[l].pc = "replied"
        PROVE  lookup[l].now <= held'[lookup[l].sub][lookup[l].email]
    <3>1. held[lookup[l].sub][lookup[l].email] \in Int /\ held'[lookup[l].sub][lookup[l].email] \in Int
      BY <1>1, <2>1, <2>4 DEF UsersShape
    <3> QED BY <2>1, <2>2, <2>4, <3>1
  <2> QED BY <2>3, <2>4
<1>3. EntriesAreBacked'
  <2> SUFFICES ASSUME NEW n \in DOMAIN entries
               PROVE  entries[n].expires <= held'[entries[n].sub][entries[n].email] + Ttl(entries[n].email)
    BY DEF EntriesAreBacked, Backed
  <2>1. entries[n] \in CacheEntries
    BY <1>1 DEF UsersShape
  <2>2. entries[n].sub \in Subs /\ entries[n].email \in Emails /\ entries[n].expires \in Int
        /\ Ttl(entries[n].email) \in Int
    BY <2>1, UserLifetimes DEF CacheEntries, Expiries
  <2>3. held[entries[n].sub][entries[n].email] \in Int /\ held'[entries[n].sub][entries[n].email] \in Int
    BY <1>1, <2>2 DEF UsersShape
  <2>4. entries[n].expires <= held[entries[n].sub][entries[n].email] + Ttl(entries[n].email)
    BY DEF UsersInv, EntriesAreBacked, Backed
  <2>5. held[entries[n].sub][entries[n].email] <= held'[entries[n].sub][entries[n].email]
    BY <2>2
  <2> QED BY <2>2, <2>3, <2>4, <2>5
<1>4. CacheIsBounded'
  BY DEF UsersInv, CacheIsBounded
<1> QED BY <1>2, <1>3, <1>4 DEF UsersInv

LEMMA ChangeUserStep ==
  ASSUME UsersInv, NEW s \in Subs, NEW e \in Emails, ChangeUser(s, e)
  PROVE  UsersInv'
<1>1. UsersShape /\ clock' = clock /\ clock \in Int /\ clock <= clock'
      /\ book' = [book EXCEPT ![s] = e] /\ held' = [held EXCEPT ![s] = [held[s] EXCEPT ![e] = clock]]
  BY DEF UsersInv, ChangeUser, UsersShape
<1>2. /\ book' \in [Subs -> Emails] /\ book'[s] = e /\ held' \in [Subs -> [Emails -> Int]]
      /\ held'[s][e] = clock /\ \A f \in Emails : f # e => held'[s][f] = held[s][f]
      /\ \A t \in Subs : t # s => held'[t] = held[t] /\ book'[t] = book[t]
  BY <1>1 DEF UsersShape
<1>3. UsersShape'
  BY <1>1, <1>2 DEF UsersShape, ChangeUser
<1>4. \A t \in Subs : held[t][book[t]] = clock /\ \A f \in Emails : held[t][f] <= clock
  BY DEF UsersInv, PoolIsCurrent
<1>5. PoolIsCurrent'
  BY <1>1, <1>2, <1>4 DEF PoolIsCurrent
<1>6. \A t \in Subs, f \in Emails : held[t][f] <= held'[t][f]
  <2> SUFFICES ASSUME NEW t \in Subs, NEW f \in Emails PROVE held[t][f] <= held'[t][f]
    OBVIOUS
  <2>1. held[t][f] \in Int /\ held[t][f] <= clock
    BY <1>1, <1>4, HeldFacts
  <2> QED BY <1>2, <2>1
<1> QED BY <1>1, <1>3, <1>5, <1>6, HeldStep DEF ChangeUser

LEMMA UserTickStep ==
  ASSUME UsersInv, UserTick
  PROVE  UsersInv'
<1>1. UsersShape /\ clock' = clock + 1 /\ clock \in Int /\ clock' \in 0 .. MaxTime /\ clock <= clock'
      /\ UNCHANGED <<book, entries, lookup, outages>>
      /\ held' = [s \in Subs |-> [held[s] EXCEPT ![book[s]] = clock']]
  BY UserLifetimes DEF UsersInv, UserTick, ClockTick, UsersShape
<1>2. \A t \in Subs : /\ held'[t] \in [Emails -> Int] /\ held'[t][book[t]] = clock'
                      /\ \A f \in Emails : f # book[t] => held'[t][f] = held[t][f]
  BY <1>1 DEF UsersShape
<1>3. held' \in [Subs -> [Emails -> Int]]
  BY <1>1, <1>2
<1>4. UsersShape'
  BY <1>1, <1>3 DEF UsersShape
<1>5. \A t \in Subs, f \in Emails : held[t][f] \in Int /\ held[t][f] <= clock
  BY HeldFacts DEF UsersInv, PoolIsCurrent
<1>6. \A t \in Subs, f \in Emails : held[t][f] <= held'[t][f] /\ held'[t][f] <= clock'
  <2> SUFFICES ASSUME NEW t \in Subs, NEW f \in Emails
               PROVE  held[t][f] <= held'[t][f] /\ held'[t][f] <= clock'
    OBVIOUS
  <2>1. held'[t][f] = clock' \/ held'[t][f] = held[t][f]
    BY <1>2
  <2>2. held[t][f] \in Int /\ held[t][f] <= clock
    BY <1>5
  <2> QED BY <1>1, <2>1, <2>2
<1>7. PoolIsCurrent'
  BY <1>1, <1>2, <1>6 DEF PoolIsCurrent
<1> QED BY <1>1, <1>4, <1>6, <1>7, HeldStep

LEMMA UsersStep == UsersInv /\ [UsersNext]_<<userVars, clock>> => UsersInv'
<1> SUFFICES ASSUME UsersInv, [UsersNext]_<<userVars, clock>> PROVE UsersInv'
  OBVIOUS
<1>1. CASE UNCHANGED <<userVars, clock>>
  BY <1>1 DEF userVars, UsersInv, UsersShape, PoolIsCurrent, LookupsAreRecent, EntriesAreBacked,
              Backed, CacheIsBounded
<1>2. ASSUME NEW l \in Lookups, NEW s \in Subs, CacheHit(l, s) PROVE UsersInv'
  BY <1>1, <1>2 DEF CacheHit
<1>3. ASSUME NEW l \in Lookups, NEW s \in Subs, StartLookup(l, s) PROVE UsersInv'
  BY <1>3, StartLookupStep
<1>4. ASSUME NEW l \in Lookups, ListUsers(l) \/ StoreUser(l) \/ LookupFails(l) PROVE UsersInv'
  BY <1>4, ListUsersStep, StoreUserStep, LookupFailsStep
<1>5. ASSUME NEW s \in Subs, NEW e \in Emails, ChangeUser(s, e) PROVE UsersInv'
  BY <1>5, ChangeUserStep
<1>6. CASE UserTick
  BY <1>6, UserTickStep
<1> QED BY <1>1, <1>2, <1>3, <1>4, <1>5, <1>6 DEF UsersNext, Emails

LEMMA UsersInvariant == UsersSpec => []UsersInv
<1> QED BY UsersInitial, UsersStep, PTL DEF UsersSpec

LEMMA UsersTyping == UsersInv => UsersTypeOK
<1> SUFFICES ASSUME UsersInv PROVE UsersTypeOK
  OBVIOUS
<1>1. \A n \in DOMAIN entries : entries[n] \in CacheEntries
  BY DEF UsersInv, UsersShape
<1>2. \A l \in Lookups : lookup[l] \in LookupStates
  BY DEF UsersInv, UsersShape
<1> QED BY <1>1, <1>2
        DEF UsersInv, UsersShape, UsersTypeOK, CacheEntries, LookupStates, Emails, Expiries

\* The cache's variables keep their types: no entry expires later than an
\* hour after the request that filled it.
THEOREM UsersTypeCorrect == UsersSpec => []UsersTypeOK
BY UsersTyping, UsersInvariant, PTL

\* The Map never outgrows CACHE_MAX_ENTRIES and has one entry for a user, and
\* what getCognitoUserBySub answers from it was in the pool within the hour, or
\* the minute (cognitoUser.ts:26-31), in whatever order lookups end.
THEOREM CacheCorrect == UsersSpec => []CacheIsSound
<1>1. UsersInv => CacheIsSound
  <2> SUFFICES ASSUME UsersInv, NEW n \in DOMAIN entries, Fresh(entries[n])
               PROVE  held[entries[n].sub][entries[n].email] > clock - Ttl(entries[n].email)
    BY DEF UsersInv, CacheIsSound, EntriesAreRecent
  <2>1. entries[n] \in CacheEntries /\ UsersShape
    BY DEF UsersInv, UsersShape
  <2>2. /\ held[entries[n].sub][entries[n].email] \in Int /\ clock \in Int
        /\ Ttl(entries[n].email) \in Int /\ entries[n].expires \in Int
    BY <2>1, HeldFacts, UserLifetimes DEF CacheEntries, Expiries
  <2>3. entries[n].expires <= held[entries[n].sub][entries[n].email] + Ttl(entries[n].email)
    BY DEF UsersInv, EntriesAreBacked, Backed
  <2>4. entries[n].expires > clock
    BY DEF Fresh
  <2> QED BY <2>2, <2>3, <2>4
<1> QED BY <1>1, UsersInvariant, PTL

-----------------------------------------------------------------------------
(* Telemetry *)

\* The leaves of a heartbeat; an optional one may not be set.
LEMMA HeartbeatLeaves ==
  ASSUME NEW h \in Heartbeats
  PROVE  /\ h["mode"] \in {0, 1} /\ h["state"] \in {0, 1} /\ h["rate"] \in Nat
         /\ h["temp"] \in {0, 72} /\ h["fan"] \in {0, 1} /\ h["setpoint"] \in {0, 70}
         /\ h["event"] \in {-1, 0, 1} /\ h["latch"] \in {-1, 0, 1}
BY TelemetryAssumption DEF Heartbeats, Unset

\* The message without its defaults lacks the zeros that are not optional.
LEMMA WireAt ==
  ASSUME NEW h \in Heartbeats, NEW l \in Leaves
  PROVE  At(Wire(h), l) = IF h[l] = 0 /\ l \notin Optional THEN Unset ELSE h[l]
<1> DEFINE W == {m \in Leaves : h[m] # Unset /\ (h[m] # 0 \/ m \in Optional)}
<1>1. Wire(h) = [m \in W |-> h[m]]
  BY DEF Wire
<1>2. At(Wire(h), l) = IF l \in W THEN h[l] ELSE Unset
  BY <1>1 DEF At
<1> QED BY <1>2

\* The view with defaults has every leaf that is set.
LEMMA FullAt ==
  ASSUME NEW h \in Heartbeats, NEW l \in Leaves
  PROVE  At(FullView(h), l) = h[l]
<1> DEFINE F == {m \in Leaves : h[m] # Unset}
<1>1. FullView(h) = [m \in F |-> h[m]]
  BY DEF FullView
<1>2. At(FullView(h), l) = IF l \in F THEN h[l] ELSE Unset
  BY <1>1 DEF At
<1> QED BY <1>2

\* A sample is emitted of every enumeration, of the rate and of the fan, and
\* of what else is on the wire.
Always == Enumerations \cup ZeroMeaningful

LEMMA EmittedAt ==
  ASSUME NEW h \in Heartbeats, NEW l \in Leaves
  PROVE  /\ At(Emitted(h), l) = IF l \in Always THEN h[l] ELSE At(Wire(h), l)
         /\ l \in DOMAIN Emitted(h) <=> At(Emitted(h), l) # Unset
<1> DEFINE E == (DOMAIN Wire(h) \ Enumerations) \cup (DOMAIN FullView(h) \cap Enumerations)
                \cup {m \in ZeroMeaningful : At(FullView(h), m) = 0}
<1>1. Emitted(h) = [m \in E |-> h[m]]
  BY DEF Emitted
<1>2. At(Emitted(h), l) = IF l \in E THEN h[l] ELSE Unset
  BY <1>1 DEF At
<1>3. /\ l \in DOMAIN Wire(h) <=> h[l] # Unset /\ (h[l] # 0 \/ l \in Optional)
      /\ l \in DOMAIN FullView(h) <=> h[l] # Unset
  BY DEF Wire, FullView
<1>4. l \in E <=> IF l \in Enumerations THEN h[l] # Unset
                  ELSE \/ h[l] # Unset /\ (h[l] # 0 \/ l \in Optional)
                       \/ l \in ZeroMeaningful /\ h[l] = 0
  BY <1>3, FullAt DEF Enumerations, ZeroMeaningful
<1>5. l \in ZeroMeaningful => l \notin Optional /\ h[l] # Unset
  BY HeartbeatLeaves DEF ZeroMeaningful, Optional, Unset
<1>6. l \in E => h[l] # Unset
  BY <1>4, <1>5
<1>7. At(Wire(h), l) = IF h[l] = 0 /\ l \notin Optional THEN Unset ELSE h[l]
  BY WireAt
<1> HIDE DEF E
<1>8. l \in DOMAIN Emitted(h) <=> l \in E
  BY <1>1
<1>9. At(Emitted(h), l) = IF l \in Always THEN h[l] ELSE At(Wire(h), l)
  BY <1>2, <1>4, <1>5, <1>7 DEF Always
<1> QED BY <1>2, <1>6, <1>8, <1>9

\* Of a series the strip shows the last sample.
LEMMA LatestAt ==
  ASSUME NEW first \in Heartbeats, NEW second \in Heartbeats, NEW l \in Leaves
  PROVE  At(Latest(first, second), l) =
           IF At(Emitted(second), l) # Unset THEN At(Emitted(second), l) ELSE At(Emitted(first), l)
<1> DEFINE new == Emitted(second)
           old == Emitted(first)
<1>1. Latest(first, second) =
        [m \in DOMAIN new \cup DOMAIN old |-> IF m \in DOMAIN new THEN new[m] ELSE old[m]]
  BY DEF Latest
<1>2. /\ l \in DOMAIN new <=> At(new, l) # Unset
      /\ l \in DOMAIN old <=> At(old, l) # Unset
  BY EmittedAt
<1> HIDE DEF new, old
<1>3. At(Latest(first, second), l) =
        IF l \in DOMAIN new THEN new[l] ELSE IF l \in DOMAIN old THEN old[l] ELSE Unset
  BY <1>1 DEF At
<1>4. At(Latest(first, second), l) = IF At(new, l) # Unset THEN At(new, l) ELSE At(old, l)
  BY <1>2, <1>3 DEF At
<1> QED BY <1>4 DEF new, old

-----------------------------------------------------------------------------
(* The strip and the cockpit *)

\* What the strip shows after two heartbeats, leaf by leaf.
LEMMA StripLeaves ==
  ASSUME NEW first \in Heartbeats, NEW second \in Heartbeats
  PROVE  /\ \A l \in Always : At(Latest(first, second), l) = second[l]
         /\ second["setpoint"] # 0 => At(Latest(first, second), "setpoint") = second["setpoint"]
         /\ \A l \in Optional : At(Latest(first, second), l) =
              IF second[l] # Unset THEN second[l] ELSE first[l]
<1>1. ASSUME NEW l \in Always PROVE At(Latest(first, second), l) = second[l]
  <2>1. l \in Leaves /\ second[l] # Unset
    BY HeartbeatLeaves DEF Always, Enumerations, ZeroMeaningful, Leaves, Unset
  <2> QED BY <2>1, EmittedAt, LatestAt
<1>2. ASSUME second["setpoint"] # 0
      PROVE  At(Latest(first, second), "setpoint") = second["setpoint"]
  <2>1. "setpoint" \in Leaves /\ "setpoint" \notin Always /\ second["setpoint"] # Unset
    BY HeartbeatLeaves DEF Always, Enumerations, ZeroMeaningful, Leaves, Unset
  <2>2. At(Wire(second), "setpoint") = second["setpoint"]
    BY <1>2, <2>1, WireAt
  <2> QED BY <2>1, <2>2, EmittedAt, LatestAt
<1>3. ASSUME NEW l \in Optional
      PROVE  At(Latest(first, second), l) = IF second[l] # Unset THEN second[l] ELSE first[l]
  <2>1. l \in Leaves /\ l \notin Always
    BY DEF Always, Enumerations, ZeroMeaningful, Leaves, Optional
  <2>2. At(Wire(second), l) = second[l] /\ At(Wire(first), l) = first[l]
    BY <2>1, WireAt
  <2> QED BY <2>1, <2>2, EmittedAt, LatestAt
<1> QED BY <1>1, <1>2, <1>3

\* What the cockpit shows of a heartbeat, field by field.
LEMMA CockpitFields ==
  ASSUME NEW h \in Heartbeats
  PROVE  /\ Cockpit(h).mode = h["mode"] /\ Cockpit(h).rate = h["rate"]
         /\ Cockpit(h).state = CompressorState(h["state"], h["rate"])
         /\ Cockpit(h).fan = IF h["fan"] = 0 THEN Unset ELSE h["fan"]
         /\ Cockpit(h).setpoint = IF h["setpoint"] = 0 THEN Unset ELSE h["setpoint"]
         /\ Cockpit(h).alarm = (h["event"] = 1 \/ h["latch"] = 1)
<1>1. \A l \in Leaves : At(FullView(h), l) = h[l]
  BY FullAt
<1>2. \A l \in Leaves : At(Wire(h), l) = IF h[l] = 0 /\ l \notin Optional THEN Unset ELSE h[l]
  BY WireAt
<1>3. /\ At(FullView(h), "mode") = h["mode"] /\ At(FullView(h), "rate") = h["rate"]
      /\ At(FullView(h), "state") = h["state"]
  BY <1>1 DEF Leaves
<1>4. /\ At(Wire(h), "fan") = IF h["fan"] = 0 THEN Unset ELSE h["fan"]
      /\ At(Wire(h), "setpoint") = IF h["setpoint"] = 0 THEN Unset ELSE h["setpoint"]
      /\ At(Wire(h), "event") = h["event"] /\ At(Wire(h), "latch") = h["latch"]
  BY <1>2 DEF Leaves, Optional
<1>5. /\ Cockpit(h).mode = At(FullView(h), "mode") /\ Cockpit(h).rate = At(FullView(h), "rate")
      /\ Cockpit(h).state = CompressorState(At(FullView(h), "state"), At(FullView(h), "rate"))
      /\ Cockpit(h).fan = At(Wire(h), "fan") /\ Cockpit(h).setpoint = At(Wire(h), "setpoint")
      /\ Cockpit(h).alarm = (At(Wire(h), "event") = 1 \/ At(Wire(h), "latch") = 1)
  BY Zenon DEF Cockpit
<1> QED BY <1>3, <1>4, <1>5, Zenon

\* StripAgrees, of the strip and the cockpit of two heartbeats.
LEMMA StripAgreesWithCockpit ==
  ASSUME NEW first \in Heartbeats, NEW second \in Heartbeats
  PROVE  LET strip == Strip(Latest(first, second))  cockpit == Cockpit(second)
         IN  /\ \A f \in {"mode", "rate", "state"} : strip[f] = cockpit[f]
             /\ \A f \in {"fan", "setpoint"} : cockpit[f] = Unset \/ strip[f] = cockpit[f]
             /\ cockpit.alarm => strip.alarm
             /\ (\A l \in Optional : second[l] = Unset => first[l] = Unset)
                => strip.alarm = cockpit.alarm
<1> DEFINE latest == Latest(first, second)
           strip == Strip(latest)
           cockpit == Cockpit(second)
<1>1. /\ At(latest, "mode") = second["mode"] /\ At(latest, "state") = second["state"]
      /\ At(latest, "rate") = second["rate"] /\ At(latest, "fan") = second["fan"]
  BY StripLeaves DEF Always, Enumerations, ZeroMeaningful
<1>2. second["setpoint"] # 0 => At(latest, "setpoint") = second["setpoint"]
  BY StripLeaves
<1>3. /\ At(latest, "event") = IF second["event"] # Unset THEN second["event"] ELSE first["event"]
      /\ At(latest, "latch") = IF second["latch"] # Unset THEN second["latch"] ELSE first["latch"]
  BY StripLeaves DEF Optional
<1> HIDE DEF latest
<1>4. /\ strip.mode = At(latest, "mode") /\ strip.fan = At(latest, "fan")
      /\ strip.rate = At(latest, "rate")
      /\ strip.state = CompressorState(At(latest, "state"), At(latest, "rate"))
      /\ strip.setpoint = IF At(latest, "setpoint") = 0 THEN Unset ELSE At(latest, "setpoint")
      /\ strip.alarm = (At(latest, "event") = 1 \/ At(latest, "latch") = 1)
  BY Zenon DEF Strip
<1>5. /\ cockpit.mode = second["mode"] /\ cockpit.rate = second["rate"]
      /\ cockpit.state = CompressorState(second["state"], second["rate"])
      /\ cockpit.fan = IF second["fan"] = 0 THEN Unset ELSE second["fan"]
      /\ cockpit.setpoint = IF second["setpoint"] = 0 THEN Unset ELSE second["setpoint"]
      /\ cockpit.alarm = (second["event"] = 1 \/ second["latch"] = 1)
  BY CockpitFields, Zenon
<1> HIDE DEF strip, cockpit
<1>6. \A f \in {"mode", "rate", "state"} : strip[f] = cockpit[f]
  BY <1>1, <1>4, <1>5
<1>7. \A f \in {"fan", "setpoint"} : cockpit[f] = Unset \/ strip[f] = cockpit[f]
  BY <1>1, <1>2, <1>4, <1>5
<1>8. 1 # Unset
  BY DEF Unset
<1>9. cockpit.alarm => strip.alarm
  BY <1>3, <1>4, <1>5, <1>8, Zenon
<1>10. (\A l \in Optional : second[l] = Unset => first[l] = Unset) => strip.alarm = cockpit.alarm
  <2> SUFFICES ASSUME \A l \in Optional : second[l] = Unset => first[l] = Unset
               PROVE  strip.alarm = cockpit.alarm
    OBVIOUS
  <2>1. /\ second["event"] = Unset => first["event"] = Unset
        /\ second["latch"] = Unset => first["latch"] = Unset
    BY DEF Optional
  <2>2. At(latest, "event") = second["event"] /\ At(latest, "latch") = second["latch"]
    BY <1>3, <2>1
  <2> QED BY <1>4, <1>5, <2>2, Zenon
<1> QED BY <1>6, <1>7, <1>9, <1>10 DEF strip, cockpit, latest

-----------------------------------------------------------------------------
(* What the archive leaves out *)

\* Two heartbeats with one fingerprint have the same leaves, as far as they
\* are fingerprinted.
LEMMA SameFingerprint ==
  ASSUME NEW first \in Heartbeats, NEW second \in Heartbeats,
         Fingerprint(first) = Fingerprint(second), NEW l \in Fingerprinted
  PROVE  first[l] = second[l]
<1>1. l \in Leaves
  BY DEF Fingerprinted
<1>2. ASSUME NEW h \in Heartbeats
      PROVE  /\ l \in DOMAIN Fingerprint(h) <=> h[l] # Unset /\ (h[l] # 0 \/ l \in Optional)
             /\ l \in DOMAIN Fingerprint(h) => Fingerprint(h)[l] = h[l]
  BY <1>1 DEF Fingerprint, Wire
<1>3. ASSUME NEW h \in Heartbeats PROVE l \notin Optional => h[l] # Unset
  BY <1>1, HeartbeatLeaves DEF Leaves, Optional, Unset
<1>4. CASE l \in DOMAIN Fingerprint(first)
  BY <1>2, <1>4
<1>5. CASE l \notin DOMAIN Fingerprint(first)
  <2>1. l \notin DOMAIN Fingerprint(second)
    BY <1>5
  <2>2. /\ ~(first[l] # Unset /\ (first[l] # 0 \/ l \in Optional))
        /\ ~(second[l] # Unset /\ (second[l] # 0 \/ l \in Optional))
    BY <1>2, <1>5, <2>1
  <2>3. CASE l \in Optional
    BY <2>2, <2>3
  <2>4. CASE l \notin Optional
    BY <1>3, <2>2, <2>4
  <2> QED BY <2>3, <2>4
<1> QED BY <1>4, <1>5

\* RepeatsAreEqual, of two heartbeats with one fingerprint.
LEMMA RepeatShowsTheSame ==
  ASSUME NEW first \in Heartbeats, NEW second \in Heartbeats,
         Fingerprint(first) = Fingerprint(second)
  PROVE  /\ \A l \in Fingerprinted : At(Emitted(first), l) = At(Emitted(second), l)
         /\ \A f \in {"mode", "fan", "rate", "state", "alarm"} : Cockpit(first)[f] = Cockpit(second)[f]
<1>1. \A l \in Fingerprinted : first[l] = second[l]
  BY SameFingerprint
<1>2. ASSUME NEW l \in Fingerprinted PROVE At(Emitted(first), l) = At(Emitted(second), l)
  <2>1. l \in Leaves /\ first[l] = second[l]
    BY <1>1 DEF Fingerprinted
  <2>2. At(Wire(first), l) = At(Wire(second), l)
    BY <2>1, WireAt
  <2>3. /\ At(Emitted(first), l) = IF l \in Always THEN first[l] ELSE At(Wire(first), l)
        /\ At(Emitted(second), l) = IF l \in Always THEN second[l] ELSE At(Wire(second), l)
    BY <2>1, EmittedAt
  <2> QED BY <2>1, <2>2, <2>3
<1>3. /\ first["mode"] = second["mode"] /\ first["fan"] = second["fan"]
      /\ first["rate"] = second["rate"] /\ first["state"] = second["state"]
      /\ first["event"] = second["event"] /\ first["latch"] = second["latch"]
  BY <1>1 DEF Fingerprinted, Leaves
<1>4. /\ Cockpit(first).mode = Cockpit(second).mode /\ Cockpit(first).rate = Cockpit(second).rate
      /\ Cockpit(first).state = Cockpit(second).state
  BY <1>3, CockpitFields, Zenon
<1>5. Cockpit(first).fan = Cockpit(second).fan
  <2>1. /\ Cockpit(first).fan = IF first["fan"] = 0 THEN Unset ELSE first["fan"]
        /\ Cockpit(second).fan = IF second["fan"] = 0 THEN Unset ELSE second["fan"]
    BY CockpitFields, Zenon
  <2> QED BY <1>3, <2>1
<1>6. Cockpit(first).alarm = Cockpit(second).alarm
  BY <1>3, CockpitFields, Zenon
<1> QED BY <1>2, <1>4, <1>5, <1>6

-----------------------------------------------------------------------------
(* Before the step there are two heartbeats, after it their readings. *)

Answer(first, second) ==
  [strip   |-> Strip(Latest(first, second)),
   cockpit |-> IF Recognised(second) THEN <<Cockpit(second)>> ELSE <<>>,
   repeat  |-> Recognised(first) /\ Recognised(second)
                 /\ Fingerprint(first) = Fingerprint(second)]

\* Two heartbeats, or two with what is made of them.
DecodedOnce ==
  \E first, second \in Heartbeats :
    telemetry \in {<<first, second>>, <<first, second, Answer(first, second)>>}

\* A third element.
LEMMA AppendThird ==
  ASSUME NEW a, NEW b, NEW c PROVE Append(<<a, b>>, c) = <<a, b, c>>
<1> DEFINE S == {a, b, c}
           s == <<a, b>>
           t == <<a, b, c>>
<1>1. s \in Seq(S) /\ t \in Seq(S) /\ c \in S
  OBVIOUS
<1>2. Len(s) = 2 /\ s[1] = a /\ s[2] = b /\ Len(t) = 3 /\ t[1] = a /\ t[2] = b /\ t[3] = c
  OBVIOUS
<1> HIDE DEF s, t, S
<1>3. /\ Append(s, c) \in Seq(S) /\ Len(Append(s, c)) = 3
      /\ \A i \in 1 .. 2 : Append(s, c)[i] = s[i]
      /\ Append(s, c)[3] = c
  <2>1. /\ Append(s, c) \in Seq(S) /\ Len(Append(s, c)) = Len(s) + 1
        /\ \A i \in 1 .. Len(s) : Append(s, c)[i] = s[i]
        /\ Append(s, c)[Len(s) + 1] = c
    BY <1>1, AppendProperties
  <2>2. Len(s) + 1 = 3
    BY <1>2
  <2> QED BY <1>2, <2>1, <2>2
<1>4. \A i \in 1 .. 3 : Append(s, c)[i] = t[i]
  BY <1>2, <1>3
<1>5. Append(s, c) = t
  BY <1>1, <1>2, <1>3, <1>4, SeqEqual
<1> QED BY <1>5 DEF s, t

LEMMA DecodeStep == DecodedOnce /\ [Decode]_telemetry => DecodedOnce'
<1> SUFFICES ASSUME DecodedOnce, Decode PROVE DecodedOnce'
  BY DEF DecodedOnce
<1>1. PICK first, second \in Heartbeats :
        telemetry \in {<<first, second>>, <<first, second, Answer(first, second)>>}
  BY DEF DecodedOnce
<1>2. Len(telemetry) = 2
  BY DEF Decode
<1>3. telemetry = <<first, second>>
  BY <1>1, <1>2
<1>4. telemetry' = Append(telemetry, Answer(telemetry[1], telemetry[2]))
  BY Zenon DEF Decode, Answer
<1> HIDE DEF Answer
<1>5. telemetry[1] = first /\ telemetry[2] = second
  BY <1>3
<1>6. telemetry' = Append(<<first, second>>, Answer(first, second))
  BY <1>3, <1>4, <1>5
<1>7. telemetry' = <<first, second, Answer(first, second)>>
  BY <1>6, AppendThird
<1> QED BY <1>7 DEF DecodedOnce

LEMMA DecodedAgree == DecodedOnce => ReadingsAgree
<1> SUFFICES ASSUME DecodedOnce, Len(telemetry) = 3 PROVE ReadingsAgree
  BY DEF ReadingsAgree, StripAgrees, RepeatsAreEqual
<1>1. PICK first, second \in Heartbeats : telemetry = <<first, second, Answer(first, second)>>
  BY DEF DecodedOnce
<1>2. /\ telemetry[1] = first /\ telemetry[2] = second
      /\ telemetry[3] = Answer(first, second)
  BY <1>1
<1>3. /\ telemetry[3].strip = Strip(Latest(first, second))
      /\ telemetry[3].cockpit = IF Recognised(second) THEN <<Cockpit(second)>> ELSE <<>>
      /\ telemetry[3].repeat => Fingerprint(first) = Fingerprint(second)
  <2>1. /\ Answer(first, second).strip = Strip(Latest(first, second))
        /\ Answer(first, second).cockpit = IF Recognised(second) THEN <<Cockpit(second)>> ELSE <<>>
        /\ Answer(first, second).repeat = (Recognised(first) /\ Recognised(second)
                                             /\ Fingerprint(first) = Fingerprint(second))
    BY Zenon DEF Answer
  <2> QED BY <1>2, <2>1, Zenon
<1>4. StripAgrees
  <2>1. \A cockpit \in {telemetry[3].cockpit[i] : i \in DOMAIN telemetry[3].cockpit} :
          cockpit = Cockpit(second)
    BY <1>3
  <2> QED BY <1>2, <1>3, <2>1, StripAgreesWithCockpit DEF StripAgrees
<1>5. RepeatsAreEqual
  BY <1>2, <1>3, RepeatShowsTheSame DEF RepeatsAreEqual
<1> QED BY <1>4, <1>5 DEF ReadingsAgree

\* For any two heartbeats, rates and threshold: what the strip and the cockpit
\* say of them can not contradict (heartbeat.ts:75), and a heartbeat that the
\* archive folds away (archiveStore.ts, fingerprint) showed nothing new.
THEOREM ReadingsCorrect == TelemetrySpec => []ReadingsAgree
<1>1. AnyHeartbeats => DecodedOnce
  BY DEF AnyHeartbeats, DecodedOnce
<1> QED BY <1>1, DecodeStep, DecodedAgree, PTL DEF TelemetrySpec

-----------------------------------------------------------------------------
(***************************************************************************)
(* The components together, as the run of MCReads checks them.  A step of  *)
(* the one a behaviour is about is a step of that component and leaves the *)
(* others alone, the clock included unless it ticks itself: so the         *)
(* invariant is that of the component at work, and only the types of the   *)
(* ones at rest.                                                           *)
(***************************************************************************)

ReadsInv ==
  /\ part \in Parts /\ BeaconsTypeOK /\ UsersTypeOK
  /\ IF part = "board" THEN BeaconsInv ELSE UsersInv

LEMMA TypesFollow == (BeaconsInv => BeaconsTypeOK) /\ (UsersInv => UsersTypeOK)
BY BeaconsTyping, UsersTyping

LEMMA ReadsInitial == Init => ReadsInv
<1> SUFFICES ASSUME Init PROVE ReadsInv
  OBVIOUS
<1>1. BeaconsInv /\ UsersInv /\ part \in Parts
  BY BeaconsInitial, UsersInitial DEF Init
<1> QED BY <1>1, TypesFollow DEF ReadsInv

LEMMA ReadsStep == ReadsInv /\ [Next]_allVars => ReadsInv'
<1> SUFFICES ASSUME ReadsInv, [Next]_allVars PROVE ReadsInv'
  OBVIOUS
<1>1. CASE part = "board" /\ [BeaconsNext]_<<beaconVars, clock>> /\ UNCHANGED <<userVars, part>>
  <2>1. BeaconsInv'
    BY <1>1, BeaconsStep DEF ReadsInv
  <2>2. BeaconsTypeOK'
    BY <2>1, TypesFollow, PTL
  <2>3. UsersTypeOK'
    BY <1>1 DEF ReadsInv, UsersTypeOK, userVars
  <2> QED BY <1>1, <2>1, <2>2, <2>3 DEF ReadsInv
<1>2. CASE part # "board" /\ [UsersNext]_<<userVars, clock>> /\ UNCHANGED <<beaconVars, part>>
  <2>1. UsersInv'
    BY <1>2, UsersStep DEF ReadsInv
  <2>2. UsersTypeOK'
    BY <2>1, TypesFollow, PTL
  <2>3. clock' \in 0 .. MaxTime
    BY <2>1 DEF UsersInv, UsersShape
  <2>4. BeaconsTypeOK'
    BY <1>2, <2>3 DEF ReadsInv, BeaconsTypeOK, beaconVars
  <2> QED BY <1>2, <2>1, <2>2, <2>4 DEF ReadsInv
<1>3. \/ part = "board" /\ [BeaconsNext]_<<beaconVars, clock>> /\ UNCHANGED <<userVars, part>>
      \/ part # "board" /\ [UsersNext]_<<userVars, clock>> /\ UNCHANGED <<beaconVars, part>>
  <2>1. CASE UNCHANGED allVars
    BY <2>1 DEF allVars
  <2>2. CASE part = "board" /\ Next
    BY <2>2 DEF Next, BeaconsNext
  <2>3. CASE part = "users" /\ Next
    BY <2>3 DEF Next
  <2>4. CASE part \notin {"board", "users"} /\ Next
    BY <2>4 DEF Next
  <2> QED BY <2>1, <2>2, <2>3, <2>4
<1> QED BY <1>1, <1>2, <1>3

\* The beacons and the users keep their types whichever component a behaviour
\* of the run is about (beacons.ts, cognitoUser.ts), for every number of
\* machines, beacons, users and lookups and every lifetime.
THEOREM TypesCorrect == Spec => []TypesOK
<1>1. ReadsInv => TypesOK
  BY DEF ReadsInv, TypesOK
<1> QED BY <1>1, ReadsInitial, ReadsStep, PTL DEF Spec

\* Every behaviour of the run is one of the component it is about, so what is
\* proved of the components (BoardCorrect, CacheCorrect, ReadingsCorrect here,
\* the lists, the pictures and the archive in DashboardProofs) holds in it.
THEOREM PartsCorrect ==
  Spec => /\ part = "board"     => BeaconsSpec
          /\ part = "users"     => UsersSpec
          /\ part = "chart"     => ChartsSpec
          /\ part = "analysis"  => AnalyticsSpec
          /\ part = "telemetry" => TelemetrySpec
          /\ part = "view"      => ViewsSpec
<1>1. Init =>
        /\ part = "board"     => BeaconsInit /\ ClockInit
        /\ part = "users"     => UsersInit /\ ClockInit
        /\ part = "chart"     => ChartInit
        /\ part = "analysis"  => AnalyticsInit
        /\ part = "telemetry" => AnyHeartbeats
        /\ part = "view"      => ViewsInit
  <2>1. TelemetryInit => AnyHeartbeats
    BY DEF TelemetryInit, AnyHeartbeats
  <2> QED BY <2>1 DEF Init
<1>2. [Next]_allVars =>
        /\ part = "board"     => (part = "board")' /\ [BeaconsNext]_<<beaconVars, clock>>
        /\ part = "users"     => (part = "users")' /\ [UsersNext]_<<userVars, clock>>
        /\ part = "chart"     => (part = "chart")' /\ [Draw]_chart
        /\ part = "analysis"  => (part = "analysis")' /\ [AnalyticsNext]_analysis
        /\ part = "telemetry" => (part = "telemetry")' /\ [Decode]_telemetry
        /\ part = "view"      => (part = "view")' /\ [ViewsNext]_view
  <2>1. CASE UNCHANGED allVars
    BY <2>1 DEF allVars, pureVars
  <2>2. CASE Next
    BY <2>2 DEF Next, BeaconsNext
  <2> QED BY <2>1, <2>2
<1>3. Spec /\ part = "board" => BeaconsSpec
  BY <1>1, <1>2, PTL DEF Spec, BeaconsSpec
<1>4. Spec /\ part = "users" => UsersSpec
  BY <1>1, <1>2, PTL DEF Spec, UsersSpec
<1>5. Spec /\ part = "chart" => ChartsSpec
  BY <1>1, <1>2, PTL DEF Spec, ChartsSpec
<1>6. Spec /\ part = "analysis" => AnalyticsSpec
  BY <1>1, <1>2, PTL DEF Spec, AnalyticsSpec
<1>7. Spec /\ part = "telemetry" => TelemetrySpec
  BY <1>1, <1>2, PTL DEF Spec, TelemetrySpec
<1>8. Spec /\ part = "view" => ViewsSpec
  BY <1>1, <1>2, PTL DEF Spec, ViewsSpec
<1> QED BY <1>3, <1>4, <1>5, <1>6, <1>7, <1>8, PTL
=============================================================================
