------------------------------ MODULE AdminGate ------------------------------
(***************************************************************************)
(* The gate in front of every /dashboard/api and /analytics route          *)
(* (src/src/middleware/requireDashboardAdmin.ts) in one process, the       *)
(* Cognito group behind it and the two routes that change the group        *)
(* (src/src/routes/dashboard.ts, src/src/services/dashboardAdmin.ts).      *)
(*                                                                         *)
(* A token carries the groups of the instant it was issued, or no groups   *)
(* claim; it is good for TokenLife.  `in' and `out' keep, for each user,   *)
(* the latest instant at which the user was, and was not, in the group.    *)
(* A definition marked "Slip" is a faulty variant of the one below it,     *)
(* used by no action.                                                      *)
(***************************************************************************)
EXTENDS ServiceClock

CONSTANTS
  Users,
  Requests,      \* requests in progress
  Nobody,        \* no user
  GateTtl,       \* CACHE_TTL_MS
  TokenLife,     \* lifetime of an access token
  LookupDelay    \* bound: from Cognito's answer to the code after the await

ASSUME GateAssumption ==
  /\ Nobody \notin Users
  /\ {GateTtl, TokenLife, LookupDelay} \subseteq Nat

VARIABLES
  group,    \* members of dashboard-admin
  in,       \* history
  out,      \* history
  gate,     \* the cache: for each user admin and expiresAt, Absent if none
  request,  \* the state of each request
  verdict   \* the latest one: the user, whether let through, when

gateVars == <<group, in, out, gate, request, verdict>>

Long == -1 - TokenLife - LookupDelay - GateTtl  \* longer ago than any verdict looks
Absent == [admin |-> FALSE, expiresAt |-> -1]
Quiet  == [pc |-> "idle", user |-> Nobody, admin |-> FALSE, at |-> 0, target |-> Nobody, grant |-> FALSE]
Claims == {"absent", "admin", "other"}

GateInit ==
  /\ group \in SUBSET Users
  /\ in  = [u \in Users |-> IF u \in group THEN 0 ELSE Long]
  /\ out = [u \in Users |-> IF u \in group THEN Long ELSE 0]
  /\ gate = [u \in Users |-> Absent]
  /\ request = [r \in Requests |-> Quiet]
  /\ verdict = [user |-> Nobody, pass |-> FALSE, at |-> 0]

-----------------------------------------------------------------------------
\* Slip: the entry lives until its user stops asking.
SetCacheKeeping(user, admin) ==
  gate' = [gate EXCEPT ![user] = [admin |-> @.admin \/ admin, expiresAt |-> clock + GateTtl]]

\* setCache: the expiry counts from now, not from the lookup.
SetCache(user, admin) ==
  gate' = [gate EXCEPT ![user] = [admin |-> admin, expiresAt |-> clock + GateTtl]]

\* Date.now() > hit.expiresAt drops the entry.
Cached(user) == gate[user].expiresAt >= clock

\* A token with this claim may be presented now.
Presents(user, claim) ==
  \/ claim = "absent"
  \/ claim = "admin" /\ in[user] >= clock - TokenLife
  \/ claim = "other" /\ out[user] >= clock - TokenLife

\* next() or 403.  A request that passes reads, or goes on to change the
\* membership of somebody else.
Decide(r, user, admin) ==
  /\ verdict' = [user |-> user, pass |-> admin, at |-> clock]
  /\ \/ request' = [request EXCEPT ![r] = Quiet]
     \/ /\ admin
        /\ \E v \in Users, g \in BOOLEAN :
             /\ g \/ v # user          \* self-revoke: 400
             /\ request' = [request EXCEPT ![r] =
                  [Quiet EXCEPT !.pc = "change", !.user = user, !.target = v, !.grant = g]]

\* The groups claim is trusted, and cached.
ClaimDecides(r, user, claim) ==
  /\ request[r].pc = "idle" /\ claim # "absent" /\ Presents(user, claim)
  /\ SetCache(user, claim = "admin")
  /\ Decide(r, user, claim = "admin")
  /\ UNCHANGED <<group, in, out, clock>>

CacheDecides(r, user) ==
  /\ request[r].pc = "idle" /\ Presents(user, "absent") /\ Cached(user)
  /\ Decide(r, user, gate[user].admin)
  /\ UNCHANGED <<group, in, out, gate, clock>>

\* isDashboardAdmin: AdminListGroupsForUser
StartGroups(r, user) ==
  /\ request[r].pc = "idle" /\ Presents(user, "absent") /\ ~Cached(user)
  /\ gate' = [gate EXCEPT ![user] = Absent]
  /\ request' = [request EXCEPT ![r] = [Quiet EXCEPT !.pc = "lookup", !.user = user]]
  /\ UNCHANGED <<group, in, out, verdict, clock>>

\* Cognito evaluates the lookup.
ListGroups(r) ==
  /\ request[r].pc = "lookup"
  /\ request' = [request EXCEPT ![r].pc = "answered", ![r].at = clock,
                                ![r].admin = request[r].user \in group]
  /\ UNCHANGED <<group, in, out, gate, verdict, clock>>

GroupsDecide(r) ==
  /\ request[r].pc = "answered"
  /\ SetCache(request[r].user, request[r].admin)
  /\ Decide(r, request[r].user, request[r].admin)
  /\ UNCHANGED <<group, in, out, clock>>

\* 500; nothing is cached.
GroupsFail(r) ==
  /\ request[r].pc = "lookup"
  /\ request' = [request EXCEPT ![r] = Quiet]
  /\ UNCHANGED <<group, in, out, gate, verdict, clock>>

\* grantDashboardAccess and revokeDashboardAccess
ChangeGroup(r) ==
  LET q == request[r] IN
  /\ q.pc = "change"
  /\ IF q.grant THEN /\ group' = group \cup {q.target}
                     /\ in' = [in EXCEPT ![q.target] = clock]
                     /\ UNCHANGED out
                ELSE /\ group' = group \ {q.target}
                     /\ out' = [out EXCEPT ![q.target] = clock]
                     /\ UNCHANGED in
  /\ request' = [request EXCEPT ![r] = Quiet]
  /\ UNCHANGED <<gate, verdict, clock>>

\* The process is replaced: its cache is gone.
GateRestart ==
  /\ gate' = [u \in Users |-> Absent]
  /\ request' = [r \in Requests |-> Quiet]
  /\ UNCHANGED <<group, in, out, verdict, clock>>

GateTick ==
  /\ ClockTick
  /\ \A r \in Requests : request[r].pc = "answered" => clock < request[r].at + LookupDelay
  /\ in'  = [u \in Users |-> IF u \in group THEN clock' ELSE in[u]]
  /\ out' = [u \in Users |-> IF u \in group THEN out[u] ELSE clock']
  /\ UNCHANGED <<group, gate, request, verdict>>

GateNext ==
  \/ \E r \in Requests :
       \/ \E u \in Users : \/ \E claim \in Claims : ClaimDecides(r, u, claim)
                           \/ CacheDecides(r, u) \/ StartGroups(r, u)
       \/ ListGroups(r) \/ GroupsDecide(r) \/ GroupsFail(r) \/ ChangeGroup(r)
  \/ GateRestart \/ GateTick

GateSpec == GateInit /\ ClockInit /\ [][GateNext]_<<gateVars, clock>>

-----------------------------------------------------------------------------
(* Properties *)

\* How long ago the membership may be that a verdict rests on.
Staleness == GateTtl + (IF TokenLife >= LookupDelay THEN TokenLife ELSE LookupDelay)

RequestStates ==
  [pc : {"idle", "lookup", "answered", "change"}, user : Users \cup {Nobody},
   admin : BOOLEAN, at : Nat, target : Users \cup {Nobody}, grant : BOOLEAN]

\* Every variable has its type; a request in progress has a user.
GateTypeOK ==
  /\ clock \in Nat
  /\ group \subseteq Users
  /\ in \in [Users -> Int] /\ out \in [Users -> Int]
  /\ gate \in [Users -> [admin : BOOLEAN, expiresAt : Int]]
  /\ request \in [Requests -> RequestStates]
  /\ \A r \in Requests : /\ request[r].pc \in {"lookup", "answered"} => request[r].user \in Users
                         /\ request[r].pc = "change" => request[r].target \in Users
  /\ verdict \in [user : Users \cup {Nobody}, pass : BOOLEAN, at : Nat]

\* "result is cached per-instance for 60 seconds" (requireDashboardAdmin.ts:8):
\* whoever is let through, to read or to change the group, was a member at
\* most one token's life, or one slow lookup, and one cache lifetime before,
\* however lookups, claims of older tokens and changes of the group overlap.
AccessIsRecent ==
  verdict.user # Nobody /\ verdict.pass => in[verdict.user] >= verdict.at - Staleness

\* Whoever is refused was no member within the same time: neither a failed
\* lookup nor a late reply keeps a new admin out for longer.
RefusalIsRecent ==
  verdict.user # Nobody /\ ~verdict.pass => out[verdict.user] >= verdict.at - Staleness

\* A verdict, either way, rests on a recent membership.
GateIsRecent == AccessIsRecent /\ RefusalIsRecent
=============================================================================
