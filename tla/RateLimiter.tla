----------------------------- MODULE RateLimiter -----------------------------
(***************************************************************************)
(* The sliding-window rate limiter (src/src/rateLimiter.ts) and the check  *)
(* sequence of the routes that use it (POST /mobile/message, GET           *)
(* /mobile/status and the three /config routes): check the account, check  *)
(* the address, then record both.  The sequence runs without awaiting; the *)
(* clock may move on within it.                                            *)
(*                                                                         *)
(* `calls' lists every recordRequest ever made; the timestamps the limiter *)
(* keeps for a key are the set of their positions: the code filters and    *)
(* counts them and never uses their order.                                 *)
(*                                                                         *)
(* A definition marked "Slip" is a faulty variant of the one below it,     *)
(* used by no action: a mistake the properties would detect.               *)
(***************************************************************************)
EXTENDS ServiceClock, Sequences, FiniteSets

CONSTANTS
  Accounts,     \* auth:{sub} keys
  Addresses,    \* ip:{address} keys
  Limit,        \* 60
  Window,       \* 30 seconds
  MaxAccepted,  \* bound: requests accepted
  NoKey         \* no key

Keys == Accounts \cup Addresses

ASSUME KeysAssumption ==
  /\ Accounts \cap Addresses = {}
  /\ NoKey \notin Keys

ASSUME LimitAssumption ==
  /\ Limit \in Nat \ {0}
  /\ Window \in Nat \ {0}
  /\ MaxAccepted \in Nat

VARIABLES
  calls,     \* recordRequest calls: key, time
  tracked,   \* the keys of the map `requests'
  kept,      \* the calls whose timestamp is kept, for each key
  \* history
  limitedBy  \* the key that refused the latest request, or NoKey

limiterVars == <<calls, tracked, kept, limitedBy>>

LimiterInit ==
  /\ ClockInit /\ calls = <<>>
  /\ tracked = {} /\ kept = [k \in Keys |-> {}]
  /\ limitedBy = NoKey

\* Slip: the window is one tick short.
RecentShort(k) == {n \in kept[k] : calls[n].at > clock - Window + 1}

\* timestamps.filter(ts => ts > windowStart)
Recent(k) == {n \in kept[k] : calls[n].at > clock - Window}

\* Slip: the limit itself is refused.
AllowedBelow(k) == Cardinality(Recent(k)) < Limit - 1

\* checkLimit(k) answers true.
Allowed(k) == Cardinality(Recent(k)) < Limit

\* checkLimit drops the old timestamps of each key it looks at.
Pruned(S) == [k \in Keys |-> IF k \in S THEN Recent(k) ELSE kept[k]]

-----------------------------------------------------------------------------
\* 429: too many requests from this account
RefuseAccount(account) ==
  /\ ~Allowed(account)
  /\ kept' = Pruned({account})
  /\ tracked' = tracked \cup {account}
  /\ limitedBy' = account
  /\ UNCHANGED <<clock, calls>>

\* 429: too many requests from this IP; the account is not charged.
RefuseAddress(account, address) ==
  /\ Allowed(account) /\ ~Allowed(address)
  /\ kept' = Pruned({account, address})
  /\ tracked' = tracked \cup {account, address}
  /\ limitedBy' = address
  /\ UNCHANGED <<clock, calls>>

\* recordRequest(account) at t, recordRequest(address) at u
Accept(account, address) ==
  /\ Len(calls) < 2 * MaxAccepted
  /\ Allowed(account) /\ Allowed(address)
  /\ \E t \in clock .. clock + 1 : \E u \in t .. clock + 1 :
       /\ u <= MaxTime
       /\ calls' = calls \o <<[key |-> account, at |-> t], [key |-> address, at |-> u]>>
       /\ clock' = u
  /\ kept' = [Pruned({account, address}) EXCEPT
                ![account] = @ \cup {Len(calls) + 1},
                ![address] = @ \cup {Len(calls) + 2}]
  /\ tracked' = tracked \cup {account, address}
  /\ limitedBy' = NoKey

\* cleanup, every minute: forget the keys without a recent request.
Cleanup ==
  /\ kept' = Pruned(tracked)
  /\ tracked' = {k \in tracked : Recent(k) # {}}
  /\ limitedBy' = NoKey
  /\ UNCHANGED <<clock, calls>>

LimiterTick ==
  /\ ClockTick
  /\ limitedBy' = NoKey
  /\ UNCHANGED <<calls, tracked, kept>>

LimiterNext ==
  \/ \E a \in Accounts : RefuseAccount(a)
  \/ \E a \in Accounts, i \in Addresses : RefuseAddress(a, i) \/ Accept(a, i)
  \/ Cleanup
  \/ LimiterTick

LimiterSpec == LimiterInit /\ [][LimiterNext]_<<limiterVars, clock>>

-----------------------------------------------------------------------------
(* Properties *)

Call == [key : Keys, at : Nat]

\* Every variable has its type; a key outside the map keeps nothing.
LimiterTypeOK ==
  /\ clock \in Nat
  /\ calls \in Seq(Call)
  /\ tracked \subseteq Keys
  /\ kept \in [Keys -> SUBSET DOMAIN calls]
  /\ \A k \in Keys \ tracked : kept[k] = {}
  /\ limitedBy \in Keys \cup {NoKey}

\* The accepted requests of k in the Window that ends with call n.
InWindow(k, n) ==
  {d \in 1 .. n : calls[d].key = k /\ calls[d].at > calls[n].at - Window}

\* "Maximum 60 requests per 30 seconds": in no window, wherever it ends, were
\* more than Limit requests of one account or of one address accepted,
\* although the timestamps are pruned by checks and by the cleanup timer and
\* recorded later than they were checked.
WindowBound ==
  \A n \in DOMAIN calls : Cardinality(InWindow(calls[n].key, n)) <= Limit

\* No false alarm: a refused request means that its key really had Limit
\* accepted requests within the last Window.
RefusedOnlyWhenFull ==
  limitedBy # NoKey =>
    Cardinality({d \in DOMAIN calls : /\ calls[d].key = limitedBy
                                      /\ calls[d].at > clock - Window}) >= Limit
=============================================================================
