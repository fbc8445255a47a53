----------------------------- MODULE MCAdmission -----------------------------
(* What lets a request in, for TLC: the rate limiter in front of the mobile *)
(* routes and the gate in front of the dashboard's.  `part' says which of   *)
(* the two a behaviour is about, while the other stays in its first state.  *)
EXTENDS RateLimiter, AdminGate, TLC

CONSTANT GateEnd   \* bound: the last instant of a behaviour about the gate

VARIABLE part

Init ==
  /\ part \in {"limiter", "gate"}
  /\ LimiterInit
  /\ GateInit /\ (part # "gate" => group = {})

Next ==
  /\ UNCHANGED part
  /\ \/ /\ part = "limiter" /\ LimiterNext
        /\ UNCHANGED gateVars
     \/ /\ part = "gate" /\ GateNext /\ clock' <= GateEnd
        /\ UNCHANGED limiterVars

Spec == Init /\ [][Next]_<<limiterVars, gateVars, clock, part>>

Symmetric ==
  UNION {Permutations(S) : S \in {Users, Requests, Accounts, Addresses}}
=============================================================================
