-------------------------- MODULE MCCommandStream --------------------------
(* Instances of CommandStream for TLC: which process serves which slot. *)
EXTENDS CommandStream

CONSTANTS i1, i2, s1, s2, p1, p2, m1, g1

\* One process serves every request.
OneHome == [r \in Requests |-> i1]

\* Two processes: the second slot of each kind is on the second one.
TwoHomes == [r \in Requests |-> IF r \in {s2, p2} THEN i2 ELSE i1]
=============================================================================
