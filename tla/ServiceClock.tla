---------------------------- MODULE ServiceClock ----------------------------
(***************************************************************************)
(* Date.now() as the components around the brokers see it: one clock that  *)
(* only moves forward, up to a bound.  A component says when it may tick.  *)
(***************************************************************************)
EXTENDS Integers

CONSTANT MaxTime   \* bound: the last instant

ASSUME ClockAssumption == MaxTime \in Nat

VARIABLE clock

ClockInit == clock = 0

ClockTick == clock < MaxTime /\ clock' = clock + 1
=============================================================================
