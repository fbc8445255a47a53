--------------------------- MODULE CommandChannel ---------------------------
(***************************************************************************)
(* What both message brokers promise about the commands of one controller  *)
(* (IMessageBroker.addMobileAppMessage and getMobileAppMessage): a lossy,  *)
(* first-in first-out channel that delivers a command at most once.        *)
(*                                                                         *)
(* A command waits, is taken by a poll of the firmware, and is delivered   *)
(* with the poll's response.  It may be gone at any moment before that     *)
(* (expiry, trimming, mark-all, a crash), and it may be gone from the      *)
(* start, but nothing brings it back, and no poll takes a command while an *)
(* older one goes on waiting.                                              *)
(***************************************************************************)
EXTENDS Naturals, Sequences

VARIABLE fate   \* what became of each command, in the order they were added

Init == fate = <<>>

\* Commands that are not delivered yet may be gone.
Losses(f) ==
  {[i \in DOMAIN f |-> IF i \in S THEN "gone" ELSE f[i]] :
     S \in SUBSET {i \in DOMAIN f : f[i] \in {"waiting", "taken"}}}

\* A command is added; adding it may cost older ones their place.
Add ==
  \E f \in Losses(fate), new \in {"waiting", "gone"} : fate' = Append(f, new)

\* A poll finds older commands gone and takes the oldest that waits.
Take ==
  \E f \in Losses(fate), i \in DOMAIN fate :
    /\ f[i] = "waiting"
    /\ \A j \in 1 .. i - 1 : f[j] # "waiting"
    /\ fate' = [f EXCEPT ![i] = "taken"]

Deliver ==
  \E i \in DOMAIN fate :
    /\ fate[i] = "taken"
    /\ fate' = [fate EXCEPT ![i] = "delivered"]

Lose == fate' \in Losses(fate)

Next == Lose \/ Deliver \/ Take \/ Add

Spec == Init /\ [][Next]_fate
=============================================================================
