---------------------------- MODULE MemoryBroker ----------------------------
(***************************************************************************)
(* The in-memory broker (src/src/messageQueue.ts) for one controller: the  *)
(* command queue, the latest-heartbeat slot, their expiry and the cleanup  *)
(* timer.  Every method runs to its end without awaiting, so one action is *)
(* one call; only the HTTP response that follows can still be lost.        *)
(*                                                                         *)
(* A command is its position in `expiresAt'; the array of queued messages  *)
(* is the set of their positions, since push keeps it in that order.       *)
(* Date.now() may be set back by the system (ClockBack).                   *)
(*                                                                         *)
(* A definition marked "Slip" is a faulty variant of the one below it,     *)
(* used by no action: a mistake the properties would detect.               *)
(***************************************************************************)
EXTENDS Integers, Sequences, FiniteSets

CONSTANTS
  Ttl,          \* 11 minutes
  MaxTime,      \* bound: the last instant
  MaxCommands,  \* bound: commands posted
  MaxBeats,     \* bound: heartbeats posted
  MaxSetbacks,  \* bound: times the clock is set back
  MaxRestarts   \* bound: restarts of the process

ASSUME MemoryAssumption ==
  /\ Ttl \in Nat \ {0}
  /\ {MaxTime, MaxCommands, MaxBeats, MaxSetbacks, MaxRestarts} \subseteq Nat

VARIABLES
  now,         \* Date.now()
  expiresAt,   \* expiry of every command ever added (history for those gone)
  queue,       \* mobileAppQueue of the controller
  answering,   \* commands taken whose response is being written
  beatAt,      \* timestamp of every heartbeat ever posted
  slot,        \* controllerQueue: number of the heartbeat it holds, 0 if none
  checkpoint,  \* high-water mark the phone passes as `since'
  \* history
  received,    \* commands the firmware got, in order
  seen,        \* the newest heartbeat a since-read returned
  setbacks, restarts

commands   == <<expiresAt, queue, answering, received>>
heartbeats == <<beatAt, slot, checkpoint, seen>>
vars       == <<now, commands, heartbeats, setbacks, restarts>>

Init ==
  /\ now = 0 /\ setbacks = 0 /\ restarts = 0
  /\ expiresAt = <<>> /\ queue = {} /\ answering = {} /\ received = <<>>
  /\ beatAt = <<>> /\ slot = 0 /\ checkpoint = 0 /\ seen = 0

Expired(at) == now > at

-----------------------------------------------------------------------------
AddMobileAppMessage ==
  /\ Len(expiresAt) < MaxCommands
  /\ expiresAt' = Append(expiresAt, now + Ttl)
  /\ queue' = queue \cup {Len(expiresAt) + 1}
  /\ UNCHANGED <<now, answering, received, heartbeats, setbacks, restarts>>

\* Slip: the poll shifts the head without cleaning up first.
WithExpiredHead == queue

\* cleanupExpiredMessages stops at the first message that has not expired.
WithoutExpiredHead == {i \in queue : \E j \in queue : j <= i /\ ~Expired(expiresAt[j])}

\* Slip: pop() instead of shift()
GetNewest ==
  /\ queue # {}
  /\ LET rest == WithoutExpiredHead
     IN  \/ rest = {} /\ queue' = {} /\ UNCHANGED answering
         \/ \E i \in rest :
              /\ \A j \in rest : j <= i
              /\ queue' = rest \ {i}
              /\ answering' = answering \cup {i}
  /\ UNCHANGED <<now, expiresAt, received, heartbeats, setbacks, restarts>>

GetMobileAppMessage ==
  /\ queue # {}
  /\ LET rest == WithoutExpiredHead
     IN  \/ rest = {} /\ queue' = {} /\ UNCHANGED answering
         \/ \E i \in rest :
              /\ \A j \in rest : i <= j
              /\ queue' = rest \ {i}
              /\ answering' = answering \cup {i}
  /\ UNCHANGED <<now, expiresAt, received, heartbeats, setbacks, restarts>>

\* The response reaches the firmware, or its connection is gone.
Respond(i) ==
  /\ i \in answering
  /\ answering' = answering \ {i}
  /\ received' \in {received, Append(received, i)}
  /\ UNCHANGED <<now, expiresAt, queue, heartbeats, setbacks, restarts>>

\* addControllerMessage; the route has just stamped the message.
AddControllerMessage ==
  /\ Len(beatAt) < MaxBeats
  /\ beatAt' = Append(beatAt, now)
  /\ slot' = Len(beatAt) + 1
  /\ UNCHANGED <<now, commands, checkpoint, seen, setbacks, restarts>>

SlotExpired == slot # 0 /\ Expired(beatAt[slot] + Ttl)

\* Both reads of the slot, and the sweep, drop a heartbeat that has expired.
ExpireSlot == slot' = IF SlotExpired THEN 0 ELSE slot

\* getControllerMessage
GetControllerMessage ==
  /\ ExpireSlot
  /\ UNCHANGED <<now, commands, beatAt, checkpoint, seen, setbacks, restarts>>

\* Slip: a heartbeat at the checkpoint counts as new.
NotOlderThan(since) == beatAt[slot] >= since

\* compareStreamIds(synthId, since) > 0, where synthId is the timestamp
NewerThan(since) == beatAt[slot] > since

\* getControllerMessagesSince, by a phone that keeps the high-water mark
GetControllerMessagesSince ==
  /\ ExpireSlot
  /\ IF slot' # 0 /\ NewerThan(checkpoint)
     THEN checkpoint' = beatAt[slot] /\ seen' = slot
     ELSE UNCHANGED <<checkpoint, seen>>
  /\ UNCHANGED <<now, commands, beatAt, setbacks, restarts>>

\* cleanupAllExpiredMessages: the timer fires every minute, or later.
CleanupAllExpiredMessages ==
  /\ queue' = {i \in queue : ~Expired(expiresAt[i])}
  /\ ExpireSlot
  /\ UNCHANGED <<now, expiresAt, answering, received, beatAt, checkpoint, seen,
                 setbacks, restarts>>

-----------------------------------------------------------------------------
Tick ==
  /\ now < MaxTime
  /\ now' = now + 1
  /\ UNCHANGED <<commands, heartbeats, setbacks, restarts>>

ClockBack ==
  /\ setbacks < MaxSetbacks /\ now > 0
  /\ now' = now - 1
  /\ setbacks' = setbacks + 1
  /\ UNCHANGED <<commands, heartbeats, restarts>>

\* The process ends with everything it holds; the phone keeps its mark.
Restart ==
  /\ restarts < MaxRestarts
  /\ restarts' = restarts + 1
  /\ queue' = {} /\ answering' = {} /\ slot' = 0
  /\ UNCHANGED <<now, expiresAt, received, beatAt, checkpoint, seen, setbacks>>

Next ==
  \/ AddMobileAppMessage \/ GetMobileAppMessage
  \/ \E i \in answering : Respond(i)
  \/ AddControllerMessage \/ GetControllerMessage \/ GetControllerMessagesSince
  \/ CleanupAllExpiredMessages
  \/ Tick \/ ClockBack \/ Restart

Spec == Init /\ [][Next]_vars

-----------------------------------------------------------------------------
(* Properties *)

Commands == 1 .. Len(expiresAt)

\* While the process runs, a command leaves the queue for a poll or because
\* its time is over: the two cleanups, one over a prefix of the array and one
\* over all of it, remove nothing early, whatever the clock did before.
OnlyExpiredVanish ==
  [][restarts' = restarts =>
       \A i \in queue \ queue' : i \in answering' \/ Expired(expiresAt[i])]_vars

\* A poll never gets a command whose eleven minutes are over, not even when
\* the clock was set back so that the queue is not ordered by expiry, and
\* hence cleanupExpiredMessages leaves expired messages behind the head.
NeverTakesExpired ==
  [][\A i \in answering' \ answering : ~Expired(expiresAt[i])]_vars

\* Eleven minutes are eleven minutes for both ends of a command's life.
ExpiryHolds == OnlyExpiredVanish /\ NeverTakesExpired

\* A phone that polls with its high-water mark gets each heartbeat at most
\* once and never an older one after a newer one, across restarts of the
\* process and clock changes.
PhoneMovesForward ==
  [][checkpoint' # checkpoint \/ seen' # seen =>
       seen' > seen /\ checkpoint' > checkpoint]_vars

\* See CommandChannel: the memory broker keeps the same promise as the Redis
\* broker, which is what makes the two hot-swappable (types.ts, IMessageBroker).
Fate(i) ==
  IF \E n \in DOMAIN received : received[n] = i THEN "delivered"
  ELSE IF i \in answering THEN "taken"
  ELSE IF i \in queue THEN "waiting" ELSE "gone"

Fates == [i \in Commands |-> Fate(i)]

Channel == INSTANCE CommandChannel WITH fate <- Fates

\* The in-memory broker implements the at-most-once FIFO channel.
ImplementsChannel == Channel!Spec
=============================================================================
