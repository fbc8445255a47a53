------------------------- MODULE MemoryBrokerProofs -------------------------
(***************************************************************************)
(* Theorems about MemoryBroker for every number of commands, heartbeats,   *)
(* restarts and clock changes: expiry, the phone's high-water mark and the *)
(* channel both brokers implement.                                         *)
(***************************************************************************)
EXTENDS MemoryBroker, TLAPS

-----------------------------------------------------------------------------
(* Types *)

TypeOK ==
  /\ now \in Nat /\ setbacks \in Nat /\ restarts \in Nat /\ checkpoint \in Nat
  /\ expiresAt \in Seq(Nat) /\ beatAt \in Seq(Nat)
  /\ queue \subseteq Commands /\ answering \subseteq Commands
  /\ received \in Seq(Commands)
  /\ slot \in 0 .. Len(beatAt) /\ seen \in 0 .. Len(beatAt)

LEMMA EmptySeq == Len(<<>>) = 0 /\ \A S : <<>> \in Seq(S)
  OBVIOUS

LEMMA AppendElements ==
  ASSUME NEW S, NEW q \in Seq(S), NEW e \in S
  PROVE  /\ Append(q, e) \in Seq(S)
         /\ DOMAIN Append(q, e) = 1 .. Len(q) + 1 /\ Len(Append(q, e)) = Len(q) + 1
         /\ DOMAIN q = 1 .. Len(q) /\ Len(q) \in Nat
         /\ \A i \in 1 .. Len(q) : Append(q, e)[i] = q[i]
         /\ Append(q, e)[Len(q) + 1] = e
  OBVIOUS

LEMMA SeqWidens ==
  ASSUME NEW m \in Nat, NEW n \in Nat, m <= n, NEW q \in Seq(1 .. m)
  PROVE  q \in Seq(1 .. n)
  OBVIOUS

LEMMA TypeInit == Init => TypeOK
  BY EmptySeq DEF Init, TypeOK, Commands

LEMMA TypeStep == TypeOK /\ [Next]_vars => TypeOK'
<1> SUFFICES ASSUME TypeOK, [Next]_vars PROVE TypeOK'
  OBVIOUS
<1> USE DEF TypeOK
<1>0. /\ Len(expiresAt) \in Nat /\ Len(beatAt) \in Nat /\ Ttl \in Nat
      /\ \A i \in queue : i \in Nat
  BY MemoryAssumption DEF Commands
<1>1. CASE AddMobileAppMessage
  <2>1. now + Ttl \in Nat
    BY <1>0
  <2>2. expiresAt' \in Seq(Nat) /\ Len(expiresAt') = Len(expiresAt) + 1
    BY <1>1, <2>1, AppendElements DEF AddMobileAppMessage
  <2>3. received \in Seq(Commands')
    BY <1>0, <2>2, SeqWidens DEF Commands
  <2>4. Commands \subseteq Commands' /\ Len(expiresAt) + 1 \in Commands'
    BY <1>0, <2>2 DEF Commands
  <2>5. queue' \subseteq Commands' /\ answering' \subseteq Commands'
    BY <1>1, <2>4 DEF AddMobileAppMessage
  <2> QED BY <1>1, <2>2, <2>3, <2>5 DEF AddMobileAppMessage, heartbeats
<1>2. CASE GetMobileAppMessage
  BY <1>2 DEF GetMobileAppMessage, WithoutExpiredHead, Commands, heartbeats
<1>3. ASSUME NEW i \in answering, Respond(i) PROVE TypeOK'
  <2>0. i \in Commands /\ received \in Seq(Commands)
    OBVIOUS
  <2>1. Append(received, i) \in Seq(Commands)
    BY <2>0, AppendElements
  <2>2. received' \in Seq(Commands)
    BY <1>3, <2>0, <2>1 DEF Respond
  <2> QED BY <1>3, <2>2 DEF Respond, Commands, heartbeats
<1>4. CASE AddControllerMessage
  <2>1. beatAt' \in Seq(Nat) /\ Len(beatAt') = Len(beatAt) + 1
    BY <1>4, AppendElements DEF AddControllerMessage
  <2> QED BY <1>0, <1>4, <2>1 DEF AddControllerMessage, Commands, commands
<1>5. CASE GetControllerMessage
  BY <1>5 DEF GetControllerMessage, ExpireSlot, Commands, commands
<1>6. CASE GetControllerMessagesSince
  BY SMTT(30), <1>6 DEF GetControllerMessagesSince, ExpireSlot, NewerThan, Commands, commands
<1>7. CASE CleanupAllExpiredMessages
  <2>1. queue' \subseteq queue /\ slot' \in {0, slot} /\ Commands' = Commands
    BY <1>7 DEF CleanupAllExpiredMessages, ExpireSlot, Commands
  <2> QED BY <1>0, <1>7, <2>1 DEF CleanupAllExpiredMessages
<1>8. CASE Tick \/ ClockBack
  <2>1. now' \in Nat /\ setbacks' \in Nat
    BY <1>8 DEF Tick, ClockBack
  <2> QED BY <1>8, <2>1 DEF Tick, ClockBack, Commands, commands, heartbeats
<1>9. CASE Restart
  BY <1>9 DEF Restart, Commands
<1>10. CASE UNCHANGED vars
  BY <1>10 DEF vars, Commands, commands, heartbeats
<1> QED BY <1>1, <1>2, <1>3, <1>4, <1>5, <1>6, <1>7, <1>8, <1>9, <1>10 DEF Next

\* Queue, slot, responses and marks are positions of commands and heartbeats
\* that were posted, and the clock never runs below zero.
THEOREM TypeCorrect == Spec => []TypeOK
<1>1. Init => TypeOK
  BY TypeInit
<1>2. TypeOK /\ [Next]_vars => TypeOK'
  BY TypeStep
<1> QED BY <1>1, <1>2, PTL DEF Spec

-----------------------------------------------------------------------------
(* Expiry *)

\* The poll's cleanup drops expired commands only, and its head has not
\* expired: a command is kept when it or an older one in the queue is alive.
LEMMA HeadIsAlive ==
  ASSUME TypeOK
  PROVE  /\ \A i \in queue \ WithoutExpiredHead : Expired(expiresAt[i])
         /\ \A i \in WithoutExpiredHead :
              (\A j \in WithoutExpiredHead : i <= j) => ~Expired(expiresAt[i])
<1>0. \A i \in queue : i \in Nat
  BY DEF TypeOK, Commands
<1>1. ASSUME NEW i \in queue \ WithoutExpiredHead PROVE Expired(expiresAt[i])
  BY <1>0 DEF WithoutExpiredHead
<1>2. ASSUME NEW i \in WithoutExpiredHead, \A j \in WithoutExpiredHead : i <= j
      PROVE  ~Expired(expiresAt[i])
  <2>1. PICK j \in queue : j <= i /\ ~Expired(expiresAt[j])
    BY DEF WithoutExpiredHead
  <2>2. j \in WithoutExpiredHead
    BY <1>0, <2>1 DEF WithoutExpiredHead
  <2>3. j = i
    BY <1>0, <1>2, <2>1, <2>2 DEF WithoutExpiredHead
  <2> QED BY <2>1, <2>3
<1> QED BY <1>1, <1>2

Vanishes == restarts' = restarts =>
  \A i \in queue \ queue' : i \in answering' \/ Expired(expiresAt[i])

Takes == \A i \in answering' \ answering : ~Expired(expiresAt[i])

LEMMA ExpiryStep == TypeOK /\ [Next]_vars => Vanishes /\ Takes
<1> SUFFICES ASSUME TypeOK, [Next]_vars PROVE Vanishes /\ Takes
  OBVIOUS
<1>1. ASSUME queue \subseteq queue', answering' \subseteq answering
      PROVE  Vanishes /\ Takes
  BY <1>1 DEF Vanishes, Takes
<1>2. CASE GetMobileAppMessage
  <2>1. CASE WithoutExpiredHead = {}
    BY <1>2, <2>1, HeadIsAlive DEF GetMobileAppMessage, Vanishes, Takes
  <2>2. CASE WithoutExpiredHead # {}
    <3>1. PICK i \in WithoutExpiredHead :
            /\ \A j \in WithoutExpiredHead : i <= j
            /\ queue' = WithoutExpiredHead \ {i} /\ answering' = answering \cup {i}
      BY <1>2, <2>2 DEF GetMobileAppMessage
    <3> QED BY <3>1, HeadIsAlive DEF Vanishes, Takes
  <2> QED BY <2>1, <2>2
<1>3. CASE CleanupAllExpiredMessages
  BY <1>3 DEF CleanupAllExpiredMessages, Vanishes, Takes
<1>4. CASE Restart
  BY <1>4 DEF Restart, Vanishes, Takes, TypeOK
<1> QED BY <1>1, <1>2, <1>3, <1>4
        DEF Next, AddMobileAppMessage, Respond, AddControllerMessage,
            GetControllerMessage, GetControllerMessagesSince, Tick, ClockBack, vars,
            commands, heartbeats

\* No cleanup drops a command before its time and no poll gets one after it,
\* whatever the clock did.
THEOREM ExpiryCorrect == Spec => ExpiryHolds
<1>1. TypeOK /\ [Next]_vars => [Vanishes /\ Takes]_vars
  BY ExpiryStep
<1> QED BY <1>1, TypeCorrect, PTL
        DEF Spec, ExpiryHolds, OnlyExpiredVanish, NeverTakesExpired, Vanishes, Takes

-----------------------------------------------------------------------------
(* The phone's high-water mark *)

\* The slot holds the newest heartbeat or none, and the mark is the time of
\* the newest heartbeat that the phone has seen.
MarkInv ==
  /\ slot \in {0, Len(beatAt)}
  /\ checkpoint = IF seen = 0 THEN 0 ELSE beatAt[seen]

LEMMA MarkStep == TypeOK /\ MarkInv /\ [Next]_vars => MarkInv'
<1> SUFFICES ASSUME TypeOK, MarkInv, [Next]_vars PROVE MarkInv'
  OBVIOUS
<1>1. ASSUME UNCHANGED <<beatAt, checkpoint, seen>>, slot' \in {0, slot} PROVE MarkInv'
  BY <1>1 DEF MarkInv
<1>2. CASE AddControllerMessage
  <2>1. /\ Len(beatAt') = Len(beatAt) + 1
        /\ \A i \in 1 .. Len(beatAt) : beatAt'[i] = beatAt[i]
    BY <1>2, AppendElements DEF AddControllerMessage, TypeOK
  <2>2. seen = 0 \/ seen \in 1 .. Len(beatAt)
    BY DEF TypeOK
  <2> QED BY <1>2, <2>1, <2>2 DEF AddControllerMessage, MarkInv
<1>3. CASE GetControllerMessagesSince
  <2>1. slot' \in {0, slot}
    BY <1>3 DEF GetControllerMessagesSince, ExpireSlot
  <2> QED BY <1>1, <1>3, <2>1 DEF GetControllerMessagesSince, ExpireSlot, MarkInv
<1> QED BY <1>1, <1>2, <1>3
        DEF Next, AddMobileAppMessage, GetMobileAppMessage, Respond,
            GetControllerMessage, CleanupAllExpiredMessages, ExpireSlot, Tick, ClockBack,
            Restart, vars, heartbeats

MovesForward ==
  checkpoint' # checkpoint \/ seen' # seen => seen' > seen /\ checkpoint' > checkpoint

LEMMA ForwardStep == TypeOK /\ MarkInv /\ [Next]_vars => MovesForward
<1> SUFFICES ASSUME TypeOK, MarkInv, [Next]_vars PROVE MovesForward
  OBVIOUS
<1>1. CASE UNCHANGED <<checkpoint, seen>>
  BY <1>1 DEF MovesForward
<1>2. CASE GetControllerMessagesSince
  <2> SUFFICES ASSUME slot' # 0, NewerThan(checkpoint),
                      checkpoint' = beatAt[slot], seen' = slot
               PROVE  seen' > seen /\ checkpoint' > checkpoint
    BY <1>1, <1>2 DEF GetControllerMessagesSince, MovesForward
  <2>1. slot # 0
    BY <1>2 DEF GetControllerMessagesSince, ExpireSlot
  <2>2. /\ slot = Len(beatAt) /\ seen \in 0 .. Len(beatAt) /\ Len(beatAt) \in Nat
        /\ checkpoint \in Nat /\ beatAt[slot] \in Nat /\ beatAt[slot] > checkpoint
    BY <2>1 DEF TypeOK, MarkInv, NewerThan
  <2>3. seen # slot
    BY <2>1, <2>2 DEF MarkInv
  <2> QED BY <2>2, <2>3
<1> QED BY <1>1, <1>2
        DEF Next, AddMobileAppMessage, GetMobileAppMessage, Respond,
            AddControllerMessage, GetControllerMessage, CleanupAllExpiredMessages, Tick,
            ClockBack, Restart, vars, heartbeats

\* A phone that polls with its high-water mark never gets a heartbeat twice or
\* an older one after a newer one, across restarts and clock changes.
THEOREM PhoneCorrect == Spec => PhoneMovesForward
<1>1. Init => MarkInv
  BY EmptySeq DEF Init, MarkInv
<1>2. TypeOK /\ MarkInv /\ [Next]_vars => MarkInv'
  BY MarkStep
<1>3. TypeOK /\ MarkInv /\ [Next]_vars => [MovesForward]_vars
  BY ForwardStep
<1> QED BY <1>1, <1>2, <1>3, TypeCorrect, PTL DEF Spec, PhoneMovesForward, MovesForward

-----------------------------------------------------------------------------
(* The broker implements the channel *)

\* A command is in the queue, in a response that is being written, or went out
\* in a response, and in no two of these.
OnePlace ==
  /\ queue \cap answering = {}
  /\ \A n \in DOMAIN received : received[n] \notin queue \cup answering

LEMMA OnePlaceStep == TypeOK /\ OnePlace /\ [Next]_vars => OnePlace'
<1> SUFFICES ASSUME TypeOK, OnePlace, [Next]_vars PROVE OnePlace'
  OBVIOUS
<1>1. ASSUME received' = received, queue' \subseteq queue, answering' \subseteq answering
      PROVE  OnePlace'
  BY <1>1 DEF OnePlace
<1>2. CASE AddMobileAppMessage
  <2>1. Len(expiresAt) + 1 \notin Commands /\ answering \subseteq Commands
        /\ \A n \in DOMAIN received : received[n] \in Commands
    BY DEF TypeOK, Commands
  <2> QED BY <1>2, <2>1 DEF AddMobileAppMessage, OnePlace
<1>3. CASE GetMobileAppMessage
  BY <1>3 DEF GetMobileAppMessage, WithoutExpiredHead, OnePlace
<1>4. ASSUME NEW i \in answering, Respond(i) PROVE OnePlace'
  <2>1. CASE received' = received
    BY <1>1, <1>4, <2>1 DEF Respond
  <2>2. CASE received' = Append(received, i)
    <3>1. received \in Seq(Commands) /\ i \in Commands
      BY DEF TypeOK
    <3>2. /\ DOMAIN received' = 1 .. Len(received) + 1
          /\ DOMAIN received = 1 .. Len(received) /\ Len(received) \in Nat
          /\ \A n \in 1 .. Len(received) : received'[n] = received[n]
          /\ received'[Len(received) + 1] = i
      BY <2>2, <3>1, AppendElements
    <3>3. ASSUME NEW n \in DOMAIN received' PROVE received'[n] \notin queue' \cup answering'
      <4>1. n \in DOMAIN received \/ n = Len(received) + 1
        BY <3>2
      <4> QED BY <1>4, <3>2, <4>1 DEF Respond, OnePlace
    <3> QED BY <1>4, <3>3 DEF Respond, OnePlace
  <2> QED BY <1>4, <2>1, <2>2 DEF Respond
<1> QED BY <1>1, <1>2, <1>3, <1>4
        DEF Next, AddControllerMessage, GetControllerMessage,
            GetControllerMessagesSince, CleanupAllExpiredMessages, Tick, ClockBack,
            Restart, vars, commands

FateNames == {"waiting", "taken", "delivered", "gone"}

LEMMA LossesIntro ==
  ASSUME NEW D, NEW f \in [D -> FateNames], NEW g \in [D -> FateNames],
         \A i \in D : \/ g[i] = f[i]
                      \/ f[i] \in {"waiting", "taken"} /\ g[i] = "gone"
  PROVE  g \in Channel!Losses(f)
<1> DEFINE S == {i \in D : g[i] # f[i]}
<1>1. S \in SUBSET {i \in DOMAIN f : f[i] \in {"waiting", "taken"}}
  OBVIOUS
<1>2. g = [i \in DOMAIN f |-> IF i \in S THEN "gone" ELSE f[i]]
  OBVIOUS
<1> QED BY <1>1, <1>2 DEF Channel!Losses

LEMMA FatesType ==
  /\ Fates \in [Commands -> FateNames]
  /\ \A i \in Commands : Fates[i] = Fate(i)
  BY DEF Fates, Fate, FateNames

LEMMA FatesTypeNext ==
  /\ Fates' \in [Commands' -> FateNames]
  /\ \A i \in Commands' : Fates'[i] = Fate(i)'
  BY DEF Fates, Fate, FateNames

\* Commands leave the queue or the responses, and none goes out.
LEMMA FatesQuiet ==
  ASSUME OnePlace, UNCHANGED <<expiresAt, received>>,
         queue' \subseteq queue, answering' \subseteq answering
  PROVE  Channel!Lose
<1>1. Commands' = Commands
  BY DEF Commands
<1>2. ASSUME NEW i \in Commands
      PROVE  \/ Fate(i)' = Fate(i)
             \/ Fate(i) \in {"waiting", "taken"} /\ Fate(i)' = "gone"
  BY DEF Fate, OnePlace
<1>3. Fates' \in Channel!Losses(Fates)
  BY <1>1, <1>2, FatesType, FatesTypeNext, LossesIntro
<1> QED BY <1>3 DEF Channel!Lose

\* A function on 1 .. n + 1 is its restriction to 1 .. n and one element more.
LEMMA AppendLast ==
  ASSUME NEW n \in Nat, NEW S, NEW f \in [1 .. n + 1 -> S]
  PROVE  f = Append([i \in 1 .. n |-> f[i]], f[n + 1])
<1> DEFINE h == [i \in 1 .. n |-> f[i]]
<1>1. h \in Seq(S) /\ Len(h) = n /\ f[n + 1] \in S
  OBVIOUS
<1>2. /\ DOMAIN Append(h, f[n + 1]) = 1 .. n + 1
      /\ \A i \in 1 .. n : Append(h, f[n + 1])[i] = h[i]
      /\ Append(h, f[n + 1])[n + 1] = f[n + 1]
      /\ Append(h, f[n + 1]) \in Seq(S)
  BY <1>1, AppendElements
<1>3. \A i \in 1 .. n + 1 : Append(h, f[n + 1])[i] = f[i]
  BY <1>2
<1> QED BY <1>2, <1>3

LEMMA FatesAdd ==
  ASSUME TypeOK, OnePlace, AddMobileAppMessage
  PROVE  Channel!Add
<1>0. PICK n \in Nat : n = Len(expiresAt)
  BY DEF TypeOK
<1>1. /\ Commands = 1 .. n /\ Commands' = 1 .. n + 1 /\ queue' = queue \cup {n + 1}
      /\ answering' = answering /\ received' = received
  <2>1. now + Ttl \in Nat
    BY MemoryAssumption DEF TypeOK
  <2> QED BY <1>0, <2>1, AppendElements DEF AddMobileAppMessage, Commands, TypeOK
<1>2. ASSUME NEW i \in Commands PROVE Fate(i)' = Fate(i)
  BY <1>1 DEF Fate
<1>3. Fate(n + 1)' = "waiting"
  <2>1. /\ \A m \in DOMAIN received : received[m] # n + 1
        /\ n + 1 \notin answering
    BY <1>1 DEF TypeOK
  <2> QED BY <1>1, <2>1 DEF Fate
<1> DEFINE f == [i \in 1 .. n |-> Fates'[i]]
<1>4. Fates' = Append(f, Fates'[n + 1])
  BY <1>1, FatesTypeNext, AppendLast
<1>5. f \in Channel!Losses(Fates)
  <2>1. f = Fates /\ Fates \in [Commands -> FateNames]
    BY <1>1, <1>2, FatesType, FatesTypeNext
  <2> QED BY <2>1, LossesIntro
<1>6. Fates'[n + 1] = "waiting"
  BY <1>1, <1>3, FatesTypeNext
<1> QED BY <1>4, <1>5, <1>6 DEF Channel!Add

\* The poll finds the expired head of the queue gone and takes what is then
\* the oldest command.
LEMMA FatesGet ==
  ASSUME TypeOK, OnePlace, GetMobileAppMessage
  PROVE  Channel!Take \/ Channel!Lose
<1> DEFINE rest == WithoutExpiredHead
<1>0. rest \subseteq queue /\ UNCHANGED <<expiresAt, received>>
  BY DEF WithoutExpiredHead, GetMobileAppMessage
<1>1. CASE rest = {}
  BY <1>0, <1>1, FatesQuiet DEF GetMobileAppMessage
<1>2. CASE rest # {}
  <2>1. PICK i \in rest : /\ \A j \in rest : i <= j
                          /\ queue' = rest \ {i} /\ answering' = answering \cup {i}
    BY <1>2 DEF GetMobileAppMessage
  <2> DEFINE f == [j \in Commands |-> IF j \in queue \ rest THEN "gone" ELSE Fates[j]]
  <2>2. Commands' = Commands /\ i \in Commands /\ i \in Nat
    BY <1>0, <2>1 DEF Commands, TypeOK
  <2>3. ASSUME NEW j \in queue PROVE Fates[j] = "waiting"
    <3>1. j \in Commands
      BY DEF TypeOK
    <3> QED BY <3>1, FatesType DEF OnePlace, Fate
  <2>4. f \in Channel!Losses(Fates)
    <3>1. /\ f \in [Commands -> FateNames] /\ Fates \in [Commands -> FateNames]
          /\ \A j \in Commands : \/ f[j] = Fates[j]
                                 \/ Fates[j] \in {"waiting", "taken"} /\ f[j] = "gone"
      BY <2>3, FatesType DEF FateNames
    <3> HIDE DEF f
    <3> QED BY <3>1, LossesIntro
  <2>5. f[i] = "waiting"
    BY <1>0, <2>1, <2>2, <2>3
  <2>6. ASSUME NEW j \in 1 .. i - 1 PROVE f[j] # "waiting"
    <3>1. j \in Commands /\ j \notin rest
      BY <2>1, <2>2 DEF Commands
    <3>2. j \notin queue => Fate(j) # "waiting"
      BY DEF Fate
    <3> QED BY <3>1, <3>2, FatesType
  <2>7. Fate(i)' = "taken"
    BY <1>0, <2>1 DEF Fate, OnePlace
  <2>8. ASSUME NEW j \in Commands, j # i PROVE Fate(j)' = f[j]
    BY <1>0, <2>1, <2>8, FatesType DEF Fate, OnePlace
  <2>9. Fates' = [f EXCEPT ![i] = "taken"]
    <3>1. Fates' \in [Commands -> FateNames] /\ \A j \in Commands : Fates'[j] = Fate(j)'
      BY <2>2, FatesTypeNext
    <3>2. f \in [Commands -> FateNames]
      BY FatesType DEF FateNames
    <3> HIDE DEF f
    <3> QED BY <2>2, <2>7, <2>8, <3>1, <3>2
  <2>10. i \in DOMAIN Fates
    BY <2>2, FatesType
  <2> HIDE DEF f
  <2> QED BY <2>4, <2>5, <2>6, <2>9, <2>10 DEF Channel!Take
<1> QED BY <1>1, <1>2

LEMMA FatesRespond ==
  ASSUME TypeOK, OnePlace, NEW i \in answering, Respond(i)
  PROVE  Channel!Deliver \/ Channel!Lose
<1>1. CASE received' = received
  BY <1>1, FatesQuiet DEF Respond
<1>2. CASE received' = Append(received, i)
  <2>1. /\ received \in Seq(Commands) /\ i \in Commands /\ Commands' = Commands
        /\ queue' = queue /\ answering' = answering \ {i}
    BY DEF TypeOK, Respond, Commands
  <2>2. /\ DOMAIN received' = 1 .. Len(received) + 1
        /\ DOMAIN received = 1 .. Len(received) /\ Len(received) \in Nat
        /\ \A n \in 1 .. Len(received) : received'[n] = received[n]
        /\ received'[Len(received) + 1] = i
    BY <1>2, <2>1, AppendElements
  <2>3. ASSUME NEW j
        PROVE  (\E n \in DOMAIN received' : received'[n] = j)
               <=> (j = i \/ \E n \in DOMAIN received : received[n] = j)
    BY <2>2
  <2>4. Fate(i) = "taken" /\ Fate(i)' = "delivered"
    BY <2>3 DEF OnePlace, Fate
  <2>5. ASSUME NEW j \in Commands, j # i PROVE Fate(j)' = Fate(j)
    BY <2>1, <2>3, <2>5 DEF Fate
  <2>6. Fates' = [Fates EXCEPT ![i] = "delivered"]
    BY <2>1, <2>4, <2>5, FatesType, FatesTypeNext
  <2> QED BY <2>1, <2>4, <2>6, FatesType DEF Channel!Deliver
<1> QED BY <1>1, <1>2 DEF Respond

LEMMA FatesStep == TypeOK /\ OnePlace /\ [Next]_vars => [Channel!Next]_Fates
<1> SUFFICES ASSUME TypeOK, OnePlace, [Next]_vars PROVE Channel!Next
  OBVIOUS
<1>1. CASE UNCHANGED commands
  BY <1>1, FatesQuiet DEF commands, Channel!Next
<1>2. CASE CleanupAllExpiredMessages \/ Restart
  BY <1>2, FatesQuiet DEF CleanupAllExpiredMessages, Restart, Channel!Next
<1> QED BY <1>1, <1>2, FatesAdd, FatesGet, FatesRespond
        DEF Next, AddControllerMessage, GetControllerMessage,
            GetControllerMessagesSince, Tick, ClockBack, vars, Channel!Next

\* The in-memory broker is the same at-most-once first-in first-out channel as
\* the Redis broker, for any number of commands, restarts and clock changes.
THEOREM ChannelImplemented == Spec => ImplementsChannel
<1>1. Init => Channel!Init
  <2> SUFFICES ASSUME Init PROVE Fates = <<>>
    BY DEF Channel!Init
  <2>1. Commands = 1 .. 0
    BY EmptySeq DEF Init, Commands
  <2>2. Fates \in Seq(FateNames) /\ Len(Fates) = 0
    BY <2>1, FatesType
  <2> QED BY <2>2
<1>2. Init => OnePlace
  BY EmptySeq DEF Init, OnePlace
<1>3. TypeOK /\ OnePlace /\ [Next]_vars => OnePlace'
  BY OnePlaceStep
<1>4. TypeOK /\ OnePlace /\ [Next]_vars => [Channel!Next]_Fates
  BY FatesStep
<1> QED BY <1>1, <1>2, <1>3, <1>4, TypeCorrect, PTL
        DEF Spec, ImplementsChannel, Channel!Spec

=============================================================================
