----------------------------- MODULE ServerLife -----------------------------
(***************************************************************************)
(* One process from its start to its end: start and shutdown (server.ts),  *)
(* the choice of the broker (src/src/messageBroker.ts), the Redis client   *)
(* (src/src/redisClient.ts) and GET /health (src/src/app.ts), by which the *)
(* platform decides whether to route traffic to the process.               *)
(*                                                                         *)
(* The client of ioredis is external: it connects, fails and reconnects by *)
(* itself, and an attempt may hang.  A definition marked "Slip" is a       *)
(* faulty variant of the one below it, used by no action.                  *)
(***************************************************************************)
EXTENDS Integers

CONSTANT MaxDrops   \* bound: connections that fail or are lost

ASSUME LifeAssumption == MaxDrops \in Nat

VARIABLES
  brokerType,  \* "redis" or "memory"
  life,        \* "starting", "connecting", "listening", "exited"
  client,      \* `client' in redisClient.ts: its ioredis status, or "null"
  broker,      \* app.locals.messageBroker is set
  timer,       \* the ten seconds of getRedisClient: "off", "armed"
  stopping,    \* shutdown handlers that run: one for each signal
  probe,       \* the health request: "idle", "ping"
  health,      \* the latest answer of /health
  drops

lifeVars == <<brokerType, life, client, broker, timer, stopping, probe, health, drops>>

LifeInit ==
  /\ brokerType \in {"redis", "memory"}
  /\ life = "starting" /\ client = "null" /\ broker = FALSE /\ timer = "off"
  /\ stopping = {} /\ probe = "idle" /\ health = "none" /\ drops = 0

Signals == {"SIGTERM", "SIGINT"}

\* process.exit: the platform starts another process.
Exit == life' = "exited" /\ stopping' = {} /\ probe' = "idle" /\ timer' = "off"

-----------------------------------------------------------------------------
(* start *)

\* createMessageBroker with MESSAGE_BROKER=memory
StartMemory ==
  /\ life = "starting" /\ brokerType = "memory"
  /\ broker' = TRUE /\ life' = "listening"
  /\ UNCHANGED <<brokerType, client, timer, stopping, probe, health, drops>>

\* Slip: the server listens while the client connects.
StartListening ==
  /\ life = "starting" /\ brokerType = "redis"
  /\ client' = "connecting" /\ timer' = "armed" /\ life' = "listening"
  /\ UNCHANGED <<brokerType, broker, stopping, probe, health, drops>>

\* getRedisClient up to its await: the client is stored before it is ready.
StartRedis ==
  /\ life = "starting" /\ brokerType = "redis"
  /\ client' = "connecting" /\ timer' = "armed" /\ life' = "connecting"
  /\ UNCHANGED <<brokerType, broker, stopping, probe, health, drops>>

\* REDIS_HOST is missing, or Secrets Manager fails: start rejects.
StartFails ==
  /\ life = "starting" /\ brokerType = "redis"
  /\ Exit /\ UNCHANGED <<brokerType, client, broker, health, drops>>

\* onReady: the broker is built and the server listens.
BecomesReady ==
  /\ client \in {"connecting", "reconnecting"}
  /\ client' = "ready"
  /\ IF life = "connecting" THEN life' = "listening" /\ broker' = TRUE
                            ELSE UNCHANGED <<life, broker>>
  /\ UNCHANGED <<brokerType, timer, stopping, probe, health, drops>>

\* An error of the first attempt rejects (onError) and the process exits;
\* later ones are logged and the client reconnects.
ConnectionDrops ==
  /\ client \in {"connecting", "ready"} /\ drops < MaxDrops
  /\ drops' = drops + 1 /\ client' = "reconnecting"
  /\ IF life = "connecting" THEN Exit ELSE UNCHANGED <<life, stopping, probe, timer>>
  /\ UNCHANGED <<brokerType, broker, health>>

\* Slip: the timer that was not cleared ends a process that is serving.
TimeoutAlways ==
  /\ timer = "armed" /\ Exit
  /\ UNCHANGED <<brokerType, client, broker, health, drops>>

\* Slip: the promise waits for ready or error alone.
TimeoutNever ==
  /\ timer = "armed" /\ timer' = "off"
  /\ UNCHANGED <<brokerType, life, client, broker, stopping, probe, health, drops>>

\* The timer fires, settled or not: only a promise that is still pending is
\* rejected.
ConnectTimeout ==
  /\ timer = "armed"
  /\ IF life = "connecting" THEN Exit
                            ELSE timer' = "off" /\ UNCHANGED <<life, stopping, probe>>
  /\ UNCHANGED <<brokerType, client, broker, health, drops>>

-----------------------------------------------------------------------------
(* shutdown: the listener is not closed, requests go on until the exit *)

Signal(s) ==
  /\ life # "exited" /\ s \notin stopping
  /\ stopping' = stopping \cup {s}
  /\ client' = IF client = "null" THEN client ELSE "quitting"
  /\ UNCHANGED <<brokerType, life, broker, timer, probe, health, drops>>

\* destroy and quit have settled, well or not.
ShutdownEnds ==
  /\ stopping # {}
  /\ Exit /\ client' = "null"
  /\ UNCHANGED <<brokerType, broker, health, drops>>

-----------------------------------------------------------------------------
(* GET /health *)

Probe ==
  /\ life = "listening" /\ probe = "idle"
  /\ probe' = "ping"
  /\ UNCHANGED <<brokerType, life, client, broker, timer, stopping, health, drops>>

\* broker.ping: false when Redis does not answer; a MessageQueue always does.
Pong == broker /\ (brokerType = "redis" => client = "ready")

ProbeAnswer ==
  /\ probe = "ping"
  /\ health' = IF Pong THEN "healthy" ELSE "degraded"
  /\ probe' = "idle"
  /\ UNCHANGED <<brokerType, life, client, broker, timer, stopping, drops>>

\* The process's own steps, a quit that settles and a platform that probes.
LifeSteps == StartMemory \/ StartRedis \/ ConnectTimeout \/ ShutdownEnds
ProbeSteps == Probe \/ ProbeAnswer

LifeNext ==
  \/ LifeSteps \/ StartFails \/ BecomesReady \/ ConnectionDrops
  \/ \E s \in Signals : Signal(s)
  \/ ProbeSteps

LifeSpec == LifeInit /\ [][LifeNext]_lifeVars

-----------------------------------------------------------------------------
(* Properties *)

\* Every variable has its type, and a wait for the client is timed.
LifeTypeOK ==
  /\ life \in {"starting", "connecting", "listening", "exited"}
  /\ client \in {"null", "connecting", "ready", "reconnecting", "quitting"}
  /\ timer \in {"off", "armed"} /\ stopping \subseteq Signals
  /\ health \in {"none", "healthy", "degraded"} /\ drops \in 0 .. MaxDrops
  /\ life = "connecting" => timer = "armed"

\* "as long as start() has populated it before the first request lands, we
\* are fine" (app.ts:43): a process that listens has its broker, and one with
\* a client that never became ready does not listen.
ListensWithBroker == life = "listening" => broker

\* A process that got its client keeps serving until a signal: neither the
\* timer left armed nor a lost connection ends it.
ServesUntilSignalled ==
  [][life = "listening" /\ life' = "exited" => stopping # {}]_lifeVars

\* The platform learns of a lost connection: "healthy" does not outlast it
\* for ever, although the process itself is up and answers.
HealthFollowsRedis ==
  health = "healthy" /\ client = "reconnecting" ~>
    health = "degraded" \/ client = "ready" \/ life = "exited"

\* Start comes to an end, Redis answering, failing or hanging: the process
\* listens or exits and is replaced.
StartEnds == life = "connecting" ~> life \in {"listening", "exited"}

\* The platform is never left with a process that neither serves nor ends,
\* or that serves and calls itself healthy without Redis.
LifeGoesOn == StartEnds /\ HealthFollowsRedis
=============================================================================
