---------------------------- MODULE ArchiveStore ----------------------------
(***************************************************************************)
(* The durable archive of one controller's heartbeats                      *)
(* (src/src/services/archiveStore.ts): the DynamoDB items of the           *)
(* controller, the dedup entry a process caches for it, and the            *)
(* fire-and-forget writes that RedisStreamQueue.addControllerMessage       *)
(* starts after its XADD.                                                  *)
(*                                                                         *)
(* A write awaits DynamoDB twice at most: one action sends a request's     *)
(* effect to the table, another one runs the code after the reply.  A      *)
(* reading is abstracted to its fingerprint.  Heartbeats are stamped by    *)
(* the route before the XADD that precedes the write, at different         *)
(* instants: a controller sends one every five seconds.                    *)
(*                                                                         *)
(* A definition marked "Slip" is a faulty variant of the one below it,     *)
(* used by no action: a mistake the properties would detect.               *)
(***************************************************************************)
EXTENDS Integers, Sequences, FiniteSets

CONSTANTS
  Writes,        \* slots of heartbeats on their way to the archive
  Fingerprints,  \* readings that change detection tells apart
  Unknown,       \* fingerprint of an item without a kind
  Gap,           \* ARCHIVE_GAP_SECONDS
  Retention,     \* ARCHIVE_RETENTION_DAYS
  MaxTime,       \* bound: the last instant
  MaxBeats,      \* bound: heartbeats
  MaxFaults,     \* bound: requests that fail without an effect
  MaxLost        \* bound: requests that take effect and whose reply is lost

ASSUME ArchiveAssumption ==
  /\ Unknown \notin Fingerprints
  /\ {Gap, Retention} \subseteq Nat \ {0}
  /\ {MaxTime, MaxBeats, MaxFaults, MaxLost} \subseteq Nat

VARIABLES
  now,
  beats,   \* every heartbeat: when it was stamped and its fingerprint
  table,   \* the items: a function from sort keys
  heap,    \* the DedupEntry objects created so far
  cache,   \* the one `dedup' refers to, 0 if none
  write,   \* the state of each write
  \* history
  stored,  \* for each heartbeat whose write has ended well: its item's key
  left     \* how many faults and lost replies may still happen

vars == <<now, beats, table, heap, cache, write, stored, left>>

None == 0
NoTtl == 0   \* the item has no ttl attribute

Idle == [pc |-> "idle", beat |-> None, entry |-> None, resumed |-> FALSE,
         found |-> {}]

Init ==
  /\ now = 0 /\ beats = <<>>
  /\ table = <<>> /\ heap = <<>> /\ cache = None
  /\ write = [w \in Writes |-> Idle]
  /\ stored = <<>>
  /\ left = [fault |-> MaxFaults, lost |-> MaxLost]

Keys == DOMAIN table
Newest(S) == {k \in S : \A l \in S : l <= k}

\* The heartbeat that w writes.
Beat(w) == beats[write[w].beat]

\* f with x mapped to y
With(f, x, y) == [z \in DOMAIN f \cup {x} |-> IF z = x THEN y ELSE f[z]]

-----------------------------------------------------------------------------
\* POST /controller/heartbeat stamps the message and begins its XADD.
Arrive(w, fp) ==
  /\ write[w].pc = "idle" /\ Len(beats) < MaxBeats /\ now < MaxTime
  /\ now' = now + 1
  /\ beats' = Append(beats, [ts |-> now + 1, fp |-> fp])
  /\ write' = [write EXCEPT ![w] = [Idle EXCEPT !.pc = "xadd", !.beat = Len(beats) + 1]]
  /\ UNCHANGED <<table, heap, cache, stored, left>>

\* Slip: a silence one tick longer is accepted.
GappedLate(e, beat) == beat.ts - e.lastTs > Gap + 1

Gapped(e, beat) == beat.ts - e.lastTs > Gap

Unchanged(e, beat) == e.fp = beat.fp

\* write() once it knows its dedup entry, the object e of the heap objs
Decide(w, objs, e) ==
  write' = [write EXCEPT ![w] =
    IF e # None /\ Unchanged(objs[e], Beat(w)) /\ ~Gapped(objs[e], Beat(w))
    THEN [@ EXCEPT !.pc = "update", !.entry = e]
    ELSE [@ EXCEPT !.pc = "put",
                   !.resumed = (e # None /\ Gapped(objs[e], Beat(w)))]]

\* The XADD is over: write() runs to its first request.
Begin(w) ==
  /\ write[w].pc = "xadd"
  /\ IF cache # None THEN Decide(w, heap, cache)
     ELSE write' = [write EXCEPT ![w].pc = "query"]
  /\ UNCHANGED <<now, beats, table, heap, cache, stored, left>>

\* getDedup asks for the newest item; expired items are not filtered out.
Query(w) ==
  /\ write[w].pc = "query"
  /\ LET items == {[sk |-> k, fp |-> table[k].fp, lastTs |-> table[k].lastTs] :
                     k \in Newest(Keys)}
     IN  write' = [write EXCEPT ![w].pc = "seed", ![w].found = items]
  /\ UNCHANGED <<now, beats, table, heap, cache, stored, left>>

Seed(w) ==
  /\ write[w].pc = "seed"
  /\ \/ write[w].found = {} /\ Decide(w, heap, None) /\ UNCHANGED <<heap, cache>>
     \/ \E entry \in write[w].found :
          /\ heap' = Append(heap, entry)
          /\ cache' = Len(heap) + 1
          /\ Decide(w, heap', cache')
  /\ UNCHANGED <<now, beats, table, stored, left>>

\* Slip: an unchanged heartbeat only bumps the counter.
UpdateItemCountOnly(k, beat) ==
  IF k \in Keys THEN table[k]
  ELSE [fp |-> Unknown, lastTs |-> beat.ts, ttl |-> NoTtl, resumed |-> FALSE]

\* UpdateItem creates an item that is not there, with what the expression
\* sets: no kind, no sender and no ttl.
UpdateItem(k, beat) ==
  IF k \in Keys THEN [table[k] EXCEPT !.lastTs = beat.ts]
  ELSE [fp |-> Unknown, lastTs |-> beat.ts, ttl |-> NoTtl, resumed |-> FALSE]

Update(w) ==
  /\ write[w].pc = "update"
  /\ LET k == heap[write[w].entry].sk
     IN  table' = With(table, k, UpdateItem(k, Beat(w)))
  /\ write' = [write EXCEPT ![w].pc = "updated"]
  /\ UNCHANGED <<now, beats, heap, cache, stored, left>>

Put(w) ==
  /\ write[w].pc = "put"
  /\ table' = With(table, Beat(w).ts,
                   [fp |-> Beat(w).fp, lastTs |-> Beat(w).ts,
                    ttl |-> Beat(w).ts + Retention, resumed |-> write[w].resumed])
  /\ write' = [write EXCEPT ![w].pc = "stored"]
  /\ UNCHANGED <<now, beats, heap, cache, stored, left>>

\* The write of w ends well, its heartbeat in the item k.
Finish(w, k) ==
  /\ write' = [write EXCEPT ![w] = Idle]
  /\ stored' = With(stored, write[w].beat, k)

\* prev.lastTs = input.ts
Updated(w) ==
  /\ write[w].pc = "updated"
  /\ heap' = [heap EXCEPT ![write[w].entry].lastTs = Beat(w).ts]
  /\ Finish(w, heap[write[w].entry].sk)
  /\ UNCHANGED <<now, beats, table, cache, left>>

\* Slip: the entry in the map is kept when there is one.
StoredUncached(w) ==
  /\ write[w].pc = "stored"
  /\ heap' = Append(heap, [sk |-> Beat(w).ts, fp |-> Beat(w).fp, lastTs |-> Beat(w).ts])
  /\ cache' = IF cache = None THEN Len(heap) + 1 ELSE cache
  /\ Finish(w, Beat(w).ts)
  /\ UNCHANGED <<now, beats, table, left>>

\* this.dedup.set(...)
Stored(w) ==
  /\ write[w].pc = "stored"
  /\ heap' = Append(heap, [sk |-> Beat(w).ts, fp |-> Beat(w).fp, lastTs |-> Beat(w).ts])
  /\ cache' = Len(heap) + 1
  /\ Finish(w, Beat(w).ts)
  /\ UNCHANGED <<now, beats, table, left>>

-----------------------------------------------------------------------------
\* XADD fails and the heartbeat is refused, or DynamoDB refuses an update or
\* a put: the error is logged and swallowed.
FailWrite(w) ==
  /\ write[w].pc \in {"xadd", "update", "put"} /\ left.fault > 0
  /\ left' = [left EXCEPT !.fault = @ - 1]
  /\ write' = [write EXCEPT ![w] = Idle]
  /\ UNCHANGED <<now, beats, table, heap, cache, stored>>

\* A failing query counts as "no prior item".
FailQuery(w) ==
  /\ write[w].pc \in {"query", "seed"} /\ left.fault > 0
  /\ left' = [left EXCEPT !.fault = @ - 1]
  /\ Decide(w, heap, None)
  /\ UNCHANGED <<now, beats, table, heap, cache, stored>>

\* The table took the update or the put, and the process never learns it.
LoseReply(w) ==
  /\ write[w].pc \in {"updated", "stored"} /\ left.lost > 0
  /\ left' = [left EXCEPT !.lost = @ - 1]
  /\ write' = [write EXCEPT ![w] = Idle]
  /\ UNCHANGED <<now, beats, table, heap, cache, stored>>

\* The process ends with its dedup map and the writes in progress.
Restart ==
  /\ heap' = <<>> /\ cache' = None
  /\ write' = [w \in Writes |-> Idle]
  /\ UNCHANGED <<now, beats, table, stored, left>>

Tick ==
  /\ now < MaxTime
  /\ now' = now + 1
  /\ UNCHANGED <<beats, table, heap, cache, write, stored, left>>

Expired(k) == table[k].ttl # NoTtl /\ table[k].ttl < now

\* DynamoDB deletes an expired item in its own time.
Purge(k) ==
  /\ k \in Keys /\ Expired(k)
  /\ table' = [l \in Keys \ {k} |-> table[l]]
  /\ UNCHANGED <<now, beats, heap, cache, write, stored, left>>

Next ==
  \/ \E w \in Writes :
       \/ \E fp \in Fingerprints : Arrive(w, fp)
       \/ Begin(w) \/ Query(w) \/ Seed(w)
       \/ Update(w) \/ Updated(w) \/ Put(w) \/ Stored(w)
       \/ FailWrite(w) \/ FailQuery(w) \/ LoseReply(w)
  \/ Restart \/ Tick
  \/ \E k \in Keys : Purge(k)

Spec == Init /\ [][Next]_vars

-----------------------------------------------------------------------------
(* Properties *)

\* What queries show: their filter is ttl > now.
Readable == {k \in Keys : table[k].ttl > now}

\* No heartbeat is lost to compression: one whose write ended well lies in
\* the run of the item it was stored in, with the same reading, until that
\* item expires, whatever failures, restarts and purges came later.
HeartbeatCovered ==
  \A n \in DOMAIN stored :
    LET k == stored[n]
    IN  \/ now >= k + Retention
        \/ /\ k \in Readable
           /\ table[k].fp = beats[n].fp
           /\ beats[n].ts \in k .. table[k].lastTs

\* A silence of the controller is never hidden inside a run: from its ts to
\* its lastTs an item rests on heartbeats of its reading, none further than
\* Gap after the one before, although failures and restarts change what the
\* process remembers.
RunsHaveNoGap ==
  \A k \in Readable : \A t \in k .. table[k].lastTs :
    \E n \in DOMAIN beats :
      /\ beats[n].fp = table[k].fp
      /\ beats[n].ts >= k /\ beats[n].ts \in t - Gap + 1 .. t

\* No false silence: an item marked commsResumed was not preceded within Gap
\* by a heartbeat that the archive still holds, unless DynamoDB's reply to a
\* write was lost: the entry then stays on an older item, and after a restart
\* the newest item, whose lastTs did not move, is taken for the active one.
\* A heartbeat whose item has expired does not count: DynamoDB may delete the
\* newest item before an older one, which a restart then takes for the newest.
GapsAreReal ==
  left.lost = MaxLost =>
    \A k \in Readable :
      table[k].resumed =>
        \A n \in DOMAIN stored :
          now < stored[n] + Retention => beats[n].ts \notin k - Gap .. k - 1

\* The archive neither hides a silence of the controller nor invents one.
SilenceIsShown == RunsHaveNoGap /\ GapsAreReal

\* The compression works ("a new item is written when the decoded telemetry
\* changes (or comms resumed after a gap)"), and "a process restart doesn't
\* emit a spurious change-point for an unchanged device", at whatever step of
\* a write the process restarts, as long as DynamoDB answers.
Compressed ==
  left.fault = MaxFaults /\ left.lost = MaxLost =>
    \A k, l \in Readable :
      k < l /\ (\A j \in Readable : ~(k < j /\ j < l)) =>
        table[l].resumed \/ table[k].fp # table[l].fp

\* "Change-points are piecewise-constant: a value holds until the next point"
\* (archiveStore.ts:374): the newest item at the time of a stored heartbeat
\* shows its reading, whatever failed or restarted, unless DynamoDB's reply to
\* a write was lost.
ValueHolds ==
  left.lost = MaxLost =>
    \A n \in DOMAIN stored :
      now < stored[n] + Retention =>
        \A k \in Newest({l \in Readable : l <= beats[n].ts}) :
          table[k].fp = beats[n].fp

\* archiveStore.ts:6-7: history lives in DynamoDB "with a TTL so it
\* self-purges".
ItemsSelfPurge == \A k \in Keys : table[k].ttl # NoTtl
=============================================================================
