------------------------- MODULE ArchiveStoreProofs -------------------------
(***************************************************************************)
(* Theorems about ArchiveStore for every gap, retention and number of      *)
(* heartbeats, failures and restarts: what was stored is covered, runs     *)
(* hide no silence and invent none, values hold and runs are maximal.      *)
(*                                                                         *)
(* Writes of one controller follow each other (OneWrite): it sends a       *)
(* heartbeat every five seconds.  Two that overlap share a dedup entry,    *)
(* and then these properties are not promised.                             *)
(*                                                                         *)
(* An item may be purged while the process still has it cached, so what is *)
(* said of a cached or found entry (Sound) holds until its item expires.   *)
(* That no silence is invented needs more while DynamoDB's replies arrive: *)
(* runs do not overlap, and the entry is the newest item.                  *)
(***************************************************************************)
EXTENDS ArchiveStore, SequenceTheorems, WellFoundedInduction, TLAPS

OneWrite == \E w : Writes = {w}

Readings == Fingerprints \cup {Unknown}
Items    == [fp : Readings, lastTs : Nat, ttl : Nat, resumed : BOOLEAN]
Entries  == [sk : Nat, fp : Readings, lastTs : Nat]

\* Where a write is before its effect on the table, and after it
Before == {"xadd", "query", "seed", "update", "put"}
After  == {"updated", "stored"}

States == [pc : {"idle"} \cup Before \cup After, beat : Nat, entry : Nat,
           resumed : BOOLEAN, found : SUBSET Entries]

\* The type invariant
TypeOK ==
  /\ now \in Nat
  /\ beats \in Seq([ts : Nat, fp : Fingerprints])
  /\ Keys \subseteq Nat /\ table \in [Keys -> Items]
  /\ heap \in Seq(Entries) /\ cache \in 0 .. Len(heap)
  /\ write \in [Writes -> States]
  /\ \A w \in Writes : /\ write[w].pc # "idle" => write[w].beat \in DOMAIN beats
                       /\ write[w].pc \in {"update", "updated"} =>
                            write[w].entry = cache /\ cache # None
  /\ DOMAIN stored \subseteq DOMAIN beats /\ stored \in [DOMAIN stored -> Nat]
  /\ left \in [fault : 0 .. MaxFaults, lost : 0 .. MaxLost]

-----------------------------------------------------------------------------
\* The item with key k has not expired.
Live(k) == now < k + Retention

BeatsInOrder ==
  /\ \A n \in DOMAIN beats : beats[n].ts <= now
  /\ \A m, n \in DOMAIN beats : m < n => beats[m].ts < beats[n].ts

ItemsSound ==
  \A k \in Keys :
    /\ k <= table[k].lastTs /\ table[k].lastTs <= now
    /\ table[k].ttl = k + Retention \/ (table[k].ttl = NoTtl /\ ~Live(k))
    /\ Live(k) => \E n \in DOMAIN beats : /\ beats[n].ts = table[k].lastTs
                                          /\ beats[n].fp = table[k].fp

\* An entry, cached or found, agrees with its item until that expires.
Sound(e) ==
  /\ e.sk <= e.lastTs /\ e.lastTs <= now
  /\ Live(e.sk) => /\ e.sk \in Keys /\ table[e.sk].fp = e.fp
                   /\ e.lastTs <= table[e.sk].lastTs

\* The heartbeat of the only write is the last one, and nothing in the table
\* is as recent before its effect.
WriteIsLast(w) ==
  write[w].pc # "idle" =>
    /\ write[w].beat = Len(beats) /\ write[w].beat \notin DOMAIN stored
    /\ \A k \in Keys : table[k].lastTs <= Beat(w).ts
    /\ write[w].pc \in Before => \A k \in Keys : table[k].lastTs < Beat(w).ts

WriteSound(w) ==
  /\ write[w].pc # "idle" /\ cache # None => heap[cache].lastTs < Beat(w).ts
  /\ write[w].pc = "seed" =>
       \A e \in write[w].found : Sound(e) /\ e.lastTs < Beat(w).ts
  /\ write[w].pc \in {"update", "updated"} => heap[cache].fp = Beat(w).fp
  /\ write[w].pc = "update" => Beat(w).ts - heap[cache].lastTs <= Gap
  /\ write[w].pc = "updated" =>
       (Live(heap[cache].sk) => table[heap[cache].sk].lastTs = Beat(w).ts)
  /\ write[w].pc = "stored" =>
       Sound([sk |-> Beat(w).ts, fp |-> Beat(w).fp, lastTs |-> Beat(w).ts])

Covered(n) ==
  Live(stored[n]) => /\ stored[n] \in Keys /\ table[stored[n]].fp = beats[n].fp
                     /\ beats[n].ts \in stored[n] .. table[stored[n]].lastTs

ArchiveInv ==
  /\ TypeOK /\ BeatsInOrder /\ ItemsSound
  /\ \A w \in Writes : WriteIsLast(w) /\ WriteSound(w)
  /\ cache # None => Sound(heap[cache])
  /\ \A n \in DOMAIN stored : Covered(n)
  /\ RunsHaveNoGap

\* No stored heartbeat that the archive holds is newer than t.
Remembers(t) == \A n \in DOMAIN stored : Live(stored[n]) => beats[n].ts <= t

\* The runs of the other items end before s.
Apart(s) == \A k \in Keys : k <= s /\ (k < s => table[k].lastTs < s)

RunsApart == \A k, l \in Keys : k < l => table[k].lastTs < l

WriteFollows(w) ==
  /\ write[w].pc = "seed" =>
       \A e \in write[w].found : Apart(e.sk) /\ Remembers(e.lastTs)
  /\ write[w].pc = "put" /\ write[w].resumed => Remembers(Beat(w).ts - Gap - 1)
  /\ write[w].pc = "stored" => Apart(Beat(w).ts)

EntryFollows ==
  cache # None =>
    /\ Remembers(heap[cache].lastTs)
    /\ (\A w \in Writes : write[w].pc # "stored") => Apart(heap[cache].sk)

\* While no reply was lost
RepliesInv ==
  left.lost = MaxLost =>
    /\ RunsApart /\ EntryFollows /\ GapsAreReal
    /\ \A w \in Writes : WriteFollows(w)

\* No item that l follows: l is the newest readable one.
LastReadable(l) == l \in Readable /\ \A j \in Readable : j <= l

\* While nothing failed
FaultsInv ==
  left.fault = MaxFaults /\ left.lost = MaxLost =>
    /\ \A w \in Writes : write[w].pc = "seed" /\ write[w].found = {} => Readable = {}
    /\ \A w \in Writes : write[w].pc = "put" =>
         \A l \in Nat : LastReadable(l) =>
           write[w].resumed \/ table[l].fp # Beat(w).fp
    /\ Compressed

-----------------------------------------------------------------------------
(* The type invariant                                                      *)

USE DEF Keys

\* What a write has at hand
LEMMA Held ==
  ASSUME TypeOK, NEW w \in Writes
  PROVE  /\ write[w] \in States /\ Gap \in Nat /\ Retention \in Nat \ {0}
         /\ Len(beats) \in Nat /\ DOMAIN beats = 1 .. Len(beats)
         /\ \A n \in DOMAIN beats : beats[n] \in [ts : Nat, fp : Fingerprints]
         /\ Len(heap) \in Nat /\ DOMAIN heap = 1 .. Len(heap)
         /\ cache # None => cache \in 1 .. Len(heap) /\ heap[cache] \in Entries
         /\ write[w].pc # "idle" => /\ write[w].beat \in DOMAIN beats
                                    /\ Beat(w) \in [ts : Nat, fp : Fingerprints]
<1>1. write[w] \in States /\ Gap \in Nat /\ Retention \in Nat \ {0}
  BY ArchiveAssumption DEF TypeOK
<1>2. Len(beats) \in Nat /\ DOMAIN beats = 1 .. Len(beats)
      /\ Len(heap) \in Nat /\ DOMAIN heap = 1 .. Len(heap)
  BY DEF TypeOK
<1>3. cache # None => cache \in 1 .. Len(heap) /\ heap[cache] \in Entries
  BY <1>2 DEF TypeOK, None
<1>4. write[w].pc # "idle" => write[w].beat \in DOMAIN beats
  BY DEF TypeOK
<1>5. \A n \in DOMAIN beats : beats[n] \in [ts : Nat, fp : Fingerprints]
  <2>1. beats \in Seq([ts : Nat, fp : Fingerprints])
    BY DEF TypeOK
  <2> QED BY <1>2, <2>1, ElementOfSeq
<1> QED BY <1>1, <1>2, <1>3, <1>4, <1>5 DEF Beat

\* The shapes the steps of a write rely on
LEMMA Shapes ==
  ASSUME TypeOK, NEW w \in Writes
  PROVE  /\ TypeOK /\ heap \in Seq(Entries) /\ cache \in 0 .. Len(heap) /\ None \in 0 .. Len(heap)
         /\ write \in [Writes -> States] /\ write[w] \in States
         /\ cache # None => heap[cache] \in Entries
         /\ left \in [fault : 0 .. MaxFaults, lost : 0 .. MaxLost]
<1>1. /\ heap \in Seq(Entries) /\ cache \in 0 .. Len(heap)
      /\ write \in [Writes -> States] /\ left \in [fault : 0 .. MaxFaults, lost : 0 .. MaxLost]
  BY DEF TypeOK
<1>2. None \in 0 .. Len(heap)
  BY <1>1 DEF None
<1>3. write[w] \in States /\ (cache # None => heap[cache] \in Entries)
  BY Held
<1> QED BY <1>1, <1>2, <1>3

\* Only an item that has expired is purged.
LEMMA PurgedIsDead ==
  ASSUME ArchiveInv, NEW k \in Keys, Purge(k)
  PROVE  ~Live(k)
<1>1. table[k].ttl # NoTtl /\ table[k].ttl < now
  BY DEF Purge, Expired
<1>2. table[k].ttl = k + Retention \/ ~Live(k)
  BY <1>1 DEF ArchiveInv, ItemsSound
<1>3. now \in Nat /\ k \in Nat /\ Retention \in Nat
  BY ArchiveAssumption DEF ArchiveInv, TypeOK
<1> QED BY <1>1, <1>2, <1>3 DEF Live

\* What write() decides with the entry e of the objects objs
LEMMA Decides ==
  ASSUME TypeOK, NEW w \in Writes, NEW objs \in Seq(Entries), NEW e \in 0 .. Len(objs),
         write[w].pc # "idle", Decide(w, objs, e)
  PROVE  /\ write' \in [Writes -> States]
         /\ \A v \in Writes \ {w} : write'[v] = write[v]
         /\ write'[w].beat = write[w].beat
         /\ \/ /\ write'[w].pc = "update" /\ write'[w].entry = e /\ e # None
               /\ objs[e].fp = Beat(w).fp /\ Beat(w).ts - objs[e].lastTs <= Gap
            \/ /\ write'[w].pc = "put"
               /\ write'[w].resumed => e # None /\ Beat(w).ts - objs[e].lastTs > Gap
               /\ ~write'[w].resumed => e = None \/ objs[e].fp # Beat(w).fp
<1>1. Beat(w) \in [ts : Nat, fp : Fingerprints] /\ Gap \in Nat /\ write[w] \in States
  BY Held
<1>2. e # None => objs[e] \in Entries
  BY DEF None
<1>2a. write \in [Writes -> States]
  BY DEF TypeOK
<1>3. CASE e # None /\ Unchanged(objs[e], Beat(w)) /\ ~Gapped(objs[e], Beat(w))
  <2>1. write' = [write EXCEPT ![w] = [@ EXCEPT !.pc = "update", !.entry = e]]
    BY <1>3 DEF Decide
  <2>2. write'[w] = [write[w] EXCEPT !.pc = "update", !.entry = e]
    BY <1>2a, <2>1
  <2>3. objs[e].fp = Beat(w).fp /\ Beat(w).ts - objs[e].lastTs <= Gap
    BY <1>1, <1>2, <1>3 DEF Unchanged, Gapped, Entries
  <2>2a. e \in Nat
    OBVIOUS
  <2>4. write'[w] \in States
    BY <1>1, <2>2, <2>2a DEF States, Before
  <2>5. write' \in [Writes -> States] /\ \A v \in Writes \ {w} : write'[v] = write[v]
    BY <1>2a, <2>1, <2>2, <2>4
  <2> QED BY <1>1, <1>3, <2>2, <2>3, <2>5 DEF States
<1>4. CASE ~(e # None /\ Unchanged(objs[e], Beat(w)) /\ ~Gapped(objs[e], Beat(w)))
  <2> DEFINE r == e # None /\ Gapped(objs[e], Beat(w))
  <2>1. write' = [write EXCEPT ![w] = [@ EXCEPT !.pc = "put", !.resumed = r]]
    BY <1>4 DEF Decide
  <2>2. write'[w] = [write[w] EXCEPT !.pc = "put", !.resumed = r]
    BY <1>2a, <2>1
  <2>3. r => e # None /\ Beat(w).ts - objs[e].lastTs > Gap
    BY <1>1, <1>2 DEF Gapped, Entries
  <2>4. ~r => e = None \/ objs[e].fp # Beat(w).fp
    BY <1>4 DEF Unchanged
  <2>5. r \in BOOLEAN
    OBVIOUS
  <2> HIDE DEF r
  <2>6. write'[w] \in States
    BY <1>1, <2>2, <2>5 DEF States, Before
  <2>7. write' \in [Writes -> States] /\ \A v \in Writes \ {w} : write'[v] = write[v]
    BY <1>2a, <2>1, <2>2, <2>6
  <2> QED BY <1>1, <2>2, <2>3, <2>4, <2>7 DEF States
<1> QED BY <1>3, <1>4

LEMMA TypeInitial == Init => TypeOK
<1> SUFFICES ASSUME Init PROVE TypeOK
  OBVIOUS
<1>1. table = <<>> /\ heap = <<>> /\ beats = <<>> /\ stored = <<>> /\ cache = 0 /\ now = 0
  BY DEF Init, None
<1>2. DOMAIN table = {} /\ table \in [{} -> Items] /\ DOMAIN stored = {} /\ stored \in [{} -> Nat]
  BY <1>1
<1>3. write \in [Writes -> States] /\ \A w \in Writes : write[w].pc = "idle"
  BY DEF Init, Idle, States, None
<1>4. left \in [fault : 0 .. MaxFaults, lost : 0 .. MaxLost]
  BY ArchiveAssumption DEF Init
<1> QED BY <1>1, <1>2, <1>3, <1>4 DEF TypeOK

\* Before the effect on the table: only the state of a write changes.
LEMMA TypeBegins ==
  ASSUME TypeOK, NEW w \in Writes, Writes = {w},
         \/ \E fp \in Fingerprints : Arrive(w, fp)
         \/ Begin(w) \/ Query(w) \/ Seed(w)
  PROVE  TypeOK'
<1> write \in [Writes -> States] /\ write[w] \in States
  BY Held DEF TypeOK
<1>1. ASSUME NEW fp \in Fingerprints, Arrive(w, fp)
      PROVE  TypeOK'
  <2>1. now' \in Nat /\ beats' \in Seq([ts : Nat, fp : Fingerprints])
        /\ Len(beats') = Len(beats) + 1 /\ Len(beats) \in Nat
    BY <1>1 DEF Arrive, TypeOK
  <2>2. write' \in [Writes -> States] /\ write'[w].pc = "xadd" /\ write'[w].beat = Len(beats) + 1
    <3> DEFINE new == [Idle EXCEPT !.pc = "xadd", !.beat = Len(beats) + 1]
    <3>1. new \in States /\ new.pc = "xadd" /\ new.beat = Len(beats) + 1
      <4>1. Idle \in States
        BY DEF States, Idle, None
      <4>2. Len(beats) + 1 \in Nat
        BY <2>1
      <4> QED BY <4>1, <4>2 DEF States, Before
    <3>2. write' = [write EXCEPT ![w] = new]
      BY <1>1 DEF Arrive
    <3> HIDE DEF new
    <3> QED BY <3>1, <3>2
  <2>3. DOMAIN beats \subseteq DOMAIN beats' /\ Len(beats) + 1 \in DOMAIN beats'
    BY <2>1 DEF TypeOK
  <2> QED BY <1>1, <2>1, <2>2, <2>3 DEF Arrive, TypeOK
<1>2. CASE Begin(w)
  <2>1. CASE cache # None
    BY <1>2, <2>1, Decides DEF Begin, TypeOK
  <2>2. CASE cache = None
    <3>1. write' \in [Writes -> States] /\ write'[w].pc = "query" /\ write'[w].beat = write[w].beat
      BY <1>2, <2>2 DEF Begin, States, Before
    <3> QED BY <1>2, <3>1 DEF Begin, TypeOK
  <2> QED BY <2>1, <2>2
<1>3. CASE Query(w)
  <2> DEFINE items == {[sk |-> k, fp |-> table[k].fp, lastTs |-> table[k].lastTs] : k \in Newest(Keys)}
  <2>1. items \subseteq Entries
    BY DEF TypeOK, Items, Entries, Newest
  <2>2. write' = [write EXCEPT ![w].pc = "seed", ![w].found = items]
    BY <1>3 DEF Query
  <2> HIDE DEF items
  <2>3. write' \in [Writes -> States] /\ write'[w].pc = "seed" /\ write'[w].beat = write[w].beat
    BY <2>1, <2>2 DEF States, Before
  <2> QED BY <1>3, <2>3 DEF Query, TypeOK
<1>4. CASE Seed(w)
  <2>1. CASE Decide(w, heap, None) /\ UNCHANGED <<heap, cache>>
    <3>1. /\ write' \in [Writes -> States] /\ write'[w].beat = write[w].beat
          /\ write'[w].pc = "put"
      <4>1. heap \in Seq(Entries) /\ None \in 0 .. Len(heap)
        BY DEF TypeOK, None
      <4> QED BY <1>4, <2>1, <4>1, Decides DEF Seed
    <3> QED BY <1>4, <2>1, <3>1 DEF Seed, TypeOK
  <2>2. ASSUME NEW entry \in write[w].found, heap' = Append(heap, entry), cache' = Len(heap) + 1,
               Decide(w, heap', cache')
        PROVE  TypeOK'
    <3>1. entry \in Entries
      BY DEF TypeOK, States
    <3>2. heap' \in Seq(Entries) /\ Len(heap') = Len(heap) + 1 /\ Len(heap) \in Nat
      BY <2>2, <3>1 DEF TypeOK
    <3>3. cache' \in 0 .. Len(heap') /\ cache' # None
      BY <2>2, <3>2 DEF None
    <3>4. write' \in [Writes -> States] /\ write'[w].beat = write[w].beat
          /\ (write'[w].pc \in {"update", "updated"} => write'[w].entry = cache')
      BY <1>4, <2>2, <3>2, <3>3, Decides DEF Seed
    <3> QED BY <1>4, <3>2, <3>3, <3>4 DEF Seed, TypeOK
  <2> QED BY <1>4, <2>1, <2>2 DEF Seed
<1> QED BY <1>1, <1>2, <1>3, <1>4

LEMMA TypeEffect ==
  ASSUME TypeOK, NEW w \in Writes, Writes = {w},
         Update(w) \/ Updated(w) \/ Put(w) \/ Stored(w)
  PROVE  TypeOK'
<1> write \in [Writes -> States]
  BY DEF TypeOK
<1>1. write[w].pc # "idle" /\ Beat(w) \in [ts : Nat, fp : Fingerprints]
      /\ write[w] \in States /\ write[w].beat \in DOMAIN beats
  BY Held DEF Update, Updated, Put, Stored
<1>2. CASE Update(w)
  <2> DEFINE k == heap[write[w].entry].sk
             i == UpdateItem(k, Beat(w))
  <2>1. k \in Nat /\ cache # None
    BY <1>2, Held DEF Update, TypeOK, Entries
  <2>2. i \in Items
    <3>1. table \in [Keys -> Items] /\ Beat(w).ts \in Nat
      BY <1>1 DEF TypeOK
    <3>2. CASE k \in Keys
      <4>1. table[k] \in Items /\ i = [table[k] EXCEPT !.lastTs = Beat(w).ts]
        BY <3>1, <3>2 DEF UpdateItem
      <4> QED BY <3>1, <4>1 DEF Items
    <3>3. CASE k \notin Keys
      BY <3>1, <3>3 DEF UpdateItem, Items, Readings, NoTtl
    <3> QED BY <3>2, <3>3
  <2>3. table' = With(table, k, i) /\ table \in [DOMAIN table -> Items]
    BY <1>2 DEF Update, TypeOK
  <2> HIDE DEF k, i
  <2>4. DOMAIN table' \subseteq Nat /\ table' \in [DOMAIN table' -> Items]
    <3>1. DOMAIN table \subseteq Nat
      BY DEF TypeOK
    <3>2. /\ DOMAIN With(table, k, i) = DOMAIN table \cup {k}
          /\ With(table, k, i) \in [DOMAIN With(table, k, i) -> Items]
      BY <2>2, <2>3 DEF With
    <3> QED BY <2>1, <2>3, <3>1, <3>2
  <2>5. write' \in [Writes -> States] /\ write'[w].pc = "updated"
        /\ write'[w].beat = write[w].beat /\ write'[w].entry = write[w].entry
    BY <1>1, <1>2 DEF Update, States, After
  <2> QED BY <1>2, <2>4, <2>5 DEF Update, TypeOK
<1>3. CASE Put(w)
  <2> DEFINE i == [fp |-> Beat(w).fp, lastTs |-> Beat(w).ts, ttl |-> Beat(w).ts + Retention,
                   resumed |-> write[w].resumed]
  <2>1. i \in Items
    BY <1>1, ArchiveAssumption DEF Items, Readings, States
  <2>2. table' = With(table, Beat(w).ts, i) /\ table \in [DOMAIN table -> Items]
    BY <1>3 DEF Put, TypeOK
  <2> HIDE DEF i
  <2>3. DOMAIN table' \subseteq Nat /\ table' \in [DOMAIN table' -> Items]
    <3>1. DOMAIN table \subseteq Nat /\ Beat(w).ts \in Nat
      BY <1>1 DEF TypeOK
    <3>2. /\ DOMAIN With(table, Beat(w).ts, i) = DOMAIN table \cup {Beat(w).ts}
          /\ With(table, Beat(w).ts, i) \in [DOMAIN With(table, Beat(w).ts, i) -> Items]
      BY <2>1, <2>2 DEF With
    <3> QED BY <2>2, <3>1, <3>2
  <2>4. write' \in [Writes -> States] /\ write'[w].pc = "stored" /\ write'[w].beat = write[w].beat
    BY <1>1, <1>3 DEF Put, States, After
  <2> QED BY <1>3, <2>3, <2>4 DEF Put, TypeOK
<1>4. ASSUME NEW k \in Nat, Finish(w, k)
      PROVE  /\ write' \in [Writes -> States] /\ write'[w].pc = "idle"
             /\ DOMAIN stored' \subseteq DOMAIN beats /\ stored' \in [DOMAIN stored' -> Nat]
  <2>1. write' \in [Writes -> States] /\ write'[w].pc = "idle"
    BY <1>4 DEF Finish, States, Idle, None
  <2>2. /\ stored' = With(stored, write[w].beat, k) /\ stored \in [DOMAIN stored -> Nat]
        /\ DOMAIN stored \subseteq DOMAIN beats
    BY <1>4 DEF Finish, TypeOK
  <2>3. /\ DOMAIN With(stored, write[w].beat, k) = DOMAIN stored \cup {write[w].beat}
        /\ With(stored, write[w].beat, k) \in [DOMAIN With(stored, write[w].beat, k) -> Nat]
    BY <2>2 DEF With
  <2> QED BY <1>1, <2>1, <2>2, <2>3
<1>5. CASE Updated(w)
  <2>1. cache \in DOMAIN heap /\ write[w].entry = cache
    BY <1>5 DEF Updated, TypeOK, None
  <2>2. heap' \in Seq(Entries) /\ Len(heap') = Len(heap)
    <3>1. heap \in Seq(Entries) /\ heap[cache] \in Entries
      BY <2>1, Held DEF TypeOK, None
    <3>2. [heap[cache] EXCEPT !.lastTs = Beat(w).ts] \in Entries
      BY <1>1, <3>1 DEF Entries
    <3>3. heap' = [heap EXCEPT ![cache] = [heap[cache] EXCEPT !.lastTs = Beat(w).ts]]
      BY <1>5, <2>1 DEF Updated
    <3> QED BY <2>1, <3>1, <3>2, <3>3
  <2>3. heap[write[w].entry].sk \in Nat
    <3>1. heap[cache] \in Entries
      BY <2>1, Held DEF None
    <3> QED BY <2>1, <3>1 DEF Entries
  <2> QED BY <1>4, <1>5, <2>2, <2>3 DEF Updated, TypeOK
<1>6. CASE Stored(w)
  <2>1. [sk |-> Beat(w).ts, fp |-> Beat(w).fp, lastTs |-> Beat(w).ts] \in Entries
    BY <1>1 DEF Entries, Readings
  <2>2. heap' \in Seq(Entries) /\ Len(heap') = Len(heap) + 1 /\ Len(heap) \in Nat
    BY <1>6, <2>1 DEF Stored, TypeOK
  <2>3. cache' \in 0 .. Len(heap')
    BY <1>6, <2>2 DEF Stored
  <2> QED BY <1>1, <1>4, <1>6, <2>2, <2>3 DEF Stored, TypeOK
<1> QED BY <1>2, <1>3, <1>5, <1>6

LEMMA TypeFails ==
  ASSUME TypeOK, NEW w \in Writes, Writes = {w},
         \/ FailWrite(w) \/ FailQuery(w) \/ LoseReply(w)
         \/ Restart \/ Tick \/ (\E k \in Keys : Purge(k)) \/ UNCHANGED vars
  PROVE  TypeOK'
<1> write \in [Writes -> States]
  BY DEF TypeOK
<1>1. Idle \in States
  BY DEF States, Idle, None
<1>2. \A b \in [fault : 0 .. MaxFaults, lost : 0 .. MaxLost] :
        /\ b.fault > 0 => [b EXCEPT !.fault = @ - 1] \in [fault : 0 .. MaxFaults, lost : 0 .. MaxLost]
        /\ b.lost > 0 => [b EXCEPT !.lost = @ - 1] \in [fault : 0 .. MaxFaults, lost : 0 .. MaxLost]
  BY ArchiveAssumption
<1>3. CASE FailWrite(w) \/ LoseReply(w)
  <2>1. write' \in [Writes -> States] /\ write'[w].pc = "idle"
    <3>1. write' = [write EXCEPT ![w] = Idle] /\ Idle.pc = "idle"
      BY <1>3 DEF FailWrite, LoseReply, Idle
    <3> QED BY <1>1, <3>1
  <2>2. left' \in [fault : 0 .. MaxFaults, lost : 0 .. MaxLost]
    BY <1>2, <1>3 DEF FailWrite, LoseReply, TypeOK
  <2> QED BY <1>3, <2>1, <2>2 DEF FailWrite, LoseReply, TypeOK
<1>4. CASE FailQuery(w)
  <2>1. heap \in Seq(Entries) /\ None \in 0 .. Len(heap)
    BY DEF TypeOK, None
  <2>2. /\ write' \in [Writes -> States] /\ write'[w].beat = write[w].beat
        /\ write'[w].pc = "put"
    BY <1>4, <2>1, Decides DEF FailQuery
  <2>3. left' \in [fault : 0 .. MaxFaults, lost : 0 .. MaxLost]
    BY <1>2, <1>4 DEF FailQuery, TypeOK
  <2> QED BY <1>4, <2>2, <2>3 DEF FailQuery, TypeOK
<1>5. CASE Restart
  <2>1. heap' \in Seq(Entries) /\ Len(heap') = 0 /\ cache' = 0
    BY <1>5 DEF Restart, None
  <2> QED BY <1>1, <1>5, <2>1 DEF Restart, TypeOK, Idle
<1>6. CASE Tick
  BY <1>6 DEF Tick, TypeOK
<1>7. ASSUME NEW k \in Keys, Purge(k)
      PROVE  TypeOK'
  <2>1. DOMAIN table' \subseteq Nat /\ table' \in [DOMAIN table' -> Items]
    BY <1>7 DEF Purge, TypeOK
  <2> QED BY <1>7, <2>1 DEF Purge, TypeOK
<1>8. CASE UNCHANGED vars
  BY <1>8 DEF vars, TypeOK
<1> QED BY <1>3, <1>4, <1>5, <1>6, <1>7, <1>8

LEMMA TypeStep == OneWrite /\ TypeOK /\ [Next]_vars => TypeOK'
<1> SUFFICES ASSUME OneWrite, TypeOK, [Next]_vars PROVE TypeOK'
  OBVIOUS
<1>1. PICK w : Writes = {w}
  BY DEF OneWrite
<1> QED BY <1>1, TypeBegins, TypeEffect, TypeFails DEF Next

-----------------------------------------------------------------------------
(* What was stored is covered, and runs have no gap                        *)

LEMMA ArchiveInitial == Init => ArchiveInv
<1> SUFFICES ASSUME Init PROVE ArchiveInv
  OBVIOUS
<1>1. DOMAIN table = {} /\ DOMAIN stored = {} /\ DOMAIN beats = {} /\ cache = None
  BY DEF Init
<1>2. \A w \in Writes : write[w].pc = "idle"
  BY DEF Init, Idle
<1>3. Readable = {}
  BY <1>1 DEF Readable
<1> QED
  BY TypeInitial, <1>1, <1>2, <1>3
     DEF ArchiveInv, BeatsInOrder, ItemsSound, WriteIsLast, WriteSound, RunsHaveNoGap

\* Where the table, the heartbeats and the time stay as they are, only the
\* entries have to be looked at.
LEMMA QuietStep ==
  ASSUME ArchiveInv, TypeOK', NEW w \in Writes, Writes = {w},
         UNCHANGED <<now, beats, table, stored>>,
         \/ write'[w].pc = "idle"
         \/ /\ write[w].pc \in Before /\ write'[w].pc \in Before
            /\ write'[w].beat = write[w].beat
  PROVE  /\ BeatsInOrder' /\ ItemsSound' /\ WriteIsLast(w)' /\ RunsHaveNoGap'
         /\ \A n \in DOMAIN stored' : Covered(n)'
         /\ \A e \in Entries : Sound(e) <=> Sound(e)'
<1>1. BeatsInOrder'
  BY DEF ArchiveInv, BeatsInOrder
<1>2. ItemsSound'
  BY DEF ArchiveInv, ItemsSound, Live
<1>3. WriteIsLast(w)'
  BY DEF ArchiveInv, WriteIsLast, Beat, Before
<1>4. RunsHaveNoGap'
  BY DEF ArchiveInv, RunsHaveNoGap, Readable
<1>5. \A n \in DOMAIN stored' : Covered(n)'
  BY DEF ArchiveInv, Covered, Live
<1>6. \A e \in Entries : Sound(e) <=> Sound(e)'
  BY DEF Sound, Live
<1> QED BY <1>1, <1>2, <1>3, <1>4, <1>5, <1>6

\* The write reaches its first request, or asks for the newest item, or
\* takes it for its entry.
LEMMA BeginsStep ==
  ASSUME ArchiveInv, TypeOK', NEW w \in Writes, Writes = {w},
         Begin(w) \/ Query(w) \/ Seed(w)
  PROVE  ArchiveInv'
<1>1. TypeOK /\ (cache # None => heap[cache] \in Entries /\ Sound(heap[cache]))
  BY Held DEF ArchiveInv
<1>1a. write[w].pc # "idle" /\ cache # None => heap[cache].lastTs < Beat(w).ts
  BY DEF ArchiveInv, WriteSound
<1>1b. heap \in Seq(Entries) /\ cache \in 0 .. Len(heap) /\ None \in 0 .. Len(heap)
       /\ write[w] \in States
  BY <1>1, Held DEF TypeOK, None
<1>2. CASE Begin(w) /\ cache # None
  <2>1. write[w].pc = "xadd" /\ Decide(w, heap, cache) /\ UNCHANGED <<now, beats, table, heap, cache, stored>>
    BY <1>2 DEF Begin
  <2>2. /\ write'[w].beat = write[w].beat /\ write'[w].pc \in {"update", "put"}
        /\ write'[w].pc = "update" => /\ heap[cache].fp = Beat(w).fp
                                      /\ Beat(w).ts - heap[cache].lastTs <= Gap
    BY SMTT(30), <1>1, <2>1, Decides DEF TypeOK
  <2>3. WriteSound(w)'
    BY <1>1a, <2>1, <2>2 DEF WriteSound, Beat
  <2>4. Sound(heap[cache])'
    BY <1>1, <1>2, <2>1 DEF Sound, Live
  <2> QED BY <2>1, <2>2, <2>3, <2>4, QuietStep DEF ArchiveInv, Before
<1>3. CASE Begin(w) /\ cache = None
  <2>1. /\ write[w].pc = "xadd" /\ write' = [write EXCEPT ![w].pc = "query"]
        /\ UNCHANGED <<now, beats, table, heap, cache, stored>>
    BY <1>3 DEF Begin
  <2>2. write'[w].beat = write[w].beat /\ write'[w].pc = "query"
    BY <1>1, <2>1 DEF TypeOK, States
  <2>3. WriteSound(w)'
    BY <1>3, <2>1, <2>2 DEF WriteSound
  <2> QED BY <1>3, <2>1, <2>2, <2>3, QuietStep DEF ArchiveInv, Before
<1>4. CASE Query(w)
  <2> DEFINE items == {[sk |-> k, fp |-> table[k].fp, lastTs |-> table[k].lastTs] : k \in Newest(Keys)}
  <2>1. /\ write[w].pc = "query" /\ write' = [write EXCEPT ![w].pc = "seed", ![w].found = items]
        /\ UNCHANGED <<now, beats, table, heap, cache, stored>>
    BY <1>4 DEF Query
  <2>2. \A e \in items : Sound(e) /\ e.lastTs < Beat(w).ts
    <3> SUFFICES ASSUME NEW k \in Keys
                 PROVE  LET e == [sk |-> k, fp |-> table[k].fp, lastTs |-> table[k].lastTs]
                        IN  Sound(e) /\ e.lastTs < Beat(w).ts
      BY DEF Newest
    <3>1. table[k].lastTs \in Nat
      BY <1>1 DEF TypeOK, Items
    <3>2. k <= table[k].lastTs /\ table[k].lastTs <= now
      BY DEF ArchiveInv, ItemsSound
    <3>3. table[k].lastTs < Beat(w).ts
      BY <2>1 DEF ArchiveInv, WriteIsLast, Before
    <3> QED BY <3>1, <3>2, <3>3 DEF Sound
  <2> HIDE DEF items
  <2>3. write'[w].beat = write[w].beat /\ write'[w].pc = "seed" /\ write'[w].found = items
    BY <1>1, <2>1 DEF TypeOK, States
  <2>4. WriteSound(w)'
    <3>1. Beat(w)' = Beat(w)
      BY <2>1, <2>3 DEF Beat
    <3>2. \A e \in items : Sound(e)' /\ e.lastTs < Beat(w).ts
      BY <2>1, <2>2 DEF Sound, Live
    <3> QED BY <1>1a, <2>1, <2>3, <3>1, <3>2 DEF WriteSound
  <2>5. cache # None => Sound(heap[cache])'
    BY <1>1, <2>1 DEF Sound, Live
  <2> QED BY <2>1, <2>3, <2>4, <2>5, QuietStep DEF ArchiveInv, Before
<1>5. CASE Seed(w) /\ Decide(w, heap, None) /\ UNCHANGED <<heap, cache>>
  <2>1. write[w].pc = "seed" /\ UNCHANGED <<now, beats, table, heap, cache, stored>>
    BY <1>5 DEF Seed
  <2>2. write'[w].beat = write[w].beat /\ write'[w].pc = "put"
    BY <1>1, <1>1b, <1>5, <2>1, Decides
  <2>3. WriteSound(w)'
    BY <1>1a, <2>1, <2>2 DEF WriteSound, Beat
  <2>4. cache # None => Sound(heap[cache])'
    BY <1>1, <2>1 DEF Sound, Live
  <2> QED BY <2>1, <2>2, <2>3, <2>4, QuietStep DEF ArchiveInv, Before
<1>6. ASSUME Seed(w), NEW entry \in write[w].found, heap' = Append(heap, entry),
             cache' = Len(heap) + 1, Decide(w, heap', cache')
      PROVE  ArchiveInv'
  <2>1. write[w].pc = "seed" /\ UNCHANGED <<now, beats, table, stored>>
    BY <1>6 DEF Seed
  <2>2. entry \in Entries /\ Sound(entry) /\ entry.lastTs < Beat(w).ts
    BY <1>1b, <2>1 DEF ArchiveInv, WriteSound, States
  <2>3. heap' \in Seq(Entries) /\ cache' \in 0 .. Len(heap') /\ heap'[cache'] = entry
    BY <1>1b, <1>6, <2>2
  <2>4. /\ write'[w].beat = write[w].beat /\ write'[w].pc \in {"update", "put"}
        /\ write'[w].pc = "update" => /\ entry.fp = Beat(w).fp
                                      /\ Beat(w).ts - entry.lastTs <= Gap
    <3>1. write[w].pc # "idle"
      BY <2>1
    <3>2. /\ write'[w].beat = write[w].beat /\ write'[w].pc \in {"update", "put"}
          /\ write'[w].pc = "update" => /\ heap'[cache'].fp = Beat(w).fp
                                        /\ Beat(w).ts - heap'[cache'].lastTs <= Gap
      <4>1. TypeOK /\ heap' \in Seq(Entries) /\ cache' \in 0 .. Len(heap')
            /\ Decide(w, heap', cache')
        BY <1>1, <1>6, <2>3
      <4> QED BY <3>1, <4>1, Decides
    <3> QED BY <2>3, <3>2
  <2>5. WriteSound(w)'
    BY <2>1, <2>2, <2>3, <2>4 DEF WriteSound, Beat
  <2>6. Sound(heap[cache])'
    BY <2>1, <2>2, <2>3 DEF Sound, Live
  <2> QED BY <2>1, <2>4, <2>5, <2>6, QuietStep DEF ArchiveInv, Before
<1> QED BY <1>2, <1>3, <1>4, <1>5, <1>6 DEF Seed

\* A write that fails, a reply that is lost, a process that ends.
LEMMA BreaksStep ==
  ASSUME ArchiveInv, TypeOK', NEW w \in Writes, Writes = {w},
         FailWrite(w) \/ FailQuery(w) \/ LoseReply(w) \/ Restart
  PROVE  ArchiveInv'
<1>1. TypeOK /\ (cache # None => heap[cache] \in Entries /\ Sound(heap[cache]))
  BY Held DEF ArchiveInv
<1>1a. write[w].pc # "idle" /\ cache # None => heap[cache].lastTs < Beat(w).ts
  BY DEF ArchiveInv, WriteSound
<1>1b. heap \in Seq(Entries) /\ cache \in 0 .. Len(heap) /\ None \in 0 .. Len(heap)
       /\ write[w] \in States
  BY <1>1, Held DEF TypeOK, None
<1>2. CASE FailWrite(w) \/ LoseReply(w)
  <2>1. write'[w].pc = "idle" /\ UNCHANGED <<now, beats, table, heap, cache, stored>>
    BY <1>1, <1>2 DEF FailWrite, LoseReply, TypeOK, Idle
  <2>2. WriteSound(w)'
    BY <2>1 DEF WriteSound
  <2>3. cache # None => Sound(heap[cache])'
    BY <1>1, <2>1 DEF Sound, Live
  <2> QED BY <2>1, <2>2, <2>3, QuietStep DEF ArchiveInv
<1>3. CASE FailQuery(w)
  <2>1. /\ write[w].pc \in {"query", "seed"} /\ Decide(w, heap, None)
        /\ UNCHANGED <<now, beats, table, heap, cache, stored>>
    BY <1>3 DEF FailQuery
  <2>2. write'[w].beat = write[w].beat /\ write'[w].pc = "put"
    BY <1>1, <1>1b, <2>1, Decides
  <2>3. WriteSound(w)'
    BY <1>1a, <2>1, <2>2 DEF WriteSound, Beat
  <2>4. cache # None => Sound(heap[cache])'
    BY <1>1, <2>1 DEF Sound, Live
  <2> QED BY <2>1, <2>2, <2>3, <2>4, QuietStep DEF ArchiveInv, Before
<1>4. CASE Restart
  <2>1. write'[w].pc = "idle" /\ cache' = None /\ UNCHANGED <<now, beats, table, stored>>
    BY <1>4 DEF Restart, Idle
  <2>2. WriteSound(w)'
    BY <2>1 DEF WriteSound
  <2> QED BY <2>1, <2>2, QuietStep DEF ArchiveInv
<1> QED BY <1>2, <1>3, <1>4

\* Time passes, and items that have expired may be deleted.
LEMMA FadesStep ==
  ASSUME ArchiveInv, TypeOK', NEW w \in Writes, Writes = {w},
         UNCHANGED <<beats, heap, cache, write, stored>>, now <= now',
         Keys' \subseteq Keys, \A k \in Keys' : table'[k] = table[k],
         \A k \in Keys \ Keys' : ~Live(k)
  PROVE  ArchiveInv'
<1>1. TypeOK /\ now \in Nat /\ now' \in Nat /\ Retention \in Nat
  BY ArchiveAssumption DEF ArchiveInv, TypeOK
<1>2. \A k \in Nat : Live(k)' => Live(k)
  BY <1>1 DEF Live
<1>3. \A e \in Entries : Sound(e) => Sound(e)'
  BY <1>1, <1>2 DEF Sound, Entries
<1>4. BeatsInOrder'
  <2>1. \A n \in DOMAIN beats : beats[n].ts \in Nat
    BY <1>1, Held
  <2> QED BY <1>1, <2>1 DEF ArchiveInv, BeatsInOrder
<1>5. ItemsSound'
  <2> SUFFICES ASSUME NEW k \in Keys'
               PROVE  /\ k <= table'[k].lastTs /\ table'[k].lastTs <= now'
                      /\ table'[k].ttl = k + Retention \/ (table'[k].ttl = NoTtl /\ ~Live(k)')
                      /\ Live(k)' => \E n \in DOMAIN beats' : /\ beats'[n].ts = table'[k].lastTs
                                                              /\ beats'[n].fp = table'[k].fp
    BY DEF ItemsSound
  <2>1. k \in Keys /\ table'[k] = table[k] /\ k \in Nat /\ table[k] \in Items
    BY <1>1 DEF TypeOK
  <2>2. /\ k <= table[k].lastTs /\ table[k].lastTs <= now
        /\ table[k].ttl = k + Retention \/ (table[k].ttl = NoTtl /\ ~Live(k))
        /\ Live(k) => \E n \in DOMAIN beats : beats[n].ts = table[k].lastTs /\ beats[n].fp = table[k].fp
    BY <2>1 DEF ArchiveInv, ItemsSound
  <2>3. table[k].lastTs <= now'
    BY <1>1, <2>1, <2>2 DEF Items
  <2> QED BY <1>2, <2>1, <2>2, <2>3
<1>6. WriteIsLast(w)'
  BY DEF ArchiveInv, WriteIsLast, Beat
<1>7. WriteSound(w)'
  <2>1. write[w] \in States
    BY <1>1 DEF TypeOK
  <2>2. write[w].pc = "seed" => \A e \in write[w].found : Sound(e)'
    BY <1>3, <2>1 DEF ArchiveInv, WriteSound, States
  <2>3. ASSUME write[w].pc = "updated", Live(heap[cache].sk)'
        PROVE  table'[heap[cache].sk].lastTs = Beat(w).ts
    <3>1. heap[cache] \in Entries /\ cache # None
      BY <1>1, <2>3 DEF TypeOK, None
    <3>2. Sound(heap[cache])'
      BY <1>3, <3>1 DEF ArchiveInv
    <3>3. Live(heap[cache].sk) /\ heap[cache].sk \in Keys'
      BY <1>2, <2>3, <3>1, <3>2 DEF Sound, Entries
    <3> QED BY <2>3, <3>3 DEF ArchiveInv, WriteSound
  <2>4. ASSUME write[w].pc = "stored"
        PROVE  Sound([sk |-> Beat(w).ts, fp |-> Beat(w).fp, lastTs |-> Beat(w).ts])'
    <3>1. [sk |-> Beat(w).ts, fp |-> Beat(w).fp, lastTs |-> Beat(w).ts] \in Entries
      <4>1. Beat(w) \in [ts : Nat, fp : Fingerprints]
        BY <1>1, <2>4, Held
      <4> QED BY <4>1 DEF Entries, Readings
    <3>2. Beat(w)' = Beat(w)
      BY DEF Beat
    <3>3. PICK e \in Entries : e = [sk |-> Beat(w).ts, fp |-> Beat(w).fp, lastTs |-> Beat(w).ts]
      BY <3>1
    <3>4. Sound(e)'
      BY <1>3, <2>4, <3>3 DEF ArchiveInv, WriteSound
    <3> QED BY <3>2, <3>3, <3>4
  <2> QED BY <2>2, <2>3, <2>4 DEF ArchiveInv, WriteSound, Beat
<1>8. cache' # None => Sound(heap[cache])'
  <2>1. cache # None => heap[cache] \in Entries /\ Sound(heap[cache])
    BY <1>1 DEF ArchiveInv, TypeOK, None
  <2> QED BY <1>3, <2>1
<1>9. \A n \in DOMAIN stored' : Covered(n)'
  <2>1. \A n \in DOMAIN stored : stored[n] \in Nat /\ Covered(n)
    BY <1>1 DEF ArchiveInv, TypeOK
  <2> QED BY <1>2, <2>1 DEF Covered
<1>10. RunsHaveNoGap'
  <2>1. \A k \in Readable' : k \in Readable /\ table'[k] = table[k]
    BY <1>1 DEF Readable, TypeOK, Items
  <2> QED BY <2>1 DEF ArchiveInv, RunsHaveNoGap
<1> QED BY <1>4, <1>5, <1>6, <1>7, <1>8, <1>9, <1>10 DEF ArchiveInv

LEMMA TimeStep ==
  ASSUME ArchiveInv, TypeOK', NEW w \in Writes, Writes = {w},
         Tick \/ (\E k \in Keys : Purge(k)) \/ UNCHANGED vars
  PROVE  ArchiveInv'
<1>1. now \in Nat
  BY DEF ArchiveInv, TypeOK
<1>2. CASE Tick \/ UNCHANGED vars
  BY <1>1, <1>2, FadesStep DEF Tick, vars
<1>3. ASSUME NEW k \in Keys, Purge(k)
      PROVE  ArchiveInv'
  <2>1. ~Live(k)
    BY <1>3, PurgedIsDead
  <2> QED BY <1>1, <1>3, <2>1, FadesStep DEF Purge
<1> QED BY <1>2, <1>3

\* A heartbeat arrives: it is newer than everything stored.
LEMMA ArriveStep ==
  ASSUME ArchiveInv, TypeOK', NEW w \in Writes, Writes = {w},
         NEW fp \in Fingerprints, Arrive(w, fp)
  PROVE  ArchiveInv'
<1>1. /\ TypeOK /\ now \in Nat /\ now' = now + 1 /\ beats \in Seq([ts : Nat, fp : Fingerprints])
      /\ beats' = Append(beats, [ts |-> now + 1, fp |-> fp])
      /\ UNCHANGED <<table, heap, cache, stored, left>>
      /\ DOMAIN stored \subseteq DOMAIN beats
  BY DEF ArchiveInv, TypeOK, Arrive
<1>2. /\ DOMAIN beats = 1 .. Len(beats) /\ Len(beats) \in Nat
      /\ DOMAIN beats' = 1 .. Len(beats) + 1 /\ beats'[Len(beats) + 1].ts = now + 1
      /\ \A n \in DOMAIN beats : beats'[n] = beats[n] /\ beats[n].ts \in Nat
  BY <1>1, Held
<1>3. write'[w].pc = "xadd" /\ write'[w].beat = Len(beats) + 1
  <2>1. write' = [write EXCEPT ![w] = [Idle EXCEPT !.pc = "xadd", !.beat = Len(beats) + 1]]
    BY DEF Arrive
  <2>2. write \in [Writes -> States]
    BY <1>1 DEF TypeOK
  <2> QED BY <2>1, <2>2 DEF Idle
<1>4. Beat(w)' = beats'[Len(beats) + 1]
  BY <1>3 DEF Beat
<1>5. \A k \in Nat : Live(k)' => Live(k)
  BY <1>1, Held DEF Live
<1>6. \A e \in Entries : Sound(e) => Sound(e)'
  BY <1>1, <1>5 DEF Sound, Entries
<1>7. BeatsInOrder'
  BY <1>1, <1>2 DEF ArchiveInv, BeatsInOrder
<1>8. \A k \in Keys : k \in Nat /\ table[k].lastTs \in Nat /\ table[k].lastTs <= now
  BY <1>1 DEF ArchiveInv, ItemsSound, TypeOK, Items
<1>9. ItemsSound'
  <2> SUFFICES ASSUME NEW k \in Keys
               PROVE  /\ k <= table[k].lastTs /\ table[k].lastTs <= now'
                      /\ table[k].ttl = k + Retention \/ (table[k].ttl = NoTtl /\ ~Live(k)')
                      /\ Live(k)' => \E n \in DOMAIN beats' : /\ beats'[n].ts = table[k].lastTs
                                                              /\ beats'[n].fp = table[k].fp
    BY <1>1 DEF ItemsSound
  <2>1. /\ k <= table[k].lastTs
        /\ table[k].ttl = k + Retention \/ (table[k].ttl = NoTtl /\ ~Live(k))
        /\ Live(k) => \E n \in DOMAIN beats : beats[n].ts = table[k].lastTs /\ beats[n].fp = table[k].fp
    BY DEF ArchiveInv, ItemsSound
  <2>2. \A n \in DOMAIN beats : n \in DOMAIN beats' /\ beats'[n] = beats[n]
    BY <1>2
  <2>3. table[k].lastTs <= now' /\ (Live(k)' => Live(k))
    BY <1>1, <1>5, <1>8
  <2> QED BY <2>1, <2>2, <2>3
<1>10. WriteIsLast(w)'
  <2>1. Len(beats') = Len(beats) + 1 /\ Len(beats) + 1 \notin DOMAIN stored
    BY <1>1, <1>2
  <2> QED BY <1>1, <1>2, <1>3, <1>4, <1>8, <2>1 DEF WriteIsLast
<1>11. cache # None => heap[cache] \in Entries /\ Sound(heap[cache])
  BY <1>1, Held DEF ArchiveInv
<1>12. WriteSound(w)'
  BY <1>1, <1>2, <1>3, <1>4, <1>11 DEF WriteSound, Sound, Entries
<1>13. cache' # None => Sound(heap[cache])'
  BY <1>1, <1>6, <1>11
<1>14. \A n \in DOMAIN stored' : Covered(n)'
  <2>1. \A n \in DOMAIN stored : stored[n] \in Nat /\ Covered(n)
    BY DEF ArchiveInv, TypeOK
  <2> QED BY <1>1, <1>2, <1>5, <2>1 DEF Covered
<1>15. RunsHaveNoGap'
  <2>1. \A k \in Readable' : k \in Readable
    BY <1>1 DEF Readable, TypeOK, Items
  <2> SUFFICES ASSUME NEW k \in Readable', NEW t \in k .. table'[k].lastTs
               PROVE  \E n \in DOMAIN beats' :
                        /\ beats'[n].fp = table'[k].fp
                        /\ beats'[n].ts >= k /\ beats'[n].ts \in t - Gap + 1 .. t
    BY DEF RunsHaveNoGap
  <2>2. PICK n \in DOMAIN beats : /\ beats[n].fp = table[k].fp
                                  /\ beats[n].ts >= k /\ beats[n].ts \in t - Gap + 1 .. t
    BY <1>1, <2>1 DEF ArchiveInv, RunsHaveNoGap
  <2>3. n \in DOMAIN beats' /\ beats'[n] = beats[n]
    BY <1>2
  <2> QED BY <1>1, <2>2, <2>3
<1> QED BY <1>7, <1>9, <1>10, <1>12, <1>13, <1>14, <1>15 DEF ArchiveInv

\* What the run of an item that queries show rests on
LEMMA ReadableIsLive ==
  ASSUME ArchiveInv
  PROVE  Readable = {k \in Keys : Live(k)} /\ now \in Nat /\ Retention \in Nat \ {0}
<1>1. now \in Nat /\ Retention \in Nat \ {0}
  BY ArchiveAssumption DEF ArchiveInv, TypeOK
<1>2. \A k \in Keys : /\ k \in Nat /\ table[k].ttl \in Nat
                      /\ table[k].ttl = k + Retention \/ (table[k].ttl = NoTtl /\ ~Live(k))
  BY DEF ArchiveInv, TypeOK, Items, ItemsSound
<1>3. \A k \in Keys : table[k].ttl > now <=> Live(k)
  BY <1>1, <1>2 DEF Live, NoTtl
<1> QED BY <1>1, <1>3 DEF Readable

\* The heartbeat of a write before its effect on the table
LEMMA HeldLast ==
  ASSUME ArchiveInv, NEW w \in Writes, write[w].pc # "idle"
  PROVE  /\ write[w].beat \in DOMAIN beats /\ write[w].beat \notin DOMAIN stored
         /\ beats[write[w].beat] = Beat(w)
         /\ Beat(w) \in [ts : Nat, fp : Fingerprints] /\ Beat(w).ts <= now
         /\ \A k \in Keys : table[k].lastTs <= Beat(w).ts
         /\ write[w].pc \in Before => \A k \in Keys : table[k].lastTs < Beat(w).ts
BY Held DEF ArchiveInv, WriteIsLast, BeatsInOrder, Beat

\* An update extends the run of the cached item to the heartbeat, if the item is there.
LEMMA UpdateTable ==
  ASSUME ArchiveInv, NEW w \in Writes, Update(w), NEW k, k = heap[cache].sk, NEW b, b = Beat(w)
  PROVE  /\ k \in Nat /\ b.ts \in Nat
         /\ DOMAIN table' = Keys \cup {k}
         /\ \A l \in Keys \ {k} : table'[l] = table[l]
         /\ table'[k].lastTs = b.ts
         /\ k \in Keys => /\ table'[k].fp = table[k].fp /\ table'[k].ttl = table[k].ttl
                          /\ table'[k].resumed = table[k].resumed
         /\ k \notin Keys => table'[k].ttl = NoTtl /\ ~Live(k)
<1>1. /\ TypeOK /\ write[w].pc = "update" /\ cache # None /\ write[w].entry = cache
      /\ table' = With(table, k, UpdateItem(k, b))
  BY DEF ArchiveInv, TypeOK, Update
<1>2. k \in Nat /\ b.ts \in Nat /\ (~(k \in Keys) => ~Live(k))
  BY <1>1, Held DEF ArchiveInv, Sound, Entries
<1>3. /\ DOMAIN table' = Keys \cup {k} /\ table'[k] = UpdateItem(k, b)
      /\ \A l \in Keys \ {k} : table'[l] = table[l]
  BY <1>1 DEF With
<1>4. CASE k \in Keys
  <2>1. table[k] \in Items
    BY <1>1, <1>4 DEF TypeOK
  <2>2. table'[k] = [table[k] EXCEPT !.lastTs = b.ts]
    BY <1>3, <1>4 DEF UpdateItem
  <2> QED BY <1>2, <1>3, <1>4, <2>1, <2>2 DEF Items
<1>5. CASE k \notin Keys
  <2>1. table'[k] = [fp |-> Unknown, lastTs |-> b.ts, ttl |-> NoTtl, resumed |-> FALSE]
    BY <1>3, <1>5 DEF UpdateItem
  <2>2. table'[k].lastTs = b.ts /\ table'[k].ttl = NoTtl
    BY <2>1
  <2> QED BY <1>2, <1>3, <1>5, <2>2
<1> QED BY <1>4, <1>5

LEMMA UpdateStep ==
  ASSUME ArchiveInv, TypeOK', NEW w \in Writes, Writes = {w}, Update(w)
  PROVE  ArchiveInv'
<1> DEFINE e == heap[cache]
           k == heap[cache].sk
           b == Beat(w)
<1>1. /\ TypeOK /\ write[w].pc = "update" /\ cache # None /\ write[w].entry = cache
      /\ UNCHANGED <<now, beats, heap, cache, stored, left>>
  BY DEF ArchiveInv, TypeOK, Update
<1>2. /\ e \in Entries /\ e.sk \in Nat /\ e.lastTs \in Nat /\ e.sk <= e.lastTs
      /\ e.fp = b.fp /\ b.ts - e.lastTs <= Gap /\ e.lastTs < b.ts /\ Sound(e)
      /\ Gap \in Nat
  BY <1>1, Held DEF ArchiveInv, WriteSound, Sound, Entries
<1>3. /\ b.ts \in Nat /\ b.ts <= now /\ now \in Nat
      /\ \A l \in Keys : table[l].lastTs < b.ts
      /\ write[w].beat \in DOMAIN beats /\ beats[write[w].beat] = b
      /\ write[w].beat = Len(beats) /\ write[w].beat \notin DOMAIN stored
  BY <1>1, HeldLast DEF ArchiveInv, TypeOK, Before, WriteIsLast
<1>4. Live(k) => k \in Keys /\ table[k].fp = b.fp /\ e.lastTs <= table[k].lastTs
  BY <1>2 DEF Sound
<1>5. /\ DOMAIN table' = Keys \cup {k}
      /\ \A l \in Keys \ {k} : table'[l] = table[l]
  BY UpdateTable
<1>6. /\ table'[k].lastTs = b.ts
      /\ k \in Keys => /\ table'[k].fp = table[k].fp /\ table'[k].ttl = table[k].ttl
                       /\ table'[k].resumed = table[k].resumed
      /\ k \notin Keys => table'[k].ttl = NoTtl /\ ~Live(k)
  BY UpdateTable
<1>7. write'[w].pc = "updated" /\ write'[w].beat = write[w].beat /\ Beat(w)' = b
  <2>1. write' = [write EXCEPT ![w].pc = "updated"] /\ write \in [Writes -> States]
        /\ write[w] \in States
    BY <1>1, Held DEF Update, TypeOK
  <2> QED BY <1>1, <2>1 DEF States, Beat
<1>8. \A l \in Nat : Live(l)' <=> Live(l)
  BY <1>1 DEF Live
<1> HIDE DEF e, k, b
<1>9. k = e.sk /\ heap'[cache'] = e /\ k \in Nat
  BY <1>1, <1>2 DEF e, k
<1>10. BeatsInOrder'
  BY <1>1 DEF ArchiveInv, BeatsInOrder
<1>11. ItemsSound'
  <2> SUFFICES ASSUME NEW l \in DOMAIN table'
               PROVE  /\ l <= table'[l].lastTs /\ table'[l].lastTs <= now
                      /\ table'[l].ttl = l + Retention \/ (table'[l].ttl = NoTtl /\ ~Live(l)')
                      /\ Live(l)' => \E n \in DOMAIN beats : /\ beats[n].ts = table'[l].lastTs
                                                             /\ beats[n].fp = table'[l].fp
    BY <1>1 DEF ItemsSound
  <2>0. l \in Nat
    BY DEF TypeOK
  <2>1. CASE l # k
    BY <1>5, <1>8, <2>0, <2>1 DEF ArchiveInv, ItemsSound
  <2>2. CASE l = k
    <3>1. l <= table'[l].lastTs /\ table'[l].lastTs <= now
      BY <1>2, <1>3, <1>6, <1>9, <2>2
    <3>2. table'[l].ttl = l + Retention \/ (table'[l].ttl = NoTtl /\ ~Live(l)')
      BY <1>6, <1>8, <1>9, <2>2 DEF ArchiveInv, ItemsSound
    <3>3. Live(l)' => beats[write[w].beat].ts = table'[l].lastTs /\ beats[write[w].beat].fp = table'[l].fp
      BY <1>3, <1>4, <1>6, <1>8, <1>9, <2>2
    <3> QED BY <1>3, <3>1, <3>2, <3>3
  <2> QED BY <2>1, <2>2
<1>12. WriteIsLast(w)'
  <2>1. \A l \in DOMAIN table' : table'[l].lastTs <= b.ts
    <3>1. \A l \in Keys : table[l].lastTs \in Nat
      BY <1>1 DEF TypeOK, Items
    <3> QED BY <1>3, <1>5, <1>6, <3>1
  <2> QED BY <1>1, <1>3, <1>7, <2>1 DEF WriteIsLast, Before
<1>13. Sound(heap[cache])'
  <2>1. PICK c \in Entries : c = e
    BY <1>2
  <2>2. Sound(c)'
    BY <1>1, <1>2, <1>3, <1>4, <1>5, <1>6, <1>8, <1>9, <2>1 DEF Sound
  <2> QED BY <1>9, <2>1, <2>2 DEF Sound, Live
<1>14. WriteSound(w)'
  BY <1>1, <1>2, <1>6, <1>7, <1>9 DEF WriteSound
<1>15. \A n \in DOMAIN stored' : Covered(n)'
  <2> SUFFICES ASSUME NEW n \in DOMAIN stored, Live(stored[n])
               PROVE  /\ stored[n] \in DOMAIN table' /\ table'[stored[n]].fp = beats[n].fp
                      /\ beats[n].ts \in stored[n] .. table'[stored[n]].lastTs
    <3>1. \A n \in DOMAIN stored : stored[n] \in Nat
      BY <1>1 DEF TypeOK
    <3> QED BY <1>1, <1>8, <3>1 DEF Covered
  <2>1. /\ stored[n] \in Keys /\ table[stored[n]].fp = beats[n].fp
        /\ beats[n].ts \in stored[n] .. table[stored[n]].lastTs
    BY DEF ArchiveInv, Covered
  <2>2. table[stored[n]].lastTs \in Nat /\ table[stored[n]].lastTs < b.ts
    BY <1>1, <1>3, <2>1 DEF TypeOK, Items
  <2>3. CASE stored[n] # k
    BY <1>5, <2>1, <2>3
  <2>4. CASE stored[n] = k
    BY <1>3, <1>5, <1>6, <2>1, <2>2, <2>4
  <2> QED BY <2>3, <2>4
<1>16. RunsHaveNoGap'
  <2> SUFFICES ASSUME NEW l \in Readable', NEW t \in l .. table'[l].lastTs
               PROVE  \E n \in DOMAIN beats : /\ beats[n].fp = table'[l].fp
                                              /\ beats[n].ts >= l /\ beats[n].ts \in t - Gap + 1 .. t
    BY <1>1 DEF RunsHaveNoGap
  <2>1. l \in DOMAIN table' /\ l \in Nat /\ table'[l].ttl > now
    BY <1>1 DEF Readable, TypeOK
  <2>2. l \in Keys /\ l \in Readable /\ Live(l)
    <3>1. l \in Keys /\ table'[l].ttl = table[l].ttl
      BY <1>3, <1>5, <1>6, <2>1 DEF NoTtl
    <3> QED BY <2>1, <3>1, ReadableIsLive DEF Readable
  <2>3. ASSUME t <= table[l].lastTs, table'[l].fp = table[l].fp
        PROVE  \E n \in DOMAIN beats : /\ beats[n].fp = table'[l].fp
                                       /\ beats[n].ts >= l /\ beats[n].ts \in t - Gap + 1 .. t
    <3>1. table[l].lastTs \in Nat
      BY <1>1, <2>2 DEF TypeOK, Items
    <3>2. t \in l .. table[l].lastTs
      BY <2>1, <2>3, <3>1
    <3> QED BY <2>2, <2>3, <3>2 DEF ArchiveInv, RunsHaveNoGap
  <2>4. CASE l # k
    <3>1. table'[l] = table[l] /\ table[l].lastTs \in Nat
      BY <1>1, <1>5, <2>2, <2>4 DEF TypeOK, Items
    <3> QED BY <2>3, <3>1
  <2>5. CASE l = k
    <3>1. table'[l].fp = table[l].fp /\ table'[l].lastTs = b.ts /\ table[l].fp = b.fp
          /\ e.lastTs <= table[l].lastTs /\ table[l].lastTs \in Nat /\ l <= table[l].lastTs
      BY <1>1, <1>4, <1>6, <2>2, <2>5 DEF ArchiveInv, ItemsSound, TypeOK, Items
    <3>2. CASE t <= table[l].lastTs
      BY <2>3, <3>1, <3>2
    <3>3. CASE t = b.ts
      <4>1. beats[write[w].beat].ts >= l /\ beats[write[w].beat].ts \in t - Gap + 1 .. t
        <5>1. Gap >= 1 /\ e.sk \in Nat /\ e.lastTs \in Nat /\ b.ts >= e.sk
          BY <1>2, <1>3, ArchiveAssumption
        <5>2. l = e.sk /\ t = b.ts /\ b.ts \in Nat /\ Gap \in Nat
          BY <1>2, <1>3, <1>9, <2>5, <3>3
        <5>3. beats[write[w].beat].ts = b.ts
          BY <1>3
        <5> QED BY <5>1, <5>2, <5>3
      <4> QED BY <1>3, <3>1, <4>1
    <3>4. CASE t > table[l].lastTs /\ t # b.ts
      <4>1. PICK n \in DOMAIN beats : beats[n].ts = table[l].lastTs /\ beats[n].fp = table[l].fp
        BY <2>2 DEF ArchiveInv, ItemsSound
      <4>2. beats[n].ts >= l /\ beats[n].ts \in t - Gap + 1 .. t
        BY SMTT(30), <1>2, <1>3, <2>1, <3>1, <3>4, <4>1
      <4> QED BY <3>1, <4>1, <4>2
    <3> QED BY <1>2, <1>3, <2>1, <3>1, <3>2, <3>3, <3>4
  <2> QED BY <2>4, <2>5
<1> QED
  BY <1>9, <1>10, <1>11, <1>12, <1>13, <1>14, <1>15, <1>16 DEF ArchiveInv

LEMMA PutStep ==
  ASSUME ArchiveInv, TypeOK', NEW w \in Writes, Writes = {w}, Put(w)
  PROVE  ArchiveInv'
<1> DEFINE b == Beat(w)
           k == Beat(w).ts
<1>1. /\ TypeOK /\ write[w].pc = "put" /\ write \in [Writes -> States] /\ write[w] \in States
      /\ UNCHANGED <<now, beats, heap, cache, stored, left>>
  BY Held DEF ArchiveInv, TypeOK, Put
<1>2. /\ k \in Nat /\ k <= now /\ now \in Nat /\ b \in [ts : Nat, fp : Fingerprints]
      /\ \A l \in Keys : table[l].lastTs < k
      /\ write[w].beat \in DOMAIN beats /\ beats[write[w].beat] = b
      /\ write[w].beat = Len(beats) /\ write[w].beat \notin DOMAIN stored
  BY <1>1, HeldLast DEF ArchiveInv, TypeOK, Before, WriteIsLast
<1>3. \A l \in Keys : l \in Nat /\ table[l] \in Items /\ l <= table[l].lastTs
  BY <1>1 DEF ArchiveInv, ItemsSound, TypeOK
<1>4. k \notin Keys
  BY <1>2, <1>3 DEF Items
<1>5. /\ DOMAIN table' = Keys \cup {k}
      /\ \A l \in Keys : table'[l] = table[l]
      /\ table'[k] = [fp |-> b.fp, lastTs |-> k, ttl |-> k + Retention, resumed |-> write[w].resumed]
  BY <1>4 DEF Put, With
<1>6. write'[w].pc = "stored" /\ write'[w].beat = write[w].beat /\ Beat(w)' = b
  <2>1. write' = [write EXCEPT ![w].pc = "stored"]
    BY DEF Put
  <2> QED BY <1>1, <2>1 DEF States, Beat
<1>7. \A l \in Nat : Live(l)' <=> Live(l)
  BY <1>1 DEF Live
<1>7a. b.ts = k
  OBVIOUS
<1> HIDE DEF b, k
<1>8. BeatsInOrder'
  BY <1>1 DEF ArchiveInv, BeatsInOrder
<1>9. ItemsSound'
  <2> SUFFICES ASSUME NEW l \in DOMAIN table'
               PROVE  /\ l <= table'[l].lastTs /\ table'[l].lastTs <= now
                      /\ table'[l].ttl = l + Retention \/ (table'[l].ttl = NoTtl /\ ~Live(l)')
                      /\ Live(l)' => \E n \in DOMAIN beats : /\ beats[n].ts = table'[l].lastTs
                                                             /\ beats[n].fp = table'[l].fp
    BY <1>1 DEF ItemsSound
  <2>1. CASE l \in Keys
    BY <1>3, <1>5, <1>7, <2>1 DEF ArchiveInv, ItemsSound
  <2>2. CASE l = k
    BY <1>2, <1>5, <1>7a, <2>2
  <2> QED BY <1>5, <2>1, <2>2
<1>10. WriteIsLast(w)'
  <2>1. \A l \in DOMAIN table' : table'[l].lastTs <= k
    BY <1>2, <1>3, <1>5 DEF Items
  <2> QED BY <1>1, <1>2, <1>6, <1>7a, <2>1 DEF WriteIsLast, Before
<1>11. \A e \in Entries : Sound(e) => Sound(e)'
  BY <1>1, <1>5, <1>7 DEF Sound, Entries
<1>12. cache # None => heap[cache] \in Entries /\ Sound(heap[cache]) /\ heap[cache].lastTs < k
  BY <1>1, <1>7a, Held DEF ArchiveInv, WriteSound, b
<1>13. Sound([sk |-> Beat(w).ts, fp |-> Beat(w).fp, lastTs |-> Beat(w).ts])'
  <2>1. PICK e \in Entries : e = [sk |-> k, fp |-> b.fp, lastTs |-> k]
    BY <1>2 DEF Entries, Readings
  <2>2. Sound(e)'
    BY <1>1, <1>2, <1>5, <2>1 DEF Sound
  <2> QED BY <1>6, <1>7a, <2>1, <2>2
<1>14. WriteSound(w)'
  BY <1>1, <1>6, <1>7a, <1>12, <1>13 DEF WriteSound
<1>15. cache' # None => Sound(heap[cache])'
  BY <1>1, <1>11, <1>12
<1>16. \A n \in DOMAIN stored' : Covered(n)'
  <2>1. \A n \in DOMAIN stored : stored[n] \in Nat /\ Covered(n)
    BY <1>1 DEF ArchiveInv, TypeOK
  <2> QED BY <1>1, <1>5, <1>7, <2>1 DEF Covered
<1>17. RunsHaveNoGap'
  <2> SUFFICES ASSUME NEW l \in Readable', NEW t \in l .. table'[l].lastTs
               PROVE  \E n \in DOMAIN beats : /\ beats[n].fp = table'[l].fp
                                              /\ beats[n].ts >= l /\ beats[n].ts \in t - Gap + 1 .. t
    BY <1>1 DEF RunsHaveNoGap
  <2>1. CASE l \in Keys
    <3>1. l \in Readable /\ table'[l] = table[l]
      BY <1>1, <1>5, <2>1 DEF Readable
    <3> QED BY <3>1 DEF ArchiveInv, RunsHaveNoGap
  <2>2. CASE l = k
    <3>1. t = k /\ table'[l].fp = b.fp
      BY <1>2, <1>5, <2>2
    <3>2. beats[write[w].beat].ts \in t - Gap + 1 .. t
      BY <1>2, <1>7a, <3>1, ArchiveAssumption
    <3> QED BY <1>2, <1>7a, <2>2, <3>1, <3>2
  <2> QED BY <1>5, <2>1, <2>2 DEF Readable
<1> QED
  BY <1>8, <1>9, <1>10, <1>14, <1>15, <1>16, <1>17 DEF ArchiveInv

\* A write ends well: its heartbeat is in the item that is cached then.
LEMMA EndsStep ==
  ASSUME ArchiveInv, TypeOK', NEW w \in Writes, Writes = {w}, write[w].pc \in After,
         UNCHANGED <<now, beats, table>>, write'[w].pc = "idle",
         NEW e \in Entries, Sound(e), heap'[cache'] = e,
         e.fp = Beat(w).fp, e.lastTs = Beat(w).ts,
         stored' = With(stored, write[w].beat, e.sk)
  PROVE  ArchiveInv'
<1>1. TypeOK /\ write[w].pc # "idle" /\ e.sk \in Nat /\ e.lastTs \in Nat
  BY DEF ArchiveInv, After, Entries
<1>2. /\ write[w].beat \in DOMAIN beats /\ beats[write[w].beat] = Beat(w)
      /\ write[w].beat \notin DOMAIN stored
  BY <1>1, HeldLast
<1>3. /\ DOMAIN stored' = DOMAIN stored \cup {write[w].beat}
      /\ stored'[write[w].beat] = e.sk
      /\ \A n \in DOMAIN stored : stored'[n] = stored[n]
  BY <1>2 DEF With
<1>4. BeatsInOrder' /\ ItemsSound' /\ RunsHaveNoGap'
  BY DEF ArchiveInv, BeatsInOrder, ItemsSound, RunsHaveNoGap, Readable, Live
<1>5. WriteIsLast(w)' /\ WriteSound(w)'
  BY DEF WriteIsLast, WriteSound
<1>6. Sound(e)'
  BY DEF Sound, Live
<1>7. Sound(heap[cache])'
  BY <1>6 DEF Sound, Live
<1>8. \A n \in DOMAIN stored' : Covered(n)'
  <2>1. \A n \in DOMAIN stored : stored[n] \in Nat /\ Covered(n)
    BY <1>1 DEF ArchiveInv, TypeOK
  <2>2. \A n \in DOMAIN stored : Covered(n)'
    BY <1>3, <2>1 DEF Covered, Live
  <2>3. Live(e.sk) => /\ e.sk \in Keys /\ table[e.sk].fp = Beat(w).fp
                      /\ Beat(w).ts \in e.sk .. table[e.sk].lastTs
    <3>1. \A k \in Keys : table[k].lastTs \in Nat
      BY <1>1 DEF TypeOK, Items
    <3> QED BY <1>1, <3>1 DEF Sound
  <2>4. ASSUME NEW n \in DOMAIN stored', n = write[w].beat
        PROVE  Covered(n)'
    BY <1>2, <1>3, <2>3, <2>4 DEF Covered, Live
  <2> QED BY <1>3, <2>2, <2>4
<1> QED BY <1>4, <1>5, <1>7, <1>8 DEF ArchiveInv

LEMMA StoredStep ==
  ASSUME ArchiveInv, TypeOK', NEW w \in Writes, Writes = {w}, Updated(w) \/ Stored(w)
  PROVE  ArchiveInv'
<1>1. TypeOK /\ write \in [Writes -> States] /\ heap \in Seq(Entries)
  BY DEF ArchiveInv, TypeOK
<1>2. CASE Updated(w)
  <2>1. /\ write[w].pc = "updated" /\ cache # None /\ write[w].entry = cache
        /\ UNCHANGED <<now, beats, table, cache>> /\ cache \in DOMAIN heap
        /\ heap' = [heap EXCEPT ![cache].lastTs = Beat(w).ts]
        /\ write' = [write EXCEPT ![w] = Idle]
        /\ stored' = With(stored, write[w].beat, heap[cache].sk)
    BY <1>1, <1>2, Held DEF TypeOK, Updated, Finish
  <2>2. /\ heap[cache] \in Entries /\ Sound(heap[cache]) /\ heap[cache].fp = Beat(w).fp
        /\ heap[cache].lastTs < Beat(w).ts
        /\ Live(heap[cache].sk) => table[heap[cache].sk].lastTs = Beat(w).ts
    BY <1>1, <2>1, Held DEF ArchiveInv, WriteSound
  <2>3. Beat(w) \in [ts : Nat, fp : Fingerprints] /\ Beat(w).ts <= now
    BY <2>1, HeldLast
  <2>4. PICK e \in Entries : e = [heap[cache] EXCEPT !.lastTs = Beat(w).ts]
    BY <2>2, <2>3 DEF Entries
  <2>5. e.sk = heap[cache].sk /\ e.fp = heap[cache].fp /\ e.lastTs = Beat(w).ts
    BY <2>2, <2>4 DEF Entries
  <2>6. Sound(e)
    <3>1. heap[cache].sk \in Nat /\ heap[cache].lastTs \in Nat
      BY <2>2 DEF Entries
    <3> QED BY <2>2, <2>3, <2>5, <3>1 DEF Sound
  <2>7. heap'[cache'] = e
    BY <1>1, <2>1, <2>4
  <2>8. write'[w].pc = "idle" /\ write[w].pc \in After
    BY <1>1, <2>1 DEF Idle, After
  <2> QED BY <2>1, <2>2, <2>5, <2>6, <2>7, <2>8, EndsStep
<1>3. CASE Stored(w)
  <2>1. /\ write[w].pc = "stored" /\ UNCHANGED <<now, beats, table>>
        /\ heap' = Append(heap, [sk |-> Beat(w).ts, fp |-> Beat(w).fp, lastTs |-> Beat(w).ts])
        /\ cache' = Len(heap) + 1
        /\ write' = [write EXCEPT ![w] = Idle]
        /\ stored' = With(stored, write[w].beat, Beat(w).ts)
    BY <1>3 DEF Stored, Finish
  <2>2. Beat(w) \in [ts : Nat, fp : Fingerprints]
    BY <2>1, HeldLast
  <2>3. PICK e \in Entries : e = [sk |-> Beat(w).ts, fp |-> Beat(w).fp, lastTs |-> Beat(w).ts]
    BY <2>2 DEF Entries, Readings
  <2>4. Sound(e)
    BY <2>1, <2>3 DEF ArchiveInv, WriteSound
  <2>5. heap'[cache'] = e
    BY <1>1, <2>1, <2>3
  <2>6. write'[w].pc = "idle" /\ write[w].pc \in After
    BY <1>1, <2>1 DEF Idle, After
  <2> QED BY <2>1, <2>3, <2>4, <2>5, <2>6, EndsStep
<1> QED BY <1>2, <1>3

LEMMA ArchiveStep == OneWrite /\ ArchiveInv /\ [Next]_vars => ArchiveInv'
<1> SUFFICES ASSUME OneWrite, ArchiveInv, [Next]_vars PROVE ArchiveInv'
  OBVIOUS
<1>1. PICK w : Writes = {w}
  BY DEF OneWrite
<1>2. TypeOK'
  BY TypeStep DEF ArchiveInv
<1> QED
  BY <1>1, <1>2, BeginsStep, BreaksStep, TimeStep, ArriveStep, UpdateStep, PutStep, StoredStep
     DEF Next

LEMMA ArchiveInvariant == ASSUME OneWrite PROVE Spec => []ArchiveInv
<1>1. Init => ArchiveInv
  BY ArchiveInitial
<1>2. ArchiveInv /\ [Next]_vars => ArchiveInv'
  BY ArchiveStep
<1> QED BY <1>1, <1>2, PTL DEF Spec

\* The type invariant: a write that extends a run has the cached entry.
THEOREM ArchiveTypeCorrect == ASSUME OneWrite PROVE Spec => []TypeOK
<1>1. ArchiveInv => TypeOK
  BY DEF ArchiveInv
<1> QED BY <1>1, ArchiveInvariant, PTL

\* Compression loses no heartbeat: write (archiveStore.ts) covers it by the
\* item it was stored in until that expires.
THEOREM CoveredCorrect == ASSUME OneWrite PROVE Spec => []HeartbeatCovered
<1>1. ArchiveInv => HeartbeatCovered
  <2> SUFFICES ASSUME ArchiveInv, NEW n \in DOMAIN stored, now < stored[n] + Retention
               PROVE  /\ stored[n] \in Readable /\ table[stored[n]].fp = beats[n].fp
                      /\ beats[n].ts \in stored[n] .. table[stored[n]].lastTs
    <3>1. ArchiveInv => /\ now \in Nat /\ Retention \in Nat
                        /\ \A n \in DOMAIN stored : stored[n] \in Nat
      BY ReadableIsLive DEF ArchiveInv, TypeOK
    <3> QED BY <3>1 DEF HeartbeatCovered
  <2> QED BY ReadableIsLive DEF ArchiveInv, Covered, Live
<1> QED BY <1>1, ArchiveInvariant, PTL

-----------------------------------------------------------------------------
(* No silence is invented and values hold while DynamoDB's replies arrive  *)

LEMMA RepliesInitial == Init => RepliesInv
<1> SUFFICES ASSUME Init PROVE RepliesInv
  OBVIOUS
<1>1. DOMAIN table = {} /\ DOMAIN stored = {} /\ cache = None
  BY DEF Init
<1>2. \A w \in Writes : write[w].pc = "idle"
  BY DEF Init, Idle
<1>3. Readable = {}
  BY <1>1 DEF Readable
<1> QED
  BY <1>1, <1>2, <1>3 DEF RepliesInv, RunsApart, EntryFollows, GapsAreReal, WriteFollows

\* The numbers that are compared
LEMMA Numbers ==
  ASSUME ArchiveInv
  PROVE  /\ now \in Nat /\ Gap \in Nat /\ Retention \in Nat \ {0}
         /\ \A n \in DOMAIN stored : /\ stored[n] \in Nat /\ n \in DOMAIN beats
                                     /\ beats[n].ts \in Nat
         /\ \A k \in Keys : k \in Nat /\ table[k].lastTs \in Nat /\ k <= table[k].lastTs
<1>1. TypeOK
  BY DEF ArchiveInv
<1>2. \A n \in DOMAIN beats : beats[n].ts \in Nat
  <2>1. beats \in Seq([ts : Nat, fp : Fingerprints])
    BY <1>1 DEF TypeOK
  <2>2. DOMAIN beats = 1 .. Len(beats)
    BY <2>1
  <2>3. \A n \in DOMAIN beats : beats[n] \in [ts : Nat, fp : Fingerprints]
    BY <2>1, <2>2, ElementOfSeq
  <2> QED BY <2>3
<1> QED BY <1>1, <1>2, ArchiveAssumption DEF ArchiveInv, TypeOK, ItemsSound, Items

LEMMA RemembersMore ==
  ASSUME ArchiveInv, NEW s \in Int, NEW t \in Int, s <= t, Remembers(s)
  PROVE  Remembers(t)
BY Numbers DEF Remembers

LEMMA QuietFollows ==
  ASSUME ArchiveInv, RepliesInv, left.lost = MaxLost,
         UNCHANGED <<now, beats, table, stored>>
  PROVE  /\ RunsApart' /\ GapsAreReal'
         /\ \A s \in Int : Apart(s) => Apart(s)'
         /\ \A t \in Int : Remembers(t) => Remembers(t)'
<1>1. RunsApart'
  BY DEF RepliesInv, RunsApart
<1>2. GapsAreReal'
  BY DEF RepliesInv, GapsAreReal, Readable
<1> QED BY <1>1, <1>2 DEF Apart, Remembers, Live

\* The newest item, while the runs are apart
LEMMA NewestFollows ==
  ASSUME ArchiveInv, RepliesInv, left.lost = MaxLost, NEW k \in Newest(Keys)
  PROVE  Apart(k) /\ Remembers(table[k].lastTs)
<1>1. k \in Keys /\ \A l \in Keys : l <= k
  BY DEF Newest
<1>2. Apart(k)
  BY <1>1 DEF Apart, RepliesInv, RunsApart
<1>3. ASSUME NEW n \in DOMAIN stored, Live(stored[n])
      PROVE  beats[n].ts <= table[k].lastTs
  <2>1. stored[n] \in Keys /\ beats[n].ts <= table[stored[n]].lastTs
    BY <1>3, Numbers DEF ArchiveInv, Covered
  <2>2. CASE stored[n] = k
    BY <2>1, <2>2
  <2>3. CASE stored[n] # k
    <3>1. stored[n] < k
      BY <1>1, <2>1, <2>3, Numbers
    <3>2. table[stored[n]].lastTs < k
      BY <1>2, <2>1, <3>1 DEF Apart
    <3> QED BY <1>1, <2>1, <3>2, Numbers
  <2> QED BY <2>2, <2>3
<1> QED BY <1>2, <1>3 DEF Remembers

LEMMA BeginsFollows ==
  ASSUME ArchiveInv, RepliesInv, left.lost = MaxLost, NEW w \in Writes, Writes = {w},
         Begin(w) \/ Query(w) \/ Seed(w)
  PROVE  RepliesInv'
<1>1. /\ TypeOK /\ heap \in Seq(Entries) /\ cache \in 0 .. Len(heap) /\ None \in 0 .. Len(heap)
      /\ write \in [Writes -> States] /\ write[w] \in States
      /\ cache # None => heap[cache] \in Entries
  BY Shapes DEF ArchiveInv
<1>2. write[w].pc \in {"xadd", "query", "seed"} /\ UNCHANGED <<now, beats, table, stored>>
  BY DEF Begin, Query, Seed
<1>3. /\ RunsApart' /\ GapsAreReal'
      /\ \A s \in Int : Apart(s) => Apart(s)'
      /\ \A t \in Int : Remembers(t) => Remembers(t)'
  BY <1>2, QuietFollows
<1>4. cache # None => /\ Remembers(heap[cache].lastTs) /\ Apart(heap[cache].sk)
                      /\ heap[cache].lastTs \in Nat /\ heap[cache].sk \in Nat
  BY <1>1, <1>2 DEF RepliesInv, EntryFollows, Entries
<1>5. Beat(w).ts \in Nat
  BY <1>2, HeldLast
<1>6. ASSUME NEW objs \in Seq(Entries), NEW e \in 0 .. Len(objs), Decide(w, objs, e),
             e # None => Remembers(objs[e].lastTs)
      PROVE  write'[w].pc \in {"update", "put"} /\ WriteFollows(w)'
  <2>1. /\ write'[w].beat = write[w].beat /\ write'[w].pc \in {"update", "put"}
        /\ write'[w].pc = "put" /\ write'[w].resumed =>
             e # None /\ Beat(w).ts - objs[e].lastTs > Gap
    BY <1>1, <1>2, <1>6, Decides
  <2>2. e # None => objs[e].lastTs \in Nat
    <3>1. e # None => objs[e] \in Entries
      BY DEF None
    <3> QED BY <3>1 DEF Entries
  <2>3. write'[w].pc = "put" /\ write'[w].resumed => Remembers(Beat(w).ts - Gap - 1)
    BY <1>5, <1>6, <2>1, <2>2, RemembersMore, Numbers
  <2>4. Beat(w)' = Beat(w) /\ Beat(w).ts - Gap - 1 \in Int
    BY <1>2, <1>5, <2>1, Numbers DEF Beat
  <2>5. write'[w].pc = "put" /\ write'[w].resumed => Remembers(Beat(w).ts - Gap - 1)'
    BY <1>3, <2>3, <2>4 DEF Remembers, Live
  <2> QED BY <2>1, <2>5 DEF WriteFollows
<1>7. ASSUME UNCHANGED <<heap, cache>>, write'[w].pc # "stored"
      PROVE  EntryFollows'
  BY <1>3, <1>4, <1>7 DEF EntryFollows, Remembers, Apart, Live
<1>8. CASE Begin(w) /\ cache # None
  BY <1>1, <1>3, <1>4, <1>6, <1>7, <1>8 DEF Begin, RepliesInv
<1>9. CASE Begin(w) /\ cache = None
  <2>1. write'[w].pc = "query" /\ UNCHANGED <<heap, cache>>
    BY <1>1, <1>9 DEF Begin, States
  <2>2. WriteFollows(w)'
    BY <2>1 DEF WriteFollows
  <2> QED BY <1>3, <1>7, <2>1, <2>2 DEF RepliesInv
<1>10. CASE Query(w)
  <2> DEFINE items == {[sk |-> k, fp |-> table[k].fp, lastTs |-> table[k].lastTs] : k \in Newest(Keys)}
  <2>1. \A e \in items : Apart(e.sk) /\ Remembers(e.lastTs)
    BY NewestFollows
  <2>2. write' = [write EXCEPT ![w].pc = "seed", ![w].found = items] /\ UNCHANGED <<heap, cache>>
    BY <1>10 DEF Query
  <2> HIDE DEF items
  <2>3. write'[w].pc = "seed" /\ write'[w].found = items
    BY <1>1, <2>2 DEF States
  <2>4. \A e \in items : Apart(e.sk)' /\ Remembers(e.lastTs)'
    BY <1>2, <2>1 DEF Apart, Remembers, Live
  <2>5. WriteFollows(w)'
    BY <2>3, <2>4 DEF WriteFollows
  <2> QED BY <1>3, <1>7, <2>2, <2>3, <2>5 DEF RepliesInv
<1>11. CASE Seed(w) /\ Decide(w, heap, None) /\ UNCHANGED <<heap, cache>>
  BY <1>1, <1>3, <1>6, <1>7, <1>11 DEF RepliesInv
<1>12. ASSUME Seed(w), NEW entry \in write[w].found, heap' = Append(heap, entry),
              cache' = Len(heap) + 1, Decide(w, heap', cache')
       PROVE  RepliesInv'
  <2>1. write[w].pc = "seed"
    BY <1>12 DEF Seed
  <2>2. entry \in Entries /\ Apart(entry.sk) /\ Remembers(entry.lastTs)
    BY <1>1, <2>1 DEF RepliesInv, WriteFollows, States
  <2>3. heap' \in Seq(Entries) /\ cache' \in 0 .. Len(heap') /\ heap'[cache'] = entry
    BY <1>1, <1>12, <2>2
  <2>4. write'[w].pc \in {"update", "put"} /\ WriteFollows(w)'
    BY <1>6, <1>12, <2>2, <2>3
  <2>5. EntryFollows'
    BY <1>2, <2>2, <2>3 DEF EntryFollows, Apart, Remembers, Live
  <2> QED BY <1>3, <2>4, <2>5 DEF RepliesInv
<1> QED BY <1>8, <1>9, <1>10, <1>11, <1>12 DEF Seed

\* A lost reply is what the invariant is not about.
LEMMA BreaksFollows ==
  ASSUME ArchiveInv, RepliesInv, left.lost = MaxLost, left'.lost = MaxLost,
         NEW w \in Writes, Writes = {w},
         FailWrite(w) \/ FailQuery(w) \/ LoseReply(w) \/ Restart
  PROVE  RepliesInv'
<1>1. /\ TypeOK /\ heap \in Seq(Entries) /\ cache \in 0 .. Len(heap) /\ None \in 0 .. Len(heap)
      /\ write \in [Writes -> States] /\ write[w] \in States
      /\ cache # None => heap[cache] \in Entries
      /\ left \in [fault : 0 .. MaxFaults, lost : 0 .. MaxLost]
  BY Shapes DEF ArchiveInv
<1>2. ~LoseReply(w)
  <2>1. LoseReply(w) => left'.lost = left.lost - 1
    BY <1>1 DEF LoseReply
  <2> QED BY <1>1, <2>1, ArchiveAssumption
<1>3. UNCHANGED <<now, beats, table, stored>>
  BY <1>2 DEF FailWrite, FailQuery, Restart
<1>4. RunsApart' /\ GapsAreReal'
  BY <1>3, QuietFollows
<1>5. CASE FailWrite(w)
  <2>1. /\ write'[w].pc = "idle" /\ UNCHANGED <<heap, cache>>
        /\ write[w].pc # "stored"
    BY <1>1, <1>5 DEF FailWrite, Idle
  <2>2. WriteFollows(w)'
    BY <2>1 DEF WriteFollows
  <2>3. EntryFollows'
    BY <1>3, <2>1 DEF RepliesInv, EntryFollows, Remembers, Apart, Live
  <2> QED BY <1>4, <2>2, <2>3 DEF RepliesInv
<1>6. CASE FailQuery(w)
  <2>1. /\ write[w].pc \in {"query", "seed"} /\ Decide(w, heap, None)
        /\ UNCHANGED <<heap, cache>>
    BY <1>6 DEF FailQuery
  <2>2. write'[w].pc = "put" /\ ~write'[w].resumed
    <3>1. write[w].pc # "idle"
      BY <2>1
    <3>2. /\ write' \in [Writes -> States] /\ write'[w].pc = "put"
          /\ write'[w].resumed => None # None
      BY <1>1, <2>1, <3>1, Decides
    <3> QED BY <3>2
  <2>3. WriteFollows(w)'
    BY <2>2 DEF WriteFollows
  <2>4. EntryFollows'
    BY <1>3, <2>1, <2>2 DEF RepliesInv, EntryFollows, Remembers, Apart, Live
  <2> QED BY <1>4, <2>3, <2>4 DEF RepliesInv
<1>7. CASE Restart
  <2>1. write'[w].pc = "idle" /\ cache' = None
    BY <1>7 DEF Restart, Idle
  <2> QED BY <1>4, <2>1 DEF RepliesInv, WriteFollows, EntryFollows
<1> QED BY <1>2, <1>5, <1>6, <1>7

LEMMA FadesFollows ==
  ASSUME ArchiveInv, RepliesInv, left.lost = MaxLost, NEW w \in Writes, Writes = {w},
         UNCHANGED <<beats, heap, cache, write, stored>>, now' \in Nat, now <= now',
         Keys' \subseteq Keys, \A k \in Keys' : table'[k] = table[k]
  PROVE  RepliesInv'
<1>1. \A s \in Nat : Live(s)' => Live(s)
  BY Numbers DEF Live
<1>2. /\ \A s \in Int : Apart(s) => Apart(s)'
      /\ \A t \in Int : Remembers(t) => Remembers(t)'
  BY <1>1, Numbers DEF Apart, Remembers
<1>3. RunsApart'
  BY DEF RepliesInv, RunsApart
<1>4. GapsAreReal'
  <2>1. \A k \in Readable' : k \in Readable /\ table'[k] = table[k]
    BY Numbers DEF Readable, ArchiveInv, TypeOK, Items
  <2>2. \A n \in DOMAIN stored : now' < stored[n] + Retention => now < stored[n] + Retention
    BY Numbers
  <2> QED BY <2>1, <2>2 DEF RepliesInv, GapsAreReal
<1>5. TypeOK /\ write[w] \in States /\ (cache # None => heap[cache] \in Entries)
  BY Held DEF ArchiveInv
<1>6. EntryFollows'
  BY <1>2, <1>5 DEF RepliesInv, EntryFollows, Entries
<1>7. WriteFollows(w)'
  <2>1. write[w].pc = "seed" => \A e \in write[w].found : Apart(e.sk)' /\ Remembers(e.lastTs)'
    BY <1>2, <1>5 DEF RepliesInv, WriteFollows, States, Entries
  <2>2. write[w].pc # "idle" => Beat(w).ts \in Nat /\ Beat(w)' = Beat(w)
    BY HeldLast DEF Beat
  <2>3. write[w].pc = "put" /\ write[w].resumed => Remembers(Beat(w).ts - Gap - 1)'
    <3>1. ASSUME write[w].pc = "put", write[w].resumed
          PROVE  Remembers(Beat(w).ts - Gap - 1)'
      <4>1. PICK t \in Int : t = Beat(w).ts - Gap - 1
        BY <2>2, <3>1, Numbers
      <4>2. Remembers(t)'
        BY <1>2, <3>1, <4>1 DEF RepliesInv, WriteFollows
      <4> QED BY <2>2, <3>1, <4>1, <4>2 DEF Remembers
    <3> QED BY <3>1
  <2>4. write[w].pc = "stored" => Apart(Beat(w).ts)'
    <3>1. ASSUME write[w].pc = "stored"
          PROVE  Apart(Beat(w).ts)'
      <4>1. PICK t \in Int : t = Beat(w).ts
        BY <2>2, <3>1
      <4>2. Apart(t)'
        BY <1>2, <3>1, <4>1 DEF RepliesInv, WriteFollows
      <4> QED BY <2>2, <3>1, <4>1, <4>2 DEF Apart
    <3> QED BY <3>1
  <2> QED BY <2>1, <2>3, <2>4 DEF WriteFollows
<1> QED BY <1>3, <1>4, <1>6, <1>7 DEF RepliesInv

LEMMA ArriveFollows ==
  ASSUME ArchiveInv, RepliesInv, left.lost = MaxLost, NEW w \in Writes, Writes = {w},
         NEW fp \in Fingerprints, Arrive(w, fp)
  PROVE  RepliesInv'
<1>1. /\ TypeOK /\ UNCHANGED <<table, heap, cache, stored>> /\ now' = now + 1
      /\ beats \in Seq([ts : Nat, fp : Fingerprints])
      /\ beats' = Append(beats, [ts |-> now + 1, fp |-> fp]) /\ write[w].pc = "idle"
      /\ write' = [write EXCEPT ![w] = [Idle EXCEPT !.pc = "xadd", !.beat = Len(beats) + 1]]
      /\ write \in [Writes -> States]
  BY DEF ArchiveInv, TypeOK, Arrive
<1>2. \A n \in DOMAIN stored : beats'[n] = beats[n]
  BY <1>1, Numbers
<1>3. write'[w].pc = "xadd"
  BY <1>1 DEF Idle
<1>4. /\ \A s \in Int : Apart(s) => Apart(s)'
      /\ \A t \in Int : Remembers(t) => Remembers(t)'
  BY <1>1, <1>2, Numbers DEF Apart, Remembers, Live
<1>5. RunsApart'
  BY <1>1 DEF RepliesInv, RunsApart
<1>6. GapsAreReal'
  <2>1. \A k \in Readable' : k \in Readable
    BY <1>1, Numbers DEF Readable, TypeOK, Items
  <2>2. \A n \in DOMAIN stored : now' < stored[n] + Retention => now < stored[n] + Retention
    BY <1>1, Numbers
  <2> QED BY <1>1, <1>2, <2>1, <2>2 DEF RepliesInv, GapsAreReal
<1>7. EntryFollows'
  <2>1. cache # None => heap[cache].sk \in Int /\ heap[cache].lastTs \in Int
    BY <1>1, Held DEF Entries
  <2> QED BY <1>1, <1>4, <2>1 DEF RepliesInv, EntryFollows
<1> QED BY <1>3, <1>5, <1>6, <1>7 DEF RepliesInv, WriteFollows

LEMMA UpdateFollows ==
  ASSUME ArchiveInv, RepliesInv, left.lost = MaxLost, NEW w \in Writes, Writes = {w}, Update(w)
  PROVE  RepliesInv'
<1>1. /\ TypeOK /\ write[w].pc = "update" /\ cache # None
      /\ write \in [Writes -> States] /\ write' = [write EXCEPT ![w].pc = "updated"]
      /\ UNCHANGED <<now, beats, heap, cache, stored>>
  BY DEF ArchiveInv, TypeOK, Update
<1>2. PICK k \in Nat : k = heap[cache].sk
  BY <1>1, Held DEF Entries
<1>3. PICK b : b = Beat(w)
  OBVIOUS
<1>4. /\ b.ts \in Nat /\ DOMAIN table' = Keys \cup {k}
      /\ \A l \in Keys \ {k} : table'[l] = table[l]
      /\ k \in Keys => table'[k].ttl = table[k].ttl /\ table'[k].resumed = table[k].resumed
      /\ k \notin Keys => table'[k].ttl = NoTtl
  BY <1>2, <1>3, UpdateTable
<1>5. Apart(k) /\ Remembers(heap[cache].lastTs)
  BY <1>1, <1>2 DEF RepliesInv, EntryFollows
<1>6. write'[w].pc = "updated"
  BY <1>1, Held DEF States
<1>7. RunsApart'
  <2> SUFFICES ASSUME NEW l \in DOMAIN table', NEW m \in DOMAIN table', l < m
               PROVE  table'[l].lastTs < m
    BY DEF RunsApart
  <2>1. l \in Keys /\ l # k /\ l <= k /\ l \in Nat /\ m \in Nat
    <3>1. l \in Nat /\ m \in Nat /\ m <= k
      BY <1>4, <1>5, Numbers DEF Apart
    <3> QED BY <1>2, <1>4, <3>1
  <2>2. table'[l].lastTs = table[l].lastTs
    BY <1>4, <2>1
  <2>3. CASE m = k
    BY <1>5, <2>1, <2>2, <2>3 DEF Apart
  <2>4. CASE m # k
    BY <1>4, <2>1, <2>2, <2>4 DEF RepliesInv, RunsApart
  <2> QED BY <2>3, <2>4
<1>8. Apart(k)'
  BY <1>1, <1>4, <1>5 DEF Apart
<1>9. EntryFollows'
  BY <1>1, <1>2, <1>5, <1>8 DEF EntryFollows, Remembers, Apart, Live
<1>10. GapsAreReal'
  <2>1. \A l \in Readable' : l \in Readable /\ table'[l].resumed = table[l].resumed
    BY <1>1, <1>4, Numbers DEF Readable, NoTtl
  <2> QED BY <1>1, <2>1 DEF RepliesInv, GapsAreReal
<1> QED BY <1>6, <1>7, <1>9, <1>10 DEF RepliesInv, WriteFollows

LEMMA PutFollows ==
  ASSUME ArchiveInv, RepliesInv, left.lost = MaxLost, NEW w \in Writes, Writes = {w}, Put(w)
  PROVE  RepliesInv'
<1>1. /\ TypeOK /\ write[w].pc = "put"
      /\ write \in [Writes -> States] /\ write' = [write EXCEPT ![w].pc = "stored"]
      /\ UNCHANGED <<now, beats, heap, cache, stored>>
  BY DEF ArchiveInv, TypeOK, Put
<1>2. PICK k \in Nat : k = Beat(w).ts
  BY <1>1, HeldLast
<1>3. \A l \in Keys : l \in Nat /\ l < k /\ table[l].lastTs < k
  BY <1>1, <1>2, HeldLast, Numbers DEF Before
<1>4. /\ DOMAIN table' = Keys \cup {k} /\ k \notin Keys
      /\ \A l \in Keys : table'[l] = table[l]
      /\ table'[k].resumed = write[w].resumed
  <2>1. k \notin Keys
    BY <1>3
  <2> QED BY <1>2, <2>1 DEF Put, With
<1>5. write'[w].pc = "stored" /\ Beat(w)' = Beat(w)
  BY <1>1, Held DEF States, Beat
<1>6. RunsApart'
  BY <1>3, <1>4 DEF RepliesInv, RunsApart
<1>7. Apart(k)'
  BY <1>3, <1>4 DEF Apart
<1>8. WriteFollows(w)'
  BY <1>2, <1>5, <1>7 DEF WriteFollows, Apart
<1>9. EntryFollows'
  BY <1>1, <1>5 DEF RepliesInv, EntryFollows, Remembers, Live
<1>10. GapsAreReal'
  <2> SUFFICES ASSUME NEW l \in Readable', table'[l].resumed,
                      NEW n \in DOMAIN stored, now < stored[n] + Retention
               PROVE  beats[n].ts \notin l - Gap .. l - 1
    BY <1>1 DEF GapsAreReal
  <2>1. CASE l \in Keys
    <3>1. l \in Readable /\ table[l].resumed
      BY <1>1, <1>4, <2>1 DEF Readable
    <3> QED BY <3>1 DEF RepliesInv, GapsAreReal
  <2>2. CASE l = k
    <3>1. Remembers(k - Gap - 1)
      BY <1>1, <1>2, <1>4, <2>2 DEF RepliesInv, WriteFollows
    <3>2. beats[n].ts <= k - Gap - 1 /\ beats[n].ts \in Nat
      BY <3>1, Numbers DEF Remembers, Live
    <3> QED BY <2>2, <3>2, Numbers
  <2> QED BY <1>4, <2>1, <2>2 DEF Readable
<1> QED BY <1>6, <1>8, <1>9, <1>10 DEF RepliesInv

\* The heartbeat of a write that ended well is the newest one stored.
LEMMA EndsFollows ==
  ASSUME ArchiveInv, RepliesInv, left.lost = MaxLost, NEW w \in Writes, Writes = {w},
         write[w].pc \in After, UNCHANGED <<now, beats, table>>, write'[w].pc = "idle",
         NEW e \in Entries, heap'[cache'] = e, Apart(e.sk), e.lastTs = Beat(w).ts,
         stored' = With(stored, write[w].beat, e.sk)
  PROVE  RepliesInv'
<1>1. /\ write[w].beat \in DOMAIN beats /\ beats[write[w].beat] = Beat(w) /\ Beat(w).ts \in Nat
      /\ write[w].beat \notin DOMAIN stored /\ write[w].beat = Len(beats)
      /\ \A k \in Keys : table[k].lastTs <= Beat(w).ts
  BY HeldLast DEF After, ArchiveInv, WriteIsLast
<1>2. /\ DOMAIN stored' = DOMAIN stored \cup {write[w].beat}
      /\ \A n \in DOMAIN stored : stored'[n] = stored[n]
  BY <1>1 DEF With
<1>3. RunsApart'
  BY DEF RepliesInv, RunsApart
<1>4. \A n \in DOMAIN stored' : beats[n].ts <= Beat(w).ts
  <2>1. \A n \in DOMAIN beats : n <= Len(beats) /\ n \in Nat /\ Len(beats) \in Nat
    BY Held DEF ArchiveInv
  <2>2. \A n \in DOMAIN stored : n \in DOMAIN beats /\ beats[n].ts \in Nat
    BY Numbers
  <2> QED BY <1>1, <1>2, <2>1, <2>2 DEF ArchiveInv, BeatsInOrder
<1>5. EntryFollows'
  BY <1>4 DEF EntryFollows, Remembers, Apart
<1>6. GapsAreReal'
  <2> SUFFICES ASSUME NEW k \in Readable, table[k].resumed,
                      NEW n \in DOMAIN stored', now < stored'[n] + Retention
               PROVE  beats[n].ts \notin k - Gap .. k - 1
    BY DEF GapsAreReal, Readable
  <2>1. CASE n \in DOMAIN stored
    BY <1>2, <2>1 DEF RepliesInv, GapsAreReal
  <2>2. CASE n = write[w].beat
    <3>1. k \in Keys /\ k \in Nat /\ table[k].lastTs \in Nat /\ k <= table[k].lastTs /\ Gap \in Nat
      BY Numbers DEF Readable
    <3>2. beats[n].ts = Beat(w).ts /\ table[k].lastTs <= Beat(w).ts
      BY <1>1, <2>2, <3>1
    <3> HIDE DEF Keys
    <3> QED BY <1>1, <3>1, <3>2
  <2> QED BY <1>2, <2>1, <2>2
<1> QED BY <1>3, <1>5, <1>6 DEF RepliesInv, WriteFollows

LEMMA StoredFollows ==
  ASSUME ArchiveInv, RepliesInv, left.lost = MaxLost, NEW w \in Writes, Writes = {w},
         Updated(w) \/ Stored(w)
  PROVE  RepliesInv'
<1>1. TypeOK /\ write \in [Writes -> States] /\ heap \in Seq(Entries)
  BY DEF ArchiveInv, TypeOK
<1>2. CASE Updated(w)
  <2>1. /\ write[w].pc = "updated" /\ cache # None /\ write[w].entry = cache
        /\ UNCHANGED <<now, beats, table, cache>> /\ cache \in DOMAIN heap
        /\ heap' = [heap EXCEPT ![cache].lastTs = Beat(w).ts]
        /\ write' = [write EXCEPT ![w] = Idle]
        /\ stored' = With(stored, write[w].beat, heap[cache].sk)
    BY <1>1, <1>2, Held DEF TypeOK, Updated, Finish
  <2>2. heap[cache] \in Entries /\ Beat(w).ts \in Nat /\ Apart(heap[cache].sk)
    BY <1>1, <2>1, Held DEF RepliesInv, EntryFollows
  <2>3. PICK e \in Entries : e = [heap[cache] EXCEPT !.lastTs = Beat(w).ts]
    BY <2>2 DEF Entries
  <2>4. e.sk = heap[cache].sk /\ e.lastTs = Beat(w).ts
    BY <2>2, <2>3 DEF Entries
  <2>5. heap'[cache'] = e
    BY <1>1, <2>1, <2>3
  <2>6. write'[w].pc = "idle" /\ write[w].pc \in After
    BY <1>1, <2>1 DEF Idle, After
  <2> QED BY <2>1, <2>2, <2>4, <2>5, <2>6, EndsFollows
<1>3. CASE Stored(w)
  <2>1. /\ write[w].pc = "stored" /\ UNCHANGED <<now, beats, table>>
        /\ heap' = Append(heap, [sk |-> Beat(w).ts, fp |-> Beat(w).fp, lastTs |-> Beat(w).ts])
        /\ cache' = Len(heap) + 1
        /\ write' = [write EXCEPT ![w] = Idle]
        /\ stored' = With(stored, write[w].beat, Beat(w).ts)
    BY <1>3 DEF Stored, Finish
  <2>2. Beat(w) \in [ts : Nat, fp : Fingerprints] /\ Apart(Beat(w).ts)
    BY <2>1, HeldLast DEF RepliesInv, WriteFollows
  <2>3. PICK e \in Entries : e = [sk |-> Beat(w).ts, fp |-> Beat(w).fp, lastTs |-> Beat(w).ts]
    BY <2>2 DEF Entries, Readings
  <2>4. heap'[cache'] = e
    BY <1>1, <2>1, <2>3
  <2>5. write'[w].pc = "idle" /\ write[w].pc \in After
    BY <1>1, <2>1 DEF Idle, After
  <2> QED BY <2>1, <2>2, <2>3, <2>4, <2>5, EndsFollows
<1> QED BY <1>2, <1>3

LEMMA RepliesStep == OneWrite /\ ArchiveInv /\ RepliesInv /\ [Next]_vars => RepliesInv'
<1> SUFFICES ASSUME OneWrite, ArchiveInv, RepliesInv, [Next]_vars, left'.lost = MaxLost
             PROVE  RepliesInv'
  BY DEF RepliesInv
<1>1. PICK w : Writes = {w}
  BY DEF OneWrite
<1>2. left.lost = MaxLost
  <2>1. left \in [fault : 0 .. MaxFaults, lost : 0 .. MaxLost]
    BY DEF ArchiveInv, TypeOK
  <2>2. left'.lost = left.lost \/ left'.lost = left.lost - 1
    BY <1>1, <2>1 DEF Next, Arrive, Begin, Query, Seed, Update, Updated, Put, Stored, FailWrite,
                      FailQuery, LoseReply, Restart, Tick, Purge, vars
  <2> QED BY <2>1, <2>2, ArchiveAssumption
<1>3. CASE Tick \/ (\E k \in Keys : Purge(k)) \/ UNCHANGED vars
  <2>1. /\ UNCHANGED <<beats, heap, cache, write, stored>> /\ now' \in Nat /\ now <= now'
        /\ Keys' \subseteq Keys /\ \A k \in Keys' : table'[k] = table[k]
    <3>1. now \in Nat
      BY Numbers
    <3>2. CASE Tick \/ UNCHANGED vars
      BY <3>1, <3>2 DEF Tick, vars
    <3>3. ASSUME NEW k \in Keys, Purge(k)
          PROVE  /\ UNCHANGED <<now, beats, heap, cache, write, stored>>
                 /\ Keys' \subseteq Keys /\ \A l \in Keys' : table'[l] = table[l]
      BY <3>3 DEF Purge
    <3>4. CASE \E k \in Keys : Purge(k)
      <4>1. now <= now
        BY <3>1
      <4> QED BY <3>1, <3>3, <3>4, <4>1, Zenon
    <3> QED BY <1>3, <3>2, <3>4
  <2> QED BY <1>1, <1>2, <2>1, FadesFollows
<1> QED
  BY <1>1, <1>2, <1>3, BeginsFollows, BreaksFollows, ArriveFollows, UpdateFollows, PutFollows,
     StoredFollows
     DEF Next

LEMMA RepliesInvariant == ASSUME OneWrite PROVE Spec => [](ArchiveInv /\ RepliesInv)
<1>1. Init => ArchiveInv /\ RepliesInv
  BY ArchiveInitial, RepliesInitial
<1>2. ArchiveInv /\ RepliesInv /\ [Next]_vars => ArchiveInv' /\ RepliesInv'
  BY ArchiveStep, RepliesStep
<1> QED BY <1>1, <1>2, PTL DEF Spec

\* A silence of the controller is neither hidden inside a run nor invented:
\* the commsResumed of archiveStore.ts means what it says.
THEOREM SilenceCorrect == ASSUME OneWrite PROVE Spec => []SilenceIsShown
<1>1. ArchiveInv /\ RepliesInv => SilenceIsShown
  BY DEF ArchiveInv, RepliesInv, SilenceIsShown, GapsAreReal
<1> QED BY <1>1, RepliesInvariant, PTL

\* A value holds until the next change-point (archiveStore.ts:374): the runs
\* do not overlap.
THEOREM ValueCorrect == ASSUME OneWrite PROVE Spec => []ValueHolds
<1>1. ArchiveInv /\ RepliesInv => ValueHolds
  <2> SUFFICES ASSUME ArchiveInv, RepliesInv, left.lost = MaxLost,
                      NEW n \in DOMAIN stored, now < stored[n] + Retention,
                      NEW k \in Newest({l \in Readable : l <= beats[n].ts})
               PROVE  table[k].fp = beats[n].fp
    BY DEF ValueHolds
  <2>1. /\ stored[n] \in Readable /\ table[stored[n]].fp = beats[n].fp
        /\ beats[n].ts \in stored[n] .. table[stored[n]].lastTs
    BY ReadableIsLive DEF ArchiveInv, Covered, Live
  <2>2. k \in Keys /\ k <= beats[n].ts /\ stored[n] \in Keys /\ stored[n] <= k
    BY <2>1, Numbers DEF Newest, Readable
  <2>3. stored[n] < k => table[stored[n]].lastTs < k
    BY <2>2 DEF RepliesInv, RunsApart
  <2>4. k = stored[n]
    BY <2>1, <2>2, <2>3, Numbers
  <2> QED BY <2>1, <2>4
<1> QED BY <1>1, RepliesInvariant, PTL

-----------------------------------------------------------------------------
(* Runs are maximal while nothing fails                                    *)

LessThan == OpToRel(<, Nat)

\* The newest of some items
LEMMA NewestExists ==
  ASSUME NEW S \in SUBSET Nat, NEW b \in Nat, S # {}, \A t \in S : t <= b
  PROVE  Newest(S) # {}
<1> DEFINE T == {b - t : t \in S}
<1>1. T \subseteq Nat /\ T # {}
  <2>1. \A t \in S : b - t \in Nat
    OBVIOUS
  <2>2. PICK t \in S : TRUE
    OBVIOUS
  <2> QED BY <2>1, <2>2
<1>2. IsWellFoundedOn(LessThan, Nat)
  BY NatLessThanWellFounded, Zenon DEF LessThan
<1>3. PICK x \in T : \A y \in T : ~(<<y, x>> \in LessThan)
  BY <1>1, <1>2, WFMin
<1>4. PICK m \in S : x = b - m
  BY <1>3
<1>5. \A p, q \in Nat : p < q => <<p, q>> \in LessThan
  BY Zenon DEF LessThan, OpToRel
<1>6. \A t \in S : t <= m
  <2> SUFFICES ASSUME NEW t \in S, m < t PROVE FALSE
    OBVIOUS
  <2>1. t \in Nat /\ m \in Nat /\ t <= b /\ m <= b
    OBVIOUS
  <2>2. b - t \in Nat /\ b - m \in Nat /\ b - t < b - m
    BY <2>1
  <2>3. b - t \in T
    OBVIOUS
  <2> QED BY <1>3, <1>4, <1>5, <2>2, <2>3
<1> QED BY <1>6 DEF Newest

LEMMA FaultsInitial == Init => FaultsInv
BY DEF Init, Idle, FaultsInv, Compressed, Readable

\* What queries show only shrinks, from the oldest item on.
LEMMA FadesCompressed ==
  ASSUME ArchiveInv, ArchiveInv', FaultsInv, left.fault = MaxFaults, left.lost = MaxLost,
         now <= now', Keys' \subseteq Keys, \A k \in Keys' : table'[k] = table[k],
         \A k \in Keys : Live(k)' => k \in Keys'
  PROVE  /\ Readable' \subseteq Readable /\ Compressed'
         /\ \A l \in Nat : LastReadable(l)' => LastReadable(l) /\ table'[l] = table[l]
<1>1. /\ Readable = {k \in Keys : Live(k)} /\ Readable' = {k \in Keys' : Live(k)'}
      /\ now' \in Nat
  <2>1. now' \in Nat /\ Retention \in Nat \ {0}
    BY ArchiveAssumption DEF ArchiveInv, TypeOK
  <2>2. \A k \in Keys' : /\ k \in Nat /\ table'[k].ttl \in Nat
                         /\ \/ table'[k].ttl = k + Retention
                            \/ table'[k].ttl = NoTtl /\ ~Live(k)'
    BY DEF ArchiveInv, TypeOK, Items, ItemsSound
  <2>3. \A k \in Keys' : table'[k].ttl > now' <=> Live(k)'
    BY <2>1, <2>2 DEF Live, NoTtl
  <2> QED BY <2>1, <2>3, ReadableIsLive DEF Readable
<1>2. /\ \A k \in Nat : Live(k)' => Live(k)
      /\ \A k, l \in Nat : k <= l /\ Live(k)' => Live(l)'
  BY <1>1, Numbers DEF Live
<1>3. Readable' \subseteq Readable
  BY <1>1, <1>2, Numbers
<1>4. \A k \in Readable', j \in Readable : k < j => j \in Readable'
  BY <1>1, <1>2, Numbers
<1>5. Compressed'
  <2> SUFFICES ASSUME NEW k \in Readable', NEW l \in Readable', k < l,
                      \A j \in Readable' : ~(k < j /\ j < l)
               PROVE  table'[l].resumed \/ table'[k].fp # table'[l].fp
    BY DEF Compressed
  <2>1. \A j \in Readable : ~(k < j /\ j < l)
    BY <1>4
  <2>2. table'[k] = table[k] /\ table'[l] = table[l]
    BY <1>1
  <2> QED BY <1>3, <2>1, <2>2 DEF FaultsInv, Compressed
<1>6. \A l \in Nat : LastReadable(l)' => LastReadable(l) /\ table'[l] = table[l]
  <2> SUFFICES ASSUME NEW l \in Nat, LastReadable(l)'
               PROVE  LastReadable(l) /\ table'[l] = table[l]
    OBVIOUS
  <2>1. l \in Readable' /\ \A j \in Readable' : j <= l
    BY DEF LastReadable
  <2>2. \A j \in Readable : j <= l
    BY <1>1, <1>4, <2>1, Numbers
  <2> QED BY <1>1, <1>3, <2>1, <2>2 DEF LastReadable
<1> QED BY <1>3, <1>5, <1>6

\* An entry that no item follows and whose reading differs from the
\* heartbeat's, or none where nothing can be read, starts a new run.
LEMMA DecideCompresses ==
  ASSUME ArchiveInv, FaultsInv, left.fault = MaxFaults, left.lost = MaxLost,
         NEW w \in Writes, Writes = {w}, write[w].pc # "idle",
         UNCHANGED <<now, beats, table, left>>,
         NEW objs \in Seq(Entries), NEW e \in 0 .. Len(objs), Decide(w, objs, e),
         e = None => Readable = {},
         e # None => Sound(objs[e]) /\ Apart(objs[e].sk)
  PROVE  FaultsInv'
<1>1. TypeOK
  BY DEF ArchiveInv
<1>2. /\ write'[w].beat = write[w].beat
      /\ \/ write'[w].pc = "update"
         \/ /\ write'[w].pc = "put"
            /\ ~write'[w].resumed => e = None \/ objs[e].fp # Beat(w).fp
  BY <1>1, Decides
<1>3. Compressed' /\ Readable' = Readable /\ Beat(w)' = Beat(w)
  BY <1>2 DEF FaultsInv, Compressed, Readable, Beat
<1>4. ASSUME write'[w].pc = "put", ~write'[w].resumed, NEW l \in Nat, LastReadable(l)
      PROVE  table[l].fp # Beat(w).fp
  <2>1. l \in Keys /\ Live(l) /\ e # None
    BY <1>4, ReadableIsLive DEF LastReadable
  <2>2. objs[e] \in Entries /\ Sound(objs[e]) /\ Apart(objs[e].sk) /\ objs[e].fp # Beat(w).fp
    <3>1. objs[e] \in Entries
      BY <2>1 DEF None
    <3> QED BY <1>2, <1>4, <2>1, <3>1
  <2>3. objs[e].sk \in Nat /\ l <= objs[e].sk
    BY <2>1, <2>2 DEF Apart, Entries
  <2>4. Live(objs[e].sk)
    BY <2>1, <2>3, Numbers DEF Live
  <2>5. objs[e].sk \in Readable /\ table[objs[e].sk].fp = objs[e].fp
    BY <2>2, <2>4, ReadableIsLive DEF Sound
  <2>6. objs[e].sk = l
    BY <1>4, <2>3, <2>5 DEF LastReadable
  <2> QED BY <2>2, <2>5, <2>6
<1>5. write'[w].pc = "put" =>
        \A l \in Nat : LastReadable(l)' => write'[w].resumed \/ table'[l].fp # Beat(w)'.fp
  BY <1>3, <1>4 DEF LastReadable
<1> QED BY <1>2, <1>3, <1>5 DEF FaultsInv

LEMMA BeginsCompresses ==
  ASSUME ArchiveInv, RepliesInv, FaultsInv, left.fault = MaxFaults, left.lost = MaxLost,
         NEW w \in Writes, Writes = {w}, Begin(w) \/ Query(w) \/ Seed(w)
  PROVE  FaultsInv'
<1>1. /\ TypeOK /\ heap \in Seq(Entries) /\ cache \in 0 .. Len(heap) /\ None \in 0 .. Len(heap)
      /\ write \in [Writes -> States] /\ write[w] \in States
      /\ cache # None => heap[cache] \in Entries
  BY Shapes DEF ArchiveInv
<1>2. /\ write[w].pc \in {"xadd", "query", "seed"} /\ write[w].pc # "idle"
      /\ UNCHANGED <<now, beats, table, stored, left>>
  BY DEF Begin, Query, Seed
<1>3. Compressed' /\ Readable' = Readable
  BY <1>2 DEF FaultsInv, Compressed, Readable
<1>4. CASE Begin(w) /\ cache # None
  <2>1. Sound(heap[cache]) /\ Apart(heap[cache].sk) /\ Decide(w, heap, cache)
    BY <1>2, <1>4 DEF ArchiveInv, RepliesInv, EntryFollows, Begin
  <2> QED BY <1>1, <1>2, <1>4, <2>1, DecideCompresses
<1>5. CASE Begin(w) /\ cache = None
  <2>1. write'[w].pc = "query"
    BY <1>1, <1>5 DEF Begin, States
  <2> QED BY <1>3, <2>1 DEF FaultsInv
<1>6. CASE Query(w)
  <2> DEFINE items == {[sk |-> k, fp |-> table[k].fp, lastTs |-> table[k].lastTs] : k \in Newest(Keys)}
  <2>1. write' = [write EXCEPT ![w].pc = "seed", ![w].found = items]
    BY <1>6 DEF Query
  <2>2. items = {} => Readable = {}
    <3>1. \A k \in Keys : k \in Nat /\ k <= now /\ now \in Nat
      BY Numbers DEF ArchiveInv, ItemsSound
    <3>2. Keys # {} => Newest(Keys) # {}
      <4>1. Keys \in SUBSET Nat
        BY <3>1
      <4> HIDE DEF Keys
      <4> QED BY <3>1, <4>1, NewestExists
    <3> QED BY <3>2 DEF Readable
  <2> HIDE DEF items
  <2>3. write'[w].pc = "seed" /\ write'[w].found = items
    BY <1>1, <2>1 DEF States
  <2> QED BY <1>3, <2>2, <2>3 DEF FaultsInv
<1>7. CASE Seed(w) /\ write[w].found = {} /\ Decide(w, heap, None)
  <2>1. Readable = {}
    BY <1>7 DEF FaultsInv, Seed
  <2> QED BY <1>1, <1>2, <1>7, <2>1, DecideCompresses
<1>8. ASSUME Seed(w), NEW entry \in write[w].found, heap' = Append(heap, entry),
             cache' = Len(heap) + 1, Decide(w, heap', cache')
      PROVE  FaultsInv'
  <2>1. write[w].pc = "seed"
    BY <1>8 DEF Seed
  <2>2. entry \in Entries /\ Apart(entry.sk) /\ Sound(entry)
    BY <1>1, <2>1 DEF ArchiveInv, WriteSound, RepliesInv, WriteFollows, States
  <2>3. heap' \in Seq(Entries) /\ cache' \in 0 .. Len(heap') /\ heap'[cache'] = entry
        /\ cache' # None
    BY <1>1, <1>8, <2>2 DEF None
  <2>4. PICK objs \in Seq(Entries) : objs = heap'
    BY <2>3
  <2>5. PICK e \in 0 .. Len(objs) : e = cache'
    BY <2>3, <2>4
  <2>6. Decide(w, objs, e) /\ objs[e] = entry /\ e # None
    BY <1>8, <2>3, <2>4, <2>5
  <2> QED BY <1>2, <2>2, <2>6, DecideCompresses
<1> QED BY <1>4, <1>5, <1>6, <1>7, <1>8 DEF Seed

\* A heartbeat arrives, time passes or an expired item goes.
LEMMA TimeCompresses ==
  ASSUME ArchiveInv, ArchiveInv', FaultsInv, left.fault = MaxFaults, left.lost = MaxLost,
         NEW w \in Writes, Writes = {w},
         \/ \E fp \in Fingerprints : Arrive(w, fp)
         \/ Tick \/ (\E k \in Keys : Purge(k)) \/ UNCHANGED vars
  PROVE  FaultsInv'
<1>1. /\ now <= now' /\ Keys' \subseteq Keys /\ \A k \in Keys' : table'[k] = table[k]
      /\ \A k \in Keys : Live(k)' => k \in Keys'
  <2>1. now \in Nat /\ now <= now /\ now <= now + 1
    BY Numbers
  <2>2. CASE (\E fp \in Fingerprints : Arrive(w, fp)) \/ Tick \/ UNCHANGED vars
    BY <2>1, <2>2 DEF Arrive, Tick, vars
  <2>3. ASSUME NEW k \in Keys, Purge(k)
        PROVE  /\ now' = now /\ Keys' = Keys \ {k} /\ \A l \in Keys' : table'[l] = table[l]
               /\ ~Live(k)'
    <3>1. now' = now /\ Keys' = Keys \ {k} /\ \A l \in Keys' : table'[l] = table[l]
      BY <2>3 DEF Purge
    <3>2. ~Live(k)
      BY <2>3, PurgedIsDead
    <3> QED BY <3>1, <3>2 DEF Live
  <2>4. CASE \E k \in Keys : Purge(k)
    <3>1. PICK k \in Keys : Purge(k)
      BY <2>4
    <3> QED BY <2>1, <2>3, <3>1
  <2> QED BY <2>2, <2>4
<1>2. /\ Readable' \subseteq Readable /\ Compressed'
      /\ \A l \in Nat : LastReadable(l)' => LastReadable(l) /\ table'[l] = table[l]
  BY <1>1, FadesCompressed
<1>3. CASE \E fp \in Fingerprints : Arrive(w, fp)
  <2>1. write \in [Writes -> States]
    BY DEF ArchiveInv, TypeOK
  <2>2. write'[w].pc = "xadd"
    BY <1>3, <2>1 DEF Arrive, Idle
  <2> QED BY <1>2, <2>2 DEF FaultsInv
<1>4. CASE Tick \/ (\E k \in Keys : Purge(k)) \/ UNCHANGED vars
  <2>1. UNCHANGED <<beats, write>> /\ Beat(w)' = Beat(w)
    BY <1>4 DEF Tick, Purge, vars, Beat
  <2> QED BY <1>2, <2>1 DEF FaultsInv
<1> QED BY <1>3, <1>4

\* An update extends a run, or makes an item that no query shows.
LEMMA UpdateCompresses ==
  ASSUME ArchiveInv, FaultsInv, left.fault = MaxFaults, left.lost = MaxLost,
         NEW w \in Writes, Writes = {w}, Update(w)
  PROVE  FaultsInv'
<1>1. /\ write \in [Writes -> States] /\ write[w] \in States
      /\ write' = [write EXCEPT ![w].pc = "updated"] /\ now' = now
  BY Held DEF ArchiveInv, TypeOK, Update
<1>2. PICK k : k = heap[cache].sk
  OBVIOUS
<1>3. PICK b : b = Beat(w)
  OBVIOUS
<1>4. /\ k \in Nat /\ DOMAIN table' = Keys \cup {k}
      /\ \A l \in Keys \ {k} : table'[l] = table[l]
      /\ k \in Keys => /\ table'[k].fp = table[k].fp /\ table'[k].ttl = table[k].ttl
                       /\ table'[k].resumed = table[k].resumed
      /\ k \notin Keys => table'[k].ttl = NoTtl
  BY <1>2, <1>3, UpdateTable
<1>5. /\ Readable' = Readable
      /\ \A l \in Readable : table'[l].fp = table[l].fp /\ table'[l].resumed = table[l].resumed
  BY <1>1, <1>4, Numbers DEF Readable, NoTtl
<1>6. Compressed'
  BY <1>5 DEF FaultsInv, Compressed
<1>7. write'[w].pc = "updated"
  BY <1>1 DEF States
<1> QED BY <1>6, <1>7 DEF FaultsInv

\* A put starts a run that differs from the one before.
LEMMA PutCompresses ==
  ASSUME ArchiveInv, FaultsInv, left.fault = MaxFaults, left.lost = MaxLost,
         NEW w \in Writes, Writes = {w}, Put(w)
  PROVE  FaultsInv'
<1>1. /\ TypeOK /\ write[w].pc = "put"
      /\ write \in [Writes -> States] /\ write' = [write EXCEPT ![w].pc = "stored"]
      /\ UNCHANGED <<now, beats, heap, cache, stored>>
  BY DEF ArchiveInv, TypeOK, Put
<1>2. PICK k \in Nat : k = Beat(w).ts
  BY <1>1, HeldLast
<1>3. \A l \in Keys : l \in Nat /\ l < k
  BY <1>1, <1>2, HeldLast, Numbers DEF Before
<1>4. /\ DOMAIN table' = Keys \cup {k} /\ k \notin Keys
      /\ \A l \in Keys : table'[l] = table[l]
      /\ table'[k].resumed = write[w].resumed /\ table'[k].fp = Beat(w).fp
  <2>1. k \notin Keys
    BY <1>3
  <2> QED BY <1>2, <2>1 DEF Put, With
<1>5. write'[w].pc = "stored"
  BY <1>1, Held DEF States
<1>6. Compressed'
  <2> SUFFICES ASSUME NEW l \in Readable', NEW m \in Readable', l < m,
                      \A j \in Readable' : ~(l < j /\ j < m)
               PROVE  table'[m].resumed \/ table'[l].fp # table'[m].fp
    BY DEF Compressed
  <2>1. Readable \subseteq Readable' /\ Readable' \subseteq Readable \cup {k}
    BY <1>1, <1>4 DEF Readable
  <2>2. l \in Readable /\ l \in Keys
    <3>1. m \in Readable => m < k
      BY <1>3 DEF Readable
    <3>2. k \in Nat /\ l # k
      BY <2>1, <3>1, <1>3 DEF Readable
    <3> QED BY <2>1, <3>2 DEF Readable
  <2>3. CASE m \in Readable
    <3>1. m \in Keys /\ \A j \in Readable : ~(l < j /\ j < m)
      BY <2>1, <2>3 DEF Readable
    <3>2. table[m].resumed \/ table[l].fp # table[m].fp
      BY <2>2, <2>3, <3>1 DEF FaultsInv, Compressed
    <3> QED BY <1>4, <2>2, <3>1, <3>2
  <2>4. CASE m = k
    <3>1. \A j \in Readable : j <= l
      <4> SUFFICES ASSUME NEW j \in Readable PROVE j <= l
        OBVIOUS
      <4>1. j \in Nat /\ j < k /\ l \in Nat /\ j \in Readable'
        BY <1>3, <2>1, <2>2 DEF Readable
      <4> QED BY <2>4, <4>1
    <3>2. LastReadable(l) /\ l \in Nat
      BY <1>3, <2>2, <3>1 DEF LastReadable
    <3>3. write[w].resumed \/ table[l].fp # Beat(w).fp
      BY <1>1, <3>2 DEF FaultsInv
    <3> QED BY <1>4, <2>2, <2>4, <3>3
  <2> QED BY <2>1, <2>3, <2>4
<1> QED BY <1>5, <1>6 DEF FaultsInv

LEMMA FaultsStep ==
  OneWrite /\ ArchiveInv /\ RepliesInv /\ FaultsInv /\ [Next]_vars => FaultsInv'
<1> SUFFICES ASSUME OneWrite, ArchiveInv, RepliesInv, FaultsInv, [Next]_vars,
                    left'.fault = MaxFaults, left'.lost = MaxLost
             PROVE  FaultsInv'
  BY DEF FaultsInv
<1>1. PICK w : Writes = {w}
  BY DEF OneWrite
<1>2. /\ left.fault = MaxFaults /\ left.lost = MaxLost
      /\ ~FailWrite(w) /\ ~FailQuery(w) /\ ~LoseReply(w)
  <2>1. left \in [fault : 0 .. MaxFaults, lost : 0 .. MaxLost]
    BY DEF ArchiveInv, TypeOK
  <2>2. \/ left' = left
        \/ (FailWrite(w) \/ FailQuery(w)) /\ left' = [left EXCEPT !.fault = @ - 1]
        \/ LoseReply(w) /\ left' = [left EXCEPT !.lost = @ - 1]
    <3>1. (\E fp \in Fingerprints : Arrive(w, fp)) => left' = left
      BY DEF Arrive
    <3>2. Begin(w) \/ Query(w) \/ Seed(w) \/ Update(w) \/ Updated(w) \/ Put(w) \/ Stored(w)
            => left' = left
      BY DEF Begin, Query, Seed, Update, Updated, Put, Stored
    <3>3. Restart \/ Tick \/ (\E k \in Keys : Purge(k)) \/ UNCHANGED vars => left' = left
      BY DEF Restart, Tick, Purge, vars
    <3>4. FailWrite(w) \/ FailQuery(w) => left' = [left EXCEPT !.fault = @ - 1]
      BY DEF FailWrite, FailQuery
    <3>5. LoseReply(w) => left' = [left EXCEPT !.lost = @ - 1]
      BY DEF LoseReply
    <3> QED BY <1>1, <3>1, <3>2, <3>3, <3>4, <3>5 DEF Next
  <2>3. left' = left
    BY <2>1, <2>2, ArchiveAssumption
  <2>4. FailWrite(w) \/ FailQuery(w) => left'.fault = left.fault - 1
    BY <2>1 DEF FailWrite, FailQuery
  <2>5. LoseReply(w) => left'.lost = left.lost - 1
    BY <2>1 DEF LoseReply
  <2> QED BY <2>1, <2>3, <2>4, <2>5
<1>3. ArchiveInv'
  BY ArchiveStep
<1>4. ASSUME Updated(w) \/ Stored(w) \/ Restart
      PROVE  FaultsInv'
  <2>1. write \in [Writes -> States]
    BY DEF ArchiveInv, TypeOK
  <2>2. write'[w].pc = "idle" /\ UNCHANGED <<now, table, left>>
    BY <1>1, <1>4, <2>1 DEF Updated, Stored, Restart, Finish, Idle
  <2> QED BY <1>1, <1>2, <2>2 DEF FaultsInv, Compressed, Readable
<1> QED
  BY <1>1, <1>2, <1>3, <1>4, BeginsCompresses, TimeCompresses, UpdateCompresses, PutCompresses
     DEF Next

\* "A new item is written when the decoded telemetry changes (or comms resumed
\* after a gap)" and a restart emits no spurious change-point: runs next to
\* each other differ while DynamoDB answers.
THEOREM CompressedCorrect == ASSUME OneWrite PROVE Spec => []Compressed
<1>1. Init => ArchiveInv /\ RepliesInv /\ FaultsInv
  BY ArchiveInitial, RepliesInitial, FaultsInitial
<1>2. ArchiveInv /\ RepliesInv /\ FaultsInv /\ [Next]_vars =>
        ArchiveInv' /\ RepliesInv' /\ FaultsInv'
  BY ArchiveStep, RepliesStep, FaultsStep
<1>3. ArchiveInv /\ RepliesInv /\ FaultsInv => Compressed
  BY DEF FaultsInv, Compressed
<1> QED BY <1>1, <1>2, <1>3, PTL DEF Spec
=============================================================================
