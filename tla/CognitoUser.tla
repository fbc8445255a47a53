----------------------------- MODULE CognitoUser -----------------------------
(***************************************************************************)
(* The cache of getCognitoUserBySub (src/src/services/cognitoUser.ts) in   *)
(* one process.                                                            *)
(*                                                                         *)
(* The cache is a Map: it keeps the order of insertion, setting a key that *)
(* is there keeps its place.  A lookup awaits Cognito once; lookups of one *)
(* user may overlap and end in any order.  `book' is the user pool.  A     *)
(* definition marked "Slip" is a faulty variant of the one below it, used  *)
(* by no action.                                                           *)
(***************************************************************************)
EXTENDS ServiceClock, Sequences, SequencesExt

CONSTANTS
  Lookups,      \* requests in progress
  Subs,
  Mails,        \* e-mail addresses of the pool
  NoMail,       \* the user has none, or does not exist
  HitTtl,       \* CACHE_TTL_MS
  MissTtl,      \* NEGATIVE_CACHE_TTL_MS
  MaxEntries,   \* CACHE_MAX_ENTRIES
  MaxOutages    \* bound: lookups that fail

ASSUME UserAssumption ==
  /\ NoMail \notin Mails
  /\ {HitTtl, MissTtl, MaxEntries} \subseteq Nat \ {0} /\ MissTtl <= HitTtl
  /\ MaxOutages \in Nat

VARIABLES
  book,     \* the e-mail of each user
  held,     \* history: the latest instant at which a user had an e-mail
  entries,  \* the Map: a sequence of [sub, email, expires]
  lookup,   \* the state of each request
  outages

userVars == <<book, held, entries, lookup, outages>>

NoLookup == [pc |-> "idle", sub |-> CHOOSE s \in Subs : TRUE, now |-> 0, email |-> NoMail]

UsersInit ==
  /\ book \in [Subs -> Mails \cup {NoMail}]
  /\ held = [s \in Subs |-> [e \in Mails \cup {NoMail} |-> IF e = book[s] THEN 0 ELSE -HitTtl]]
  /\ entries = <<>>
  /\ lookup = [l \in Lookups |-> NoLookup]
  /\ outages = 0

-----------------------------------------------------------------------------
Find(sub) == {n \in DOMAIN entries : entries[n].sub = sub}

\* cache.delete: a key is in the map once.
Without(map, sub) ==
  IF \E n \in DOMAIN map : map[n].sub = sub
  THEN RemoveAt(map, CHOOSE n \in DOMAIN map : map[n].sub = sub)
  ELSE map

Ttl(email) == IF email = NoMail THEN MissTtl ELSE HitTtl

\* FIFO: the first key goes, even when the key to set is there already.
Evicted(map) == IF Len(map) >= MaxEntries THEN Tail(map) ELSE map

\* cache.set
Set(map, e) ==
  IF \E n \in DOMAIN map : map[n].sub = e.sub
  THEN [n \in DOMAIN map |-> IF map[n].sub = e.sub THEN e ELSE map[n]]
  ELSE Append(map, e)

\* Slip: the hour begins when the reply is there.
EntryFromReply(l) ==
  [sub |-> lookup[l].sub, email |-> lookup[l].email, expires |-> clock + Ttl(lookup[l].email)]

\* expires counts from the `now' before the request.
EntryOf(l) ==
  [sub |-> lookup[l].sub, email |-> lookup[l].email, expires |-> lookup[l].now + Ttl(lookup[l].email)]

Fresh(e) == e.expires > clock

\* A fresh entry answers.
CacheHit(l, sub) ==
  /\ lookup[l].pc = "idle"
  /\ \E n \in Find(sub) : Fresh(entries[n])
  /\ UNCHANGED <<userVars, clock>>

\* An expired entry goes and ListUsers is sent.
StartLookup(l, sub) ==
  /\ lookup[l].pc = "idle"
  /\ \A n \in Find(sub) : ~Fresh(entries[n])
  /\ entries' = Without(entries, sub)
  /\ lookup' = [lookup EXCEPT ![l] = [NoLookup EXCEPT !.pc = "sent", !.sub = sub, !.now = clock]]
  /\ UNCHANGED <<book, held, outages, clock>>

\* Cognito evaluates the query.
ListUsers(l) ==
  /\ lookup[l].pc = "sent"
  /\ lookup' = [lookup EXCEPT ![l].pc = "replied", ![l].email = book[lookup[l].sub]]
  /\ UNCHANGED <<book, held, entries, outages, clock>>

StoreUser(l) ==
  /\ lookup[l].pc = "replied"
  /\ entries' = Set(Evicted(entries), EntryOf(l))
  /\ lookup' = [lookup EXCEPT ![l] = NoLookup]
  /\ UNCHANGED <<book, held, outages, clock>>

\* A failure answers nulls and is not cached.
LookupFails(l) ==
  /\ lookup[l].pc # "idle" /\ outages < MaxOutages
  /\ outages' = outages + 1
  /\ lookup' = [lookup EXCEPT ![l] = NoLookup]
  /\ UNCHANGED <<book, held, entries, clock>>

\* A user changes the e-mail, or is deleted.
ChangeUser(sub, email) ==
  /\ email # book[sub]
  /\ book' = [book EXCEPT ![sub] = email]
  /\ held' = [held EXCEPT ![sub][email] = clock]
  /\ UNCHANGED <<entries, lookup, outages, clock>>

UserTick ==
  /\ ClockTick
  /\ held' = [s \in Subs |-> [held[s] EXCEPT ![book[s]] = clock']]
  /\ UNCHANGED <<book, entries, lookup, outages>>

UsersNext ==
  \/ \E l \in Lookups : \/ \E s \in Subs : CacheHit(l, s) \/ StartLookup(l, s)
                        \/ ListUsers(l) \/ StoreUser(l) \/ LookupFails(l)
  \/ \E s \in Subs, e \in Mails \cup {NoMail} : ChangeUser(s, e)
  \/ UserTick

UsersSpec == UsersInit /\ ClockInit /\ [][UsersNext]_<<userVars, clock>>

-----------------------------------------------------------------------------
(* Properties *)

\* Every variable has its type.
UsersTypeOK ==
  /\ book \in [Subs -> Mails \cup {NoMail}]
  /\ \A n \in DOMAIN entries : /\ entries[n].sub \in Subs
                               /\ entries[n].email \in Mails \cup {NoMail}
                               /\ entries[n].expires \in 0 .. MaxTime + HitTtl
  /\ \A l \in Lookups : lookup[l].pc \in {"idle", "sent", "replied"}
  /\ outages \in 0 .. MaxOutages

\* The cache never outgrows its bound, and no key is in it twice, however
\* lookups of one user and of several overlap.
CacheIsBounded ==
  /\ Len(entries) <= MaxEntries
  /\ \A m, n \in DOMAIN entries : m # n => entries[m].sub # entries[n].sub

\* "a user changing their email/name propagates within an hour"
\* (cognitoUser.ts:26), a missing one within a minute, and an outage is not
\* taken for a missing one: what the cache would answer now was in the pool
\* within its time to live, although a slow lookup may overwrite the entry of
\* a later one.
EntriesAreRecent ==
  \A n \in DOMAIN entries :
    LET e == entries[n] IN Fresh(e) => held[e.sub][e.email] > clock - Ttl(e.email)

\* A bounded cache of recent entries, in spite of lookups that end in any order.
CacheIsSound == CacheIsBounded /\ EntriesAreRecent
=============================================================================
