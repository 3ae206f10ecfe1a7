---------------------------- MODULE PermissionCache ----------------------------
(***************************************************************************)
(* The cache of permission checks of collaborative editing:                *)
(* api/src/websocket/collab/permissions-cache.ts, filled by                *)
(* verifyPermissions (verify-permissions.ts) and invalidated by the events *)
(* of the bus.                                                             *)
(*                                                                         *)
(* An answer - the fields a user may touch - is represented by what it was *)
(* computed from: the versions of the item, of the items its rules look at *)
(* and of the rules themselves.  A change is committed to the database     *)
(* first; its event reaches the cache of this process some time later.     *)
(***************************************************************************)
EXTENDS Naturals, Sequences, FiniteSets

CONSTANTS
    Keys,          \* cache keys: a user, a collection, an item and an action
    Items,         \* items of the database
    Collections,   \* collections of items
    Irrelevant,    \* IRRELEVANT_COLLECTIONS
    CollectionOf,  \* the collection of an item
    Subject,       \* the item a key is about
    Ruled,         \* keys with item-level rules
    Depends,       \* collections and items (of $CURRENT_USER) these rules refer to
    Timed,         \* keys with a $NOW rule
    System,        \* roles, policies, permissions, schema
    Capacity,      \* of the LRU map
    Lookups,       \* bound: calls of verifyPermissions in progress
    ReadsFail,     \* the database may fail to read an item that is there
    MaxVersion,    \* bound: versions of an item or of the rules
    MaxChanges,    \* bound: changes of the database
    NoEntry,       \* not cached
    Missing        \* cached: the item does not exist

ASSUME CollectionAssumption == CollectionOf \in [Items -> Collections]
ASSUME SubjectAssumption == Subject \in [Keys -> Items]
ASSUME RulesAssumption == Ruled \subseteq Keys /\ Timed \subseteq Ruled
ASSUME DependsAssumption == Depends \in [Keys -> SUBSET (Collections \cup Items)]
ASSUME SystemAssumption == System \notin Items
ASSUME CapacityAssumption == Capacity \in Nat \ {0}
ASSUME ReadsAssumption == ReadsFail \in BOOLEAN
ASSUME BoundAssumption == MaxVersion \in Nat \ {0} /\ MaxChanges \in Nat

VARIABLES
    world,      \* the database: the version of every item (0: none) and of the rules
    bus,        \* events of committed changes on their way to this process
    changes,    \* number of changes so far, for the bound
    value,      \* the LRU map: the value of every key
    recent,     \* the order of its keys: pairs of which the first was used more recently
    keyTags,    \* the tags of every key; the map from tags to keys is its inverse
    timers,     \* keys with a timer
    count,      \* invalidationCount
    look        \* per slot: a call of verifyPermissions

cache == <<value, recent, keyTags, timers>>
vars  == <<world, bus, changes, cache, count, look>>

-----------------------------------------------------------------------------
Sources == Items \cup {System}
Versions == 0 .. MaxVersion
Answer == [Sources -> Versions]
NoAnswer == [s \in Sources |-> 0]

Tag == {"item", "dependency"} \X Items
       \cup {"collection", "dependency", "collection-dependency"} \X Collections

Event == [c : Collections \cup {System}, items : SUBSET Items]

Lookup == [pc : {"item", "found", "fields", "decide"}, k : Keys, count : Nat,
           found : BOOLEAN, answer : Answer]
NoLookup == [pc |-> "idle"]

ASSUME NullAssumption == NoEntry # Missing /\ NoEntry \notin Answer /\ Missing \notin Answer

Cached(k) == value[k] # NoEntry
CachedKeys == {k \in Keys : Cached(k)}

\* Every cached key has its place in the order, and no other key has one.
IsOrder ==
    /\ recent \subseteq CachedKeys \X CachedKeys
    /\ \A j, k \in CachedKeys : j # k => (<<j, k>> \in recent <=> <<k, j>> \notin recent)
    /\ \A k \in CachedKeys : <<k, k>> \notin recent
    /\ \A i, j, k \in CachedKeys : <<i, j>> \in recent /\ <<j, k>> \in recent => <<i, k>> \in recent

TypeOK ==
    /\ world \in Answer
    /\ bus \in Seq(Event)
    /\ changes \in 0 .. MaxChanges
    /\ value \in [Keys -> Answer \cup {NoEntry, Missing}]
    /\ IsOrder
    /\ keyTags \in [Keys -> SUBSET Tag]
    /\ timers \subseteq Keys
    /\ count \in Nat
    /\ look \in [Lookups -> Lookup \cup {NoLookup}]

Init ==
    /\ world \in [Sources -> {0, 1}]
    /\ world[System] = 1
    /\ bus = <<>>
    /\ changes = 0
    /\ value = [k \in Keys |-> NoEntry]
    /\ recent = {}
    /\ keyTags = [k \in Keys |-> {}]
    /\ timers = {}
    /\ count = 0
    /\ look = [t \in Lookups |-> NoLookup]

-----------------------------------------------------------------------------
(* Parts of actions                                                        *)

\* The order without some keys, and with a key in front of all others.
Without(ks) == {pair \in recent : pair[1] \notin ks /\ pair[2] \notin ks}
InFront(k, ks) == Without({k} \cup ks) \cup ({k} \X (CachedKeys \ ({k} \cup ks)))

Newest == {k \in CachedKeys : \A j \in CachedKeys \ {k} : <<k, j>> \in recent}
Oldest == {k \in CachedKeys : \A j \in CachedKeys \ {k} : <<j, k>> \in recent}

\* The sources the answer for k is computed from, and the answer now.
SourcesOf(k) ==
    {System} \cup
    IF k \notin Ruled THEN {}
    ELSE {Subject[k]} \cup {i \in Items : i \in Depends[k] \/ CollectionOf[i] \in Depends[k]}

Truth(k) == [s \in Sources |-> IF s \in SourcesOf(k) THEN world[s] ELSE 0]

TagsOf(k, deps) ==
    {<<"item", Subject[k]>>, <<"collection", CollectionOf[Subject[k]]>>}
    \cup {<<"dependency", d>> : d \in deps}
    \cup {<<"collection-dependency", CollectionOf[i]>> : i \in deps \cap Items}

\* invalidateKey for a set of keys
Invalidate(ks) ==
    /\ value' = [k \in Keys |-> IF k \in ks THEN NoEntry ELSE value[k]]
    /\ recent' = Without(ks)
    /\ keyTags' = [k \in Keys |-> IF k \in ks THEN {} ELSE keyTags[k]]
    /\ timers' = timers \ ks

\* Mutant: a key that is set again is added to the front and keeps its old place.
SetEntryTwice(k, v, deps, ttl) ==
    /\ value' = [value EXCEPT ![k] = v]
    /\ recent' = recent \cup ({k} \X (CachedKeys \ {k}))
    /\ keyTags' = [keyTags EXCEPT ![k] = @ \cup TagsOf(k, deps)]
    /\ timers' = (timers \ {k}) \cup IF ttl THEN {k} ELSE {}

\* PermissionCache.set.  When the LRU map is full it drops its least recently used
\* key; the tags and the timer that are cleaned up are those of the key that keys()
\* gives first, which is the most recently used one.
Full == Cardinality(CachedKeys) >= Capacity
SetEntry(k, v, deps, ttl) ==
    LET evicted == IF ~Cached(k) /\ Full THEN Oldest ELSE {}
        cleaned == IF ~Cached(k) /\ Full THEN Newest ELSE {}
    IN  /\ value' = [x \in Keys |-> IF x = k THEN v
                                    ELSE IF x \in evicted THEN NoEntry ELSE value[x]]
        /\ recent' = InFront(k, evicted)
        /\ keyTags' = [x \in Keys |-> IF x = k THEN keyTags[k] \cup TagsOf(k, deps)
                                      ELSE IF x \in cleaned THEN {} ELSE keyTags[x]]
        /\ timers' = ((timers \ {k}) \ cleaned) \cup IF ttl THEN {k} ELSE {}

Goto(t, pc) == look' = [look EXCEPT ![t].pc = pc]
Return(t) == look' = [look EXCEPT ![t] = NoLookup]

-----------------------------------------------------------------------------
(* verifyPermissions                                                       *)

\* A cached answer is returned, and its key becomes the most recently used one.
Hit(k) ==
    /\ Cached(k)
    /\ recent' = InFront(k, {})
    /\ UNCHANGED <<world, bus, changes, value, keyTags, timers, count, look>>

\* Nothing cached: the rules are fetched, and the item they are about if they need it.
Miss(t, k) ==
    /\ look[t].pc = "idle"
    /\ ~Cached(k)
    /\ look' = [look EXCEPT ![t] = [pc |-> IF k \in Ruled THEN "item" ELSE "fields", k |-> k,
                                    count |-> count, found |-> FALSE, answer |-> NoAnswer]]
    /\ UNCHANGED <<world, bus, changes, cache, count>>

\* The database looks for the item ...
ReadItem(t) ==
    /\ look[t].pc = "item"
    /\ look' = [look EXCEPT ![t].pc = "found", ![t].found = world[Subject[look[t].k]] # 0]
    /\ UNCHANGED <<world, bus, changes, cache, count>>

\* ... and the call goes on with the result.  That there is no item is cached at once.
ItemFound(t) ==
    /\ look[t].pc = "found"
    /\ IF look[t].found
       THEN Goto(t, "fields") /\ UNCHANGED cache
       ELSE SetEntry(look[t].k, Missing, {}, FALSE) /\ Return(t)
    /\ UNCHANGED <<world, bus, changes, count>>

\* The database evaluates the rules: validateItemAccess or fetchAllowedFields.
ReadFields(t) ==
    /\ look[t].pc = "fields"
    /\ look' = [look EXCEPT ![t].pc = "decide", ![t].answer = Truth(look[t].k)]
    /\ UNCHANGED <<world, bus, changes, cache, count>>

\* Mutant: the answer is cached whatever happened since the call began.
DecideBlindly(t) ==
    LET q == look[t]
    IN  /\ q.pc = "decide"
        /\ \E ttl \in IF q.k \in Timed THEN BOOLEAN ELSE {FALSE} :
               SetEntry(q.k, q.answer, IF q.k \in Ruled THEN Depends[q.k] ELSE {}, ttl)
        /\ Return(t)
        /\ UNCHANGED <<world, bus, changes, count>>

\* The answer is cached unless something was invalidated since the call began.
Decide(t) ==
    LET q == look[t]
    IN  /\ q.pc = "decide"
        /\ IF count = q.count
           THEN \E ttl \in IF q.k \in Timed THEN BOOLEAN ELSE {FALSE} :
                    SetEntry(q.k, q.answer, IF q.k \in Ruled THEN Depends[q.k] ELSE {}, ttl)
           ELSE UNCHANGED cache
        /\ Return(t)
        /\ UNCHANGED <<world, bus, changes, count>>

\* The read of the item fails.  The catch around it takes every error for a missing
\* item, and caches that.
FailToReadItem(t) ==
    /\ ReadsFail
    /\ look[t].pc = "item"
    /\ SetEntry(look[t].k, Missing, {}, FALSE)
    /\ Return(t)
    /\ UNCHANGED <<world, bus, changes, count>>

\* Another query throws, for the rules or their evaluation: no access, nothing cached.
Throw(t) ==
    /\ look[t].pc \in {"item", "fields"}
    /\ Return(t)
    /\ UNCHANGED <<world, bus, changes, cache, count>>

\* The timer of a key set with a TTL.
Expire(k) ==
    /\ k \in timers
    /\ Invalidate({k})
    /\ UNCHANGED <<world, bus, changes, count, look>>

-----------------------------------------------------------------------------
(* Changes and their events                                                *)

Publish(event) ==
    /\ changes < MaxChanges
    /\ changes' = changes + 1
    /\ bus' = Append(bus, event)

\* Items of a collection are created, updated or deleted.  The event names them, or
\* names none to stand for all items of the collection.
ChangeItems(c, is) ==
    /\ is # {}
    /\ \E w \in [is -> Versions], named \in {is, {}} :
           /\ \A i \in is : w[i] # world[i]
           /\ world' = [s \in Sources |-> IF s \in is THEN w[s] ELSE world[s]]
           /\ Publish([c |-> c, items |-> named])
    /\ UNCHANGED <<cache, count, look>>

ChangeSystem ==
    /\ \E v \in Versions \ {world[System]} : world' = [world EXCEPT ![System] = v]
    /\ Publish([c |-> System, items |-> {}])
    /\ UNCHANGED <<cache, count, look>>

TagsHit(e) ==
    {<<"dependency", e.c>>} \cup
    IF e.items = {} THEN {<<"collection", e.c>>, <<"collection-dependency", e.c>>}
    ELSE {"item", "dependency"} \X e.items

\* Mutant: an event invalidates the items it names and not what depends on them.
AffectedItems(e) == {k \in Keys : keyTags[k] \cap ({"item"} \X e.items) # {}}

Affected(e) == {k \in Keys : keyTags[k] \cap TagsHit(e) # {}}

\* handleInvalidation.  Events may overtake each other on their way here.
Deliver(i) ==
    LET e == bus[i]
    IN  /\ bus' = SubSeq(bus, 1, i - 1) \o SubSeq(bus, i + 1, Len(bus))
        /\ IF e.c = System
           THEN Invalidate(Keys) /\ count' = count + 1
           ELSE IF e.c \in Irrelevant
           THEN UNCHANGED <<cache, count>>
           ELSE Invalidate(Affected(e)) /\ count' = count + 1
        /\ UNCHANGED <<world, changes, look>>

-----------------------------------------------------------------------------
Next ==
    \/ \E k \in Keys : Hit(k) \/ Expire(k)
    \/ \E t \in Lookups, k \in Keys : Miss(t, k)
    \/ \E t \in Lookups : ReadItem(t) \/ ItemFound(t) \/ FailToReadItem(t) \/ ReadFields(t)
                           \/ Decide(t) \/ Throw(t)
    \/ \E c \in Collections, is \in SUBSET Items :
           /\ \A i \in is : CollectionOf[i] = c
           /\ ChangeItems(c, is)
    \/ ChangeSystem
    \/ \E i \in DOMAIN bus : Deliver(i)

Spec == Init /\ [][Next]_vars

-----------------------------------------------------------------------------
(* Properties                                                              *)

\* The event e, once delivered, takes k out of the cache.
Dooms(e, k) == e.c = System \/ (e.c \notin Irrelevant /\ k \in Affected(e))

StaleMissing(k) == value[k] = Missing /\ world[Subject[k]] # 0
StaleAnswer(k) == value[k] \in Answer /\ value[k] # Truth(k)

\* A cached answer that is out of date has not long to live: the event of a change
\* that made it so is still on its way and will find its key.  This is what the
\* counter of invalidations, the tags and the order of reading and caching are for.
AnswersFreshOrDoomed ==
    \A k \in Keys : StaleAnswer(k) => \E i \in DOMAIN bus : Dooms(bus[i], k)

\* The same of the answer that there is no such item: verifyPermissions is to
\* "prevent caching stale permissions if invalidation occurs during async steps"
\* (verify-permissions.ts:39).
MissingFreshOrDoomed ==
    \A k \in Keys : StaleMissing(k) => \E i \in DOMAIN bus : Dooms(bus[i], k)
=============================================================================
