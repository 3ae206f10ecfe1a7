------------------------- MODULE PermissionCache_proofs -------------------------
(* Proofs about the permission cache: its types, and that an answer that   *)
(* is out of date is always about to be invalidated.                       *)
EXTENDS PermissionCache, SequenceTheorems, FiniteSetTheorems, TLAPS

USE CollectionAssumption, SubjectAssumption, RulesAssumption, DependsAssumption, SystemAssumption,
    BoundAssumption, NullAssumption

-----------------------------------------------------------------------------
(* The inductive invariant                                                 *)

\* The event is one of a change of s; the sources with such events on their way.
Concerns(e, s) ==
    IF s = System THEN e.c = System
    ELSE e.c = CollectionOf[s] /\ (e.items = {} \/ s \in e.items)
Reported == {s \in Sources : \E i \in DOMAIN bus : Concerns(bus[i], s)}

\* In the world w, an answer for k is out of date only where a change is still to
\* be reported.
Honest(k, a, w, reported) ==
    \A s \in Sources :
        IF s \in SourcesOf(k) THEN a[s] = w[s] \/ s \in reported ELSE a[s] = 0

Dependencies(k) == IF k \in Ruled THEN Depends[k] ELSE {}
EntryIsHonest(k) ==
    value[k] \in Answer =>
        /\ Honest(k, value[k], world, Reported)
        /\ TagsOf(k, Dependencies(k)) \subseteq keyTags[k]

\* A call that would still cache its answer has an honest one.
CallIsHonest(t) ==
    look[t].pc # "idle" =>
        /\ look[t].count <= count
        /\ look[t].pc = "decide" /\ look[t].count = count =>
              Honest(look[t].k, look[t].answer, world, Reported)

IInv ==
    /\ TypeOK
    /\ \A k \in Keys : EntryIsHonest(k)
    /\ \A t \in Lookups : CallIsHonest(t)

\* What the theorem about answers assumes: nothing is evicted, and no rule looks at
\* a collection whose events are ignored.
FitsInCache == IsFiniteSet(Keys) /\ Capacity \in Nat /\ Cardinality(Keys) <= Capacity
NoneIgnored == \A k \in Ruled : \A i \in Items : i \in SourcesOf(k) => CollectionOf[i] \notin Irrelevant

-----------------------------------------------------------------------------
(* Types                                                                   *)

LEMMA CallTypes ==
    ASSUME TypeOK, NEW t \in Lookups
    PROVE  /\ NoLookup \notin Lookup /\ NoLookup.pc = "idle"
           /\ look[t].pc # "idle" =>
                /\ look[t] \in Lookup /\ look[t].k \in Keys /\ look[t].count \in Nat
                /\ look[t].answer \in Answer
BY DEF TypeOK, Lookup, NoLookup

LEMMA TruthTypes ==
    ASSUME TypeOK, NEW k \in Keys
    PROVE  /\ Truth(k) \in Answer
           /\ \A s \in Sources : Truth(k)[s] = IF s \in SourcesOf(k) THEN world[s] ELSE 0
BY DEF TypeOK, Truth, Answer, Versions

LEMMA NoAnswerTypes == NoAnswer \in Answer
BY DEF NoAnswer, Answer, Versions

\* The order without some keys.
LEMMA InvalidateTypes ==
    ASSUME TypeOK, NEW ks \in SUBSET Keys, Invalidate(ks)
    PROVE  /\ value' \in [Keys -> Answer \cup {NoEntry, Missing}]
           /\ keyTags' \in [Keys -> SUBSET Tag]
           /\ timers' \subseteq Keys
           /\ IsOrder'
           /\ \A k \in ks : value'[k] = NoEntry
           /\ \A k \in Keys \ ks : value'[k] = value[k] /\ keyTags'[k] = keyTags[k]
<1>1. /\ value' = [k \in Keys |-> IF k \in ks THEN NoEntry ELSE value[k]]
      /\ keyTags' = [k \in Keys |-> IF k \in ks THEN {} ELSE keyTags[k]]
      /\ timers' = timers \ ks /\ recent' = Without(ks)
  BY DEF Invalidate
<1>2. CachedKeys' = CachedKeys \ ks
  BY <1>1 DEF CachedKeys, Cached
<1>3. IsOrder'
  <2>1. recent \subseteq CachedKeys \X CachedKeys
    BY DEF TypeOK, IsOrder
  <2>2. \A i, j \in CachedKeys' : <<i, j>> \in recent' <=> <<i, j>> \in recent
    BY <1>1, <1>2 DEF Without
  <2>3. recent' \subseteq CachedKeys' \X CachedKeys'
    BY <1>1, <1>2, <2>1 DEF Without
  <2> QED
    BY <1>2, <2>2, <2>3 DEF TypeOK, IsOrder
<1> QED
  BY <1>1, <1>3 DEF TypeOK

\* A key in front of those that stay.
LEMMA InFrontOrders ==
    ASSUME TypeOK, NEW k \in Keys, NEW gone \in SUBSET Keys, k \notin gone,
           recent' = InFront(k, gone), CachedKeys' = (CachedKeys \ gone) \cup {k}
    PROVE  IsOrder'
<1> DEFINE rest == CachedKeys \ ({k} \cup gone)
<1>1. recent \subseteq CachedKeys \X CachedKeys
  BY DEF TypeOK, IsOrder
<1>2. CachedKeys' = rest \cup {k} /\ k \notin rest /\ rest \subseteq CachedKeys
  OBVIOUS
<1>3. recent' \subseteq CachedKeys' \X CachedKeys'
  BY <1>1, <1>2 DEF InFront, Without
<1>4. /\ \A i, j \in rest : <<i, j>> \in recent' <=> <<i, j>> \in recent
      /\ \A j \in rest : <<k, j>> \in recent' /\ <<j, k>> \notin recent'
      /\ <<k, k>> \notin recent'
  BY <1>2 DEF InFront, Without
<1>5. \A i, j \in CachedKeys' : i # j => (<<i, j>> \in recent' <=> <<j, i>> \notin recent')
  <2>1. \A i, j \in rest : i # j => (<<i, j>> \in recent <=> <<j, i>> \notin recent)
    BY <1>2 DEF TypeOK, IsOrder
  <2> HIDE DEF rest
  <2> QED
    BY <1>2, <1>4, <2>1
<1>6. \A i \in CachedKeys' : <<i, i>> \notin recent'
  BY <1>2, <1>4 DEF TypeOK, IsOrder
<1>7. \A h, i, j \in CachedKeys' : <<h, i>> \in recent' /\ <<i, j>> \in recent' => <<h, j>> \in recent'
  BY <1>2, <1>4 DEF TypeOK, IsOrder
<1> QED
  BY <1>3, <1>5, <1>6, <1>7 DEF IsOrder

LEMMA TagsTypes ==
    ASSUME NEW k \in Keys PROVE TagsOf(k, {}) \subseteq Tag /\ TagsOf(k, Dependencies(k)) \subseteq Tag
BY DEF TagsOf, Tag, Dependencies

LEMMA SetEntryTypes ==
    ASSUME TypeOK, NEW k \in Keys, NEW v \in Answer \cup {Missing}, NEW deps, TagsOf(k, deps) \subseteq Tag,
           NEW ttl \in BOOLEAN, SetEntry(k, v, deps, ttl)
    PROVE  /\ value' \in [Keys -> Answer \cup {NoEntry, Missing}]
           /\ keyTags' \in [Keys -> SUBSET Tag]
           /\ timers' \subseteq Keys
           /\ IsOrder'
           /\ value'[k] = v /\ keyTags'[k] = keyTags[k] \cup TagsOf(k, deps)
           /\ \A x \in Keys : x # k => value'[x] \in {value[x], NoEntry}
           /\ ~Full => \A x \in Keys : x # k => keyTags'[x] = keyTags[x]
<1> DEFINE evicted == IF ~Cached(k) /\ Full THEN Oldest ELSE {}
           cleaned == IF ~Cached(k) /\ Full THEN Newest ELSE {}
<1>1. /\ value' = [x \in Keys |-> IF x = k THEN v ELSE IF x \in evicted THEN NoEntry ELSE value[x]]
      /\ recent' = InFront(k, evicted)
      /\ keyTags' = [x \in Keys |-> IF x = k THEN keyTags[k] \cup TagsOf(k, deps)
                                    ELSE IF x \in cleaned THEN {} ELSE keyTags[x]]
      /\ timers' = ((timers \ {k}) \ cleaned) \cup IF ttl THEN {k} ELSE {}
  BY DEF SetEntry
<1>2. evicted \in SUBSET Keys /\ k \notin evicted
  BY DEF Oldest, CachedKeys
<1>3. ~Full => cleaned = {}
  OBVIOUS
<1> HIDE DEF evicted, cleaned
<1>4. CachedKeys' = (CachedKeys \ evicted) \cup {k}
  BY <1>1, <1>2 DEF CachedKeys, Cached
<1>5. IsOrder'
  BY <1>1, <1>2, <1>4, InFrontOrders
<1> QED
  BY <1>1, <1>3, <1>5 DEF TypeOK

LEMMA HitTypes ==
    ASSUME TypeOK, NEW k \in Keys, Hit(k) PROVE TypeOK'
<1>1. CachedKeys' = (CachedKeys \ {}) \cup {k} /\ recent' = InFront(k, {})
  BY DEF Hit, CachedKeys, Cached
<1>2. IsOrder'
  BY <1>1, InFrontOrders
<1> QED
  BY <1>2 DEF TypeOK, Hit

LEMMA UnchangedOrder ==
    ASSUME TypeOK, UNCHANGED <<value, recent>> PROVE IsOrder'
BY DEF TypeOK, IsOrder, CachedKeys, Cached

LEMMA Joined ==
    ASSUME NEW a \in Seq(Event), NEW b \in Seq(Event)
    PROVE  /\ a \o b \in Seq(Event)
           /\ Len(a \o b) = Len(a) + Len(b)
           /\ \A j \in 1 .. Len(a) + Len(b) :
                 (a \o b)[j] = IF j <= Len(a) THEN a[j] ELSE b[j - Len(a)]
OBVIOUS

\* An event reaches a cache that has all others still to come.
LEMMA Delivered ==
    ASSUME TypeOK, NEW i \in DOMAIN bus,
           bus' = SubSeq(bus, 1, i - 1) \o SubSeq(bus, i + 1, Len(bus))
    PROVE  /\ bus' \in Seq(Event)
           /\ \A j \in DOMAIN bus : j # i => \E h \in DOMAIN bus' : bus'[h] = bus[j]
<1> DEFINE first == SubSeq(bus, 1, i - 1)
           rest == SubSeq(bus, i + 1, Len(bus))
<1>1. bus \in Seq(Event) /\ Len(bus) \in Nat /\ i \in 1 .. Len(bus)
  BY DEF TypeOK
<1>2. \A j \in 1 .. Len(bus) : bus[j] \in Event
  BY <1>1
<1>3. /\ first \in Seq(Event) /\ Len(first) = i - 1
      /\ \A j \in 1 .. i - 1 : first[j] = bus[j]
  BY <1>1, <1>2, SubSeqProperties
<1>4. /\ rest \in Seq(Event) /\ Len(rest) = Len(bus) - i
      /\ \A j \in 1 .. Len(bus) - i : rest[j] = bus[i + j]
  BY <1>1, <1>2, SubSeqProperties
<1> HIDE DEF first, rest
<1>5. /\ bus' \in Seq(Event) /\ Len(bus') = Len(bus) - 1
      /\ \A j \in 1 .. Len(bus) - 1 : bus'[j] = IF j <= i - 1 THEN first[j] ELSE rest[j - (i - 1)]
  <2>1. bus' = first \o rest
    BY DEF first, rest
  <2>2. /\ first \o rest \in Seq(Event) /\ Len(first \o rest) = Len(first) + Len(rest)
        /\ \A j \in 1 .. Len(first) + Len(rest) :
              (first \o rest)[j] = IF j <= Len(first) THEN first[j] ELSE rest[j - Len(first)]
    BY <1>3, <1>4, Joined, Zenon
  <2>3. Len(first) + Len(rest) = Len(bus) - 1
    BY <1>1, <1>3, <1>4
  <2> QED
    BY <1>3, <2>1, <2>2, <2>3
<1>6. ASSUME NEW j \in DOMAIN bus, j < i PROVE bus'[j] = bus[j] /\ j \in DOMAIN bus'
  BY <1>1, <1>3, <1>5, <1>6
<1>7. ASSUME NEW j \in DOMAIN bus, j > i PROVE bus'[j - 1] = bus[j] /\ j - 1 \in DOMAIN bus'
  <2>1. j - i \in 1 .. Len(bus) - i /\ j - 1 \in 1 .. Len(bus) - 1 /\ j - 1 - (i - 1) = j - i
    BY <1>1, <1>7
  <2>2. ~(j - 1 <= i - 1)
    BY <1>1, <1>7
  <2>3. bus'[j - 1] = rest[j - i]
    BY <1>5, <2>1, <2>2
  <2>4. rest[j - i] = bus[i + (j - i)]
    BY <1>4, <2>1
  <2>5. i + (j - i) = j
    BY <1>1
  <2>6. j - 1 \in DOMAIN bus'
    <3>1. DOMAIN bus' = 1 .. Len(bus')
      BY <1>5
    <3> QED
      BY <1>5, <2>1, <3>1
  <2> QED
    BY <2>3, <2>4, <2>5, <2>6
<1>8. \A j \in DOMAIN bus : j # i => j < i \/ j > i
  BY <1>1
<1> QED
  BY <1>5, <1>6, <1>7, <1>8

-----------------------------------------------------------------------------
(* Calls, entries and changes                                              *)

LEMMA NeverFull ==
    ASSUME FitsInCache, NEW k \in Keys, ~Cached(k)
    PROVE  ~Full
<1>1. CachedKeys \in SUBSET (Keys \ {k})
  BY DEF CachedKeys
<1>2. IsFiniteSet(Keys \ {k}) /\ Cardinality(Keys \ {k}) = Cardinality(Keys) - 1
  BY FS_RemoveElement DEF FitsInCache
<1>3. Cardinality(CachedKeys) <= Cardinality(Keys \ {k}) /\ IsFiniteSet(CachedKeys)
  BY <1>1, <1>2, FS_Subset
<1>4. Cardinality(CachedKeys) \in Nat /\ Cardinality(Keys) \in Nat
  BY <1>3, FS_CardinalityType DEF FitsInCache
<1> QED
  BY <1>2, <1>3, <1>4 DEF Full, FitsInCache

\* Every change of a source is reported, and no report is lost.
Reports ==
    /\ Reported \subseteq Reported'
    /\ \A s \in Sources : world'[s] = world[s] \/ s \in Reported'

LEMMA NothingToReport ==
    ASSUME UNCHANGED <<world, bus>> PROVE Reports
BY DEF Reports, Reported

LEMMA HonestStays ==
    ASSUME Reports
    PROVE  \A k, a : Honest(k, a, world, Reported) => Honest(k, a, world', Reported')
BY DEF Reports, Honest

LEMMA EntriesStay ==
    ASSUME IInv, Reports,
           \A k \in Keys : \/ value'[k] \notin Answer
                           \/ value'[k] = value[k] /\ keyTags[k] \subseteq keyTags'[k]
    PROVE  \A k \in Keys : EntryIsHonest(k)'
BY HonestStays DEF IInv, EntryIsHonest

LEMMA CallsStay ==
    ASSUME IInv, Reports, count' = count, NEW T \in SUBSET Lookups,
           \A t \in Lookups : look'[t] = look[t] \/ look'[t].pc = "idle" \/ t \in T
    PROVE  \A t \in Lookups \ T : CallIsHonest(t)'
BY HonestStays DEF IInv, CallIsHonest

LEMMA AllCallsStay ==
    ASSUME IInv, Reports, count' = count,
           \A t \in Lookups : look'[t] = look[t] \/ look'[t].pc = "idle"
    PROVE  \A t \in Lookups : CallIsHonest(t)'
BY HonestStays DEF IInv, CallIsHonest

\* A call goes on: only its own record changes.
LEMMA CallMoves ==
    ASSUME IInv, UNCHANGED <<world, bus, changes, cache, count>>, NEW t \in Lookups,
           look' \in [Lookups -> Lookup \cup {NoLookup}],
           \A u \in Lookups : u # t => look'[u] = look[u],
           CallIsHonest(t)'
    PROVE  IInv'
<1>1. Reports
  BY NothingToReport
<1>2. \A k \in Keys : EntryIsHonest(k)'
  BY <1>1, EntriesStay DEF cache
<1>3. \A u \in Lookups : CallIsHonest(u)'
  <2>1. \A u \in Lookups \ {t} : CallIsHonest(u)'
    BY <1>1, CallsStay
  <2> QED
    BY <2>1
<1>4. TypeOK'
  BY UnchangedOrder DEF IInv, TypeOK, cache
<1> QED
  BY <1>2, <1>3, <1>4 DEF IInv

LEMMA ReturnMoves ==
    ASSUME TypeOK, NEW t \in Lookups, Return(t)
    PROVE  /\ look' \in [Lookups -> Lookup \cup {NoLookup}]
           /\ \A u \in Lookups : u # t => look'[u] = look[u]
           /\ look'[t].pc = "idle"
BY DEF TypeOK, Return, NoLookup

LEMMA MissKeeps ==
    ASSUME IInv, NEW t \in Lookups, NEW k \in Keys, Miss(t, k)
    PROVE  IInv'
<1> DEFINE new == [pc |-> IF k \in Ruled THEN "item" ELSE "fields", k |-> k,
                   count |-> count, found |-> FALSE, answer |-> NoAnswer]
<1>1. /\ new \in Lookup /\ new.pc \in {"item", "fields"} /\ new.count = count
      /\ count \in Nat
  BY NoAnswerTypes DEF Lookup, IInv, TypeOK
<1>2. look' = [look EXCEPT ![t] = new]
  BY DEF Miss
<1> HIDE DEF new
<1>3. /\ look' \in [Lookups -> Lookup \cup {NoLookup}]
      /\ \A u \in Lookups : u # t => look'[u] = look[u]
      /\ look'[t] = new
  BY <1>1, <1>2 DEF IInv, TypeOK
<1>4. CallIsHonest(t)'
  BY <1>1, <1>3 DEF CallIsHonest, Miss
<1> QED
  BY <1>3, <1>4, CallMoves DEF Miss

LEMMA ReadItemKeeps ==
    ASSUME IInv, NEW t \in Lookups, ReadItem(t)
    PROVE  IInv'
<1> DEFINE q == look[t]
           new == [q EXCEPT !.pc = "found", !.found = world[Subject[q.k]] # 0]
<1>1. q \in Lookup /\ q.count <= count
  BY CallTypes DEF ReadItem, IInv, CallIsHonest
<1>2. new \in Lookup /\ new.pc = "found" /\ new.count = q.count
  BY <1>1 DEF Lookup
<1>3. look' = [look EXCEPT ![t] = new]
  BY DEF ReadItem
<1> HIDE DEF q, new
<1>4. /\ look' \in [Lookups -> Lookup \cup {NoLookup}]
      /\ \A u \in Lookups : u # t => look'[u] = look[u]
      /\ look'[t] = new
  BY <1>2, <1>3 DEF IInv, TypeOK
<1>5. CallIsHonest(t)'
  BY <1>1, <1>2, <1>4 DEF CallIsHonest, ReadItem
<1> QED
  BY <1>4, <1>5, CallMoves DEF ReadItem

LEMMA ReadFieldsKeeps ==
    ASSUME IInv, NEW t \in Lookups, ReadFields(t)
    PROVE  IInv'
<1> DEFINE q == look[t]
           new == [q EXCEPT !.pc = "decide", !.answer = Truth(q.k)]
<1>1. q \in Lookup /\ q.count <= count /\ q.k \in Keys
  BY CallTypes DEF ReadFields, IInv, CallIsHonest
<1>2. Truth(q.k) \in Answer /\ Honest(q.k, Truth(q.k), world, Reported)
  BY <1>1, TruthTypes DEF Honest, IInv
<1>3. new \in Lookup /\ new.count = q.count /\ new.k = q.k /\ new.answer = Truth(q.k)
  BY <1>1, <1>2 DEF Lookup
<1>4. look' = [look EXCEPT ![t] = new]
  BY DEF ReadFields
<1>5. Honest(new.k, new.answer, world', Reported')
  BY <1>2, <1>3, NothingToReport, HonestStays DEF ReadFields
<1> HIDE DEF q, new
<1>6. /\ look' \in [Lookups -> Lookup \cup {NoLookup}]
      /\ \A u \in Lookups : u # t => look'[u] = look[u]
      /\ look'[t] = new
  BY <1>3, <1>4 DEF IInv, TypeOK
<1>7. CallIsHonest(t)'
  BY <1>1, <1>3, <1>5, <1>6 DEF CallIsHonest, ReadFields
<1> QED
  BY <1>6, <1>7, CallMoves DEF ReadFields

LEMMA ThrowKeeps ==
    ASSUME IInv, NEW t \in Lookups, Throw(t)
    PROVE  IInv'
<1>1. /\ look' \in [Lookups -> Lookup \cup {NoLookup}]
      /\ \A u \in Lookups : u # t => look'[u] = look[u]
      /\ look'[t].pc = "idle"
  BY ReturnMoves DEF Throw, IInv
<1> QED
  BY <1>1, CallMoves DEF Throw, CallIsHonest

-----------------------------------------------------------------------------
(* The cache                                                               *)

LEMMA HitKeeps ==
    ASSUME IInv, NEW k \in Keys, Hit(k)
    PROVE  IInv'
<1>1. TypeOK'
  BY HitTypes DEF IInv
<1>2. Reports
  BY NothingToReport DEF Hit
<1>3. \A x \in Keys : EntryIsHonest(x)'
  BY <1>2, EntriesStay DEF Hit
<1>4. \A t \in Lookups : CallIsHonest(t)'
  BY <1>2, AllCallsStay DEF Hit
<1> QED
  BY <1>1, <1>3, <1>4 DEF IInv

\* A call ends with an entry for its key.
LEMMA EntryIsSet ==
    ASSUME IInv, FitsInCache, NEW t \in Lookups, NEW k \in Keys, NEW v \in Answer \cup {Missing},
           NEW deps, NEW ttl \in BOOLEAN, SetEntry(k, v, deps, ttl), Return(t),
           UNCHANGED <<world, bus, changes, count>>, TagsOf(k, deps) \subseteq Tag,
           v \in Answer => Honest(k, v, world, Reported) /\ deps = Dependencies(k)
    PROVE  IInv'
<1>1. /\ value' \in [Keys -> Answer \cup {NoEntry, Missing}]
      /\ keyTags' \in [Keys -> SUBSET Tag]
      /\ timers' \subseteq Keys
      /\ IsOrder'
      /\ value'[k] = v /\ keyTags'[k] = keyTags[k] \cup TagsOf(k, deps)
      /\ \A x \in Keys : x # k => value'[x] \in {value[x], NoEntry}
      /\ ~Full => \A x \in Keys : x # k => keyTags'[x] = keyTags[x]
  BY SetEntryTypes DEF IInv
<1>2. \A x \in Keys : x # k => keyTags'[x] = keyTags[x]
  <2>1. CASE ~Cached(k)
    BY <1>1, <2>1, NeverFull
  <2>2. CASE Cached(k)
    BY <2>2 DEF SetEntry
  <2> QED
    BY <2>1, <2>2
<1>3. /\ look' \in [Lookups -> Lookup \cup {NoLookup}]
      /\ \A u \in Lookups : u # t => look'[u] = look[u]
      /\ look'[t].pc = "idle"
  BY ReturnMoves DEF IInv
<1>4. TypeOK'
  BY <1>1, <1>3 DEF IInv, TypeOK
<1>5. Reports
  BY NothingToReport
<1>6. EntryIsHonest(k)'
  BY <1>1, <1>5, HonestStays DEF EntryIsHonest
<1>7. ASSUME NEW x \in Keys, x # k PROVE EntryIsHonest(x)'
  <2>1. CASE value'[x] = value[x]
    BY <1>2, <1>5, <1>7, <2>1, HonestStays DEF IInv, EntryIsHonest
  <2>2. CASE value'[x] = NoEntry
    BY <2>2 DEF EntryIsHonest
  <2> QED
    BY <1>1, <1>7, <2>1, <2>2
<1>8. \A u \in Lookups : CallIsHonest(u)'
  BY <1>3, <1>5, AllCallsStay
<1> QED
  BY <1>4, <1>6, <1>7, <1>8 DEF IInv

LEMMA ItemFoundKeeps ==
    ASSUME IInv, FitsInCache, NEW t \in Lookups, ItemFound(t)
    PROVE  IInv'
<1> DEFINE q == look[t]
<1>1. q \in Lookup /\ q.k \in Keys /\ q.count <= count
  BY CallTypes DEF ItemFound, IInv, CallIsHonest
<1>2. CASE q.found
  <2> DEFINE new == [q EXCEPT !.pc = "fields"]
  <2>1. new \in Lookup /\ new.pc = "fields" /\ new.count = q.count
    BY <1>1 DEF Lookup
  <2>2. look' = [look EXCEPT ![t] = new]
    BY <1>2 DEF ItemFound, Goto
  <2> HIDE DEF q, new
  <2>3. /\ look' \in [Lookups -> Lookup \cup {NoLookup}]
        /\ \A u \in Lookups : u # t => look'[u] = look[u]
        /\ look'[t] = new
    BY <2>1, <2>2 DEF IInv, TypeOK
  <2>4. CallIsHonest(t)'
    BY <1>1, <2>1, <2>3 DEF CallIsHonest, ItemFound
  <2>5. UNCHANGED cache
    BY <1>2 DEF ItemFound, q
  <2> QED
    BY <2>3, <2>4, <2>5, CallMoves DEF ItemFound
<1>3. CASE ~q.found
  <2>1. TagsOf(q.k, {}) \subseteq Tag
    BY <1>1, TagsTypes
  <2>2. SetEntry(q.k, Missing, {}, FALSE) /\ Return(t) /\ UNCHANGED <<world, bus, changes, count>>
    BY <1>3 DEF ItemFound
  <2> HIDE DEF q
  <2> QED
    BY <1>1, <2>1, <2>2, EntryIsSet
<1> QED
  BY <1>2, <1>3

LEMMA FailToReadItemKeeps ==
    ASSUME IInv, FitsInCache, NEW t \in Lookups, FailToReadItem(t)
    PROVE  IInv'
<1> DEFINE q == look[t]
<1>1. q \in Lookup /\ q.k \in Keys
  BY CallTypes DEF FailToReadItem, IInv
<1>2. TagsOf(q.k, {}) \subseteq Tag
  BY <1>1, TagsTypes
<1>3. SetEntry(q.k, Missing, {}, FALSE) /\ Return(t) /\ UNCHANGED <<world, bus, changes, count>>
  BY DEF FailToReadItem
<1> HIDE DEF q
<1> QED
  BY <1>1, <1>2, <1>3, EntryIsSet

LEMMA DecideKeeps ==
    ASSUME IInv, FitsInCache, NEW t \in Lookups, Decide(t)
    PROVE  IInv'
<1> DEFINE q == look[t]
<1>1. /\ q \in Lookup /\ q.k \in Keys /\ q.answer \in Answer /\ q.pc = "decide"
      /\ q.count = count => Honest(q.k, q.answer, world, Reported)
  BY CallTypes DEF Decide, IInv, CallIsHonest
<1>2. CASE q.count = count
  <2>1. PICK ttl \in BOOLEAN : SetEntry(q.k, q.answer, Dependencies(q.k), ttl)
    BY <1>2 DEF Decide, Dependencies
  <2>2. Return(t) /\ UNCHANGED <<world, bus, changes, count>>
    BY DEF Decide
  <2>3. TagsOf(q.k, Dependencies(q.k)) \subseteq Tag
    BY <1>1, TagsTypes
  <2> HIDE DEF q
  <2> QED
    BY <1>1, <1>2, <2>1, <2>2, <2>3, EntryIsSet
<1>3. CASE q.count # count
  <2>1. UNCHANGED <<world, bus, changes, cache, count>> /\ Return(t)
    BY <1>3 DEF Decide
  <2>2. /\ look' \in [Lookups -> Lookup \cup {NoLookup}]
        /\ \A u \in Lookups : u # t => look'[u] = look[u]
        /\ look'[t].pc = "idle"
    BY <2>1, ReturnMoves DEF IInv
  <2> QED
    BY <2>1, <2>2, CallMoves DEF CallIsHonest
<1> QED
  BY <1>2, <1>3

LEMMA ExpireKeeps ==
    ASSUME IInv, NEW k \in Keys, Expire(k)
    PROVE  IInv'
<1>1. /\ value' \in [Keys -> Answer \cup {NoEntry, Missing}]
      /\ keyTags' \in [Keys -> SUBSET Tag]
      /\ timers' \subseteq Keys
      /\ IsOrder'
      /\ value'[k] = NoEntry
      /\ \A x \in Keys : x # k => value'[x] = value[x] /\ keyTags'[x] = keyTags[x]
  BY InvalidateTypes DEF Expire, IInv
<1>2. TypeOK'
  BY <1>1 DEF Expire, IInv, TypeOK
<1>3. Reports
  BY NothingToReport DEF Expire
<1>4. \A x \in Keys : EntryIsHonest(x)'
  BY <1>1, <1>3, EntriesStay
<1>5. \A t \in Lookups : CallIsHonest(t)'
  BY <1>3, AllCallsStay DEF Expire
<1> QED
  BY <1>2, <1>4, <1>5 DEF IInv

-----------------------------------------------------------------------------
(* Changes and events                                                      *)

\* A change of some sources, with an event that concerns all of them.
LEMMA ChangeKeeps ==
    ASSUME IInv, UNCHANGED <<cache, count, look>>, NEW e \in Event, Publish(e), world' \in Answer,
           \A s \in Sources : world'[s] = world[s] \/ Concerns(e, s)
    PROVE  IInv'
<1>1. /\ bus \in Seq(Event) /\ bus' \in Seq(Event) /\ Len(bus') = Len(bus) + 1
      /\ bus'[Len(bus) + 1] = e /\ \A i \in 1 .. Len(bus) : bus'[i] = bus[i]
  BY AppendProperties DEF Publish, IInv, TypeOK
<1>2. Len(bus) + 1 \in DOMAIN bus' /\ DOMAIN bus \subseteq DOMAIN bus'
  BY <1>1
<1>3. \A i \in DOMAIN bus : bus'[i] = bus[i]
  BY <1>1
<1>4. Reports
  BY <1>1, <1>2, <1>3 DEF Reports, Reported
<1>5. TypeOK'
  <2>1. changes' \in 0 .. MaxChanges
    BY DEF Publish, IInv, TypeOK
  <2> QED
    BY <1>1, <2>1, UnchangedOrder DEF IInv, TypeOK, cache
<1>6. \A k \in Keys : EntryIsHonest(k)'
  BY <1>4, EntriesStay DEF cache
<1>7. \A t \in Lookups : CallIsHonest(t)'
  BY <1>4, AllCallsStay
<1> QED
  BY <1>5, <1>6, <1>7 DEF IInv

LEMMA ChangeItemsKeeps ==
    ASSUME IInv, NEW c \in Collections, NEW is \in SUBSET Items, \A i \in is : CollectionOf[i] = c,
           ChangeItems(c, is)
    PROVE  IInv'
<1>1. PICK w \in [is -> Versions], named \in {is, {}} :
         /\ world' = [s \in Sources |-> IF s \in is THEN w[s] ELSE world[s]]
         /\ Publish([c |-> c, items |-> named])
  BY DEF ChangeItems
<1> DEFINE e == [c |-> c, items |-> named]
<1>2. e \in Event
  BY DEF Event
<1>3. world' \in Answer
  BY <1>1 DEF IInv, TypeOK, Answer
<1>4. \A s \in Sources : world'[s] = world[s] \/ Concerns(e, s)
  BY <1>1 DEF Concerns
<1> QED
  BY <1>1, <1>2, <1>3, <1>4, ChangeKeeps DEF ChangeItems

LEMMA ChangeSystemKeeps ==
    ASSUME IInv, ChangeSystem
    PROVE  IInv'
<1>1. PICK v \in Versions : world' = [world EXCEPT ![System] = v]
  BY DEF ChangeSystem
<1> DEFINE e == [c |-> System, items |-> {}]
<1>2. e \in Event
  BY DEF Event
<1>3. world' \in Answer
  BY <1>1 DEF IInv, TypeOK, Answer
<1>4. \A s \in Sources : world'[s] = world[s] \/ Concerns(e, s)
  BY <1>1 DEF Concerns, IInv, TypeOK, Answer
<1> QED
  BY <1>2, <1>3, <1>4, ChangeKeeps DEF ChangeSystem

\* The event of a change finds every entry that was computed from what it changed.
LEMMA EventFinds ==
    ASSUME IInv, NEW k \in Keys, value[k] \in Answer, NEW e \in Event, e.c # System,
           NEW s \in SourcesOf(k), Concerns(e, s)
    PROVE  k \in Affected(e) /\ k \in Ruled /\ s \in Items /\ e.c = CollectionOf[s]
<1>1. s # System /\ k \in Ruled /\ s \in Items /\ e.c = CollectionOf[s]
      /\ (e.items = {} \/ s \in e.items)
  BY DEF Concerns, SourcesOf
<1>2. /\ <<"item", Subject[k]>> \in keyTags[k]
      /\ <<"collection", CollectionOf[Subject[k]]>> \in keyTags[k]
      /\ \A d \in Depends[k] : <<"dependency", d>> \in keyTags[k]
      /\ \A i \in Depends[k] \cap Items : <<"collection-dependency", CollectionOf[i]>> \in keyTags[k]
  BY <1>1 DEF IInv, EntryIsHonest, TagsOf, Dependencies
<1>3. keyTags[k] \cap TagsHit(e) # {}
  <2>1. CASE s = Subject[k]
    BY <1>1, <1>2, <2>1 DEF TagsHit
  <2>2. CASE s \in Depends[k]
    <3>1. CASE s \in e.items
      <4>1. <<"dependency", s>> \in keyTags[k] /\ e.items # {}
        BY <1>2, <2>2, <3>1
      <4>2. <<"dependency", s>> \in {"item", "dependency"} \X e.items
        BY <3>1
      <4> QED
        BY <4>1, <4>2 DEF TagsHit
    <3>2. CASE e.items = {}
      BY <1>1, <1>2, <2>2, <3>2 DEF TagsHit
    <3> QED
      BY <1>1, <3>1, <3>2
  <2>3. CASE CollectionOf[s] \in Depends[k]
    BY <1>1, <1>2, <2>3 DEF TagsHit
  <2> QED
    BY <1>1, <2>1, <2>2, <2>3 DEF SourcesOf
<1> QED
  BY <1>1, <1>3 DEF Affected

LEMMA DeliverKeeps ==
    ASSUME IInv, NoneIgnored, NEW i \in DOMAIN bus, Deliver(i)
    PROVE  IInv'
<1> DEFINE e == bus[i]
<1>1. e \in Event /\ TypeOK /\ UNCHANGED <<world, changes, look>>
  BY DEF IInv, TypeOK, Deliver
<1>2. /\ bus' \in Seq(Event)
      /\ \A j \in DOMAIN bus : j # i => \E h \in DOMAIN bus' : bus'[h] = bus[j]
  BY <1>1, Delivered DEF Deliver
<1>3. \A s \in Reported : Concerns(e, s) \/ s \in Reported'
  BY <1>2 DEF Reported
\* Whose sources are not concerned keeps its answer.
<1>4. \A k, a : Honest(k, a, world, Reported) /\ (\A s \in SourcesOf(k) : ~Concerns(e, s))
                   => Honest(k, a, world', Reported')
  BY <1>1, <1>3 DEF Honest
\* A call that has begun before is too late, unless the event is ignored.
<1>5. ASSUME count' = count + 1 PROVE \A t \in Lookups : CallIsHonest(t)'
  <2> SUFFICES ASSUME NEW t \in Lookups, look'[t].pc # "idle"
               PROVE  look'[t].count <= count' /\ look'[t].count # count'
    BY DEF CallIsHonest
  <2>1. look'[t] = look[t]
    BY <1>1
  <2>2. look[t].count \in Nat /\ look[t].count <= count /\ count \in Nat
    BY <1>1, <2>1, CallTypes DEF IInv, CallIsHonest, TypeOK
  <2> QED
    BY <1>5, <2>1, <2>2
<1>6. ASSUME NEW ks \in SUBSET Keys, Invalidate(ks), count' = count + 1,
             \A k \in Keys \ ks : value[k] \in Answer => \A s \in SourcesOf(k) : ~Concerns(e, s)
      PROVE  IInv'
  <2>1. /\ value' \in [Keys -> Answer \cup {NoEntry, Missing}]
        /\ keyTags' \in [Keys -> SUBSET Tag]
        /\ timers' \subseteq Keys
        /\ IsOrder'
        /\ \A k \in ks : value'[k] = NoEntry
        /\ \A k \in Keys \ ks : value'[k] = value[k] /\ keyTags'[k] = keyTags[k]
    BY <1>1, <1>6, InvalidateTypes
  <2>2. TypeOK'
    BY <1>1, <1>2, <1>6, <2>1 DEF TypeOK
  <2>3. ASSUME NEW k \in Keys PROVE EntryIsHonest(k)'
    BY <1>4, <1>6, <2>1 DEF IInv, EntryIsHonest
  <2> QED
    BY <1>5, <1>6, <2>2, <2>3 DEF IInv
<1>7. CASE e.c = System
  BY <1>6, <1>7 DEF Deliver
<1>8. CASE e.c # System /\ e.c \notin Irrelevant
  <2>1. Invalidate(Affected(e)) /\ count' = count + 1 /\ Affected(e) \in SUBSET Keys
    BY <1>8 DEF Deliver, Affected
  <2>2. \A k \in Keys \ Affected(e) : value[k] \in Answer => \A s \in SourcesOf(k) : ~Concerns(e, s)
    BY <1>1, <1>8, EventFinds
  <2> QED
    BY <1>6, <2>1, <2>2
<1>9. CASE e.c # System /\ e.c \in Irrelevant
  <2>1. UNCHANGED <<cache, count>>
    BY <1>9 DEF Deliver
  <2>2. ASSUME NEW k \in Keys, NEW s \in SourcesOf(k) PROVE ~Concerns(e, s)
    BY <1>9 DEF NoneIgnored, SourcesOf, Concerns
  <2>3. \A k \in Keys : EntryIsHonest(k)'
    BY <1>4, <2>1, <2>2 DEF IInv, EntryIsHonest, cache
  <2>4. \A t \in Lookups : CallIsHonest(t)'
    BY <1>1, <1>4, <2>1, <2>2, CallTypes DEF IInv, CallIsHonest
  <2>5. TypeOK'
    BY <1>1, <1>2, <2>1, UnchangedOrder DEF TypeOK, cache
  <2> QED
    BY <2>3, <2>4, <2>5 DEF IInv
<1> QED
  BY <1>7, <1>8, <1>9

-----------------------------------------------------------------------------
(* The theorems                                                            *)

LEMMA Begins ==
    ASSUME Init
    PROVE  IInv
<1>1. world \in Answer
  <2>1. {0, 1} \subseteq Versions
    BY DEF Versions
  <2> QED
    BY <2>1 DEF Init, Answer
<1>2. CachedKeys = {} /\ IsOrder
  BY DEF Init, CachedKeys, Cached, IsOrder
<1>3. TypeOK
  BY <1>1, <1>2 DEF Init, TypeOK
<1>4. \A k \in Keys : EntryIsHonest(k)
  BY DEF Init, EntryIsHonest
<1>5. \A t \in Lookups : CallIsHonest(t)
  BY DEF Init, CallIsHonest, NoLookup
<1> QED
  BY <1>3, <1>4, <1>5 DEF IInv

LEMMA NextKeeps ==
    ASSUME IInv, FitsInCache, NoneIgnored, [Next]_vars
    PROVE  IInv'
<1>1. CASE UNCHANGED vars
  <2>1. TypeOK'
    BY <1>1, UnchangedOrder DEF vars, cache, IInv, TypeOK
  <2>2. Reports
    BY <1>1, NothingToReport DEF vars
  <2>3. \A k \in Keys : EntryIsHonest(k)'
    BY <1>1, <2>2, EntriesStay DEF vars, cache
  <2>4. \A t \in Lookups : CallIsHonest(t)'
    BY <1>1, <2>2, AllCallsStay DEF vars
  <2> QED
    BY <2>1, <2>3, <2>4 DEF IInv
<1> QED
  BY <1>1, HitKeeps, ExpireKeeps, MissKeeps, ReadItemKeeps, ItemFoundKeeps,
     FailToReadItemKeeps, ReadFieldsKeeps, DecideKeeps, ThrowKeeps, ChangeItemsKeeps, ChangeSystemKeeps, DeliverKeeps
     DEF Next

\* An entry that is not true any more has a source whose change is on its way, and
\* its event will find the entry.
LEMMA StaleIsDoomed ==
    ASSUME IInv, NoneIgnored
    PROVE  AnswersFreshOrDoomed
<1> SUFFICES ASSUME NEW k \in Keys, StaleAnswer(k)
             PROVE  \E i \in DOMAIN bus : Dooms(bus[i], k)
  BY DEF AnswersFreshOrDoomed
<1>1. value[k] \in Answer /\ Honest(k, value[k], world, Reported)
  BY DEF StaleAnswer, IInv, EntryIsHonest
<1>2. PICK s \in Sources : value[k][s] # Truth(k)[s]
  BY <1>1, TruthTypes DEF StaleAnswer, Answer, IInv
<1>3. s \in SourcesOf(k) /\ s \in Reported
  BY <1>1, <1>2, TruthTypes DEF Honest, IInv
<1>4. PICK i \in DOMAIN bus : Concerns(bus[i], s)
  BY <1>3 DEF Reported
<1>5. bus[i] \in Event
  BY DEF IInv, TypeOK
<1>6. bus[i].c # System => k \in Affected(bus[i]) /\ bus[i].c \notin Irrelevant
  BY <1>1, <1>3, <1>4, <1>5, EventFinds DEF NoneIgnored
<1> QED
  BY <1>6 DEF Dooms

\* The record of a call after its next step.
LEMMA CallRecords ==
    ASSUME TypeOK, NEW t \in Lookups, NEW k \in Keys,
           Miss(t, k) \/ ReadItem(t) \/ ReadFields(t) \/ (ItemFound(t) /\ Goto(t, "fields"))
    PROVE  look' \in [Lookups -> Lookup \cup {NoLookup}]
<1> DEFINE q == look[t]
<1>1. ASSUME NEW new \in Lookup, look' = [look EXCEPT ![t] = new]
      PROVE  look' \in [Lookups -> Lookup \cup {NoLookup}]
  BY <1>1 DEF TypeOK
<1>2. CASE Miss(t, k)
  <2> DEFINE new == [pc |-> IF k \in Ruled THEN "item" ELSE "fields", k |-> k,
                     count |-> count, found |-> FALSE, answer |-> NoAnswer]
  <2>1. new \in Lookup
    BY NoAnswerTypes DEF Lookup, TypeOK
  <2>2. look' = [look EXCEPT ![t] = new]
    BY <1>2 DEF Miss
  <2> QED
    BY <1>1, <2>1, <2>2
<1>3. CASE ReadItem(t)
  <2> DEFINE new == [q EXCEPT !.pc = "found", !.found = world[Subject[q.k]] # 0]
  <2>1. q \in Lookup
    BY <1>3, CallTypes DEF ReadItem
  <2>2. new \in Lookup
    BY <2>1 DEF Lookup
  <2>3. look' = [look EXCEPT ![t] = new]
    BY <1>3 DEF ReadItem
  <2> QED
    BY <1>1, <2>2, <2>3
<1>4. CASE ReadFields(t)
  <2> DEFINE new == [q EXCEPT !.pc = "decide", !.answer = Truth(q.k)]
  <2>1. q \in Lookup /\ Truth(q.k) \in Answer
    BY <1>4, CallTypes, TruthTypes DEF ReadFields
  <2>2. new \in Lookup
    BY <2>1 DEF Lookup
  <2>3. look' = [look EXCEPT ![t] = new]
    BY <1>4 DEF ReadFields
  <2> QED
    BY <1>1, <2>2, <2>3
<1>5. CASE ItemFound(t) /\ Goto(t, "fields")
  <2> DEFINE new == [q EXCEPT !.pc = "fields"]
  <2>1. q \in Lookup
    BY <1>5, CallTypes DEF ItemFound
  <2>2. new \in Lookup
    BY <2>1 DEF Lookup
  <2>3. look' = [look EXCEPT ![t] = new]
    BY <1>5 DEF Goto
  <2> QED
    BY <1>1, <2>2, <2>3
<1> QED
  BY <1>2, <1>3, <1>4, <1>5

LEMMA SetEntryKeepsTypes ==
    ASSUME TypeOK, NEW t \in Lookups, NEW k \in Keys, NEW v \in Answer \cup {Missing}, NEW deps,
           NEW ttl \in BOOLEAN, SetEntry(k, v, deps, ttl), Return(t),
           UNCHANGED <<world, bus, changes, count>>, TagsOf(k, deps) \subseteq Tag
    PROVE  TypeOK'
<1>1. look' \in [Lookups -> Lookup \cup {NoLookup}]
  BY ReturnMoves
<1>2. /\ value' \in [Keys -> Answer \cup {NoEntry, Missing}]
      /\ keyTags' \in [Keys -> SUBSET Tag]
      /\ timers' \subseteq Keys
      /\ IsOrder'
  BY SetEntryTypes
<1> QED
  BY <1>1, <1>2 DEF TypeOK

LEMMA NextKeepsTypes ==
    ASSUME TypeOK, [Next]_vars
    PROVE  TypeOK'
<1>1. ASSUME UNCHANGED <<world, bus, changes, cache, count>>,
             look' \in [Lookups -> Lookup \cup {NoLookup}]
      PROVE  TypeOK'
  BY <1>1, UnchangedOrder DEF TypeOK, cache
<1>2. CASE UNCHANGED vars
  BY <1>1, <1>2 DEF vars, TypeOK
<1>3. ASSUME NEW k \in Keys, Hit(k) PROVE TypeOK'
  BY <1>3, HitTypes
<1>4. ASSUME NEW ks \in SUBSET Keys, Invalidate(ks), UNCHANGED <<world, changes, look>>,
             bus' \in Seq(Event), count' \in Nat
      PROVE  TypeOK'
  <2>1. /\ value' \in [Keys -> Answer \cup {NoEntry, Missing}]
        /\ keyTags' \in [Keys -> SUBSET Tag]
        /\ timers' \subseteq Keys
        /\ IsOrder'
    BY <1>4, InvalidateTypes
  <2> QED
    BY <1>4, <2>1 DEF TypeOK
<1>5. ASSUME NEW k \in Keys, Expire(k) PROVE TypeOK'
  BY <1>4, <1>5 DEF Expire, TypeOK
<1>6. ASSUME NEW t \in Lookups, NEW k \in Keys, Miss(t, k) \/ ReadItem(t) \/ ReadFields(t)
      PROVE  TypeOK'
  BY <1>1, <1>6, CallRecords DEF Miss, ReadItem, ReadFields
<1>7. ASSUME NEW t \in Lookups, ReadItem(t) \/ ReadFields(t) PROVE TypeOK'
  <2>1. look[t].k \in Keys
    BY <1>7, CallTypes DEF ReadItem, ReadFields
  <2> QED
    BY <1>6, <1>7, <2>1
<1>8. ASSUME NEW t \in Lookups, Throw(t) PROVE TypeOK'
  BY <1>1, <1>8, ReturnMoves DEF Throw
<1>9. ASSUME NEW t \in Lookups, ItemFound(t) \/ FailToReadItem(t) PROVE TypeOK'
  <2> DEFINE q == look[t]
  <2>1. q.k \in Keys /\ TagsOf(q.k, {}) \subseteq Tag
    BY <1>9, CallTypes, TagsTypes DEF ItemFound, FailToReadItem
  <2>2. CASE Goto(t, "fields") /\ UNCHANGED cache
    <3>1. CASE ItemFound(t)
      BY <1>1, <2>1, <2>2, <3>1, CallRecords DEF ItemFound
    <3>2. CASE FailToReadItem(t)
      BY <1>1, <2>2, <3>2, ReturnMoves DEF FailToReadItem
    <3> QED
      BY <1>9, <3>1, <3>2
  <2>3. CASE SetEntry(q.k, Missing, {}, FALSE) /\ Return(t)
    <3>1. UNCHANGED <<world, bus, changes, count>>
      BY <1>9 DEF ItemFound, FailToReadItem
    <3> HIDE DEF q
    <3> QED
      BY <2>1, <2>3, <3>1, SetEntryKeepsTypes
  <2> QED
    BY <1>9, <2>2, <2>3 DEF ItemFound, FailToReadItem
<1>10. ASSUME NEW t \in Lookups, Decide(t) PROVE TypeOK'
  <2> DEFINE q == look[t]
  <2>1. q.k \in Keys /\ q.answer \in Answer /\ TagsOf(q.k, Dependencies(q.k)) \subseteq Tag
    BY <1>10, CallTypes, TagsTypes DEF Decide
  <2>2. UNCHANGED <<world, bus, changes, count>> /\ Return(t)
    BY <1>10 DEF Decide
  <2>3. CASE UNCHANGED cache
    BY <1>1, <2>2, <2>3, ReturnMoves
  <2>4. ASSUME NEW ttl \in BOOLEAN, SetEntry(q.k, q.answer, Dependencies(q.k), ttl)
        PROVE  TypeOK'
    <3> HIDE DEF q
    <3> QED
      BY <2>1, <2>2, <2>4, SetEntryKeepsTypes
  <2> QED
    BY <1>10, <2>3, <2>4 DEF Decide, Dependencies
<1>11. ASSUME NEW e \in Event, Publish(e), world' \in Answer, UNCHANGED <<cache, count, look>>
       PROVE  TypeOK'
  <2>1. bus' \in Seq(Event) /\ changes' \in 0 .. MaxChanges
    BY <1>11, AppendProperties DEF Publish, TypeOK
  <2> QED
    BY <1>11, <2>1, UnchangedOrder DEF TypeOK, cache
<1>12. ASSUME NEW c \in Collections, NEW is \in SUBSET Items, ChangeItems(c, is) PROVE TypeOK'
  <2>1. PICK w \in [is -> Versions], named \in {is, {}} :
           /\ world' = [s \in Sources |-> IF s \in is THEN w[s] ELSE world[s]]
           /\ Publish([c |-> c, items |-> named])
    BY <1>12 DEF ChangeItems
  <2>2. [c |-> c, items |-> named] \in Event
    BY DEF Event
  <2>3. world' \in Answer
    BY <2>1 DEF TypeOK, Answer
  <2> QED
    BY <1>11, <1>12, <2>1, <2>2, <2>3 DEF ChangeItems
<1>13. CASE ChangeSystem
  <2>1. [c |-> System, items |-> {}] \in Event
    BY DEF Event
  <2>2. world' \in Answer
    BY <1>13 DEF ChangeSystem, TypeOK, Answer
  <2> QED
    BY <1>11, <1>13, <2>1, <2>2 DEF ChangeSystem
<1>14. ASSUME NEW i \in DOMAIN bus, Deliver(i) PROVE TypeOK'
  <2>1. bus' \in Seq(Event) /\ UNCHANGED <<world, changes, look>>
    BY <1>14, Delivered DEF Deliver
  <2>2. CASE UNCHANGED <<cache, count>>
    BY <2>1, <2>2, UnchangedOrder DEF TypeOK, cache
  <2>3. ASSUME NEW ks \in SUBSET Keys, Invalidate(ks), count' = count + 1 PROVE TypeOK'
    BY <1>4, <2>1, <2>3 DEF TypeOK
  <2> QED
    BY <1>14, <2>2, <2>3 DEF Deliver, Affected
<1> QED
  BY <1>2, <1>3, <1>5, <1>6, <1>8, <1>9, <1>10, <1>12, <1>13, <1>14, <1>7 DEF Next

\* The cache has an order of exactly its keys, and all calls and events have their
\* types, whatever is cached, evicted and invalidated.
THEOREM TypeCorrect == Spec => []TypeOK
<1>1. Init => TypeOK
  BY Begins DEF IInv
<1>2. TypeOK /\ [Next]_vars => TypeOK'
  BY NextKeepsTypes
<1> QED
  BY <1>1, <1>2, PTL DEF Spec

\* What may be cached is what was read, and every answer in the cache that is not
\* true any more is found by an event still to come: for all keys, rules, calls and
\* changes, provided that the cache is large enough for all keys and that no rule
\* looks at a collection whose events are ignored (verifyPermissions).
THEOREM AnswersStayFresh ==
    ASSUME FitsInCache, NoneIgnored
    PROVE  Spec => []AnswersFreshOrDoomed
<1>1. Init => IInv
  BY Begins
<1>2. IInv /\ [Next]_vars => IInv'
  BY NextKeeps
<1>3. IInv => AnswersFreshOrDoomed
  BY StaleIsDoomed
<1> QED
  BY <1>1, <1>2, <1>3, PTL DEF Spec
=============================================================================
