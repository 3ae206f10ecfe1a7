--------------------------- MODULE RoomStore_proofs ---------------------------
(***************************************************************************)
(* What the store transactions of a room return: room data for room data,  *)
(* and focuses in which no field is held twice if none was before.         *)
(***************************************************************************)
EXTENDS RoomStore, TLAPS

LEMMA EmptyTypes ==
    /\ NoChanges \in Changes
    /\ NoMembers \in Members
    /\ NoFocuses \in Focuses
    /\ Absent \in RoomData
    /\ FreshDefaults \in RoomDefaults
BY DEF NoChanges, NoMembers, NoFocuses, Absent, FreshDefaults, Changes, Members,
       Focuses, RoomData, RoomDefaults

LEMMA GetTypes ==
    ASSUME NEW s \in RoomData, NEW d \in RoomDefaults
    PROVE  /\ GetChanges(s, d) \in Changes
           /\ GetClients(s, d) \in Members
           /\ GetFocuses(s, d) \in Focuses
BY DEF GetChanges, GetClients, GetFocuses, RoomData, RoomDefaults

LEMMA SetTypes ==
    ASSUME NEW s \in RoomData
    PROVE  /\ \A v \in Changes : SetChanges(s, v) \in RoomData
           /\ \A v \in Members : SetClients(s, v) \in RoomData
           /\ \A v \in Focuses : SetFocuses(s, v) \in RoomData
BY DEF SetChanges, SetClients, SetFocuses, RoomData, Keys

LEMMA AliasTypes ==
    ASSUME NEW s \in RoomData, NEW d \in RoomDefaults
    PROVE  /\ \A v \in Changes : AliasChanges(s, d, v) \in RoomDefaults
           /\ \A v \in Members : AliasClients(s, d, v) \in RoomDefaults
           /\ \A v \in Focuses : AliasFocuses(s, d, v) \in RoomDefaults
BY DEF AliasChanges, AliasClients, AliasFocuses, RoomDefaults

\* Room data is what a transaction makes of room data, defaults of defaults.
IsResult(x) == x.s \in RoomData /\ x.d \in RoomDefaults

LEMMA InitType ==
    ASSUME NEW s \in RoomData, NEW init \in Changes
    PROVE  InitTxn(s, init) \in RoomData
BY EmptyTypes DEF InitTxn, RoomData, Keys

LEMMA PushType ==
    ASSUME NEW s \in RoomData, NEW d \in RoomDefaults, NEW c \in Clients
    PROVE  IsResult(PushTxn(s, d, c))
<1> DEFINE m == [GetClients(s, d) EXCEPT ![c] = @ + 1]
<1>1. m \in Members
  BY GetTypes DEF Members
<1>2. SetClients(s, m) \in RoomData /\ AliasClients(s, d, m) \in RoomDefaults
  BY <1>1, SetTypes, AliasTypes
<1> QED
  BY <1>2 DEF PushTxn, Result, IsResult

LEMMA LeaveType ==
    ASSUME NEW s \in RoomData, NEW d \in RoomDefaults, NEW c \in Clients
    PROVE  IsResult(LeaveTxn(s, d, c))
<1> DEFINE m  == [GetClients(s, d) EXCEPT ![c] = 0]
           fo == [GetFocuses(s, d) EXCEPT ![c] = NoField]
           focused == GetFocuses(s, d)[c] # NoField
           s1 == SetClients(s, m)
           s2 == IF focused THEN SetFocuses(s1, fo) ELSE s1
           s3 == IF Empty(m) THEN SetChanges(s2, NoChanges) ELSE s2
<1>1. m \in Members /\ fo \in Focuses
  BY GetTypes DEF Members, Focuses
<1>2. s1 \in RoomData
  BY <1>1, SetTypes
<1>3. s2 \in RoomData
  <2> HIDE DEF s1, fo, focused
  <2> QED BY <1>1, <1>2, SetTypes
<1>4. s3 \in RoomData
  <2> HIDE DEF s2, m
  <2> QED BY <1>3, SetTypes, EmptyTypes
<1>5. (IF focused THEN AliasFocuses(s, d, fo) ELSE d) \in RoomDefaults
  <2> HIDE DEF fo, focused
  <2> QED BY <1>1, AliasTypes
<1> QED
  BY <1>4, <1>5 DEF LeaveTxn, Result, IsResult

LEMMA UpdateType ==
    ASSUME NEW s \in RoomData, NEW d \in RoomDefaults, NEW fs \in SUBSET Fields,
           NEW v \in Values \cup {NoValue}
    PROVE  IsResult(UpdateTxn(s, d, fs, v))
<1> DEFINE ch == [f \in Fields |-> IF f \in fs THEN v ELSE GetChanges(s, d)[f]]
<1>1. ch \in Changes
  BY GetTypes DEF Changes
<1>2. SetChanges(s, ch) \in RoomData /\ AliasChanges(s, d, ch) \in RoomDefaults
  BY <1>1, SetTypes, AliasTypes
<1> QED
  BY <1>2 DEF UpdateTxn, Result, IsResult

LEMMA DropType ==
    ASSUME NEW s \in RoomData, NEW d \in RoomDefaults, NEW fs \in SUBSET Fields
    PROVE  /\ IsResult(DropTxn(s, d, fs))
           /\ IsResult(DropAllTxn(s, d))
<1> DEFINE ch == [f \in Fields |-> IF f \in fs THEN NoValue ELSE GetChanges(s, d)[f]]
<1>1. ch \in Changes
  BY GetTypes DEF Changes
<1>2. SetChanges(s, ch) \in RoomData /\ AliasChanges(s, d, ch) \in RoomDefaults
  BY <1>1, SetTypes, AliasTypes
<1>3. IsResult(DropTxn(s, d, fs))
  BY <1>2 DEF DropTxn, Result, IsResult
<1>4. IsResult(DropAllTxn(s, d))
  BY SetTypes, EmptyTypes DEF DropAllTxn, Result, IsResult
<1> QED
  BY <1>3, <1>4

LEMMA SaveType ==
    ASSUME NEW s \in RoomData, NEW d \in RoomDefaults, NEW saved \in Changes,
           NEW relational
    PROVE  IsResult(SaveTxn(s, d, saved, relational))
<1> DEFINE kept(f) == f \notin relational /\ GetChanges(s, d)[f] # saved[f]
           ch == [f \in Fields |-> IF kept(f) THEN GetChanges(s, d)[f] ELSE NoValue]
<1>1. ch \in Changes
  BY GetTypes DEF Changes
<1>2. SetChanges(s, ch) \in RoomData
  BY <1>1, SetTypes
<1> QED
  BY <1>2 DEF SaveTxn, Result, IsResult

LEMMA FocusType ==
    ASSUME NEW s \in RoomData, NEW d \in RoomDefaults, NEW c \in Clients,
           NEW f \in Fields \cup {NoField}
    PROVE  IsResult(FocusTxn(s, d, c, f))
<1> DEFINE fo == [GetFocuses(s, d) EXCEPT ![c] = f]
<1>1. fo \in Focuses
  BY GetTypes DEF Focuses
<1>2. SetFocuses(s, fo) \in RoomData /\ AliasFocuses(s, d, fo) \in RoomDefaults
  BY <1>1, SetTypes, AliasTypes
<1>3. CASE f = NoField \/ MayFocus(s, d, c, f)
  BY <1>2, <1>3 DEF FocusTxn, Result, IsResult
<1>4. CASE ~(f = NoField \/ MayFocus(s, d, c, f))
  BY <1>4 DEF FocusTxn, Result, IsResult
<1> QED
  BY <1>3, <1>4

LEMMA CloseType ==
    ASSUME NEW s \in RoomData, NEW d, NEW force
    PROVE  CloseTxn(s, d, force) \in RoomData
BY EmptyTypes DEF CloseTxn

-----------------------------------------------------------------------------
(* No transaction gives a field to a second client                         *)

IsExclusive(x) == Exclusive(x.s.focuses) /\ Exclusive(x.d.focuses)

LEMMA NoFocusesExclusive == Exclusive(NoFocuses)
BY DEF Exclusive, NoFocuses

LEMMA GetExclusive ==
    ASSUME NEW s \in RoomData, NEW d \in RoomDefaults,
           Exclusive(s.focuses), Exclusive(d.focuses)
    PROVE  Exclusive(GetFocuses(s, d))
BY DEF GetFocuses

\* A focus that may be taken, or a release, keeps a focuses object single.
LEMMA PutExclusive ==
    ASSUME NEW fo \in Focuses, Exclusive(fo), NEW c \in Clients,
           NEW f \in Fields \cup {NoField},
           f = NoField \/ FocusersOf(fo, f) \subseteq {c}
    PROVE  Exclusive([fo EXCEPT ![c] = f])
<1> DEFINE new == [fo EXCEPT ![c] = f]
<1>1. SUFFICES ASSUME NEW a \in Clients, NEW b \in Clients,
                      new[a] = new[b], new[a] # NoField
               PROVE  a = b
  BY DEF Exclusive
<1>2. CASE a = c /\ b # c
  BY <1>1, <1>2 DEF Focuses, FocusersOf
<1>3. CASE b = c /\ a # c
  BY <1>1, <1>3 DEF Focuses, FocusersOf
<1>4. CASE a # c /\ b # c
  BY <1>1, <1>4 DEF Focuses, Exclusive
<1> QED
  BY <1>2, <1>3, <1>4

\* Writing other keys leaves the focuses alone.
LEMMA OtherKeys ==
    ASSUME NEW s \in RoomData, NEW d \in RoomDefaults, NEW v
    PROVE  /\ SetChanges(s, v).focuses = s.focuses
           /\ SetClients(s, v).focuses = s.focuses
           /\ AliasChanges(s, d, v).focuses = d.focuses
           /\ AliasClients(s, d, v).focuses = d.focuses
BY DEF SetChanges, SetClients, AliasChanges, AliasClients, RoomData, RoomDefaults

LEMMA FocusKeys ==
    ASSUME NEW s \in RoomData, NEW d \in RoomDefaults, NEW v,
           Exclusive(v), Exclusive(d.focuses)
    PROVE  Exclusive(SetFocuses(s, v).focuses) /\ Exclusive(AliasFocuses(s, d, v).focuses)
BY DEF SetFocuses, AliasFocuses, RoomData, RoomDefaults

LEMMA FocusKeepsExclusive ==
    ASSUME NEW s \in RoomData, NEW d \in RoomDefaults, NEW c \in Clients,
           NEW f \in Fields \cup {NoField},
           Exclusive(s.focuses), Exclusive(d.focuses)
    PROVE  IsExclusive(FocusTxn(s, d, c, f))
<1> DEFINE old == GetFocuses(s, d)
           fo == [old EXCEPT ![c] = f]
<1>1. old \in Focuses /\ Exclusive(old)
  BY GetTypes, GetExclusive
<1>2. CASE f = NoField \/ MayFocus(s, d, c, f)
  <2>1. Exclusive(fo)
    <3> HIDE DEF old
    <3>1. f = NoField \/ FocusersOf(old, f) \subseteq {c}
      BY <1>2 DEF MayFocus, old
    <3> QED BY <1>1, <3>1, PutExclusive
  <2>2. Exclusive(SetFocuses(s, fo).focuses) /\ Exclusive(AliasFocuses(s, d, fo).focuses)
    <3> HIDE DEF fo
    <3> QED BY <2>1, FocusKeys
  <2> QED
    BY <1>2, <2>2 DEF FocusTxn, Result, IsExclusive
<1>3. CASE ~(f = NoField \/ MayFocus(s, d, c, f))
  BY <1>3 DEF FocusTxn, Result, IsExclusive
<1> QED
  BY <1>2, <1>3

LEMMA LeaveKeepsExclusive ==
    ASSUME NEW s \in RoomData, NEW d \in RoomDefaults, NEW c \in Clients,
           Exclusive(s.focuses), Exclusive(d.focuses)
    PROVE  IsExclusive(LeaveTxn(s, d, c))
<1> DEFINE m  == [GetClients(s, d) EXCEPT ![c] = 0]
           old == GetFocuses(s, d)
           fo == [old EXCEPT ![c] = NoField]
           focused == old[c] # NoField
           s1 == SetClients(s, m)
           s2 == IF focused THEN SetFocuses(s1, fo) ELSE s1
           s3 == IF Empty(m) THEN SetChanges(s2, NoChanges) ELSE s2
<1>1. Exclusive(fo)
  <2>1. old \in Focuses /\ Exclusive(old)
    BY GetTypes, GetExclusive
  <2> HIDE DEF old
  <2> QED BY <2>1, PutExclusive
<1>2. s1 \in RoomData /\ s1.focuses = s.focuses
  <2>1. m \in Members
    BY GetTypes DEF Members
  <2> QED BY <2>1, SetTypes, OtherKeys
<1>3. s2 \in RoomData /\ Exclusive(s2.focuses)
  <2>1. fo \in Focuses
    BY GetTypes DEF Focuses
  <2> HIDE DEF s1, fo, focused
  <2>2. SetFocuses(s1, fo) \in RoomData
    BY <1>2, <2>1, SetTypes
  <2>3. Exclusive(SetFocuses(s1, fo).focuses)
    BY <1>1, <1>2, FocusKeys
  <2> QED BY <1>2, <2>2, <2>3
<1>4. Exclusive(s3.focuses)
  <2> HIDE DEF s2, m
  <2> QED BY <1>3, OtherKeys
<1>5. Exclusive((IF focused THEN AliasFocuses(s, d, fo) ELSE d).focuses)
  <2> HIDE DEF fo, focused
  <2> QED BY <1>1, FocusKeys
<1> QED
  BY <1>4, <1>5 DEF LeaveTxn, Result, IsExclusive

\* The other transactions leave the focuses alone, or start with none.
LEMMA OthersKeepExclusive ==
    ASSUME NEW s \in RoomData, NEW d \in RoomDefaults, NEW c, NEW fs, NEW v, NEW saved,
           NEW relational, NEW init, NEW force,
           Exclusive(s.focuses), Exclusive(d.focuses)
    PROVE  /\ IsExclusive(PushTxn(s, d, c))
           /\ IsExclusive(UpdateTxn(s, d, fs, v))
           /\ IsExclusive(DropTxn(s, d, fs))
           /\ IsExclusive(DropAllTxn(s, d))
           /\ IsExclusive(SaveTxn(s, d, saved, relational))
           /\ Exclusive(InitTxn(s, init).focuses)
           /\ Exclusive(CloseTxn(s, d, force).focuses)
<1>1. IsExclusive(PushTxn(s, d, c))
  BY OtherKeys DEF PushTxn, Result, IsExclusive
<1>2. IsExclusive(UpdateTxn(s, d, fs, v))
  BY OtherKeys DEF UpdateTxn, Result, IsExclusive
<1>3. IsExclusive(DropTxn(s, d, fs)) /\ IsExclusive(DropAllTxn(s, d))
  BY OtherKeys DEF DropTxn, DropAllTxn, Result, IsExclusive
<1>4. IsExclusive(SaveTxn(s, d, saved, relational))
  BY OtherKeys DEF SaveTxn, Result, IsExclusive
<1>5. Exclusive(InitTxn(s, init).focuses)
  BY NoFocusesExclusive DEF InitTxn
<1>6. Exclusive(CloseTxn(s, d, force).focuses)
  BY NoFocusesExclusive DEF CloseTxn, Absent
<1> QED
  BY <1>1, <1>2, <1>3, <1>4, <1>5, <1>6

-----------------------------------------------------------------------------
(* A room with its metadata has all its keys, and what happens to the      *)
(* entries of the other clients when it does                               *)

Complete(s) == Initialized(s) => s.keys = Keys

\* Nothing in t is less than it was for x in s: x is still a client, with its focus.
Keeps(s, t, x) == t.clients[x] >= s.clients[x] /\ t.focuses[x] = s.focuses[x]

LEMMA SetComplete ==
    ASSUME NEW s \in RoomData, Complete(s), NEW v
    PROVE  /\ Complete(SetChanges(s, v))
           /\ Complete(SetClients(s, v))
           /\ Complete(SetFocuses(s, v))
BY DEF SetChanges, SetClients, SetFocuses, Complete, Initialized, Keys, RoomData

LEMMA TransactionsComplete ==
    ASSUME NEW s \in RoomData, NEW d \in RoomDefaults, Complete(s), NEW c \in Clients,
           NEW f, NEW fs, NEW v, NEW saved, NEW relational, NEW init, NEW force
    PROVE  /\ Complete(InitTxn(s, init))
           /\ Complete(PushTxn(s, d, c).s)
           /\ Complete(LeaveTxn(s, d, c).s)
           /\ Complete(UpdateTxn(s, d, fs, v).s)
           /\ Complete(DropTxn(s, d, fs).s)
           /\ Complete(DropAllTxn(s, d).s)
           /\ Complete(FocusTxn(s, d, c, f).s)
           /\ Complete(SaveTxn(s, d, saved, relational).s)
           /\ Complete(CloseTxn(s, d, force))
<1>1. Complete(InitTxn(s, init))
  BY DEF InitTxn, Complete
<1>2. Complete(PushTxn(s, d, c).s)
  BY SetComplete DEF PushTxn, Result
<1>3. Complete(LeaveTxn(s, d, c).s)
  <2> DEFINE m  == [GetClients(s, d) EXCEPT ![c] = 0]
             fo == [GetFocuses(s, d) EXCEPT ![c] = NoField]
             focused == GetFocuses(s, d)[c] # NoField
             s1 == SetClients(s, m)
             s2 == IF focused THEN SetFocuses(s1, fo) ELSE s1
             s3 == IF Empty(m) THEN SetChanges(s2, NoChanges) ELSE s2
  <2>1. m \in Members /\ fo \in Focuses
    BY GetTypes DEF Members, Focuses
  <2>2. s1 \in RoomData /\ Complete(s1)
    BY <2>1, SetTypes, SetComplete
  <2>3. s2 \in RoomData /\ Complete(s2)
    <3> HIDE DEF s1, fo, focused
    <3> QED BY <2>1, <2>2, SetTypes, SetComplete
  <2>4. Complete(s3)
    <3> HIDE DEF s2, m
    <3> QED BY <2>3, SetComplete
  <2> QED BY <2>4 DEF LeaveTxn, Result
<1>4. Complete(UpdateTxn(s, d, fs, v).s)
  BY SetComplete DEF UpdateTxn, Result
<1>5. Complete(DropTxn(s, d, fs).s) /\ Complete(DropAllTxn(s, d).s)
  BY SetComplete DEF DropTxn, DropAllTxn, Result
<1>6. Complete(FocusTxn(s, d, c, f).s)
  BY SetComplete DEF FocusTxn, Result
<1>7. Complete(SaveTxn(s, d, saved, relational).s)
  BY SetComplete DEF SaveTxn, Result
<1>8. Complete(CloseTxn(s, d, force))
  BY DEF CloseTxn, Absent, Complete, Initialized
<1> QED
  BY <1>1, <1>2, <1>3, <1>4, <1>5, <1>6, <1>7, <1>8

\* In a room that exists, a transaction for c keeps every other client.
LEMMA TransactionsKeep ==
    ASSUME NEW s \in RoomData, NEW d \in RoomDefaults, Complete(s), Initialized(s),
           NEW c \in Clients, NEW x \in Clients,
           NEW f, NEW fs, NEW v, NEW saved, NEW relational, NEW init
    PROVE  /\ InitTxn(s, init) = s
           /\ Keeps(s, PushTxn(s, d, c).s, x)
           /\ x # c => Keeps(s, LeaveTxn(s, d, c).s, x)
           /\ Keeps(s, UpdateTxn(s, d, fs, v).s, x)
           /\ Keeps(s, DropTxn(s, d, fs).s, x)
           /\ Keeps(s, DropAllTxn(s, d).s, x)
           /\ x # c => Keeps(s, FocusTxn(s, d, c, f).s, x)
           /\ Keeps(s, SaveTxn(s, d, saved, relational).s, x)
<1>1. GetClients(s, d) = s.clients /\ GetFocuses(s, d) = s.focuses
  BY DEF GetClients, GetFocuses, Complete, Keys
<1>2. s.clients \in Members /\ s.focuses \in Focuses /\ s.clients[x] \in Nat
  BY DEF RoomData, Members
<1>3. ASSUME NEW u PROVE /\ SetChanges(s, u).clients = s.clients
                         /\ SetChanges(s, u).focuses = s.focuses
                         /\ SetClients(s, u).clients = u
                         /\ SetClients(s, u).focuses = s.focuses
                         /\ SetFocuses(s, u).clients = s.clients
                         /\ SetFocuses(s, u).focuses = u
  BY DEF SetChanges, SetClients, SetFocuses, RoomData
<1>4. ASSUME NEW u PROVE Keeps(s, SetChanges(s, u), x)
  BY <1>2, <1>3 DEF Keeps
<1>5. InitTxn(s, init) = s
  BY DEF InitTxn
<1>6. Keeps(s, PushTxn(s, d, c).s, x)
  <2> DEFINE m == [s.clients EXCEPT ![c] = @ + 1]
  <2>1. PushTxn(s, d, c).s = SetClients(s, m)
    BY <1>1 DEF PushTxn, Result
  <2>2. m[x] >= s.clients[x]
    BY <1>2 DEF Members
  <2> HIDE DEF m
  <2> QED BY <1>3, <2>1, <2>2 DEF Keeps
<1>7. ASSUME x # c PROVE Keeps(s, LeaveTxn(s, d, c).s, x)
  <2> DEFINE m  == [s.clients EXCEPT ![c] = 0]
             fo == [s.focuses EXCEPT ![c] = NoField]
             s1 == SetClients(s, m)
             s2 == IF s.focuses[c] # NoField THEN SetFocuses(s1, fo) ELSE s1
             s3 == IF Empty(m) THEN SetChanges(s2, NoChanges) ELSE s2
  <2>1. LeaveTxn(s, d, c).s = s3
    BY <1>1 DEF LeaveTxn, Result
  <2>2. m[x] = s.clients[x] /\ fo[x] = s.focuses[x]
    BY <1>2, <1>7 DEF Members, Focuses
  <2>3. s1 \in RoomData /\ s1.clients = m /\ s1.focuses = s.focuses
    BY <1>2, <1>3, SetTypes DEF Members
  <2>4. s2 \in RoomData /\ s2.clients = m /\ s2.focuses[x] = s.focuses[x]
    <3>1. fo \in Focuses
      BY <1>2 DEF Focuses
    <3> HIDE DEF s1, m, fo
    <3>2. /\ SetFocuses(s1, fo).clients = s1.clients
          /\ SetFocuses(s1, fo).focuses = fo
          /\ SetFocuses(s1, fo) \in RoomData
      BY <2>3, <3>1, SetTypes DEF SetFocuses, RoomData
    <3> QED BY <2>2, <2>3, <3>2
  <2>5. s3.clients = m /\ s3.focuses[x] = s.focuses[x]
    <3> HIDE DEF s2, m
    <3>1. /\ SetChanges(s2, NoChanges).clients = s2.clients
          /\ SetChanges(s2, NoChanges).focuses = s2.focuses
      BY <2>4 DEF SetChanges, RoomData
    <3> QED BY <2>4, <3>1
  <2> HIDE DEF s3, m
  <2> QED BY <1>2, <2>1, <2>2, <2>5 DEF Keeps
<1>8. Keeps(s, UpdateTxn(s, d, fs, v).s, x)
  BY <1>4 DEF UpdateTxn, Result
<1>9. Keeps(s, DropTxn(s, d, fs).s, x) /\ Keeps(s, DropAllTxn(s, d).s, x)
  BY <1>4 DEF DropTxn, DropAllTxn, Result
<1>10. ASSUME x # c PROVE Keeps(s, FocusTxn(s, d, c, f).s, x)
  <2> DEFINE fo == [s.focuses EXCEPT ![c] = f]
  <2>1. FocusTxn(s, d, c, f).s = SetFocuses(s, fo) \/ FocusTxn(s, d, c, f).s = s
    BY <1>1 DEF FocusTxn, Result
  <2>2. fo[x] = s.focuses[x]
    BY <1>2, <1>10 DEF Focuses
  <2> HIDE DEF fo
  <2> QED BY <1>2, <1>3, <2>1, <2>2 DEF Keeps
<1>11. Keeps(s, SaveTxn(s, d, saved, relational).s, x)
  BY <1>4 DEF SaveTxn, Result
<1> QED
  BY <1>5, <1>6, <1>7, <1>8, <1>9, <1>10, <1>11
-----------------------------------------------------------------------------
(* A sound room: every client is in it once at most, and who holds a focus *)
(* is in it.  What the transactions of a member make of one, and a save.   *)

Sound(s) == \A c \in Clients : s.clients[c] \in {0, 1} /\ (s.focuses[c] # NoField => s.clients[c] = 1)

SameFor(s, t, c) == t.clients[c] = s.clients[c] /\ t.focuses[c] = s.focuses[c]

\* The room exists and is sound, nothing has changed for the other clients, and
\* nobody is gone without its changes; no defaults were touched.
MemberResult(s, d, c, x) ==
    /\ x.d = d
    /\ Initialized(x.s)
    /\ \A e \in Clients \ {c} : SameFor(s, x.s, e)
    /\ Sound(x.s)
    /\ Empty(x.s.clients) => x.s.changes = NoChanges

LEMMA MemberTxns ==
    ASSUME NEW s \in RoomData, NEW d \in RoomDefaults, Complete(s), Initialized(s), Sound(s),
           NEW c \in Clients, s.clients[c] = 1, NEW f, NEW fs, NEW v
    PROVE  /\ MemberResult(s, d, c, LeaveTxn(s, d, c))
           /\ MemberResult(s, d, c, FocusTxn(s, d, c, f))
           /\ FocusTxn(s, d, c, f).s.clients = s.clients
           /\ MemberResult(s, d, c, UpdateTxn(s, d, fs, v))
           /\ MemberResult(s, d, c, DropTxn(s, d, fs))
           /\ MemberResult(s, d, c, DropAllTxn(s, d))
<1>1. /\ GetClients(s, d) = s.clients /\ GetFocuses(s, d) = s.focuses /\ s.keys = Keys
      /\ s.clients \in Members /\ s.focuses \in Focuses /\ s.changes \in Changes
  BY DEF GetClients, GetFocuses, Complete, Keys, RoomData
<1>2. ASSUME NEW u PROVE AliasChanges(s, d, u) = d /\ AliasFocuses(s, d, u) = d
  BY <1>1 DEF AliasChanges, AliasFocuses, Keys
<1>3. ASSUME NEW t \in RoomData, NEW u
      PROVE  /\ SetChanges(t, u).clients = t.clients /\ SetChanges(t, u).focuses = t.focuses
             /\ SetChanges(t, u).changes = u
             /\ SetClients(t, u).clients = u /\ SetClients(t, u).focuses = t.focuses
             /\ SetFocuses(t, u).clients = t.clients /\ SetFocuses(t, u).focuses = u
             /\ Initialized(t) => /\ Initialized(SetChanges(t, u))
                                  /\ Initialized(SetClients(t, u))
                                  /\ Initialized(SetFocuses(t, u))
  BY DEF SetChanges, SetClients, SetFocuses, Initialized, RoomData
<1>4. ~Empty(s.clients)
  BY DEF Empty
<1>5. ASSUME NEW u PROVE MemberResult(s, d, c, Result(SetChanges(s, u), d))
  BY <1>3, <1>4 DEF MemberResult, Result, SameFor, Sound
<1>6. MemberResult(s, d, c, UpdateTxn(s, d, fs, v))
  BY <1>2, <1>5 DEF UpdateTxn
<1>7. MemberResult(s, d, c, DropTxn(s, d, fs)) /\ MemberResult(s, d, c, DropAllTxn(s, d))
  BY <1>2, <1>5 DEF DropTxn, DropAllTxn
<1>8. MemberResult(s, d, c, FocusTxn(s, d, c, f)) /\ FocusTxn(s, d, c, f).s.clients = s.clients
  <2> DEFINE fo == [s.focuses EXCEPT ![c] = f]
  <2>1. FocusTxn(s, d, c, f) = Result(SetFocuses(s, fo), d) \/ FocusTxn(s, d, c, f) = Result(s, d)
    BY <1>1, <1>2 DEF FocusTxn
  <2>2. \A e \in Clients \ {c} : fo[e] = s.focuses[e]
    BY <1>1 DEF Focuses
  <2> HIDE DEF fo
  <2>3. MemberResult(s, d, c, Result(SetFocuses(s, fo), d))
    BY <1>3, <1>4, <2>2 DEF MemberResult, Result, SameFor, Sound
  <2>4. MemberResult(s, d, c, Result(s, d))
    BY <1>4 DEF MemberResult, Result, SameFor
  <2>5. Result(SetFocuses(s, fo), d).s.clients = s.clients /\ Result(s, d).s.clients = s.clients
    BY <1>3 DEF Result
  <2> QED BY <2>1, <2>3, <2>4, <2>5
<1>9. MemberResult(s, d, c, LeaveTxn(s, d, c))
  <2> DEFINE m  == [s.clients EXCEPT ![c] = 0]
             fo == [s.focuses EXCEPT ![c] = NoField]
             s1 == SetClients(s, m)
             s2 == IF s.focuses[c] # NoField THEN SetFocuses(s1, fo) ELSE s1
             s3 == IF Empty(m) THEN SetChanges(s2, NoChanges) ELSE s2
  <2>1. LeaveTxn(s, d, c) = Result(s3, d)
    BY <1>1, <1>2 DEF LeaveTxn
  <2>2. /\ m \in Members /\ m[c] = 0 /\ \A e \in Clients \ {c} : m[e] = s.clients[e]
        /\ fo \in Focuses /\ fo[c] = NoField /\ \A e \in Clients \ {c} : fo[e] = s.focuses[e]
    BY <1>1 DEF Members, Focuses
  <2> HIDE DEF m, fo
  <2>3. s1 \in RoomData /\ Initialized(s1) /\ s1.clients = m /\ s1.focuses = s.focuses
    BY <1>3, <2>2, SetTypes
  <2>4. /\ s2 \in RoomData /\ Initialized(s2) /\ s2.clients = m
        /\ s2.focuses[c] = NoField /\ \A e \in Clients \ {c} : s2.focuses[e] = s.focuses[e]
    <3> HIDE DEF s1
    <3>1. SetFocuses(s1, fo) \in RoomData
      BY <2>2, <2>3, SetTypes
    <3> QED BY <1>3, <2>2, <2>3, <3>1
  <2>5. /\ Initialized(s3) /\ s3.clients = m /\ s3.focuses = s2.focuses
        /\ Empty(m) => s3.changes = NoChanges
    <3> HIDE DEF s2
    <3> QED BY <1>3, <2>4
  <2> HIDE DEF s3
  <2>6. Sound(s3) /\ \A e \in Clients \ {c} : SameFor(s, s3, e)
    BY <2>2, <2>4, <2>5 DEF Sound, SameFor
  <2> QED BY <2>1, <2>5, <2>6 DEF MemberResult, Result
<1> QED
  BY <1>6, <1>7, <1>8, <1>9

LEMMA SaveResult ==
    ASSUME NEW s \in RoomData, NEW d \in RoomDefaults, NEW saved, NEW relational
    PROVE  LET x == SaveTxn(s, d, saved, relational)
           IN  /\ x.d = d /\ x.s.clients = s.clients /\ x.s.focuses = s.focuses
               /\ Initialized(x.s) <=> Initialized(s)
               /\ "clients" \in x.s.keys <=> "clients" \in s.keys
               /\ GetChanges(s, d) = NoChanges => x.s.changes = NoChanges
<1> DEFINE kept(f) == f \notin relational /\ GetChanges(s, d)[f] # saved[f]
           ch == [f \in Fields |-> IF kept(f) THEN GetChanges(s, d)[f] ELSE NoValue]
<1>1. SaveTxn(s, d, saved, relational) = Result(SetChanges(s, ch), d)
  BY DEF SaveTxn
<1>2. GetChanges(s, d) = NoChanges => ch = NoChanges
  BY DEF NoChanges
<1> HIDE DEF ch
<1>3. /\ SetChanges(s, ch).clients = s.clients /\ SetChanges(s, ch).focuses = s.focuses
      /\ SetChanges(s, ch).changes = ch /\ SetChanges(s, ch).keys = s.keys \cup {"changes"}
  BY DEF SetChanges, RoomData
<1> QED
  BY <1>1, <1>2, <1>3 DEF Result, Initialized
-----------------------------------------------------------------------------
(* No transaction but the first gives a room its metadata                  *)

LEMMA SetStaysClosed ==
    ASSUME NEW s \in RoomData, ~Initialized(s), NEW v
    PROVE  /\ ~Initialized(SetChanges(s, v))
           /\ ~Initialized(SetClients(s, v))
           /\ ~Initialized(SetFocuses(s, v))
BY DEF SetChanges, SetClients, SetFocuses, Initialized, RoomData

LEMMA TransactionsStayClosed ==
    ASSUME NEW s \in RoomData, NEW d \in RoomDefaults, ~Initialized(s), NEW c \in Clients,
           NEW f, NEW fs, NEW v
    PROVE  /\ ~Initialized(PushTxn(s, d, c).s)
           /\ ~Initialized(LeaveTxn(s, d, c).s)
           /\ ~Initialized(FocusTxn(s, d, c, f).s)
           /\ ~Initialized(UpdateTxn(s, d, fs, v).s)
           /\ ~Initialized(DropTxn(s, d, fs).s)
           /\ ~Initialized(DropAllTxn(s, d).s)
<1>1. /\ ~Initialized(PushTxn(s, d, c).s)
      /\ ~Initialized(FocusTxn(s, d, c, f).s)
      /\ ~Initialized(UpdateTxn(s, d, fs, v).s)
      /\ ~Initialized(DropTxn(s, d, fs).s)
      /\ ~Initialized(DropAllTxn(s, d).s)
  BY SetStaysClosed DEF PushTxn, FocusTxn, UpdateTxn, DropTxn, DropAllTxn, Result
<1>2. ~Initialized(LeaveTxn(s, d, c).s)
  <2> DEFINE m  == [GetClients(s, d) EXCEPT ![c] = 0]
             fo == [GetFocuses(s, d) EXCEPT ![c] = NoField]
             s1 == SetClients(s, m)
             s2 == IF GetFocuses(s, d)[c] # NoField THEN SetFocuses(s1, fo) ELSE s1
  <2>1. LeaveTxn(s, d, c).s = IF Empty(m) THEN SetChanges(s2, NoChanges) ELSE s2
    BY DEF LeaveTxn, Result
  <2>2. m \in Members /\ fo \in Focuses
    BY GetTypes DEF Members, Focuses
  <2> HIDE DEF m, fo
  <2>3. s1 \in RoomData /\ ~Initialized(s1)
    BY <2>2, SetTypes, SetStaysClosed
  <2>4. s2 \in RoomData /\ ~Initialized(s2)
    <3> HIDE DEF s1
    <3> QED BY <2>2, <2>3, SetTypes, SetStaysClosed
  <2> HIDE DEF s2
  <2> QED BY <2>1, <2>4, SetStaysClosed
<1> QED
  BY <1>1, <1>2

-----------------------------------------------------------------------------
(* What the transactions make of a room that exists, field by field        *)

\* t is the room s, with these members, focuses and changes.
Becomes(s, t, clients, focuses, changes) ==
    /\ Initialized(s) => Initialized(t)
    /\ t.clients = clients
    /\ t.focuses = focuses
    /\ t.changes = changes

LEMMA SetBecomes ==
    ASSUME NEW s \in RoomData, NEW u
    PROVE  /\ Becomes(s, SetChanges(s, u), s.clients, s.focuses, u)
           /\ Becomes(s, SetClients(s, u), u, s.focuses, s.changes)
           /\ Becomes(s, SetFocuses(s, u), s.clients, u, s.changes)
BY DEF SetChanges, SetClients, SetFocuses, Becomes, Initialized, RoomData

LEMMA TransactionsBecome ==
    ASSUME NEW s \in RoomData, NEW d \in RoomDefaults, Complete(s), Initialized(s),
           NEW c \in Clients, NEW f, NEW fs, NEW v
    PROVE  /\ Becomes(s, PushTxn(s, d, c).s, [s.clients EXCEPT ![c] = @ + 1], s.focuses, s.changes)
           /\ LET m == [s.clients EXCEPT ![c] = 0]
              IN  Becomes(s, LeaveTxn(s, d, c).s, m, [s.focuses EXCEPT ![c] = NoField],
                          IF Empty(m) THEN NoChanges ELSE s.changes)
           /\ Becomes(s, FocusTxn(s, d, c, f).s, s.clients,
                      IF f = NoField \/ FocusersOf(s.focuses, f) \subseteq {c}
                      THEN [s.focuses EXCEPT ![c] = f] ELSE s.focuses,
                      s.changes)
           /\ Becomes(s, UpdateTxn(s, d, fs, v).s, s.clients, s.focuses,
                      [g \in Fields |-> IF g \in fs THEN v ELSE s.changes[g]])
           /\ Becomes(s, DropTxn(s, d, fs).s, s.clients, s.focuses,
                      [g \in Fields |-> IF g \in fs THEN NoValue ELSE s.changes[g]])
           /\ Becomes(s, DropAllTxn(s, d).s, s.clients, s.focuses, NoChanges)
<1>1. /\ GetClients(s, d) = s.clients /\ GetFocuses(s, d) = s.focuses
      /\ GetChanges(s, d) = s.changes
  BY DEF GetClients, GetFocuses, GetChanges, Complete, Keys
<1>2. s.clients \in Members /\ s.focuses \in Focuses
  BY DEF RoomData
<1>3. Becomes(s, PushTxn(s, d, c).s, [s.clients EXCEPT ![c] = @ + 1], s.focuses, s.changes)
  BY <1>1, SetBecomes DEF PushTxn, Result
<1>4. LET m == [s.clients EXCEPT ![c] = 0]
      IN  Becomes(s, LeaveTxn(s, d, c).s, m, [s.focuses EXCEPT ![c] = NoField],
                  IF Empty(m) THEN NoChanges ELSE s.changes)
  <2> DEFINE m  == [s.clients EXCEPT ![c] = 0]
             fo == [s.focuses EXCEPT ![c] = NoField]
             s1 == SetClients(s, m)
             s2 == IF s.focuses[c] # NoField THEN SetFocuses(s1, fo) ELSE s1
             s3 == IF Empty(m) THEN SetChanges(s2, NoChanges) ELSE s2
  <2>1. LeaveTxn(s, d, c).s = s3
    BY <1>1 DEF LeaveTxn, Result
  <2>2. /\ m \in Members /\ fo \in Focuses
        /\ s.focuses[c] = NoField => fo = s.focuses
    BY <1>2 DEF Members, Focuses
  <2> HIDE DEF m, fo
  <2>3. s1 \in RoomData /\ Becomes(s, s1, m, s.focuses, s.changes)
    BY <2>2, SetTypes, SetBecomes
  <2>4. s2 \in RoomData /\ Becomes(s, s2, m, fo, s.changes)
    <3> HIDE DEF s1
    <3>1. SetFocuses(s1, fo) \in RoomData /\ Becomes(s1, SetFocuses(s1, fo), s1.clients, fo, s1.changes)
      BY <2>2, <2>3, SetTypes, SetBecomes
    <3> QED BY <2>2, <2>3, <3>1 DEF Becomes
  <2>5. Becomes(s, s3, m, fo, IF Empty(m) THEN NoChanges ELSE s.changes)
    <3> HIDE DEF s2
    <3>1. Becomes(s2, SetChanges(s2, NoChanges), s2.clients, s2.focuses, NoChanges)
      BY <2>4, SetBecomes
    <3> QED BY <2>4, <3>1 DEF Becomes
  <2> QED BY <2>1, <2>5 DEF m, fo
<1>5. Becomes(s, FocusTxn(s, d, c, f).s, s.clients,
              IF f = NoField \/ FocusersOf(s.focuses, f) \subseteq {c}
              THEN [s.focuses EXCEPT ![c] = f] ELSE s.focuses,
              s.changes)
  <2>1. CASE f = NoField \/ FocusersOf(s.focuses, f) \subseteq {c}
    <3>1. FocusTxn(s, d, c, f).s = SetFocuses(s, [s.focuses EXCEPT ![c] = f])
      BY <1>1, <2>1 DEF FocusTxn, MayFocus, Result
    <3> QED BY <2>1, <3>1, SetBecomes
  <2>2. CASE ~(f = NoField \/ FocusersOf(s.focuses, f) \subseteq {c})
    <3>1. FocusTxn(s, d, c, f).s = s
      BY <1>1, <2>2 DEF FocusTxn, MayFocus, Result
    <3> QED BY <2>2, <3>1 DEF Becomes
  <2> QED BY <2>1, <2>2
<1>6. Becomes(s, UpdateTxn(s, d, fs, v).s, s.clients, s.focuses,
              [g \in Fields |-> IF g \in fs THEN v ELSE s.changes[g]])
  BY <1>1, SetBecomes DEF UpdateTxn, Result
<1>7. Becomes(s, DropTxn(s, d, fs).s, s.clients, s.focuses,
              [g \in Fields |-> IF g \in fs THEN NoValue ELSE s.changes[g]])
  BY <1>1, SetBecomes DEF DropTxn, Result
<1>8. Becomes(s, DropAllTxn(s, d).s, s.clients, s.focuses, NoChanges)
  BY SetBecomes DEF DropAllTxn, Result
<1> QED
  BY <1>3, <1>4, <1>5, <1>6, <1>7, <1>8

LEMMA SaveBecomes ==
    ASSUME NEW s \in RoomData, NEW d \in RoomDefaults, Complete(s), Initialized(s),
           NEW saved, NEW relational
    PROVE  LET cleared == {g \in Fields : g \in relational \/ s.changes[g] = saved[g]}
           IN  Becomes(s, SaveTxn(s, d, saved, relational).s, s.clients, s.focuses,
                       [g \in Fields |-> IF g \in cleared THEN NoValue ELSE s.changes[g]])
<1> DEFINE kept(g) == g \notin relational /\ s.changes[g] # saved[g]
           ch == [g \in Fields |-> IF kept(g) THEN s.changes[g] ELSE NoValue]
           cleared == {g \in Fields : g \in relational \/ s.changes[g] = saved[g]}
           left == [g \in Fields |-> IF g \in cleared THEN NoValue ELSE s.changes[g]]
<1>1. GetChanges(s, d) = s.changes
  BY DEF GetChanges, Complete, Keys
<1>2. SaveTxn(s, d, saved, relational).s = SetChanges(s, ch)
  BY <1>1 DEF SaveTxn, Result
<1>3. ch = left
  OBVIOUS
<1> HIDE DEF ch, left
<1>4. Becomes(s, SaveTxn(s, d, saved, relational).s, s.clients, s.focuses, left)
  BY <1>2, <1>3, SetBecomes
<1> QED
  BY <1>4 DEF left
=============================================================================
