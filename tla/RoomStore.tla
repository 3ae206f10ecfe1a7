------------------------------ MODULE RoomStore ------------------------------
(***************************************************************************)
(* The shared state of one collaborative editing room and the store        *)
(* transactions of api/src/websocket/collab/room.ts.  Every call           *)
(* this.store(callback) of a Room runs its callback under the Redis lock   *)
(* of the room (utils/store.ts, usingLock), so that each callback is one   *)
(* atomic operator here.                                                   *)
(*                                                                         *)
(* A key the store does not hold is read as roomDefaults[key]: the object  *)
(* itself, not a copy, so that a callback which modifies what it read      *)
(* modifies the defaults of its process too.  A transaction therefore      *)
(* takes a store s and the defaults d of the process it runs in, and       *)
(* returns both.                                                           *)
(***************************************************************************)
EXTENDS Naturals, FiniteSets

CONSTANTS
    Clients,    \* websocket connections (their uids)
    Fields,     \* fields of the edited item
    Values,     \* values a field may be given
    NoField,    \* "no entry" in a focuses object
    NoValue     \* "no entry" in a changes object

ASSUME NoFieldAssumption == NoField \notin Fields
ASSUME NoValueAssumption == NoValue \notin Values

-----------------------------------------------------------------------------
(* The values of the keys                                                  *)

Changes == [Fields -> Values \cup {NoValue}]
Members == [Clients -> Nat]          \* how often a uid occurs in the array
Focuses == [Clients -> Fields \cup {NoField}]

NoChanges == [f \in Fields |-> NoValue]
NoMembers == [c \in Clients |-> 0]
NoFocuses == [c \in Clients |-> NoField]

\* "uid" stands for the metadata keys uid, collection, item and version, which
\* are only ever set and deleted together.
Keys == {"uid", "changes", "clients", "focuses"}

RoomData == [keys : SUBSET Keys, changes : Changes, clients : Members, focuses : Focuses]
RoomDefaults == [changes : Changes, clients : Members, focuses : Focuses]

\* A room nobody has created, or that has been closed.
Absent == [keys |-> {}, changes |-> NoChanges, clients |-> NoMembers, focuses |-> NoFocuses]

\* The roomDefaults object of a process that has just started.
FreshDefaults == [changes |-> NoChanges, clients |-> NoMembers, focuses |-> NoFocuses]

-----------------------------------------------------------------------------
(* Reading                                                                 *)

GetChanges(s, d) == IF "changes" \in s.keys THEN s.changes ELSE d.changes
GetClients(s, d) == IF "clients" \in s.keys THEN s.clients ELSE d.clients
GetFocuses(s, d) == IF "focuses" \in s.keys THEN s.focuses ELSE d.focuses

Initialized(s) == "uid" \in s.keys
HasClient(s, d, c) == GetClients(s, d)[c] > 0
Empty(m) == \A c \in Clients : m[c] = 0

\* The clients that focus f.
FocusersOf(fo, f) == {c \in Clients : fo[c] = f}

\* No field is focused twice.
Exclusive(fo) == \A c, d \in Clients : fo[c] = fo[d] /\ fo[c] # NoField => c = d

-----------------------------------------------------------------------------
(* Writing                                                                 *)

SetChanges(s, v) == [s EXCEPT !.keys = @ \cup {"changes"}, !.changes = v]
SetClients(s, v) == [s EXCEPT !.keys = @ \cup {"clients"}, !.clients = v]
SetFocuses(s, v) == [s EXCEPT !.keys = @ \cup {"focuses"}, !.focuses = v]

\* The defaults after the value read for a key was modified in place to v.
AliasChanges(s, d, v) == IF "changes" \in s.keys THEN d ELSE [d EXCEPT !.changes = v]
AliasClients(s, d, v) == IF "clients" \in s.keys THEN d ELSE [d EXCEPT !.clients = v]
AliasFocuses(s, d, v) == IF "focuses" \in s.keys THEN d ELSE [d EXCEPT !.focuses = v]

Result(s, d) == [s |-> s, d |-> d]

-----------------------------------------------------------------------------
(* The transactions                                                        *)

\* Mutant: the keys are set without asking whether the room exists.
InitTxnAlways(s, init) ==
    [keys |-> Keys, changes |-> init, clients |-> NoMembers, focuses |-> NoFocuses]

\* ensureInitialized: creates all keys unless the room has its metadata.
InitTxn(s, init) ==
    IF Initialized(s) THEN s
    ELSE [keys |-> Keys, changes |-> init, clients |-> NoMembers, focuses |-> NoFocuses]

\* join, second transaction: append the client, without looking for it again.
PushTxn(s, d, c) ==
    LET m == [GetClients(s, d) EXCEPT ![c] = @ + 1]
    IN  Result(SetClients(s, m), AliasClients(s, d, m))

\* Mutant: a leave that forgets the focus.
LeaveTxnKeepsFocus(s, d, c) ==
    LET m  == [GetClients(s, d) EXCEPT ![c] = 0]
        s1 == SetClients(s, m)
    IN  Result(IF Empty(m) THEN SetChanges(s1, NoChanges) ELSE s1, d)

\* leave: drop the client and its focus; the last one out drops the changes.
\* filter() copies the array, delete modifies the focuses in place.
LeaveTxn(s, d, c) ==
    LET m  == [GetClients(s, d) EXCEPT ![c] = 0]
        fo == [GetFocuses(s, d) EXCEPT ![c] = NoField]
        focused == GetFocuses(s, d)[c] # NoField
        s1 == SetClients(s, m)
        s2 == IF focused THEN SetFocuses(s1, fo) ELSE s1
        s3 == IF Empty(m) THEN SetChanges(s2, NoChanges) ELSE s2
    IN  Result(s3, IF focused THEN AliasFocuses(s, d, fo) ELSE d)

\* Mutant: the changes are replaced instead of merged.
UpdateTxnReplaces(s, d, fs, v) ==
    LET ch == [f \in Fields |-> IF f \in fs THEN v ELSE NoValue]
    IN  Result(SetChanges(s, ch), AliasChanges(s, d, ch))

\* update: Object.assign of the fields fs with the value v.
UpdateTxn(s, d, fs, v) ==
    LET ch == [f \in Fields |-> IF f \in fs THEN v ELSE GetChanges(s, d)[f]]
    IN  Result(SetChanges(s, ch), AliasChanges(s, d, ch))

\* unset, and discard of named fields.
DropTxn(s, d, fs) ==
    LET ch == [f \in Fields |-> IF f \in fs THEN NoValue ELSE GetChanges(s, d)[f]]
    IN  Result(SetChanges(s, ch), AliasChanges(s, d, ch))

\* discard of "*": a new empty object.
DropAllTxn(s, d) == Result(SetChanges(s, NoChanges), d)

\* Mutant: a field is free whoever holds it.
MayFocusAlways(s, d, c, f) == TRUE

\* focus: may c take the field f?
MayFocus(s, d, c, f) == FocusersOf(GetFocuses(s, d), f) \subseteq {c}

\* focus: release with f = NoField, take f if it is free, else leave it alone.
FocusTxn(s, d, c, f) ==
    LET fo == [GetFocuses(s, d) EXCEPT ![c] = f]
    IN  IF f = NoField \/ MayFocus(s, d, c, f)
        THEN Result(SetFocuses(s, fo), AliasFocuses(s, d, fo))
        ELSE Result(s, d)

\* onUpdateHandler: forget the changes a save has made permanent, that is those
\* whose value the saved item has and, whatever the value, the relational ones.
SaveTxn(s, d, saved, relational) ==
    LET kept(f) == f \notin relational /\ GetChanges(s, d)[f] # saved[f]
        ch == [f \in Fields |-> IF kept(f) THEN GetChanges(s, d)[f] ELSE NoValue]
    IN  Result(SetChanges(s, ch), d)

\* close: is the room deleted?
Closes(s, d, force) == (force \/ Empty(GetClients(s, d))) /\ Initialized(s)

CloseTxn(s, d, force) == IF Closes(s, d, force) THEN Absent ELSE s
=============================================================================
