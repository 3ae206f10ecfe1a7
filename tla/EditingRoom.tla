----------------------------- MODULE EditingRoom -----------------------------
(***************************************************************************)
(* What a client may rely on in a collaborative editing room, whatever     *)
(* handlers of whatever nodes have just read from the store:               *)
(*   - it enters a room once, and what it holds there goes when it leaves, *)
(*   - the focus of a field has one holder, a member, who keeps it until   *)
(*     it lets go,                                                         *)
(*   - a field is given a value by the holder of its focus,                *)
(*   - the last to leave takes the unsaved changes along,                  *)
(*   - a room is closed when nobody is in it, or its item is deleted.      *)
(* The comments of api/src/websocket/collab/room.ts at join, leave, update *)
(* focus and close, each taken as one step.  Where clients are careful,    *)
(* only a member acts, and it writes a field it holds.  Where they are not *)
(* (they send without waiting, connections are lost, rooms are closed), a  *)
(* room may have changed behind a handler: a client that has left, or that *)
(* a new room does not know, may still focus and write there.              *)
(***************************************************************************)
CONSTANTS
    Clients,     \* websocket connections
    Rooms,       \* room uids
    Fields,      \* fields of the edited item
    Values,      \* values a field may be given
    NoField,     \* "focuses nothing"
    NoValue,     \* "not changed"
    Bulk,        \* do clients write several fields at a time, without their focus?
    Careful,     \* is a client's message handled before anything else happens to it?
    Deletes      \* are items deleted, and their rooms closed by force?

VARIABLES
    open,        \* rooms that somebody has created
    members,     \* per room: the clients in it
    focus,       \* per room and client: the field it focuses
    changes      \* per room and field: its unsaved value

editing == <<open, members, focus, changes>>

Unfocused == [c \in Clients |-> NoField]
Unchanged == [f \in Fields |-> NoValue]

Init ==
    /\ open = {}
    /\ members = [r \in Rooms |-> {}]
    /\ focus = [r \in Rooms |-> Unfocused]
    /\ changes = [r \in Rooms |-> Unchanged]

\* A room is created, with the changes its creator brings.
Open(r, initial) ==
    /\ r \notin open
    /\ open' = open \cup {r}
    /\ changes' = [changes EXCEPT ![r] = initial]
    /\ UNCHANGED <<members, focus>>

Enter(r, c) ==
    /\ r \in open
    /\ c \notin members[r]
    /\ members' = [members EXCEPT ![r] = @ \cup {c}]
    /\ UNCHANGED <<open, focus, changes>>

Leave(r, c) ==
    /\ r \in open
    /\ Careful => c \in members[r]
    /\ members' = [members EXCEPT ![r] = @ \ {c}]
    /\ focus' = [focus EXCEPT ![r][c] = NoField]
    /\ changes' = [changes EXCEPT ![r] = IF members[r] \subseteq {c} THEN Unchanged ELSE @]
    /\ UNCHANGED open

\* A client takes a field nobody else has, or lets go of the one it has.
Focus(r, c, f) ==
    /\ r \in open
    /\ Careful => c \in members[r]
    /\ f = NoField \/ \A d \in Clients \ {c} : focus[r][d] # f
    /\ focus' = [focus EXCEPT ![r][c] = f]
    /\ UNCHANGED <<open, members, changes>>

\* The fields one message writes: the field it holds, or once held, or any.
Written(r, c, fs) ==
    \/ Bulk
    \/ Careful /\ fs = {focus[r][c]}
    \/ ~Careful /\ \E f \in Fields : fs = {f}

Edit(r, c, fs, v) ==
    /\ r \in open
    /\ Careful => c \in members[r]
    /\ Written(r, c, fs)
    /\ changes' = [changes EXCEPT ![r] = [f \in Fields |-> IF f \in fs THEN v ELSE @[f]]]
    /\ UNCHANGED <<open, members, focus>>

\* Changes are discarded, or have been saved.
Clear(r, fs) ==
    /\ r \in open
    /\ changes' = [changes EXCEPT ![r] = [f \in Fields |-> IF f \in fs THEN NoValue ELSE @[f]]]
    /\ UNCHANGED <<open, members, focus>>

\* The room is closed, with all that is left in it.
Close(r) ==
    /\ ~Careful
    /\ r \in open
    /\ Deletes \/ members[r] = {}
    /\ open' = open \ {r}
    /\ members' = [members EXCEPT ![r] = {}]
    /\ focus' = [focus EXCEPT ![r] = Unfocused]
    /\ changes' = [changes EXCEPT ![r] = Unchanged]

Next ==
    \E r \in Rooms :
        \/ \E initial \in [Fields -> Values \cup {NoValue}] : Open(r, initial)
        \/ \E c \in Clients : \/ Enter(r, c)
                              \/ Leave(r, c)
                              \/ \E f \in Fields \cup {NoField} : Focus(r, c, f)
                              \/ \E fs \in SUBSET Fields, v \in Values : Edit(r, c, fs, v)
        \/ \E fs \in SUBSET Fields : Clear(r, fs)
        \/ Close(r)

Spec == Init /\ [][Next]_editing
=============================================================================
