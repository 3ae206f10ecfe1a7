------------------------------ MODULE CollabRoom ------------------------------
(***************************************************************************)
(* The room manager and the rooms of real-time collaboration:              *)
(* api/src/websocket/collab/room.ts, driven by the message handlers and    *)
(* the event queue of api/src/websocket/collab/collab.ts.                  *)
(*                                                                         *)
(* Several nodes share the rooms in Redis.  A handler runs on the node its *)
(* client is connected to, interleaved with every other handler wherever   *)
(* it awaits: here a handler is a request in a slot, its program counter   *)
(* names the await it will resume from, and one action is the code from    *)
(* there to its next await.  One store transaction is one action.          *)
(*                                                                         *)
(* What a handler sends to the clients of a room is left out; what it      *)
(* publishes to the other nodes is not.                                    *)
(***************************************************************************)
EXTENDS RoomStore, Sequences

CONSTANTS
    Nodes,        \* API processes that share one Redis
    Rooms,        \* room uids, one per edited item
    Home,         \* the node a client is connected to
    Slots,        \* bound: message handlers in flight at the same time
    Reusable,     \* bound: may a slot be used again, or for one message only?
    Messages,     \* kinds of messages the clients send
    Jobs,         \* what else happens: subset of AllJobs
    Pipelined,    \* may a client send before its last message was handled?
    Seeds,        \* values of initialChanges a client may join with
    Relational,   \* fields a save always clears
    MaxMail,      \* bound: close messages of a room under way to a node
    MaxEvents     \* bound: item events queued at a node

AllMessages == {"join", "leave", "update", "unset", "updateAll", "focus", "discard", "discardAll"}
AllJobs == {"sweep", "save", "delete", "disconnect"}

ASSUME HomeAssumption == Home \in [Clients -> Nodes]
ASSUME MessagesAssumption == Messages \subseteq AllMessages
ASSUME JobsAssumption == Jobs \subseteq AllJobs
ASSUME SeedsAssumption == Seeds \subseteq Changes
ASSUME RelationalAssumption == Relational \subseteq Fields
ASSUME BoundsAssumption == MaxMail \in Nat /\ MaxEvents \in Nat
ASSUME FlagsAssumption == Pipelined \in BOOLEAN /\ Reusable \in BOOLEAN

VARIABLES
    store,      \* shared: the keys of every room
    db,         \* shared: the saved item behind every room
    dflt,       \* per node: its roomDefaults object
    rooms,      \* per node: RoomManager.rooms
    seed,       \* per node: initialChanges of its Room objects
    listeners,  \* per node: rooms with a room listener
    mail,       \* per node: room 'close' messages on their way
    req,        \* per slot: the message handler running in it
    conn,       \* per client: its connection, and the onLeave of a lost one
    sweep,      \* per node: the cleanupRooms in progress
    queue,      \* per node: item events not processed yet
    ev          \* per node: the item event being processed

shared == <<store, db, dflt>>
local  == <<rooms, seed, listeners>>
bus    == <<mail, queue>>
jobs   == <<conn, sweep, ev>>
vars   == <<shared, local, bus, jobs, req>>

-----------------------------------------------------------------------------
(* Shapes of the variables                                                 *)

RequestPcs == {"create", "created", "listen", "get", "load", "init", "has", "push", "leave",
               "focusOf", "take", "recheck", "write", "focuser", "unset",
               "filter", "writeAll", "focus", "discard"}

Request == [kind : AllMessages, c : Clients, r : Rooms, f : Fields \cup {NoField},
            fs : SUBSET Fields, todo : SUBSET Fields, v : Values \cup {NoValue},
            init : Changes, pc : RequestPcs]
NoRequest == [pc |-> "idle"]
Spent == [pc |-> "spent"]

Event == [kind : {"update", "delete"}, r : Rooms]

\* A connection, and the rooms the onLeave of a lost one still has to look at.
Connection == [pc : {"up", "scan", "leave", "gone"}, todo : SUBSET Rooms, found : SUBSET Rooms]
Up == [pc |-> "up", todo |-> {}, found |-> {}]

\* The rooms a cleanup still has to look at, and the one it is closing.
Cleanup == [pc : {"idle", "close", "closed"}, todo : SUBSET Rooms, closing : SUBSET Rooms]
NoCleanup == [pc |-> "idle", todo |-> {}, closing |-> {}]

\* The room an item event is handled for, and the item as it was read.
EventTask == [pc : {"idle", "read", "clear", "close", "closed"},
              busy : SUBSET Rooms, saved : Changes]
NoEvent == [pc |-> "idle", busy |-> {}, saved |-> NoChanges]

TypeOK ==
    /\ store \in [Rooms -> RoomData]
    /\ db \in [Rooms -> Changes]
    /\ dflt \in [Nodes -> RoomDefaults]
    /\ rooms \in [Nodes -> SUBSET Rooms]
    /\ seed \in [Nodes -> [Rooms -> Changes]]
    /\ listeners \in [Nodes -> SUBSET Rooms]
    /\ mail \in [Nodes -> [Rooms -> Nat]]
    /\ req \in [Slots -> Request \cup {NoRequest, Spent}]
    /\ conn \in [Clients -> Connection]
    /\ sweep \in [Nodes -> Cleanup]
    /\ queue \in [Nodes -> Seq(Event)]
    /\ ev \in [Nodes -> EventTask]

Init ==
    /\ store = [r \in Rooms |-> Absent]
    /\ db = [r \in Rooms |-> NoChanges]
    /\ dflt = [n \in Nodes |-> FreshDefaults]
    /\ rooms = [n \in Nodes |-> {}]
    /\ seed = [n \in Nodes |-> [r \in Rooms |-> NoChanges]]
    /\ listeners = [n \in Nodes |-> {}]
    /\ mail = [n \in Nodes |-> [r \in Rooms |-> 0]]
    /\ req = [t \in Slots |-> NoRequest]
    /\ conn = [c \in Clients |-> Up]
    /\ sweep = [n \in Nodes |-> NoCleanup]
    /\ queue = [n \in Nodes |-> <<>>]
    /\ ev = [n \in Nodes |-> NoEvent]

-----------------------------------------------------------------------------
(* Parts of actions                                                        *)

At(t, pc) == req[t].pc = pc
Busy(t) == req[t].pc \in RequestPcs
Node(t) == Home[req[t].c]

Goto(t, pc) == req' = [req EXCEPT ![t].pc = pc]
Done(t) == req' = [req EXCEPT ![t] = IF Reusable THEN NoRequest ELSE Spent]

\* A transaction on room r in a process of node n that yields x.
Commit(n, r, x) ==
    /\ store' = [store EXCEPT ![r] = x.s]
    /\ dflt' = [dflt EXCEPT ![n] = x.d]

Keep(n, r, init) ==
    /\ rooms' = [rooms EXCEPT ![n] = @ \cup {r}]
    /\ seed' = [seed EXCEPT ![n][r] = init]

Forget(n, r) ==
    /\ rooms' = [rooms EXCEPT ![n] = @ \ {r}]
    /\ seed' = [seed EXCEPT ![n][r] = NoChanges]

Listen(n, r) == listeners' = [listeners EXCEPT ![n] = @ \cup {r}]
Dispose(n, r) == listeners' = [listeners EXCEPT ![n] = @ \ {r}]

Publish(r) ==
    /\ \A n \in Nodes : mail[n][r] < MaxMail
    /\ mail' = [n \in Nodes |-> [mail[n] EXCEPT ![r] = @ + 1]]

\* What a handler in slot t reads in the store of its room.
IsMember(t) == HasClient(store[req[t].r], dflt[Node(t)], req[t].c)
OwnFocus(t) == GetFocuses(store[req[t].r], dflt[Node(t)])[req[t].c]
FreeFor(t, f) == MayFocus(store[req[t].r], dflt[Node(t)], req[t].c, f)

-----------------------------------------------------------------------------
(* A message arrives: websocket.message, up to the first await             *)

Message(kind, c, r, f, fs, v, init) ==
    [kind |-> kind, c |-> c, r |-> r, f |-> f, fs |-> fs, v |-> v, init |-> init,
     todo |-> IF kind = "updateAll" THEN fs ELSE {},
     pc |-> IF kind = "join" THEN "create" ELSE "get"]

MayReceive(t, c, kind) ==
    /\ kind \in Messages
    /\ conn[c].pc = "up"
    /\ At(t, "idle")
    /\ Pipelined \/ \A u \in Slots : Busy(u) => req[u].c # c

Receive(t, message) ==
    /\ MayReceive(t, message.c, message.kind)
    /\ req' = [req EXCEPT ![t] = message]
    /\ UNCHANGED <<shared, local, bus, jobs>>

ReceiveJoin(t, c, r) ==
    \E init \in Seeds : Receive(t, Message("join", c, r, NoField, {}, NoValue, init))

ReceiveLeave(t, c, r) ==
    Receive(t, Message("leave", c, r, NoField, {}, NoValue, NoChanges))

ReceiveUpdate(t, c, r) ==
    \E f \in Fields, v \in Values : Receive(t, Message("update", c, r, f, {}, v, NoChanges))

ReceiveUnset(t, c, r) ==
    \E f \in Fields : Receive(t, Message("unset", c, r, f, {}, NoValue, NoChanges))

ReceiveUpdateAll(t, c, r) ==
    \E fs \in SUBSET Fields \ {{}}, v \in Values :
        Receive(t, Message("updateAll", c, r, NoField, fs, v, NoChanges))

ReceiveFocus(t, c, r) ==
    \E f \in Fields \cup {NoField} :
        Receive(t, Message("focus", c, r, f, {}, NoValue, NoChanges))

\* The fields the client is allowed to edit are discarded, all with "*".
ReceiveDiscard(t, c, r) ==
    \/ \E fs \in SUBSET Fields \ {{}} :
           Receive(t, Message("discard", c, r, NoField, fs, NoValue, NoChanges))
    \/ Receive(t, Message("discardAll", c, r, NoField, Fields, NoValue, NoChanges))

\* A permission or a payload check fails: the handler throws.  Blurring needs none.
Reject(t) ==
    /\ \E pc \in {"create", "focusOf", "write", "focuser", "writeAll", "focus", "discard"} : At(t, pc)
    /\ ~(req[t].kind = "focus" /\ req[t].f = NoField)
    /\ Done(t)
    /\ UNCHANGED <<shared, local, bus, jobs>>

-----------------------------------------------------------------------------
(* RoomManager.createRoom                                                  *)

\* The room is in local memory: it is returned at once.
CreateExisting(t) ==
    LET n == Node(t)  r == req[t].r
    IN  /\ At(t, "create")
        /\ r \in rooms[n]
        /\ Listen(n, r)
        /\ req' = [req EXCEPT ![t].pc = "has", ![t].init = NoChanges]
        /\ UNCHANGED <<shared, rooms, seed, bus, jobs>>

\* Mutant: the new room is not initialized.
CreateNewUninitialized(t) ==
    LET n == Node(t)  r == req[t].r
    IN  /\ At(t, "create")
        /\ r \notin rooms[n]
        /\ Keep(n, r, req[t].init)
        /\ req' = [req EXCEPT ![t].pc = "listen", ![t].init = NoChanges]
        /\ UNCHANGED <<shared, listeners, bus, jobs>>

\* It is not: a new Room goes into local memory before it is initialized.
CreateNew(t) ==
    LET n == Node(t)  r == req[t].r
    IN  /\ At(t, "create")
        /\ r \notin rooms[n]
        /\ Keep(n, r, req[t].init)
        /\ Goto(t, "created")
        /\ UNCHANGED <<shared, listeners, bus, jobs>>

InitializeCreated(t) ==
    /\ At(t, "created")
    /\ store' = [store EXCEPT ![req[t].r] = InitTxn(@, req[t].init)]
    /\ req' = [req EXCEPT ![t].pc = "listen", ![t].init = NoChanges]
    /\ UNCHANGED <<db, dflt, local, bus, jobs>>

\* After registerRoom.  The room may be gone again: undefined has no join().
SetRoomListener(t) ==
    LET n == Node(t)  r == req[t].r
    IN  /\ At(t, "listen")
        /\ Listen(n, r)
        /\ IF r \in rooms[n] THEN Goto(t, "has") ELSE Done(t)
        /\ UNCHANGED <<shared, rooms, seed, bus, jobs>>

-----------------------------------------------------------------------------
(* RoomManager.getRoom                                                     *)

GetLocalRoom(t) ==
    LET n == Node(t)  r == req[t].r
    IN  /\ At(t, "get")
        /\ req' = IF r \in rooms[n]
                  THEN [req EXCEPT ![t].pc = "init", ![t].init = seed[n][r]]
                  ELSE [req EXCEPT ![t].pc = "load"]
        /\ UNCHANGED <<shared, local, bus, jobs>>

\* The room is put into local memory, without a listener.
LoadRoom(t) ==
    LET n == Node(t)
        r == req[t].r
        changes == GetChanges(store[r], FreshDefaults)
    IN  /\ At(t, "load")
        /\ IF Initialized(store[r])
           THEN /\ Keep(n, r, changes)
                /\ req' = [req EXCEPT ![t].pc = "init", ![t].init = changes]
           ELSE /\ Done(t)
                /\ UNCHANGED <<rooms, seed>>
        /\ UNCHANGED <<shared, listeners, bus, jobs>>

InitializeLoaded(t) ==
    /\ At(t, "init")
    /\ store' = [store EXCEPT ![req[t].r] = InitTxn(@, req[t].init)]
    /\ req' = [req EXCEPT ![t].pc = "has", ![t].init = NoChanges]
    /\ UNCHANGED <<db, dflt, local, bus, jobs>>

-----------------------------------------------------------------------------
(* Membership: Room.hasClient, Room.join, Room.leave                       *)

\* Where a handler goes on after it has found the sender in the room.
NextPc(kind) ==
    CASE kind = "leave" -> "leave"
      [] kind = "update" -> "focusOf"
      [] kind = "unset" -> "focuser"
      [] kind = "updateAll" -> "filter"
      [] kind = "focus" -> "focus"
      [] kind \in {"discard", "discardAll"} -> "discard"
      [] OTHER -> "push"

\* Mutant: a client is not looked for before it is added.
CheckMemberUnlessJoin(t) ==
    /\ At(t, "has")
    /\ IF req[t].kind = "join" \/ IsMember(t) THEN Goto(t, NextPc(req[t].kind)) ELSE Done(t)
    /\ UNCHANGED <<shared, local, bus, jobs>>

CheckMember(t) ==
    /\ At(t, "has")
    /\ IF IsMember(t) # (req[t].kind = "join") THEN Goto(t, NextPc(req[t].kind)) ELSE Done(t)
    /\ UNCHANGED <<shared, local, bus, jobs>>

Push(t) ==
    LET q == req[t]
    IN  /\ At(t, "push")
        /\ Commit(Node(t), q.r, PushTxn(store[q.r], dflt[Node(t)], q.c))
        /\ Done(t)
        /\ UNCHANGED <<db, local, bus, jobs>>

Leave(t) ==
    LET q == req[t]
    IN  /\ At(t, "leave")
        /\ Commit(Node(t), q.r, LeaveTxn(store[q.r], dflt[Node(t)], q.c))
        /\ Done(t)
        /\ UNCHANGED <<db, local, bus, jobs>>

-----------------------------------------------------------------------------
(* CollabHandler.onUpdate, onUpdateAll                                     *)

\* getFocusByUser
ReadOwnFocus(t) ==
    /\ At(t, "focusOf")
    /\ Goto(t, IF OwnFocus(t) = req[t].f THEN "write" ELSE "take")
    /\ UNCHANGED <<shared, local, bus, jobs>>

TakeFocus(t) ==
    LET q == req[t]
    IN  /\ At(t, "take")
        /\ Commit(Node(t), q.r, FocusTxn(store[q.r], dflt[Node(t)], q.c, q.f))
        /\ Goto(t, "recheck")
        /\ UNCHANGED <<db, local, bus, jobs>>

\* Mutant: focus() is taken to have succeeded.
RecheckFocusBlindly(t) ==
    /\ At(t, "recheck")
    /\ Goto(t, "write")
    /\ UNCHANGED <<shared, local, bus, jobs>>

\* getFocusByUser once more: did focus() succeed?
RecheckFocus(t) ==
    /\ At(t, "recheck")
    /\ IF OwnFocus(t) = req[t].f THEN Goto(t, "write") ELSE Done(t)
    /\ UNCHANGED <<shared, local, bus, jobs>>

Write(t) ==
    LET q == req[t]
    IN  /\ At(t, "write")
        /\ Commit(Node(t), q.r, UpdateTxn(store[q.r], dflt[Node(t)], {q.f}, q.v))
        /\ Done(t)
        /\ UNCHANGED <<db, local, bus, jobs>>

\* getFocusByField
ReadFocuser(t) ==
    /\ At(t, "focuser")
    /\ IF FreeFor(t, req[t].f) THEN Goto(t, "unset") ELSE Done(t)
    /\ UNCHANGED <<shared, local, bus, jobs>>

Unset(t) ==
    LET q == req[t]
    IN  /\ At(t, "unset")
        /\ Commit(Node(t), q.r, DropTxn(store[q.r], dflt[Node(t)], {q.f}))
        /\ Done(t)
        /\ UNCHANGED <<db, local, bus, jobs>>

\* One round of onUpdateAll's loop: a field another client focuses is left out.
FilterField(t) ==
    /\ At(t, "filter")
    /\ \E f \in req[t].todo :
           LET fs == IF FreeFor(t, f) THEN req[t].fs ELSE req[t].fs \ {f}
               todo == req[t].todo \ {f}
           IN  IF todo = {} /\ fs = {}
               THEN Done(t)
               ELSE req' = [req EXCEPT ![t].fs = fs, ![t].todo = todo,
                                       ![t].pc = IF todo = {} THEN "writeAll" ELSE "filter"]
    /\ UNCHANGED <<shared, local, bus, jobs>>

WriteAll(t) ==
    LET q == req[t]
    IN  /\ At(t, "writeAll")
        /\ Commit(Node(t), q.r, UpdateTxn(store[q.r], dflt[Node(t)], q.fs, q.v))
        /\ Done(t)
        /\ UNCHANGED <<db, local, bus, jobs>>

-----------------------------------------------------------------------------
(* CollabHandler.onFocus, onDiscard                                        *)

Focus(t) ==
    LET q == req[t]
    IN  /\ At(t, "focus")
        /\ Commit(Node(t), q.r, FocusTxn(store[q.r], dflt[Node(t)], q.c, q.f))
        /\ Done(t)
        /\ UNCHANGED <<db, local, bus, jobs>>

Discard(t) ==
    LET q == req[t]
        s == store[q.r]
        d == dflt[Node(t)]
    IN  /\ At(t, "discard")
        /\ Commit(Node(t), q.r,
                  IF q.kind = "discardAll" THEN DropAllTxn(s, d) ELSE DropTxn(s, d, q.fs))
        /\ Done(t)
        /\ UNCHANGED <<db, local, bus, jobs>>

-----------------------------------------------------------------------------
(* A connection is lost: onLeave without a room, over the local rooms      *)

Disconnect(c) ==
    /\ "disconnect" \in Jobs
    /\ conn[c].pc = "up"
    /\ conn' = [conn EXCEPT ![c] = [pc |-> "scan", todo |-> rooms[Home[c]], found |-> {}]]
    /\ UNCHANGED <<shared, local, bus, sweep, ev, req>>

\* getClientRooms: one hasClient per local room
ScanRoom(c) ==
    /\ conn[c].pc = "scan"
    /\ \E r \in conn[c].todo :
           conn' = [conn EXCEPT ![c].todo = @ \ {r},
                                ![c].found = IF HasClient(store[r], dflt[Home[c]], c)
                                             THEN @ \cup {r} ELSE @]
    /\ UNCHANGED <<shared, local, bus, sweep, ev, req>>

ScanDone(c) ==
    /\ conn[c].pc = "scan"
    /\ conn[c].todo = {}
    /\ conn' = [conn EXCEPT ![c].pc = IF conn[c].found = {} THEN "gone" ELSE "leave"]
    /\ UNCHANGED <<shared, local, bus, sweep, ev, req>>

LeaveFound(c) ==
    /\ conn[c].pc = "leave"
    /\ \E r \in conn[c].found :
           /\ Commit(Home[c], r, LeaveTxn(store[r], dflt[Home[c]], c))
           /\ conn' = [conn EXCEPT ![c].found = @ \ {r},
                                   ![c].pc = IF conn[c].found = {r} THEN "gone" ELSE "leave"]
    /\ UNCHANGED <<db, local, bus, sweep, ev, req>>

-----------------------------------------------------------------------------
(* RoomManager.cleanupRooms                                                *)

SweepStart(n) ==
    /\ "sweep" \in Jobs
    /\ sweep[n].pc = "idle"
    /\ rooms[n] # {}
    /\ sweep' = [sweep EXCEPT ![n] = [pc |-> "close", todo |-> rooms[n], closing |-> {}]]
    /\ UNCHANGED <<shared, local, bus, conn, ev, req>>

\* Room.close without force: a room that stays open is passed over.
SweepClose(n) ==
    /\ sweep[n].pc = "close"
    /\ \E r \in sweep[n].todo :
           LET closes == Closes(store[r], dflt[n], FALSE)
               todo == sweep[n].todo \ {r}
           IN  /\ store' = [store EXCEPT ![r] = CloseTxn(@, dflt[n], FALSE)]
               /\ sweep' = [sweep EXCEPT ![n] =
                      IF closes
                      THEN [pc |-> "closed", todo |-> todo, closing |-> {r}]
                      ELSE [pc |-> IF todo = {} THEN "idle" ELSE "close",
                            todo |-> todo, closing |-> {}]]
    /\ UNCHANGED <<db, dflt, local, bus, conn, ev, req>>

\* After unregisterRoom: tell the other nodes, then forget the room.
SweepClosed(n) ==
    /\ sweep[n].pc = "closed"
    /\ \E r \in sweep[n].closing :
           /\ Publish(r)
           /\ Dispose(n, r)
           /\ Forget(n, r)
    /\ sweep' = [sweep EXCEPT ![n].closing = {},
                              ![n].pc = IF sweep[n].todo = {} THEN "idle" ELSE "close"]
    /\ UNCHANGED <<shared, queue, conn, ev, req>>

\* Mutant: close messages that nobody has sent.
ReceiveCloseUnsent(n, r) ==
    /\ mail' = [mail EXCEPT ![n][r] = @ - 1]
    /\ UNCHANGED <<shared, local, queue, jobs, req>>

\* The room listener: another node, or this one earlier, has closed the room.
ReceiveClose(n, r) ==
    /\ mail[n][r] > 0
    /\ mail' = [mail EXCEPT ![n][r] = @ - 1]
    /\ IF r \in listeners[n]
       THEN /\ Forget(n, r)
            /\ IF r \in rooms[n] THEN Dispose(n, r) ELSE UNCHANGED listeners
       ELSE UNCHANGED local
    /\ UNCHANGED <<shared, queue, jobs, req>>

-----------------------------------------------------------------------------
(* Item events: the busHandler's queue, onUpdateHandler, onDeleteHandler   *)

Emit(event) ==
    /\ \A n \in Nodes : Len(queue[n]) < MaxEvents
    /\ queue' = [n \in Nodes |-> Append(queue[n], event)]

\* Somebody saves the item through the API.
SaveItem(r) ==
    /\ "save" \in Jobs
    /\ \E f \in Fields, v \in Values : db' = [db EXCEPT ![r][f] = v]
    /\ Emit([kind |-> "update", r |-> r])
    /\ UNCHANGED <<store, dflt, local, mail, jobs, req>>

DeleteItem(r) ==
    /\ "delete" \in Jobs
    /\ Emit([kind |-> "delete", r |-> r])
    /\ UNCHANGED <<shared, local, mail, jobs, req>>

\* The next event; it concerns the room only if the node has it in memory.
EventStart(n) ==
    /\ ev[n].pc = "idle"
    /\ queue[n] # <<>>
    /\ LET e == Head(queue[n])
       IN  ev' = IF e.r \in rooms[n]
                 THEN [ev EXCEPT ![n] = [pc |-> IF e.kind = "update" THEN "read" ELSE "close",
                                         busy |-> {e.r}, saved |-> NoChanges]]
                 ELSE ev
    /\ queue' = [queue EXCEPT ![n] = Tail(@)]
    /\ UNCHANGED <<shared, local, mail, conn, sweep, req>>

\* onUpdateHandler reads the saved item ...
EventRead(n) ==
    /\ ev[n].pc = "read"
    /\ \E r \in ev[n].busy : ev' = [ev EXCEPT ![n].pc = "clear", ![n].saved = db[r]]
    /\ UNCHANGED <<shared, local, bus, conn, sweep, req>>

\* ... and clears what it has made permanent.
EventClear(n) ==
    /\ ev[n].pc = "clear"
    /\ \E r \in ev[n].busy :
           Commit(n, r, SaveTxn(store[r], dflt[n], ev[n].saved, Relational))
    /\ ev' = [ev EXCEPT ![n] = NoEvent]
    /\ UNCHANGED <<db, local, bus, conn, sweep, req>>

\* onDeleteHandler: Room.close with force.  The listener goes in either case.
EventClose(n) ==
    /\ ev[n].pc = "close"
    /\ \E r \in ev[n].busy :
           /\ store' = [store EXCEPT ![r] = CloseTxn(@, dflt[n], TRUE)]
           /\ IF Closes(store[r], dflt[n], TRUE)
              THEN /\ ev' = [ev EXCEPT ![n].pc = "closed"]
                   /\ UNCHANGED listeners
              ELSE /\ ev' = [ev EXCEPT ![n] = NoEvent]
                   /\ Dispose(n, r)
    /\ UNCHANGED <<db, dflt, rooms, seed, bus, conn, sweep, req>>

EventClosed(n) ==
    /\ ev[n].pc = "closed"
    /\ \E r \in ev[n].busy :
           /\ Publish(r)
           /\ Dispose(n, r)
    /\ ev' = [ev EXCEPT ![n] = NoEvent]
    /\ UNCHANGED <<shared, rooms, seed, queue, conn, sweep, req>>

-----------------------------------------------------------------------------
(* The specification                                                       *)

Arrival(t, c, r) ==
    \/ ReceiveJoin(t, c, r)
    \/ ReceiveLeave(t, c, r)
    \/ ReceiveUpdate(t, c, r)
    \/ ReceiveUnset(t, c, r)
    \/ ReceiveUpdateAll(t, c, r)
    \/ ReceiveFocus(t, c, r)
    \/ ReceiveDiscard(t, c, r)

Handler(t) ==
    \/ Reject(t)
    \/ CreateExisting(t)
    \/ CreateNew(t)
    \/ InitializeCreated(t)
    \/ SetRoomListener(t)
    \/ GetLocalRoom(t)
    \/ LoadRoom(t)
    \/ InitializeLoaded(t)
    \/ CheckMember(t)
    \/ Push(t)
    \/ Leave(t)
    \/ ReadOwnFocus(t)
    \/ TakeFocus(t)
    \/ RecheckFocus(t)
    \/ Write(t)
    \/ ReadFocuser(t)
    \/ Unset(t)
    \/ FilterField(t)
    \/ WriteAll(t)
    \/ Focus(t)
    \/ Discard(t)

Closing(c) == Disconnect(c) \/ ScanRoom(c) \/ ScanDone(c) \/ LeaveFound(c)

Sweep(n) == SweepStart(n) \/ SweepClose(n) \/ SweepClosed(n)

Events(n) ==
    \/ EventStart(n)
    \/ EventRead(n)
    \/ EventClear(n)
    \/ EventClose(n)
    \/ EventClosed(n)

Next ==
    \/ \E t \in Slots, c \in Clients, r \in Rooms : Arrival(t, c, r)
    \/ \E t \in Slots : Handler(t)
    \/ \E c \in Clients : Closing(c)
    \/ \E n \in Nodes : Sweep(n) \/ Events(n)
    \/ \E n \in Nodes, r \in Rooms : ReceiveClose(n, r)
    \/ \E r \in Rooms : SaveItem(r) \/ DeleteItem(r)

Spec == Init /\ [][Next]_vars

-----------------------------------------------------------------------------
(* Properties                                                              *)

MemberOf(c, r) == store[r].clients[c] > 0
Focused(c, r) == store[r].focuses[c]

\* Every client that focuses a field is the only one: no two entries of a room's
\* focuses (or of a process's defaults) name the same field.  Room.focus.
FocusExclusive ==
    /\ \A r \in Rooms : Exclusive(store[r].focuses)
    /\ \A n \in Nodes : Exclusive(dflt[n].focuses)

\* c does something itself: one of its handlers moves, or its lost connection's.
Acts(c) ==
    \/ conn'[c] # conn[c]
    \/ \E t \in Slots : Busy(t) /\ req[t].c = c /\ req'[t] # req[t]

\* A client in a room that exists is taken out only by its own leave, or when the
\* item is deleted: neither another client's join, nor a load of the room on
\* another node, nor the cleanup of empty rooms takes it out.
MemberUndisturbed ==
    [][\A c \in Clients, r \in Rooms :
          Initialized(store[r]) /\ MemberOf(c, r) /\ ~MemberOf(c, r)'
          => Acts(c) \/ \E n \in Nodes : ev[n].pc = "close" /\ r \in ev[n].busy]_vars

\* As long as a room exists, the focus of a client is moved and released only by
\* that client's handlers: nobody takes a field away from its holder.
FocusUndisturbed ==
    [][\A c \in Clients, r \in Rooms :
          Initialized(store[r]) /\ Initialized(store'[r]) /\ Focused(c, r)' # Focused(c, r)
          => Acts(c)]_vars

\* A client is in a room once, however often it asks to join: Room.join adds it
\* only "if the client hasn't entered the room already" (room.ts:361).
NoDuplicateMember == \A r \in Rooms, c \in Clients : store[r].clients[c] <= 1

\* A room somebody is in has its metadata: "ensures that foundational room state
\* exists in shared memory" (room.ts:308).  Until the handler that created the room
\* gets there, a second client of its node may be in it already.
MembersHaveRoom ==
    \A r \in Rooms :
        ~Empty(store[r].clients)
        => Initialized(store[r]) \/ \E t \in Slots : At(t, "created") /\ req[t].r = r

\* onUpdate never writes a field that somebody else focuses: it focuses the field
\* "before update to prevent concurrent overwrite conflicts" (collab.ts:422).
UpdateByHolder ==
    [][\A t \in Slots : Write(t) => FocusersOf(store[req[t].r].focuses, req[t].f) \subseteq {req[t].c}]_vars

\* What clients rely on, step by step: a transaction of a handler that has read,
\* awaited and goes on, or of a job, is still one of EditingRoom; what clients that
\* wait for each answer may rely on besides, while nothing closes rooms, is its
\* Careful.  Before a room is initialized nothing is in it there: who is pushed too
\* early is lost, and so is what a handler writes to a room that has been closed.
OpenRooms == {r \in Rooms : Initialized(store[r])}
Present == [r \in Rooms |-> IF r \in OpenRooms THEN {c \in Clients : MemberOf(c, r)} ELSE {}]
Held == [r \in Rooms |-> IF r \in OpenRooms THEN store[r].focuses ELSE NoFocuses]
Unsaved == [r \in Rooms |-> IF r \in OpenRooms THEN store[r].changes ELSE NoChanges]

Serial == ~Pipelined /\ Jobs \subseteq {"save"}

Editing == INSTANCE EditingRoom WITH
    open <- OpenRooms, members <- Present, focus <- Held, changes <- Unsaved,
    Bulk <- "updateAll" \in Messages, Careful <- Serial, Deletes <- "delete" \in Jobs

IsEditingRoom == Editing!Spec
=============================================================================
