---------------------------- MODULE CollabCluster ----------------------------
(***************************************************************************)
(* Who is where: the registry of API instances, the clients connected to   *)
(* them and the rooms these clients are in, with the two jobs that clean   *)
(* up behind connections and instances that are gone.                      *)
(* api/src/websocket/collab/messenger.ts and the background jobs of        *)
(* api/src/websocket/collab/collab.ts.                                     *)
(*                                                                         *)
(* An instance is one run of an API process: it has a random uid, and a    *)
(* process that restarts is another instance.  The contents of a room are  *)
(* the subject of CollabRoom; here a room is the set of its clients.       *)
(***************************************************************************)
EXTENDS Naturals, Sequences, FiniteSets

CONSTANTS
    Instances,    \* runs of API processes that share one Redis
    Clients,      \* websocket connections
    Rooms,        \* room uids
    Home,         \* the instance a client connects to
    Late,         \* instances that are not running at first
    Crashers,     \* bound: instances that may crash
    Droppers,     \* bound: clients that may disconnect
    Pruners,      \* bound: instances the cron job may run on
    Sweepers,     \* bound: instances whose interval job is looked at
    Ordered,      \* are the registry transactions of an instance committed in order?
    Timely        \* does every live instance answer a ping in time?

ASSUME HomeAssumption == Home \in [Clients -> Instances]
ASSUME JobAssumption == Pruners \subseteq Instances /\ Sweepers \subseteq Instances
ASSUME FlagAssumption == Ordered \in BOOLEAN /\ Timely \in BOOLEAN

VARIABLES
    up,         \* per instance: "off" before its start, "up", "down" after a crash
    conn,       \* per client: "new", "open" or "closed"
    clients,    \* per instance: Messenger.clients
    registry,   \* shared: the 'instances' key of the registry store
    pending,    \* per instance: registry transactions nobody waits for
    room,       \* shared: does a room exist, and its clients
    rooms,      \* per instance: RoomManager.rooms
    listeners,  \* per instance: Messenger.roomListeners
    mail,       \* per instance: room 'close' messages on their way
    join,       \* per client: its onJoin
    leave,      \* per client: the onLeave of its lost connection
    prune,      \* per instance: the cron job
    sweep       \* per instance: the interval job

tables == <<clients, rooms, listeners>>
shared == <<registry, room, mail>>
jobs   == <<join, leave, prune, sweep>>
vars   == <<up, conn, tables, shared, pending, jobs>>

-----------------------------------------------------------------------------
(* Shapes of the variables                                                 *)

Entry == [known : BOOLEAN, clients : SUBSET Clients, rooms : SUBSET Rooms]
NoEntry == [known |-> FALSE, clients |-> {}, rooms |-> {}]
NewEntry == [known |-> TRUE, clients |-> {}, rooms |-> {}]

Register == [kind |-> "register"]
Transaction == [kind : {"add", "remove"}, c : Clients] \cup {Register}

Room == [open : BOOLEAN, clients : SUBSET Clients]
NoRoom == [open |-> FALSE, clients |-> {}]

Join == [pc : {"none", "create", "init", "register", "listen", "has", "push", "done"},
         at : SUBSET Rooms]
NoJoin == [pc |-> "none", at |-> {}]

Leaving == [todo : SUBSET Rooms, found : SUBSET Rooms]
NotLeaving == [todo |-> {}, found |-> {}]

\* The instances that have not answered; then the clients and rooms of the dead
\* ones, the room in hand and the clients to remove from it.
Prune == [pc : {"idle", "wait", "delete", "get", "init", "evict", "close", "unregister", "closed"},
          silent : SUBSET Instances, clients : SUBSET Clients, rooms : SUBSET Rooms,
          at : SUBSET Rooms, todo : SUBSET Clients]
NoPrune == [pc |-> "idle", silent |-> {}, clients |-> {}, rooms |-> {}, at |-> {}, todo |-> {}]

\* The registered clients; then the clients to evict, the one in hand and the
\* rooms it was found in; then the rooms to close and the one in hand.
Sweep == [pc : {"idle", "local", "evict", "leave", "close", "unregister", "closed"},
          global : SUBSET Clients, invalid : SUBSET Clients, who : SUBSET Clients,
          rooms : SUBSET Rooms, at : SUBSET Rooms]
NoSweep == [pc |-> "idle", global |-> {}, invalid |-> {}, who |-> {}, rooms |-> {}, at |-> {}]

\* A job in the middle of a loop has something left to do there.
JobsGoOn ==
    \A n \in Instances :
        /\ prune[n].pc = "get" => prune[n].rooms # {}
        /\ prune[n].pc = "evict" => prune[n].todo # {}
        /\ sweep[n].pc = "evict" => sweep[n].invalid # {}
        /\ sweep[n].pc = "leave" => sweep[n].who # {} /\ sweep[n].at # {}
        /\ sweep[n].pc = "close" => sweep[n].rooms # {}

TypeOK ==
    /\ up \in [Instances -> {"off", "up", "down"}]
    /\ conn \in [Clients -> {"new", "open", "closed"}]
    /\ clients \in [Instances -> SUBSET Clients]
    /\ registry \in [Instances -> Entry]
    /\ pending \in [Instances -> Seq(Transaction)]
    /\ room \in [Rooms -> Room]
    /\ rooms \in [Instances -> SUBSET Rooms]
    /\ listeners \in [Instances -> SUBSET Rooms]
    /\ mail \in [Instances -> SUBSET Rooms]
    /\ join \in [Clients -> Join]
    /\ leave \in [Clients -> Leaving]
    /\ prune \in [Instances -> Prune]
    /\ sweep \in [Instances -> Sweep]
    /\ JobsGoOn

Init ==
    /\ up = [n \in Instances |-> IF n \in Late THEN "off" ELSE "up"]
    /\ conn = [c \in Clients |-> "new"]
    /\ clients = [n \in Instances |-> {}]
    /\ registry = [n \in Instances |-> IF n \in Late THEN NoEntry ELSE NewEntry]
    /\ pending = [n \in Instances |-> <<>>]
    /\ room = [r \in Rooms |-> NoRoom]
    /\ rooms = [n \in Instances |-> {}]
    /\ listeners = [n \in Instances |-> {}]
    /\ mail = [n \in Instances |-> {}]
    /\ join = [c \in Clients |-> NoJoin]
    /\ leave = [c \in Clients |-> NotLeaving]
    /\ prune = [n \in Instances |-> NoPrune]
    /\ sweep = [n \in Instances |-> NoSweep]

-----------------------------------------------------------------------------
(* Parts of actions                                                        *)

Up(n) == up[n] = "up"
ClientsOf(n) == {c \in Clients : Home[c] = n}

\* Messenger.addClient: the registry is updated some time later.
AddClient(n, c) ==
    IF c \in clients[n]
    THEN UNCHANGED <<clients, pending>>
    ELSE /\ clients' = [clients EXCEPT ![n] = @ \cup {c}]
         /\ pending' = [pending EXCEPT ![n] = Append(@, [kind |-> "add", c |-> c])]

\* Room.ensureInitialized
Initialize(x) == IF x.open THEN x ELSE [open |-> TRUE, clients |-> {}]

WithoutClient(x, c) == [x EXCEPT !.clients = @ \ {c}]

\* Room.close without force
Closes(x) == x.open /\ x.clients = {}

RegisterRoom(n, r) == registry' = [registry EXCEPT ![n].known = TRUE, ![n].rooms = @ \cup {r}]
UnregisterRoom(n, r) == registry' = [registry EXCEPT ![n].rooms = @ \ {r}]

\* The end of Room.close: the other instances are told, the room is forgotten.
Forget(n, r) ==
    /\ mail' = [m \in Instances |-> IF Up(m) THEN mail[m] \cup {r} ELSE mail[m]]
    /\ listeners' = [listeners EXCEPT ![n] = @ \ {r}]
    /\ rooms' = [rooms EXCEPT ![n] = @ \ {r}]

-----------------------------------------------------------------------------
(* Instances start and crash                                               *)

\* new Messenger(): the instance registers itself, and nobody waits for it.
Start(n) ==
    /\ up[n] = "off"
    /\ up' = [up EXCEPT ![n] = "up"]
    /\ pending' = [pending EXCEPT ![n] = <<Register>>]
    /\ UNCHANGED <<conn, tables, shared, jobs>>

\* All that is left of an instance is what it has in Redis.
Crash(n) ==
    /\ n \in Crashers
    /\ Up(n)
    /\ up' = [up EXCEPT ![n] = "down"]
    /\ conn' = [c \in Clients |-> IF Home[c] = n THEN "closed" ELSE conn[c]]
    /\ clients' = [clients EXCEPT ![n] = {}]
    /\ pending' = [pending EXCEPT ![n] = <<>>]
    /\ rooms' = [rooms EXCEPT ![n] = {}]
    /\ listeners' = [listeners EXCEPT ![n] = {}]
    /\ mail' = [mail EXCEPT ![n] = {}]
    /\ join' = [c \in Clients |-> IF Home[c] = n THEN [pc |-> "done", at |-> {}] ELSE join[c]]
    /\ leave' = [c \in Clients |-> IF Home[c] = n THEN NotLeaving ELSE leave[c]]
    /\ prune' = [prune EXCEPT ![n] = NoPrune]
    /\ sweep' = [sweep EXCEPT ![n] = NoSweep]
    /\ UNCHANGED <<registry, room>>

\* What a transaction nobody waits for makes of the entry of its instance.
Applied(e, x) ==
    CASE x.kind = "register" -> NewEntry
      [] x.kind = "add" -> [e EXCEPT !.known = TRUE, !.clients = @ \cup {x.c}]
      [] x.kind = "remove" -> [e EXCEPT !.clients = @ \ {x.c}]

\* One of them gets the lock of the registry.
CommitPending(n) ==
    /\ \E i \in DOMAIN pending[n] :
           /\ Ordered => i = 1
           /\ registry' = [registry EXCEPT ![n] = Applied(@, pending[n][i])]
           /\ pending' = [pending EXCEPT ![n] =
                              SubSeq(@, 1, i - 1) \o SubSeq(@, i + 1, Len(@))]
    /\ UNCHANGED <<up, conn, tables, room, mail, jobs>>

-----------------------------------------------------------------------------
(* Clients connect and disconnect                                          *)

Connect(c) ==
    /\ conn[c] = "new"
    /\ Up(Home[c])
    /\ conn' = [conn EXCEPT ![c] = "open"]
    /\ AddClient(Home[c], c)
    /\ UNCHANGED <<up, rooms, listeners, shared, jobs>>

\* Mutant: the registry is not told that the client is gone.
DropSilently(c) ==
    LET n == Home[c]
    IN  /\ c \in Droppers
        /\ conn[c] = "open"
        /\ conn' = [conn EXCEPT ![c] = "closed"]
        /\ clients' = [clients EXCEPT ![n] = @ \ {c}]
        /\ leave' = [leave EXCEPT ![c] = [todo |-> rooms[n], found |-> {}]]
        /\ UNCHANGED <<up, rooms, listeners, shared, pending, join, prune, sweep>>

\* removeClient, and onLeave for the rooms in local memory.
Drop(c) ==
    LET n == Home[c]
    IN  /\ c \in Droppers
        /\ conn[c] = "open"
        /\ conn' = [conn EXCEPT ![c] = "closed"]
        /\ clients' = [clients EXCEPT ![n] = @ \ {c}]
        /\ pending' = [pending EXCEPT ![n] = Append(@, [kind |-> "remove", c |-> c])]
        /\ leave' = [leave EXCEPT ![c] = [todo |-> rooms[n], found |-> {}]]
        /\ UNCHANGED <<up, rooms, listeners, shared, join, prune, sweep>>

\* getClientRooms ...
ScanRoom(c) ==
    /\ \E r \in leave[c].todo :
           leave' = [leave EXCEPT ![c].todo = @ \ {r},
                                  ![c].found = IF c \in room[r].clients THEN @ \cup {r} ELSE @]
    /\ UNCHANGED <<up, conn, tables, shared, pending, join, prune, sweep>>

\* ... and one leave for each of them.
LeaveFound(c) ==
    /\ leave[c].todo = {}
    /\ \E r \in leave[c].found :
           /\ room' = [room EXCEPT ![r] = WithoutClient(@, c)]
           /\ leave' = [leave EXCEPT ![c].found = @ \ {r}]
    /\ UNCHANGED <<up, conn, tables, registry, mail, pending, join, prune, sweep>>

-----------------------------------------------------------------------------
(* A client joins a room: onJoin, RoomManager.createRoom, Room.join        *)

JoinGoto(c, pc) == join' = [join EXCEPT ![c].pc = pc]
JoinDone(c) == join' = [join EXCEPT ![c] = [pc |-> "done", at |-> {}]]

JoinStart(c, r) ==
    /\ conn[c] = "open"
    /\ join[c].pc = "none"
    /\ join' = [join EXCEPT ![c] = [pc |-> "create", at |-> {r}]]
    /\ UNCHANGED <<up, conn, tables, shared, pending, leave, prune, sweep>>

\* The room is in local memory: on to Room.join without an await.
JoinExisting(c) ==
    LET n == Home[c]
    IN  /\ join[c].pc = "create"
        /\ \E r \in join[c].at \cap rooms[n] :
               listeners' = [listeners EXCEPT ![n] = @ \cup {r}]
        /\ AddClient(n, c)
        /\ JoinGoto(c, "has")
        /\ UNCHANGED <<up, conn, rooms, shared, leave, prune, sweep>>

JoinNew(c) ==
    LET n == Home[c]
    IN  /\ join[c].pc = "create"
        /\ \E r \in join[c].at \ rooms[n] :
               rooms' = [rooms EXCEPT ![n] = @ \cup {r}]
        /\ JoinGoto(c, "init")
        /\ UNCHANGED <<up, conn, clients, listeners, shared, pending, leave, prune, sweep>>

JoinInit(c) ==
    /\ join[c].pc = "init"
    /\ \E r \in join[c].at : room' = [room EXCEPT ![r] = Initialize(@)]
    /\ JoinGoto(c, "register")
    /\ UNCHANGED <<up, conn, tables, registry, mail, pending, leave, prune, sweep>>

JoinRegister(c) ==
    /\ join[c].pc = "register"
    /\ \E r \in join[c].at : RegisterRoom(Home[c], r)
    /\ JoinGoto(c, "listen")
    /\ UNCHANGED <<up, conn, tables, room, mail, pending, leave, prune, sweep>>

\* The room may be gone again: then there is nothing to join.
JoinListen(c) ==
    LET n == Home[c]
    IN  /\ join[c].pc = "listen"
        /\ \E r \in join[c].at :
               /\ listeners' = [listeners EXCEPT ![n] = @ \cup {r}]
               /\ IF r \in rooms[n]
                  THEN AddClient(n, c) /\ JoinGoto(c, "has")
                  ELSE JoinDone(c) /\ UNCHANGED <<clients, pending>>
        /\ UNCHANGED <<up, conn, rooms, shared, leave, prune, sweep>>

JoinHas(c) ==
    /\ join[c].pc = "has"
    /\ \E r \in join[c].at :
           IF c \in room[r].clients THEN JoinDone(c) ELSE JoinGoto(c, "push")
    /\ UNCHANGED <<up, conn, tables, shared, pending, leave, prune, sweep>>

JoinPush(c) ==
    /\ join[c].pc = "push"
    /\ \E r \in join[c].at : room' = [room EXCEPT ![r].clients = @ \cup {c}]
    /\ JoinDone(c)
    /\ UNCHANGED <<up, conn, tables, registry, mail, pending, leave, prune, sweep>>

\* The room listener of createRoom.
ReceiveClose(n, r) ==
    /\ r \in mail[n]
    /\ mail' = [mail EXCEPT ![n] = @ \ {r}]
    /\ IF r \in listeners[n]
       THEN /\ rooms' = [rooms EXCEPT ![n] = @ \ {r}]
            /\ listeners' = IF r \in rooms[n] THEN [listeners EXCEPT ![n] = @ \ {r}] ELSE listeners
       ELSE UNCHANGED <<rooms, listeners>>
    /\ UNCHANGED <<up, conn, clients, registry, room, pending, jobs>>

-----------------------------------------------------------------------------
(* The cron job: Messenger.pruneDeadInstances, then the rooms of the dead  *)

PruneIs(n, pc) == Up(n) /\ prune[n].pc = pc

\* After a room: the next one, or the end.
PruneNext(n) ==
    prune' = [prune EXCEPT ![n] = IF @.rooms = {} THEN NoPrune
                                  ELSE [@ EXCEPT !.pc = "get", !.at = {}, !.todo = {}]]

\* Read the registry and ping every other instance.
PruneStart(n) ==
    /\ n \in Pruners
    /\ PruneIs(n, "idle")
    /\ prune' = [prune EXCEPT ![n].pc = "wait",
                              ![n].silent = {m \in Instances : registry[m].known} \ {n}]
    /\ UNCHANGED <<up, conn, tables, shared, pending, join, leave, sweep>>

\* A pong of m gets to n in time.
Pong(n, m) ==
    /\ PruneIs(n, "wait")
    /\ m \in prune[n].silent
    /\ Up(m)
    /\ prune' = [prune EXCEPT ![n].silent = @ \ {m}]
    /\ UNCHANGED <<up, conn, tables, shared, pending, join, leave, sweep>>

\* Mutant: the job does not wait for the answers.
PruneTimeoutEarly(n) ==
    /\ PruneIs(n, "wait")
    /\ prune' = [prune EXCEPT ![n].pc = IF prune[n].silent = {} THEN "idle" ELSE "delete"]
    /\ UNCHANGED <<up, conn, tables, shared, pending, join, leave, sweep>>

\* Mutant: the job ends when an instance is silent.
PruneTimeoutGivesUp(n) ==
    /\ PruneIs(n, "wait")
    /\ Timely => \A m \in prune[n].silent : ~Up(m)
    /\ prune' = [prune EXCEPT ![n] = NoPrune]
    /\ UNCHANGED <<up, conn, tables, shared, pending, join, leave, sweep>>

PruneTimeout(n) ==
    /\ PruneIs(n, "wait")
    /\ Timely => \A m \in prune[n].silent : ~Up(m)
    /\ prune' = [prune EXCEPT ![n].pc = IF prune[n].silent = {} THEN "idle" ELSE "delete"]
    /\ UNCHANGED <<up, conn, tables, shared, pending, join, leave, sweep>>

\* The registry is read again, and what is there of the silent ones deleted.
PruneDelete(n) ==
    LET dead == prune[n].silent
        roomsOf == UNION {registry[m].rooms : m \in dead}
    IN  /\ PruneIs(n, "delete")
        /\ registry' = [m \in Instances |-> IF m \in dead THEN NoEntry ELSE registry[m]]
        /\ prune' = [prune EXCEPT ![n] =
               IF roomsOf = {} THEN NoPrune
               ELSE [NoPrune EXCEPT !.pc = "get", !.rooms = roomsOf,
                                    !.clients = UNION {registry[m].clients : m \in dead}]]
        /\ UNCHANGED <<up, conn, tables, room, mail, pending, join, leave, sweep>>

\* RoomManager.getRoom
PruneGet(n) ==
    /\ PruneIs(n, "get")
    /\ \E r \in prune[n].rooms :
           IF r \in rooms[n] \/ room[r].open
           THEN /\ rooms' = [rooms EXCEPT ![n] = @ \cup {r}]
                /\ prune' = [prune EXCEPT ![n].pc = "init", ![n].rooms = @ \ {r}, ![n].at = {r}]
           ELSE /\ prune' = [prune EXCEPT ![n] = IF @.rooms = {r} THEN NoPrune
                                                 ELSE [@ EXCEPT !.rooms = prune[n].rooms \ {r}]]
                /\ UNCHANGED rooms
    /\ UNCHANGED <<up, conn, clients, listeners, shared, pending, join, leave, sweep>>

\* Mutant: the instance is taken to have had clients.
PruneInitEvicting(n) ==
    /\ PruneIs(n, "init")
    /\ \E r \in prune[n].at : room' = [room EXCEPT ![r] = Initialize(@)]
    /\ prune' = [prune EXCEPT ![n].pc = "evict", ![n].todo = prune[n].clients]
    /\ UNCHANGED <<up, conn, tables, registry, mail, pending, join, leave, sweep>>

PruneInit(n) ==
    /\ PruneIs(n, "init")
    /\ \E r \in prune[n].at : room' = [room EXCEPT ![r] = Initialize(@)]
    /\ prune' = [prune EXCEPT ![n].pc = IF prune[n].clients = {} THEN "close" ELSE "evict",
                              ![n].todo = prune[n].clients]
    /\ UNCHANGED <<up, conn, tables, registry, mail, pending, join, leave, sweep>>

\* hasClient and leave for one dead client.
PruneEvict(n) ==
    /\ PruneIs(n, "evict")
    /\ \E r \in prune[n].at, c \in prune[n].todo :
           /\ room' = [room EXCEPT ![r] = WithoutClient(@, c)]
           /\ prune' = [prune EXCEPT ![n].todo = @ \ {c},
                                     ![n].pc = IF prune[n].todo = {c} THEN "close" ELSE "evict"]
    /\ UNCHANGED <<up, conn, tables, registry, mail, pending, join, leave, sweep>>

PruneClose(n) ==
    /\ PruneIs(n, "close")
    /\ \E r \in prune[n].at :
           IF Closes(room[r])
           THEN /\ room' = [room EXCEPT ![r] = NoRoom]
                /\ prune' = [prune EXCEPT ![n].pc = "unregister"]
           ELSE /\ PruneNext(n)
                /\ UNCHANGED room
    /\ UNCHANGED <<up, conn, tables, registry, mail, pending, join, leave, sweep>>

PruneUnregister(n) ==
    /\ PruneIs(n, "unregister")
    /\ \E r \in prune[n].at : UnregisterRoom(n, r)
    /\ prune' = [prune EXCEPT ![n].pc = "closed"]
    /\ UNCHANGED <<up, conn, tables, room, mail, pending, join, leave, sweep>>

PruneClosed(n) ==
    /\ PruneIs(n, "closed")
    /\ \E r \in prune[n].at : Forget(n, r)
    /\ PruneNext(n)
    /\ UNCHANGED <<up, conn, clients, registry, room, pending, join, leave, sweep>>

-----------------------------------------------------------------------------
(* The interval job: evict the clients nobody knows, close the empty rooms *)

SweepIs(n, pc) == Up(n) /\ sweep[n].pc = pc

\* Mutant: the rooms are not looked at.
SweepOnClients(n, invalid) ==
    IF invalid # {} THEN [NoSweep EXCEPT !.pc = "evict", !.invalid = invalid] ELSE NoSweep

\* After an eviction: the next client, or on to the rooms.
SweepOn(n, invalid) ==
    IF invalid # {}
    THEN [NoSweep EXCEPT !.pc = "evict", !.invalid = invalid]
    ELSE IF rooms[n] = {} THEN NoSweep
    ELSE [NoSweep EXCEPT !.pc = "close", !.rooms = rooms[n]]

\* After a room: the next one, or the end.
SweepNext(s) == IF s.rooms = {} THEN NoSweep ELSE [s EXCEPT !.pc = "close", !.at = {}]

\* getGlobalClients
SweepStart(n) ==
    /\ n \in Sweepers
    /\ SweepIs(n, "idle")
    /\ sweep' = [sweep EXCEPT ![n].pc = "local",
                              ![n].global = UNION {registry[m].clients : m \in Instances}]
    /\ UNCHANGED <<up, conn, tables, shared, pending, join, leave, prune>>

\* getLocalRoomClients, and the difference of the two
SweepLocal(n) ==
    /\ SweepIs(n, "local")
    /\ LET present == UNION {room[r].clients : r \in rooms[n]}
       IN  sweep' = [sweep EXCEPT ![n] = SweepOn(n, present \ sweep[n].global)]
    /\ UNCHANGED <<up, conn, tables, shared, pending, join, leave, prune>>

\* getClientRooms of one of them
SweepScan(n) ==
    /\ SweepIs(n, "evict")
    /\ \E c \in sweep[n].invalid :
           LET found == {r \in rooms[n] : c \in room[r].clients}
           IN  sweep' = [sweep EXCEPT ![n] =
                  IF found = {} THEN SweepOn(n, @.invalid \ {c})
                  ELSE [NoSweep EXCEPT !.pc = "leave", !.invalid = sweep[n].invalid \ {c},
                                       !.who = {c}, !.at = found]]
    /\ UNCHANGED <<up, conn, tables, shared, pending, join, leave, prune>>

SweepLeave(n) ==
    /\ SweepIs(n, "leave")
    /\ \E c \in sweep[n].who, r \in sweep[n].at :
           /\ room' = [room EXCEPT ![r] = WithoutClient(@, c)]
           /\ sweep' = [sweep EXCEPT ![n] = IF @.at = {r} THEN SweepOn(n, @.invalid)
                                            ELSE [@ EXCEPT !.at = sweep[n].at \ {r}]]
    /\ UNCHANGED <<up, conn, tables, registry, mail, pending, join, leave, prune>>

\* cleanupRooms
SweepClose(n) ==
    /\ SweepIs(n, "close")
    /\ \E r \in sweep[n].rooms :
           LET s == [sweep[n] EXCEPT !.rooms = @ \ {r}, !.at = {r}]
           IN  IF Closes(room[r])
               THEN /\ room' = [room EXCEPT ![r] = NoRoom]
                    /\ sweep' = [sweep EXCEPT ![n] = [s EXCEPT !.pc = "unregister"]]
               ELSE /\ sweep' = [sweep EXCEPT ![n] = SweepNext(s)]
                    /\ UNCHANGED room
    /\ UNCHANGED <<up, conn, tables, registry, mail, pending, join, leave, prune>>

SweepUnregister(n) ==
    /\ SweepIs(n, "unregister")
    /\ \E r \in sweep[n].at : UnregisterRoom(n, r)
    /\ sweep' = [sweep EXCEPT ![n].pc = "closed"]
    /\ UNCHANGED <<up, conn, tables, room, mail, pending, join, leave, prune>>

SweepClosed(n) ==
    /\ SweepIs(n, "closed")
    /\ \E r \in sweep[n].at : Forget(n, r)
    /\ sweep' = [sweep EXCEPT ![n] = SweepNext(@)]
    /\ UNCHANGED <<up, conn, clients, registry, room, pending, join, leave, prune>>

-----------------------------------------------------------------------------
(* The specification                                                       *)

Joining(c) ==
    \/ JoinExisting(c)
    \/ JoinNew(c)
    \/ JoinInit(c)
    \/ JoinRegister(c)
    \/ JoinListen(c)
    \/ JoinHas(c)
    \/ JoinPush(c)

Dropped(c) == ScanRoom(c) \/ LeaveFound(c)

Pruning(n) ==
    \/ PruneStart(n)
    \/ PruneTimeout(n)
    \/ PruneDelete(n)
    \/ PruneGet(n)
    \/ PruneInit(n)
    \/ PruneEvict(n)
    \/ PruneClose(n)
    \/ PruneUnregister(n)
    \/ PruneClosed(n)

Sweeping(n) ==
    \/ SweepStart(n)
    \/ SweepLocal(n)
    \/ SweepScan(n)
    \/ SweepLeave(n)
    \/ SweepClose(n)
    \/ SweepUnregister(n)
    \/ SweepClosed(n)

Next ==
    \/ \E n \in Instances : Start(n) \/ Crash(n) \/ CommitPending(n) \/ Pruning(n) \/ Sweeping(n)
    \/ \E n, m \in Instances : Pong(n, m)
    \/ \E n \in Instances, r \in Rooms : ReceiveClose(n, r)
    \/ \E c \in Clients : Connect(c) \/ Drop(c) \/ Joining(c) \/ Dropped(c)
    \/ \E c \in Clients, r \in Rooms : JoinStart(c, r)

\* Handlers and jobs of a running instance go on, pings are answered, and the two
\* jobs are started again and again.  Starts, crashes and clients are free.
Fairness ==
    /\ \A c \in Clients : WF_vars(Joining(c)) /\ WF_vars(Dropped(c))
    /\ \A n \in Instances : /\ WF_vars(CommitPending(n))
                            /\ WF_vars(Pruning(n))
                            /\ WF_vars(Sweeping(n))
    /\ \A n, m \in Instances : WF_vars(Pong(n, m))

Spec == Init /\ [][Next]_vars /\ Fairness

-----------------------------------------------------------------------------
(* Properties                                                              *)

Open(c) == conn[c] = "open"
Member(c, r) == c \in room[r].clients

\* A connected client is in the registry or on its way into it, and stays so whatever
\* the instances start, crash and prune meanwhile: else the next sweep of any instance
\* would evict it.  Two things can take it out: the registration of its own instance,
\* committed behind the client's, replaces the entry; and a job that waited in vain
\* for the answer of the instance deletes it.
Covered(c) ==
    \/ c \in registry[Home[c]].clients
    \/ \E i \in DOMAIN pending[Home[c]] : pending[Home[c]][i] = [kind |-> "add", c |-> c]
Replaced(n) == registry'[n] = NewEntry /\ \E i \in DOMAIN pending[n] : pending[n][i] = Register
TakenForDead(n) == \E m \in Instances : PruneIs(m, "delete") /\ n \in prune[m].silent
StaysRegistered ==
    [][\A c \in Clients :
          Open(c)' /\ (Open(c) => Covered(c)) =>
             \/ Covered(c)'
             \/ ~Ordered /\ Replaced(Home[c])
             \/ ~Timely /\ TakenForDead(Home[c])]_vars

\* A client that is gone - disconnected, or connected to an instance that has
\* crashed - does not stay in a room that a running instance has in local memory,
\* in whatever order its handlers, onLeave and the two jobs ran: prune takes the
\* clients of a dead instance out of the registry, and sweep takes out of the rooms
\* who is not in the registry.  Nothing helps a client that a late Room.join has
\* added to Messenger.clients again (README, Known deviations).
Gone(c) == conn[c] = "closed" /\ c \notin clients[Home[c]]

NoLastingGhost ==
    \A c \in Clients, r \in Rooms, n \in Sweepers :
        []<>~(Gone(c) /\ Member(c, r) /\ Up(n) /\ r \in rooms[n])

\* An instance does not keep an abandoned room for good.
AbandonedIsClosed ==
    \A r \in Rooms, n \in Sweepers :
        []<>~(Up(n) /\ r \in rooms[n] /\ Closes(room[r]))
=============================================================================
