-------------------------- MODULE CollabRoom_proofs --------------------------
(***************************************************************************)
(* Theorems about the rooms of real-time collaboration: the types of the   *)
(* variables; that no field is ever focused by two clients, and no other   *)
(* handler disturbs members and focuses; and that to their clients the     *)
(* rooms are those of EditingRoom, with more to rely on where clients wait *)
(* for each answer.                                                        *)
(***************************************************************************)
EXTENDS CollabRoom, RoomStore_proofs, SequenceTheorems

\* A slot at a program counter of a handler holds a request.
LEMMA RequestAt ==
    ASSUME TypeOK, NEW t \in Slots, Busy(t)
    PROVE  req[t] \in Request
<1>1. req[t] \in Request \/ req[t] = NoRequest \/ req[t] = Spent
  BY DEF TypeOK
<1>2. req[t] # NoRequest /\ req[t] # Spent
  BY DEF Busy, RequestPcs, NoRequest, Spent
<1> QED
  BY <1>1, <1>2

LEMMA GotoType ==
    ASSUME TypeOK, NEW t \in Slots, Busy(t), NEW pc \in RequestPcs, Goto(t, pc)
    PROVE  req' \in [Slots -> Request \cup {NoRequest, Spent}]
<1>1. req[t] \in Request
  BY RequestAt
<1>2. [req[t] EXCEPT !.pc = pc] \in Request
  BY <1>1 DEF Request
<1> QED
  BY <1>2 DEF Goto, TypeOK

LEMMA DoneType ==
    ASSUME TypeOK, NEW t \in Slots, Done(t)
    PROVE  req' \in [Slots -> Request \cup {NoRequest, Spent}]
BY DEF Done, TypeOK

\* The room and the node of a request, and the transaction that commits there.
LEMMA RequestParts ==
    ASSUME TypeOK, NEW t \in Slots, Busy(t)
    PROVE  /\ req[t].r \in Rooms
           /\ req[t].c \in Clients
           /\ Node(t) \in Nodes
           /\ store[req[t].r] \in RoomData
           /\ dflt[Node(t)] \in RoomDefaults
BY RequestAt, HomeAssumption DEF Request, Node, TypeOK

LEMMA CommitType ==
    ASSUME TypeOK, NEW n \in Nodes, NEW r \in Rooms, NEW x, IsResult(x), Commit(n, r, x)
    PROVE  store' \in [Rooms -> RoomData] /\ dflt' \in [Nodes -> RoomDefaults]
BY DEF Commit, IsResult, TypeOK

LEMMA KeepType ==
    ASSUME TypeOK, NEW n \in Nodes, NEW r \in Rooms, NEW init \in Changes, Keep(n, r, init)
    PROVE  rooms' \in [Nodes -> SUBSET Rooms] /\ seed' \in [Nodes -> [Rooms -> Changes]]
BY DEF Keep, TypeOK

LEMMA ForgetType ==
    ASSUME TypeOK, NEW n \in Nodes, NEW r \in Rooms, Forget(n, r)
    PROVE  rooms' \in [Nodes -> SUBSET Rooms] /\ seed' \in [Nodes -> [Rooms -> Changes]]
BY EmptyTypes DEF Forget, TypeOK

LEMMA ListenerType ==
    ASSUME TypeOK, NEW n \in Nodes, NEW r \in Rooms, Listen(n, r) \/ Dispose(n, r)
    PROVE  listeners' \in [Nodes -> SUBSET Rooms]
<1>1. CASE Listen(n, r)
  BY <1>1 DEF Listen, TypeOK
<1>2. CASE Dispose(n, r)
  BY <1>2 DEF Dispose, TypeOK
<1> QED
  BY <1>1, <1>2

LEMMA PublishType ==
    ASSUME TypeOK, NEW r \in Rooms, Publish(r)
    PROVE  mail' \in [Nodes -> [Rooms -> Nat]]
BY DEF Publish, TypeOK

LEMMA EmitType ==
    ASSUME TypeOK, NEW event \in Event, Emit(event)
    PROVE  queue' \in [Nodes -> Seq(Event)]
BY AppendProperties DEF Emit, TypeOK

-----------------------------------------------------------------------------
(* Type correctness                                                        *)

LEMMA TypeInit == Init => TypeOK
BY EmptyTypes, EmptySeq DEF Init, TypeOK, NoRequest, Up, Connection, NoCleanup, Cleanup,
                            NoEvent, EventTask

LEMMA TypeArrival ==
    ASSUME TypeOK, NEW t \in Slots, NEW c \in Clients, NEW r \in Rooms, Arrival(t, c, r)
    PROVE  TypeOK'
<1>1. ASSUME NEW message \in Request, Receive(t, message)
      PROVE  TypeOK'
  BY <1>1 DEF Receive, TypeOK, shared, local, bus, jobs
<1>2. ASSUME NEW kind \in AllMessages, NEW f \in Fields \cup {NoField}, NEW fs \in SUBSET Fields,
             NEW v \in Values \cup {NoValue}, NEW init \in Changes
      PROVE  Message(kind, c, r, f, fs, v, init) \in Request
  BY <1>2 DEF Message, Request, RequestPcs
<1>3. CASE ReceiveJoin(t, c, r)
  BY <1>1, <1>2, <1>3, SeedsAssumption DEF ReceiveJoin, AllMessages
<1>4. CASE ReceiveLeave(t, c, r)
  BY <1>1, <1>2, <1>4, EmptyTypes DEF ReceiveLeave, AllMessages
<1>5. CASE ReceiveUpdate(t, c, r)
  BY <1>1, <1>2, <1>5, EmptyTypes DEF ReceiveUpdate, AllMessages
<1>6. CASE ReceiveUnset(t, c, r)
  BY <1>1, <1>2, <1>6, EmptyTypes DEF ReceiveUnset, AllMessages
<1>7. CASE ReceiveUpdateAll(t, c, r)
  BY <1>1, <1>2, <1>7, EmptyTypes DEF ReceiveUpdateAll, AllMessages
<1>8. CASE ReceiveFocus(t, c, r)
  BY <1>1, <1>2, <1>8, EmptyTypes DEF ReceiveFocus, AllMessages
<1>9. CASE ReceiveDiscard(t, c, r)
  BY <1>1, <1>2, <1>9, EmptyTypes DEF ReceiveDiscard, AllMessages
<1> QED
  BY <1>3, <1>4, <1>5, <1>6, <1>7, <1>8, <1>9 DEF Arrival

\* A handler that only changes its own request.
LEMMA TypeLocalStep ==
    ASSUME TypeOK, req' \in [Slots -> Request \cup {NoRequest, Spent}],
           UNCHANGED <<shared, local, bus, jobs>>
    PROVE  TypeOK'
BY DEF TypeOK, shared, local, bus, jobs

\* A handler that ends with a transaction on its room.
LEMMA TypeCommitStep ==
    ASSUME TypeOK, NEW t \in Slots, Busy(t), NEW x, IsResult(x),
           Commit(Node(t), req[t].r, x),
           req' \in [Slots -> Request \cup {NoRequest, Spent}],
           UNCHANGED <<db, local, bus, jobs>>
    PROVE  TypeOK'
<1>1. store' \in [Rooms -> RoomData] /\ dflt' \in [Nodes -> RoomDefaults]
  BY RequestParts, CommitType
<1> QED
  BY <1>1 DEF TypeOK, local, bus, jobs

LEMMA TypeHandler ==
    ASSUME TypeOK, NEW t \in Slots, Handler(t)
    PROVE  TypeOK'
<1> DEFINE q == req[t]
           n == Node(t)
           Reqs == [Slots -> Request \cup {NoRequest, Spent}]
<1>1. CASE Reject(t)
  BY <1>1, DoneType, TypeLocalStep DEF Reject
<1>2. CASE CreateExisting(t)
  <2>1. Busy(t)
    BY <1>2 DEF CreateExisting, At, Busy, RequestPcs
  <2>2. req' \in Reqs
    <3>1. [q EXCEPT !.pc = "has", !.init = NoChanges] \in Request
      BY <2>1, RequestAt, EmptyTypes DEF Request, RequestPcs
    <3> QED BY <1>2, <3>1 DEF CreateExisting, TypeOK
  <2>3. listeners' \in [Nodes -> SUBSET Rooms]
    BY <1>2, <2>1, RequestParts, ListenerType DEF CreateExisting
  <2> QED BY <1>2, <2>2, <2>3 DEF CreateExisting, TypeOK, shared, bus, jobs
<1>3. CASE CreateNew(t)
  <2>1. Busy(t)
    BY <1>3 DEF CreateNew, At, Busy, RequestPcs
  <2>2. req' \in Reqs
    BY <1>3, <2>1, GotoType DEF CreateNew, RequestPcs
  <2>3. rooms' \in [Nodes -> SUBSET Rooms] /\ seed' \in [Nodes -> [Rooms -> Changes]]
    <3>1. q.init \in Changes
      BY <2>1, RequestAt DEF Request
    <3> QED BY <1>3, <2>1, <3>1, RequestParts, KeepType DEF CreateNew
  <2> QED BY <1>3, <2>2, <2>3 DEF CreateNew, TypeOK, shared, bus, jobs
<1>4. CASE InitializeCreated(t)
  <2>1. Busy(t)
    BY <1>4 DEF InitializeCreated, At, Busy, RequestPcs
  <2>2. req' \in Reqs
    <3>1. [q EXCEPT !.pc = "listen", !.init = NoChanges] \in Request
      BY <2>1, RequestAt, EmptyTypes DEF Request, RequestPcs
    <3> QED BY <1>4, <3>1 DEF InitializeCreated, TypeOK
  <2>3. store' \in [Rooms -> RoomData]
    <3>1. InitTxn(store[q.r], q.init) \in RoomData
      BY <2>1, RequestAt, RequestParts, InitType DEF Request
    <3> QED BY <1>4, <2>1, <3>1, RequestParts DEF InitializeCreated, TypeOK
  <2> QED BY <1>4, <2>2, <2>3 DEF InitializeCreated, TypeOK, local, bus, jobs
<1>5. CASE SetRoomListener(t)
  <2>1. Busy(t)
    BY <1>5 DEF SetRoomListener, At, Busy, RequestPcs
  <2>2. req' \in Reqs
    BY <1>5, <2>1, GotoType, DoneType DEF SetRoomListener, RequestPcs
  <2>3. listeners' \in [Nodes -> SUBSET Rooms]
    BY <1>5, <2>1, RequestParts, ListenerType DEF SetRoomListener
  <2> QED BY <1>5, <2>2, <2>3 DEF SetRoomListener, TypeOK, shared, bus, jobs
<1>6. CASE GetLocalRoom(t)
  <2>1. Busy(t)
    BY <1>6 DEF GetLocalRoom, At, Busy, RequestPcs
  <2>2. [q EXCEPT !.pc = "init", !.init = seed[n][q.r]] \in Request
    <3>1. seed[n][q.r] \in Changes
      BY <2>1, RequestParts DEF TypeOK
    <3> QED BY <2>1, <3>1, RequestAt DEF Request, RequestPcs
  <2>3. [q EXCEPT !.pc = "load"] \in Request
    BY <2>1, RequestAt DEF Request, RequestPcs
  <2>4. req' \in Reqs
    BY <1>6, <2>2, <2>3 DEF GetLocalRoom, TypeOK
  <2> QED BY <1>6, <2>4, TypeLocalStep DEF GetLocalRoom
<1>7. CASE LoadRoom(t)
  <2> DEFINE changes == GetChanges(store[q.r], FreshDefaults)
  <2>1. Busy(t)
    BY <1>7 DEF LoadRoom, At, Busy, RequestPcs
  <2>2. changes \in Changes
    BY <2>1, RequestParts, GetTypes, EmptyTypes
  <2>3. CASE Initialized(store[q.r])
    <3>1. [q EXCEPT !.pc = "init", !.init = changes] \in Request
      <4> HIDE DEF changes
      <4> QED BY <2>1, <2>2, RequestAt DEF Request, RequestPcs
    <3>2. Keep(n, q.r, changes) /\ req' = [req EXCEPT ![t].pc = "init", ![t].init = changes]
      BY <1>7, <2>3 DEF LoadRoom
    <3>3. req' \in Reqs
      <4> HIDE DEF changes
      <4> QED BY <3>1, <3>2 DEF TypeOK
    <3>4. rooms' \in [Nodes -> SUBSET Rooms] /\ seed' \in [Nodes -> [Rooms -> Changes]]
      <4> HIDE DEF changes
      <4> QED BY <2>1, <2>2, <3>2, RequestParts, KeepType
    <3> QED BY <1>7, <3>3, <3>4 DEF LoadRoom, TypeOK, shared, bus, jobs
  <2>4. CASE ~Initialized(store[q.r])
    <3>1. Done(t) /\ UNCHANGED <<shared, local, bus, jobs>>
      BY <1>7, <2>4 DEF LoadRoom, local
    <3> QED BY <3>1, DoneType, TypeLocalStep
  <2> QED BY <2>3, <2>4
<1>8. CASE InitializeLoaded(t)
  <2>1. Busy(t)
    BY <1>8 DEF InitializeLoaded, At, Busy, RequestPcs
  <2>2. req' \in Reqs
    <3>1. [q EXCEPT !.pc = "has", !.init = NoChanges] \in Request
      BY <2>1, RequestAt, EmptyTypes DEF Request, RequestPcs
    <3> QED BY <1>8, <3>1 DEF InitializeLoaded, TypeOK
  <2>3. store' \in [Rooms -> RoomData]
    <3>1. InitTxn(store[q.r], q.init) \in RoomData
      BY <2>1, RequestAt, RequestParts, InitType DEF Request
    <3> QED BY <1>8, <2>1, <3>1, RequestParts DEF InitializeLoaded, TypeOK
  <2> QED BY <1>8, <2>2, <2>3 DEF InitializeLoaded, TypeOK, local, bus, jobs
<1>9. CASE CheckMember(t)
  <2>1. Busy(t)
    BY <1>9 DEF CheckMember, At, Busy, RequestPcs
  <2>2. NextPc(q.kind) \in RequestPcs
    BY DEF NextPc, RequestPcs
  <2>3. req' \in Reqs
    BY <1>9, <2>1, <2>2, GotoType, DoneType DEF CheckMember
  <2> QED BY <1>9, <2>3, TypeLocalStep DEF CheckMember
<1>10. CASE Push(t)
  <2>1. Busy(t)
    BY <1>10 DEF Push, At, Busy, RequestPcs
  <2>2. IsResult(PushTxn(store[q.r], dflt[n], q.c))
    BY <2>1, RequestParts, PushType
  <2> QED BY <1>10, <2>1, <2>2, DoneType, TypeCommitStep DEF Push
<1>11. CASE Leave(t)
  <2>1. Busy(t)
    BY <1>11 DEF Leave, At, Busy, RequestPcs
  <2>2. IsResult(LeaveTxn(store[q.r], dflt[n], q.c))
    BY <2>1, RequestParts, LeaveType
  <2> QED BY <1>11, <2>1, <2>2, DoneType, TypeCommitStep DEF Leave
<1>12. CASE ReadOwnFocus(t)
  <2>1. Busy(t)
    BY <1>12 DEF ReadOwnFocus, At, Busy, RequestPcs
  <2>2. req' \in Reqs
    BY <1>12, <2>1, GotoType DEF ReadOwnFocus, RequestPcs
  <2> QED BY <1>12, <2>2, TypeLocalStep DEF ReadOwnFocus
<1>13. CASE TakeFocus(t)
  <2>1. Busy(t)
    BY <1>13 DEF TakeFocus, At, Busy, RequestPcs
  <2>2. IsResult(FocusTxn(store[q.r], dflt[n], q.c, q.f))
    BY <2>1, RequestAt, RequestParts, FocusType DEF Request
  <2>3. req' \in Reqs
    BY <1>13, <2>1, GotoType DEF TakeFocus, RequestPcs
  <2> QED BY <1>13, <2>1, <2>2, <2>3, TypeCommitStep DEF TakeFocus
<1>14. CASE RecheckFocus(t)
  <2>1. Busy(t)
    BY <1>14 DEF RecheckFocus, At, Busy, RequestPcs
  <2>2. req' \in Reqs
    BY <1>14, <2>1, GotoType, DoneType DEF RecheckFocus, RequestPcs
  <2> QED BY <1>14, <2>2, TypeLocalStep DEF RecheckFocus
<1>15. CASE Write(t)
  <2>1. Busy(t)
    BY <1>15 DEF Write, At, Busy, RequestPcs
  <2>2. IsResult(UpdateTxn(store[q.r], dflt[n], {q.f} \cap Fields, q.v))
    BY <2>1, RequestAt, RequestParts, UpdateType DEF Request
  <2>3. UpdateTxn(store[q.r], dflt[n], {q.f}, q.v)
          = UpdateTxn(store[q.r], dflt[n], {q.f} \cap Fields, q.v)
    BY DEF UpdateTxn
  <2> QED BY <1>15, <2>1, <2>2, <2>3, DoneType, TypeCommitStep DEF Write
<1>16. CASE ReadFocuser(t)
  <2>1. Busy(t)
    BY <1>16 DEF ReadFocuser, At, Busy, RequestPcs
  <2>2. req' \in Reqs
    BY <1>16, <2>1, GotoType, DoneType DEF ReadFocuser, RequestPcs
  <2> QED BY <1>16, <2>2, TypeLocalStep DEF ReadFocuser
<1>17. CASE Unset(t)
  <2>1. Busy(t)
    BY <1>17 DEF Unset, At, Busy, RequestPcs
  <2>2. IsResult(DropTxn(store[q.r], dflt[n], {q.f} \cap Fields))
    BY <2>1, RequestAt, RequestParts, DropType DEF Request
  <2>3. DropTxn(store[q.r], dflt[n], {q.f}) = DropTxn(store[q.r], dflt[n], {q.f} \cap Fields)
    BY DEF DropTxn
  <2> QED BY <1>17, <2>1, <2>2, <2>3, DoneType, TypeCommitStep DEF Unset
<1>18. CASE FilterField(t)
  <2>1. Busy(t)
    BY <1>18 DEF FilterField, At, Busy, RequestPcs
  <2>2. PICK f \in q.todo :
           LET fs == IF FreeFor(t, f) THEN q.fs ELSE q.fs \ {f}
               todo == q.todo \ {f}
           IN  IF todo = {} /\ fs = {}
               THEN Done(t)
               ELSE req' = [req EXCEPT ![t].fs = fs, ![t].todo = todo,
                                       ![t].pc = IF todo = {} THEN "writeAll" ELSE "filter"]
    BY <1>18 DEF FilterField
  <2> DEFINE fs == IF FreeFor(t, f) THEN q.fs ELSE q.fs \ {f}
             todo == q.todo \ {f}
             pc == IF todo = {} THEN "writeAll" ELSE "filter"
  <2>3. fs \in SUBSET Fields /\ todo \in SUBSET Fields /\ pc \in RequestPcs
    BY <2>1, RequestAt DEF Request, RequestPcs
  <2>4. Done(t) \/ req' = [req EXCEPT ![t].fs = fs, ![t].todo = todo, ![t].pc = pc]
    BY <2>2
  <2>5. req' \in Reqs
    <3> HIDE DEF fs, todo, pc
    <3>1. [q EXCEPT !.fs = fs, !.todo = todo, !.pc = pc] \in Request
      BY <2>1, <2>3, RequestAt DEF Request
    <3> QED BY <2>4, <3>1, DoneType DEF TypeOK
  <2> QED BY <1>18, <2>5, TypeLocalStep DEF FilterField
<1>19. CASE WriteAll(t)
  <2>1. Busy(t)
    BY <1>19 DEF WriteAll, At, Busy, RequestPcs
  <2>2. IsResult(UpdateTxn(store[q.r], dflt[n], q.fs, q.v))
    BY <2>1, RequestAt, RequestParts, UpdateType DEF Request
  <2> QED BY <1>19, <2>1, <2>2, DoneType, TypeCommitStep DEF WriteAll
<1>20. CASE Focus(t)
  <2>1. Busy(t)
    BY <1>20 DEF Focus, At, Busy, RequestPcs
  <2>2. IsResult(FocusTxn(store[q.r], dflt[n], q.c, q.f))
    BY <2>1, RequestAt, RequestParts, FocusType DEF Request
  <2> QED BY <1>20, <2>1, <2>2, DoneType, TypeCommitStep DEF Focus
<1>21. CASE Discard(t)
  <2>1. Busy(t)
    BY <1>21 DEF Discard, At, Busy, RequestPcs
  <2>2. /\ IsResult(DropTxn(store[q.r], dflt[n], q.fs))
        /\ IsResult(DropAllTxn(store[q.r], dflt[n]))
    BY <2>1, RequestAt, RequestParts, DropType DEF Request
  <2> QED BY <1>21, <2>1, <2>2, DoneType, TypeCommitStep DEF Discard
<1> HIDE DEF q, n, Reqs
<1> QED
  BY <1>1, <1>2, <1>3, <1>4, <1>5, <1>6, <1>7, <1>8, <1>9, <1>10, <1>11, <1>12, <1>13,
     <1>14, <1>15, <1>16, <1>17, <1>18, <1>19, <1>20, <1>21 DEF Handler

LEMMA TypeClosing ==
    ASSUME TypeOK, NEW c \in Clients, Closing(c)
    PROVE  TypeOK'
<1>1. conn[c] \in Connection /\ Home[c] \in Nodes /\ rooms[Home[c]] \in SUBSET Rooms
  BY HomeAssumption DEF TypeOK
<1>2. CASE Disconnect(c)
  <2>1. conn' \in [Clients -> Connection]
    BY <1>1, <1>2 DEF Disconnect, TypeOK, Connection
  <2> QED BY <1>2, <2>1 DEF Disconnect, TypeOK, shared, local, bus
<1>3. CASE ScanRoom(c)
  <2>1. PICK r \in conn[c].todo :
           conn' = [conn EXCEPT ![c].todo = @ \ {r},
                                ![c].found = IF HasClient(store[r], dflt[Home[c]], c)
                                             THEN @ \cup {r} ELSE @]
    BY <1>3 DEF ScanRoom
  <2> DEFINE todo == conn[c].todo \ {r}
             found == IF HasClient(store[r], dflt[Home[c]], c) THEN conn[c].found \cup {r}
                      ELSE conn[c].found
  <2>2. conn' \in [Clients -> Connection]
    <3>1. todo \in SUBSET Rooms /\ found \in SUBSET Rooms
      BY <1>1 DEF Connection
    <3>2. conn' = [conn EXCEPT ![c].todo = todo, ![c].found = found]
      BY <2>1
    <3> HIDE DEF todo, found
    <3>3. [conn[c] EXCEPT !.todo = todo, !.found = found] \in Connection
      BY <1>1, <3>1 DEF Connection
    <3> QED BY <3>2, <3>3 DEF TypeOK
  <2> QED BY <1>3, <2>2 DEF ScanRoom, TypeOK, shared, local, bus
<1>4. CASE ScanDone(c)
  <2>1. conn' \in [Clients -> Connection]
    BY <1>1, <1>4 DEF ScanDone, TypeOK, Connection
  <2> QED BY <1>4, <2>1 DEF ScanDone, TypeOK, shared, local, bus
<1>5. CASE LeaveFound(c)
  <2>1. PICK r \in conn[c].found :
           /\ Commit(Home[c], r, LeaveTxn(store[r], dflt[Home[c]], c))
           /\ conn' = [conn EXCEPT ![c].found = @ \ {r},
                                   ![c].pc = IF conn[c].found = {r} THEN "gone" ELSE "leave"]
    BY <1>5 DEF LeaveFound
  <2>2. conn' \in [Clients -> Connection]
    BY <1>1, <2>1 DEF TypeOK, Connection
  <2>3. r \in Rooms /\ store[r] \in RoomData /\ dflt[Home[c]] \in RoomDefaults
    BY <1>1 DEF TypeOK, Connection
  <2>4. store' \in [Rooms -> RoomData] /\ dflt' \in [Nodes -> RoomDefaults]
    BY <1>1, <2>1, <2>3, LeaveType, CommitType
  <2> QED BY <1>5, <2>2, <2>4 DEF LeaveFound, TypeOK, local, bus
<1> QED
  BY <1>2, <1>3, <1>4, <1>5 DEF Closing

LEMMA TypeSweep ==
    ASSUME TypeOK, NEW n \in Nodes, Sweep(n)
    PROVE  TypeOK'
<1>1. sweep[n] \in Cleanup /\ rooms[n] \in SUBSET Rooms
  BY DEF TypeOK
<1>2. CASE SweepStart(n)
  <2>1. sweep' \in [Nodes -> Cleanup]
    BY <1>1, <1>2 DEF SweepStart, TypeOK, Cleanup
  <2> QED BY <1>2, <2>1 DEF SweepStart, TypeOK, shared, local, bus
<1>3. CASE SweepClose(n)
  <2>1. PICK r \in sweep[n].todo :
           LET closes == Closes(store[r], dflt[n], FALSE)
               todo == sweep[n].todo \ {r}
           IN  /\ store' = [store EXCEPT ![r] = CloseTxn(@, dflt[n], FALSE)]
               /\ sweep' = [sweep EXCEPT ![n] =
                      IF closes
                      THEN [pc |-> "closed", todo |-> todo, closing |-> {r}]
                      ELSE [pc |-> IF todo = {} THEN "idle" ELSE "close",
                            todo |-> todo, closing |-> {}]]
    BY <1>3 DEF SweepClose
  <2>2. r \in Rooms /\ sweep[n].todo \ {r} \in SUBSET Rooms
    BY <1>1 DEF Cleanup
  <2>3. sweep' \in [Nodes -> Cleanup]
    BY <2>1, <2>2 DEF TypeOK, Cleanup
  <2>4. store' \in [Rooms -> RoomData]
    <3>1. CloseTxn(store[r], dflt[n], FALSE) \in RoomData
      BY <2>2, CloseType DEF TypeOK
    <3> QED BY <2>1, <3>1 DEF TypeOK
  <2> QED BY <1>3, <2>3, <2>4 DEF SweepClose, TypeOK, local, bus
<1>4. CASE SweepClosed(n)
  <2>1. PICK r \in sweep[n].closing : Publish(r) /\ Dispose(n, r) /\ Forget(n, r)
    BY <1>4 DEF SweepClosed
  <2>2. r \in Rooms
    BY <1>1 DEF Cleanup
  <2>3. /\ mail' \in [Nodes -> [Rooms -> Nat]]
        /\ listeners' \in [Nodes -> SUBSET Rooms]
        /\ rooms' \in [Nodes -> SUBSET Rooms]
        /\ seed' \in [Nodes -> [Rooms -> Changes]]
    BY <2>1, <2>2, PublishType, ListenerType, ForgetType
  <2>4. sweep' \in [Nodes -> Cleanup]
    BY <1>1, <1>4 DEF SweepClosed, TypeOK, Cleanup
  <2> QED BY <1>4, <2>3, <2>4 DEF SweepClosed, TypeOK, shared
<1> QED
  BY <1>2, <1>3, <1>4 DEF Sweep

LEMMA TypeReceiveClose ==
    ASSUME TypeOK, NEW n \in Nodes, NEW r \in Rooms, ReceiveClose(n, r)
    PROVE  TypeOK'
<1>1. mail' \in [Nodes -> [Rooms -> Nat]]
  BY DEF ReceiveClose, TypeOK
<1>2. /\ listeners' \in [Nodes -> SUBSET Rooms]
      /\ rooms' \in [Nodes -> SUBSET Rooms]
      /\ seed' \in [Nodes -> [Rooms -> Changes]]
  <2>1. CASE r \in listeners[n] /\ r \in rooms[n]
    BY <2>1, ForgetType, ListenerType DEF ReceiveClose
  <2>2. CASE r \in listeners[n] /\ r \notin rooms[n]
    BY <2>2, ForgetType DEF ReceiveClose, TypeOK
  <2>3. CASE r \notin listeners[n]
    BY <2>3 DEF ReceiveClose, TypeOK, local
  <2> QED BY <2>1, <2>2, <2>3
<1> QED
  BY <1>1, <1>2 DEF ReceiveClose, TypeOK, shared, jobs

LEMMA TypeEvents ==
    ASSUME TypeOK, NEW n \in Nodes, Events(n)
    PROVE  TypeOK'
<1>1. ev[n] \in EventTask /\ queue[n] \in Seq(Event) /\ dflt[n] \in RoomDefaults
  BY DEF TypeOK
<1>2. CASE EventStart(n)
  <2> DEFINE e == Head(queue[n])
             task == [pc |-> IF e.kind = "update" THEN "read" ELSE "close",
                      busy |-> {e.r}, saved |-> NoChanges]
  <2>1. e \in Event /\ Tail(queue[n]) \in Seq(Event)
    BY <1>1, <1>2, HeadTailProperties DEF EventStart
  <2>2. task \in EventTask
    <3> HIDE DEF e
    <3> QED BY <2>1, EmptyTypes DEF Event, EventTask
  <2>3. ev' = [ev EXCEPT ![n] = task] \/ ev' = ev
    BY <1>2 DEF EventStart
  <2>4. ev' \in [Nodes -> EventTask]
    <3> HIDE DEF task
    <3> QED BY <2>2, <2>3 DEF TypeOK
  <2>5. queue' \in [Nodes -> Seq(Event)]
    BY <1>2, <2>1 DEF EventStart, TypeOK
  <2> QED BY <1>2, <2>4, <2>5 DEF EventStart, TypeOK, shared, local
<1>3. CASE EventRead(n)
  <2>1. PICK r \in ev[n].busy : ev' = [ev EXCEPT ![n].pc = "clear", ![n].saved = db[r]]
    BY <1>3 DEF EventRead
  <2>2. db[r] \in Changes
    BY <1>1 DEF TypeOK, EventTask
  <2>3. [ev[n] EXCEPT !.pc = "clear", !.saved = db[r]] \in EventTask
    BY <1>1, <2>2 DEF EventTask
  <2>4. ev' \in [Nodes -> EventTask]
    BY <2>1, <2>3 DEF TypeOK
  <2> QED BY <1>3, <2>4 DEF EventRead, TypeOK, shared, local, bus
<1>4. CASE EventClear(n)
  <2>1. PICK r \in ev[n].busy : Commit(n, r, SaveTxn(store[r], dflt[n], ev[n].saved, Relational))
    BY <1>4 DEF EventClear
  <2>2. r \in Rooms /\ store[r] \in RoomData /\ ev[n].saved \in Changes
    BY <1>1 DEF TypeOK, EventTask
  <2>3. store' \in [Rooms -> RoomData] /\ dflt' \in [Nodes -> RoomDefaults]
    BY <1>1, <2>1, <2>2, SaveType, CommitType
  <2>4. ev' \in [Nodes -> EventTask]
    BY <1>4, EmptyTypes DEF EventClear, TypeOK, NoEvent, EventTask
  <2> QED BY <1>4, <2>3, <2>4 DEF EventClear, TypeOK, local, bus
<1>5. CASE EventClose(n)
  <2>1. PICK r \in ev[n].busy :
           /\ store' = [store EXCEPT ![r] = CloseTxn(@, dflt[n], TRUE)]
           /\ IF Closes(store[r], dflt[n], TRUE)
              THEN /\ ev' = [ev EXCEPT ![n].pc = "closed"]
                   /\ UNCHANGED listeners
              ELSE /\ ev' = [ev EXCEPT ![n] = NoEvent]
                   /\ Dispose(n, r)
    BY <1>5 DEF EventClose
  <2>2. r \in Rooms
    BY <1>1 DEF EventTask
  <2>3. store' \in [Rooms -> RoomData]
    <3>1. CloseTxn(store[r], dflt[n], TRUE) \in RoomData
      BY <2>2, CloseType DEF TypeOK
    <3> QED BY <2>1, <3>1 DEF TypeOK
  <2>4. ev' \in [Nodes -> EventTask]
    <3>1. [ev[n] EXCEPT !.pc = "closed"] \in EventTask /\ NoEvent \in EventTask
      BY <1>1, EmptyTypes DEF EventTask, NoEvent
    <3> QED BY <2>1, <3>1 DEF TypeOK
  <2>5. listeners' \in [Nodes -> SUBSET Rooms]
    BY <2>1, <2>2, ListenerType DEF TypeOK
  <2> QED BY <1>5, <2>3, <2>4, <2>5 DEF EventClose, TypeOK, bus
<1>6. CASE EventClosed(n)
  <2>1. PICK r \in ev[n].busy : Publish(r) /\ Dispose(n, r)
    BY <1>6 DEF EventClosed
  <2>2. r \in Rooms
    BY <1>1 DEF EventTask
  <2>3. mail' \in [Nodes -> [Rooms -> Nat]] /\ listeners' \in [Nodes -> SUBSET Rooms]
    BY <2>1, <2>2, PublishType, ListenerType
  <2>4. ev' \in [Nodes -> EventTask]
    BY <1>6, EmptyTypes DEF EventClosed, TypeOK, NoEvent, EventTask
  <2> QED BY <1>6, <2>3, <2>4 DEF EventClosed, TypeOK, shared
<1> QED
  BY <1>2, <1>3, <1>4, <1>5, <1>6 DEF Events

LEMMA TypeItems ==
    ASSUME TypeOK, NEW r \in Rooms, SaveItem(r) \/ DeleteItem(r)
    PROVE  TypeOK'
<1>1. CASE SaveItem(r)
  <2>1. db' \in [Rooms -> Changes]
    BY <1>1 DEF SaveItem, TypeOK, Changes
  <2>2. queue' \in [Nodes -> Seq(Event)]
    BY <1>1, EmitType DEF SaveItem, Event
  <2> QED BY <1>1, <2>1, <2>2 DEF SaveItem, TypeOK, local, jobs
<1>2. CASE DeleteItem(r)
  <2>1. queue' \in [Nodes -> Seq(Event)]
    BY <1>2, EmitType DEF DeleteItem, Event
  <2> QED BY <1>2, <2>1 DEF DeleteItem, TypeOK, shared, local, jobs
<1> QED
  BY <1>1, <1>2

LEMMA TypeNext == TypeOK /\ [Next]_vars => TypeOK'
<1> SUFFICES ASSUME TypeOK, [Next]_vars PROVE TypeOK'
  OBVIOUS
<1>1. CASE Next
  BY <1>1, TypeArrival, TypeHandler, TypeClosing, TypeSweep, TypeEvents,
     TypeReceiveClose, TypeItems DEF Next
<1>2. CASE UNCHANGED vars
  BY <1>2 DEF TypeOK, vars, shared, local, bus, jobs
<1> QED
  BY <1>1, <1>2

\* The variables keep their types in every behaviour.
THEOREM TypeCorrect == Spec => []TypeOK
BY TypeInit, TypeNext, PTL DEF Spec

-----------------------------------------------------------------------------
(* Exclusive focus.  The defaults of every process are part of the         *)
(* invariant: a transaction on a room without a focuses key starts from    *)
(* them.                                                                   *)

LEMMA ExclusiveParts ==
    ASSUME TypeOK, FocusExclusive, NEW n \in Nodes, NEW r \in Rooms
    PROVE  /\ store[r] \in RoomData /\ Exclusive(store[r].focuses)
           /\ dflt[n] \in RoomDefaults /\ Exclusive(dflt[n].focuses)
BY DEF TypeOK, FocusExclusive

LEMMA ExclusiveCommit ==
    ASSUME TypeOK, FocusExclusive, NEW n \in Nodes, NEW r \in Rooms, NEW x,
           IsExclusive(x), Commit(n, r, x)
    PROVE  FocusExclusive'
BY DEF Commit, IsExclusive, FocusExclusive, TypeOK

LEMMA ExclusiveStore ==
    ASSUME TypeOK, FocusExclusive, NEW r \in Rooms, NEW s, Exclusive(s.focuses),
           store' = [store EXCEPT ![r] = s], dflt' = dflt
    PROVE  FocusExclusive'
BY DEF FocusExclusive, TypeOK

LEMMA ExclusiveHandler ==
    ASSUME TypeOK, FocusExclusive, NEW t \in Slots, Handler(t)
    PROVE  FocusExclusive'
<1> DEFINE q == req[t]
           n == Node(t)
           s == store[q.r]
           d == dflt[n]
<1>1. CASE UNCHANGED <<store, dflt>>
  BY <1>1 DEF FocusExclusive
<1>2. CASE Busy(t) /\ ~UNCHANGED <<store, dflt>>
  <2>1. q \in Request /\ q.r \in Rooms /\ n \in Nodes /\ q.c \in Clients
    BY <1>2, RequestAt, RequestParts
  <2>2. /\ s \in RoomData /\ Exclusive(s.focuses)
        /\ d \in RoomDefaults /\ Exclusive(d.focuses)
    BY <2>1, ExclusiveParts
  <2>3. CASE InitializeCreated(t) \/ InitializeLoaded(t)
    <3>1. Exclusive(InitTxn(s, q.init).focuses)
      BY <2>2, OthersKeepExclusive
    <3>2. store' = [store EXCEPT ![q.r] = InitTxn(s, q.init)] /\ dflt' = dflt
      BY <2>3 DEF InitializeCreated, InitializeLoaded
    <3> QED BY <2>1, <3>1, <3>2, ExclusiveStore
  <2>4. CASE Push(t)
    <3>1. IsExclusive(PushTxn(s, d, q.c))
      BY <2>2, OthersKeepExclusive
    <3> QED BY <2>1, <2>4, <3>1, ExclusiveCommit DEF Push
  <2>5. CASE Leave(t)
    <3>1. IsExclusive(LeaveTxn(s, d, q.c))
      BY <2>1, <2>2, LeaveKeepsExclusive
    <3> QED BY <2>1, <2>5, <3>1, ExclusiveCommit DEF Leave
  <2>6. CASE TakeFocus(t) \/ Focus(t)
    <3>1. IsExclusive(FocusTxn(s, d, q.c, q.f))
      BY <2>1, <2>2, FocusKeepsExclusive DEF Request
    <3> QED BY <2>1, <2>6, <3>1, ExclusiveCommit DEF TakeFocus, Focus
  <2>7. CASE Write(t) \/ WriteAll(t)
    <3>1. IsExclusive(UpdateTxn(s, d, {q.f}, q.v)) /\ IsExclusive(UpdateTxn(s, d, q.fs, q.v))
      BY <2>2, OthersKeepExclusive
    <3> QED BY <2>1, <2>7, <3>1, ExclusiveCommit DEF Write, WriteAll
  <2>8. CASE Unset(t)
    <3>1. IsExclusive(DropTxn(s, d, {q.f}))
      BY <2>2, OthersKeepExclusive
    <3> QED BY <2>1, <2>8, <3>1, ExclusiveCommit DEF Unset
  <2>9. CASE Discard(t)
    <3>1. IsExclusive(DropTxn(s, d, q.fs)) /\ IsExclusive(DropAllTxn(s, d))
      BY <2>2, OthersKeepExclusive
    <3> QED BY <2>1, <2>9, <3>1, ExclusiveCommit DEF Discard
  <2> HIDE DEF q, n, s, d
  <2> QED
    BY <1>2, <2>3, <2>4, <2>5, <2>6, <2>7, <2>8, <2>9
    DEF Handler, Reject, CreateExisting, CreateNew, SetRoomListener, GetLocalRoom, LoadRoom,
        CheckMember, ReadOwnFocus, RecheckFocus, ReadFocuser, FilterField, shared
<1>3. CASE ~Busy(t)
  BY <1>3 DEF Handler, Reject, CreateExisting, CreateNew, InitializeCreated, SetRoomListener,
      GetLocalRoom, LoadRoom, InitializeLoaded, CheckMember, Push, Leave, ReadOwnFocus,
      TakeFocus, RecheckFocus, Write, ReadFocuser, Unset, FilterField, WriteAll, Focus,
      Discard, At, Busy, RequestPcs
<1> QED
  BY <1>1, <1>2, <1>3

LEMMA ExclusiveJobs ==
    ASSUME TypeOK, FocusExclusive, NEW c \in Clients, NEW n \in Nodes,
           Closing(c) \/ Sweep(n) \/ Events(n)
    PROVE  FocusExclusive'
<1>1. CASE UNCHANGED <<store, dflt>>
  BY <1>1 DEF FocusExclusive
<1>2. CASE LeaveFound(c)
  <2>1. PICK r \in conn[c].found : Commit(Home[c], r, LeaveTxn(store[r], dflt[Home[c]], c))
    BY <1>2 DEF LeaveFound
  <2>2. r \in Rooms /\ Home[c] \in Nodes
    BY HomeAssumption DEF TypeOK, Connection
  <2>3. IsExclusive(LeaveTxn(store[r], dflt[Home[c]], c))
    BY <2>2, ExclusiveParts, LeaveKeepsExclusive
  <2> QED BY <2>1, <2>2, <2>3, ExclusiveCommit
<1>3. CASE SweepClose(n)
  <2>1. PICK r \in sweep[n].todo : store' = [store EXCEPT ![r] = CloseTxn(store[r], dflt[n], FALSE)]
    BY <1>3 DEF SweepClose
  <2>2. r \in Rooms
    BY DEF TypeOK, Cleanup
  <2>3. Exclusive(CloseTxn(store[r], dflt[n], FALSE).focuses)
    BY <2>2, ExclusiveParts, OthersKeepExclusive
  <2> QED BY <1>3, <2>1, <2>2, <2>3, ExclusiveStore DEF SweepClose
<1>4. CASE EventClose(n)
  <2>1. PICK r \in ev[n].busy : store' = [store EXCEPT ![r] = CloseTxn(store[r], dflt[n], TRUE)]
    BY <1>4 DEF EventClose
  <2>2. r \in Rooms
    BY DEF TypeOK, EventTask
  <2>3. Exclusive(CloseTxn(store[r], dflt[n], TRUE).focuses)
    BY <2>2, ExclusiveParts, OthersKeepExclusive
  <2> QED BY <1>4, <2>1, <2>2, <2>3, ExclusiveStore DEF EventClose
<1>5. CASE EventClear(n)
  <2>1. PICK r \in ev[n].busy : Commit(n, r, SaveTxn(store[r], dflt[n], ev[n].saved, Relational))
    BY <1>5 DEF EventClear
  <2>2. r \in Rooms
    BY DEF TypeOK, EventTask
  <2>3. IsExclusive(SaveTxn(store[r], dflt[n], ev[n].saved, Relational))
    BY <2>2, ExclusiveParts, OthersKeepExclusive
  <2> QED BY <2>1, <2>2, <2>3, ExclusiveCommit
<1> QED
  BY <1>1, <1>2, <1>3, <1>4, <1>5
  DEF Closing, Sweep, Events, Disconnect, ScanRoom, ScanDone, SweepStart, SweepClosed,
      EventStart, EventRead, EventClosed, shared

\* In every behaviour, whatever the number of nodes, clients and messages in
\* flight, a field of a room is focused by one client at most.
THEOREM FocusIsExclusive == Spec => []FocusExclusive
<1>1. Init => FocusExclusive
  BY NoFocusesExclusive DEF Init, FocusExclusive, Absent, FreshDefaults
<1>2. TypeOK /\ FocusExclusive /\ [Next]_vars => FocusExclusive'
  <2> SUFFICES ASSUME TypeOK, FocusExclusive, [Next]_vars
               PROVE  FocusExclusive'
    OBVIOUS
  <2>1. CASE UNCHANGED <<store, dflt>>
    BY <2>1 DEF FocusExclusive
  <2>2. ASSUME NEW t \in Slots, NEW c \in Clients, NEW r \in Rooms, Arrival(t, c, r)
        PROVE  UNCHANGED <<store, dflt>>
    BY <2>2 DEF Arrival, ReceiveJoin, ReceiveLeave, ReceiveUpdate, ReceiveUnset, ReceiveUpdateAll,
                ReceiveFocus, ReceiveDiscard, Receive, shared
  <2>3. ASSUME NEW r \in Rooms, SaveItem(r) \/ DeleteItem(r)
        PROVE  UNCHANGED <<store, dflt>>
    BY <2>3 DEF SaveItem, DeleteItem, shared
  <2>4. ASSUME NEW n \in Nodes, NEW r \in Rooms, ReceiveClose(n, r)
        PROVE  UNCHANGED <<store, dflt>>
    BY <2>4 DEF ReceiveClose, shared
  <2>5. ASSUME NEW n \in Nodes, Sweep(n) \/ Events(n)
        PROVE  FocusExclusive'
    <3>1. CASE Clients = {}
      BY <3>1 DEF FocusExclusive, Exclusive
    <3>2. CASE Clients # {}
      BY <2>5, <3>2, ExclusiveJobs
    <3> QED BY <3>1, <3>2
  <2>6. ASSUME NEW c \in Clients, Closing(c)
        PROVE  FocusExclusive'
    BY <2>6, HomeAssumption, ExclusiveJobs
  <2> QED
    BY <2>1, <2>2, <2>3, <2>4, <2>5, <2>6, ExclusiveHandler DEF Next, vars, shared
<1> QED
  BY <1>1, <1>2, TypeCorrect, PTL DEF Spec

-----------------------------------------------------------------------------
(* Nobody disturbs another client's membership or focus.  The inductive    *)
(* invariant: a room that has its metadata has all its keys, so that no    *)
(* transaction on it reads the defaults.                                   *)

RoomsComplete == \A r \in Rooms : Complete(store[r])

LEMMA CompleteStore ==
    ASSUME TypeOK, RoomsComplete, NEW r \in Rooms, NEW s, Complete(s),
           store' = [store EXCEPT ![r] = s]
    PROVE  RoomsComplete'
BY DEF RoomsComplete, TypeOK

LEMMA CompleteParts ==
    ASSUME TypeOK, RoomsComplete, NEW n \in Nodes, NEW r \in Rooms
    PROVE  store[r] \in RoomData /\ dflt[n] \in RoomDefaults /\ Complete(store[r])
BY DEF TypeOK, RoomsComplete

\* What one transaction of a handler for the client c makes of a room.
HandlerTxn(s, d, c, f, init, x) ==
    \/ x = InitTxn(s, init)
    \/ x = PushTxn(s, d, c).s
    \/ x = LeaveTxn(s, d, c).s
    \/ x = FocusTxn(s, d, c, f).s
    \/ \E fs, v : x = UpdateTxn(s, d, fs, v).s
    \/ \E fs : x = DropTxn(s, d, fs).s
    \/ x = DropAllTxn(s, d).s

LEMMA HandlerTxnComplete ==
    ASSUME NEW s \in RoomData, NEW d \in RoomDefaults, Complete(s), NEW c \in Clients,
           NEW f, NEW init, NEW x, HandlerTxn(s, d, c, f, init, x)
    PROVE  Complete(x)
<1>1. ASSUME NEW fs, NEW v
      PROVE  /\ Complete(InitTxn(s, init)) /\ Complete(PushTxn(s, d, c).s)
             /\ Complete(LeaveTxn(s, d, c).s) /\ Complete(FocusTxn(s, d, c, f).s)
             /\ Complete(UpdateTxn(s, d, fs, v).s) /\ Complete(DropTxn(s, d, fs).s)
             /\ Complete(DropAllTxn(s, d).s)
  BY TransactionsComplete
<1> QED BY <1>1 DEF HandlerTxn

LEMMA HandlerTxnKeeps ==
    ASSUME NEW s \in RoomData, NEW d \in RoomDefaults, Complete(s), Initialized(s),
           NEW c \in Clients, NEW e \in Clients, e # c,
           NEW f, NEW init, NEW x, HandlerTxn(s, d, c, f, init, x)
    PROVE  Keeps(s, x, e)
<1>1. Keeps(s, s, e)
  BY DEF Keeps, RoomData, Members
<1>2. ASSUME NEW fs, NEW v
      PROVE  /\ InitTxn(s, init) = s /\ Keeps(s, PushTxn(s, d, c).s, e)
             /\ Keeps(s, LeaveTxn(s, d, c).s, e) /\ Keeps(s, FocusTxn(s, d, c, f).s, e)
             /\ Keeps(s, UpdateTxn(s, d, fs, v).s, e) /\ Keeps(s, DropTxn(s, d, fs).s, e)
             /\ Keeps(s, DropAllTxn(s, d).s, e)
  BY TransactionsKeep
<1> QED BY <1>1, <1>2 DEF HandlerTxn

\* What a step of a handler does to the store: one transaction for its client.
LEMMA HandlerStore ==
    ASSUME TypeOK, NEW t \in Slots, Handler(t), store' # store
    PROVE  /\ Busy(t)
           /\ req'[t] # req[t]
           /\ \E x : /\ HandlerTxn(store[req[t].r], dflt[Node(t)], req[t].c, req[t].f,
                                    req[t].init, x)
                     /\ store' = [store EXCEPT ![req[t].r] = x]
<1> DEFINE q == req[t]
           s == store[q.r]
           d == dflt[Node(t)]
           Wrote == \/ store' = [store EXCEPT ![q.r] = InitTxn(s, q.init)]
                    \/ store' = [store EXCEPT ![q.r] = PushTxn(s, d, q.c).s]
                    \/ store' = [store EXCEPT ![q.r] = LeaveTxn(s, d, q.c).s]
                    \/ store' = [store EXCEPT ![q.r] = FocusTxn(s, d, q.c, q.f).s]
                    \/ \E fs, v : store' = [store EXCEPT ![q.r] = UpdateTxn(s, d, fs, v).s]
                    \/ \E fs : store' = [store EXCEPT ![q.r] = DropTxn(s, d, fs).s]
                    \/ store' = [store EXCEPT ![q.r] = DropAllTxn(s, d).s]
<1>1. Busy(t)
  BY DEF Handler, Reject, CreateExisting, CreateNew, InitializeCreated, SetRoomListener,
      GetLocalRoom, LoadRoom, InitializeLoaded, CheckMember, Push, Leave, ReadOwnFocus,
      TakeFocus, RecheckFocus, Write, ReadFocuser, Unset, FilterField, WriteAll, Focus,
      Discard, At, Busy, RequestPcs, shared
<1>2. q \in Request /\ req \in [Slots -> Request \cup {NoRequest, Spent}]
  BY <1>1, RequestAt DEF TypeOK
<1>3. ASSUME Done(t) PROVE req'[t] # q
  BY <1>1, <1>2, <1>3 DEF Done, NoRequest, Spent, Busy, RequestPcs
<1>4. ASSUME InitializeCreated(t) PROVE req'[t] # q /\ Wrote
  <2>1. store' = [store EXCEPT ![q.r] = InitTxn(s, q.init)]
    BY <1>4 DEF InitializeCreated
  <2>2. req'[t].pc = "listen" /\ q.pc = "created"
    BY <1>2, <1>4 DEF InitializeCreated, At, Request
  <2> QED BY <1>1, <2>1, <2>2
<1>5. ASSUME InitializeLoaded(t) PROVE req'[t] # q /\ Wrote
  <2>1. store' = [store EXCEPT ![q.r] = InitTxn(s, q.init)]
    BY <1>5 DEF InitializeLoaded
  <2>2. req'[t].pc = "has" /\ q.pc = "init"
    BY <1>2, <1>5 DEF InitializeLoaded, At, Request
  <2> QED BY <1>1, <2>1, <2>2
<1>6. ASSUME TakeFocus(t) PROVE req'[t] # q /\ Wrote
  <2>1. store' = [store EXCEPT ![q.r] = FocusTxn(s, d, q.c, q.f).s]
    BY <1>6 DEF TakeFocus, Commit
  <2>2. req'[t].pc = "recheck" /\ q.pc = "take"
    BY <1>2, <1>6 DEF TakeFocus, Goto, At, Request
  <2> QED BY <1>1, <2>1, <2>2
<1>7. ASSUME Push(t) PROVE req'[t] # q /\ Wrote
  BY <1>1, <1>3, <1>7 DEF Push, Commit
<1>8. ASSUME Leave(t) PROVE req'[t] # q /\ Wrote
  BY <1>1, <1>3, <1>8 DEF Leave, Commit
<1>9. ASSUME Write(t) PROVE req'[t] # q /\ Wrote
  BY <1>1, <1>3, <1>9 DEF Write, Commit
<1>10. ASSUME WriteAll(t) PROVE req'[t] # q /\ Wrote
  BY <1>1, <1>3, <1>10 DEF WriteAll, Commit
<1>11. ASSUME Unset(t) PROVE req'[t] # q /\ Wrote
  BY <1>1, <1>3, <1>11 DEF Unset, Commit
<1>12. ASSUME Focus(t) PROVE req'[t] # q /\ Wrote
  BY <1>1, <1>3, <1>12 DEF Focus, Commit
<1>13. ASSUME Discard(t) PROVE req'[t] # q /\ Wrote
  BY <1>1, <1>3, <1>13 DEF Discard, Commit
<1> HIDE DEF q, s, d
<1>14. InitializeCreated(t) \/ InitializeLoaded(t) \/ TakeFocus(t) \/ Push(t) \/ Leave(t)
       \/ Write(t) \/ WriteAll(t) \/ Unset(t) \/ Focus(t) \/ Discard(t)
  BY DEF Handler, Reject, CreateExisting, CreateNew, SetRoomListener, GetLocalRoom, LoadRoom,
         CheckMember, ReadOwnFocus, RecheckFocus, ReadFocuser, FilterField, shared
<1>15. req'[t] # q /\ Wrote
  BY <1>4, <1>5, <1>6, <1>7, <1>8, <1>9, <1>10, <1>11, <1>12, <1>13, <1>14
<1>16. \E x : HandlerTxn(s, d, q.c, q.f, q.init, x) /\ store' = [store EXCEPT ![q.r] = x]
  BY <1>15 DEF HandlerTxn
<1> QED
  BY <1>1, <1>15, <1>16 DEF q, s, d

\* What a step of a background job does to the store.
JobStore ==
    \/ \E c \in Clients, r \in Rooms :
           /\ conn'[c] # conn[c]
           /\ store' = [store EXCEPT ![r] = LeaveTxn(store[r], dflt[Home[c]], c).s]
    \/ \E n \in Nodes, r \in Rooms :
           /\ Empty(GetClients(store[r], dflt[n]))
           /\ store' = [store EXCEPT ![r] = CloseTxn(store[r], dflt[n], FALSE)]
    \/ \E n \in Nodes, r \in Rooms :
           /\ ev[n].pc = "close" /\ r \in ev[n].busy
           /\ store' = [store EXCEPT ![r] = CloseTxn(store[r], dflt[n], TRUE)]
    \/ \E n \in Nodes, r \in Rooms :
           store' = [store EXCEPT ![r] = SaveTxn(store[r], dflt[n], ev[n].saved, Relational).s]

LEMMA JobStores ==
    ASSUME TypeOK, [Next]_vars, store' # store
    PROVE  JobStore \/ \E t \in Slots : Handler(t)
<1>1. ASSUME NEW c \in Clients, LeaveFound(c) PROVE JobStore
  <2>1. PICK r \in conn[c].found :
           /\ Commit(Home[c], r, LeaveTxn(store[r], dflt[Home[c]], c))
           /\ conn' = [conn EXCEPT ![c].found = @ \ {r},
                                   ![c].pc = IF conn[c].found = {r} THEN "gone" ELSE "leave"]
    BY <1>1 DEF LeaveFound
  <2>2. conn[c] \in Connection /\ r \in Rooms
    BY DEF TypeOK, Connection
  <2>3. conn'[c].found = conn[c].found \ {r}
    BY <2>1, <2>2 DEF TypeOK, Connection
  <2> QED BY <2>1, <2>2, <2>3 DEF Commit, JobStore
<1>2. ASSUME NEW n \in Nodes, SweepClose(n) PROVE JobStore
  <2>1. PICK r \in sweep[n].todo : store' = [store EXCEPT ![r] = CloseTxn(store[r], dflt[n], FALSE)]
    BY <1>2 DEF SweepClose
  <2>2. r \in Rooms
    BY DEF TypeOK, Cleanup
  <2>3. Empty(GetClients(store[r], dflt[n]))
    BY <2>1, <2>2 DEF CloseTxn, Closes, TypeOK
  <2> QED BY <2>1, <2>2, <2>3 DEF JobStore
<1>3. ASSUME NEW n \in Nodes, EventClose(n) PROVE JobStore
  <2>1. PICK r \in ev[n].busy : store' = [store EXCEPT ![r] = CloseTxn(store[r], dflt[n], TRUE)]
    BY <1>3 DEF EventClose
  <2>2. r \in Rooms /\ ev[n].pc = "close"
    BY <1>3 DEF TypeOK, EventTask, EventClose
  <2> QED BY <2>1, <2>2 DEF JobStore
<1>4. ASSUME NEW n \in Nodes, EventClear(n) PROVE JobStore
  <2>1. PICK r \in ev[n].busy : Commit(n, r, SaveTxn(store[r], dflt[n], ev[n].saved, Relational))
    BY <1>4 DEF EventClear
  <2>2. r \in Rooms
    BY DEF TypeOK, EventTask
  <2> QED BY <2>1, <2>2 DEF JobStore, Commit
<1>5. ASSUME NEW t \in Slots, NEW c \in Clients, NEW r \in Rooms, Arrival(t, c, r)
      PROVE  store' = store
  BY <1>5 DEF Arrival, ReceiveJoin, ReceiveLeave, ReceiveUpdate, ReceiveUnset, ReceiveUpdateAll,
              ReceiveFocus, ReceiveDiscard, Receive, shared
<1>6. ASSUME NEW r \in Rooms, SaveItem(r) \/ DeleteItem(r) PROVE store' = store
  BY <1>6 DEF SaveItem, DeleteItem, shared
<1>7. ASSUME NEW n \in Nodes, NEW r \in Rooms, ReceiveClose(n, r) PROVE store' = store
  BY <1>7 DEF ReceiveClose, shared
<1>8. ASSUME NEW c \in Clients, Closing(c) PROVE JobStore
  BY <1>1, <1>8 DEF Closing, Disconnect, ScanRoom, ScanDone, shared
<1>9. ASSUME NEW n \in Nodes, Sweep(n) \/ Events(n) PROVE JobStore
  BY <1>2, <1>3, <1>4, <1>9
     DEF Sweep, Events, SweepStart, SweepClosed, EventStart, EventRead, EventClosed, shared
<1> QED
  BY <1>5, <1>6, <1>7, <1>8, <1>9 DEF Next, vars, shared

LEMMA CompleteNext == TypeOK /\ RoomsComplete /\ [Next]_vars => RoomsComplete'
<1> SUFFICES ASSUME TypeOK, RoomsComplete, [Next]_vars PROVE RoomsComplete'
  OBVIOUS
<1>1. CASE store' = store
  BY <1>1 DEF RoomsComplete
<1>2. ASSUME NEW t \in Slots, Handler(t), store' # store PROVE RoomsComplete'
  <2>1. req[t].r \in Rooms /\ req[t].c \in Clients /\ Node(t) \in Nodes
    BY <1>2, HandlerStore, RequestParts
  <2>2. PICK x : /\ HandlerTxn(store[req[t].r], dflt[Node(t)], req[t].c, req[t].f, req[t].init, x)
                 /\ store' = [store EXCEPT ![req[t].r] = x]
    BY <1>2, HandlerStore
  <2>3. Complete(x)
    BY <2>1, <2>2, CompleteParts, HandlerTxnComplete
  <2> QED BY <2>1, <2>2, <2>3, CompleteStore
<1>3. CASE JobStore
  <2>1. ASSUME NEW c \in Clients, NEW r \in Rooms,
               store' = [store EXCEPT ![r] = LeaveTxn(store[r], dflt[Home[c]], c).s]
        PROVE  RoomsComplete'
    <3>1. Home[c] \in Nodes
      BY HomeAssumption
    <3>2. Complete(LeaveTxn(store[r], dflt[Home[c]], c).s)
      BY <3>1, CompleteParts, TransactionsComplete
    <3> QED BY <2>1, <3>2, CompleteStore
  <2>2. ASSUME NEW n \in Nodes, NEW r \in Rooms, NEW force \in BOOLEAN,
               store' = [store EXCEPT ![r] = CloseTxn(store[r], dflt[n], force)]
        PROVE  RoomsComplete'
    <3>1. Complete(CloseTxn(store[r], dflt[n], force))
      BY CompleteParts DEF CloseTxn, Complete, Absent, Initialized
    <3> QED BY <2>2, <3>1, CompleteStore
  <2>3. ASSUME NEW n \in Nodes, NEW r \in Rooms,
               store' = [store EXCEPT ![r] = SaveTxn(store[r], dflt[n], ev[n].saved, Relational).s]
        PROVE  RoomsComplete'
    <3>1. Complete(SaveTxn(store[r], dflt[n], ev[n].saved, Relational).s)
      BY CompleteParts, SetComplete DEF SaveTxn, Result
    <3> QED BY <2>3, <3>1, CompleteStore
  <2> QED BY <1>3, <2>1, <2>2, <2>3 DEF JobStore
<1> QED
  BY <1>1, <1>2, <1>3, JobStores

LEMMA CompleteInvariant == Spec => []RoomsComplete
<1>1. Init => RoomsComplete
  BY DEF Init, RoomsComplete, Complete, Absent, Initialized
<1> QED
  BY <1>1, CompleteNext, TypeCorrect, PTL DEF Spec

\* In a room that exists a client c that does nothing itself keeps its membership
\* and its focus, unless the room is closed: empty, or for a deleted item.
LEMMA StepKeeps ==
    ASSUME TypeOK, RoomsComplete, [Next]_vars, NEW c \in Clients, NEW r \in Rooms,
           Initialized(store[r]), ~Acts(c)
    PROVE  \/ Keeps(store[r], store'[r], c)
           \/ /\ store'[r] = Absent
              /\ \/ Empty(store[r].clients)
                 \/ \E n \in Nodes : ev[n].pc = "close" /\ r \in ev[n].busy
<1>1. store[r] \in RoomData /\ Complete(store[r]) /\ store[r].clients[c] \in Nat
  BY DEF TypeOK, RoomsComplete, RoomData, Members
<1>2. Keeps(store[r], store[r], c)
  BY <1>1 DEF Keeps
<1>3. CASE store' = store
  BY <1>2, <1>3
<1>4. ASSUME NEW t \in Slots, Handler(t), store' # store
      PROVE  Keeps(store[r], store'[r], c)
  <2> DEFINE q == req[t]
             s == store[q.r]
             d == dflt[Node(t)]
  <2>1. q.r \in Rooms /\ q.c \in Clients /\ d \in RoomDefaults /\ q.c # c
    BY <1>4, HandlerStore, RequestParts DEF Acts
  <2>2. CASE q.r # r
    BY <1>2, <1>4, <2>1, <2>2, HandlerStore DEF TypeOK
  <2>3. CASE q.r = r
    <3>1. PICK x : HandlerTxn(s, d, q.c, q.f, q.init, x) /\ store' = [store EXCEPT ![q.r] = x]
      BY <1>4, HandlerStore
    <3>2. store'[r] = x
      BY <2>3, <3>1 DEF TypeOK
    <3>3. Keeps(s, x, c)
      <4>1. s \in RoomData /\ Complete(s) /\ Initialized(s)
        BY <1>1, <2>3
      <4> HIDE DEF q, s, d
      <4> QED BY <2>1, <3>1, <4>1, HandlerTxnKeeps
    <3> QED BY <2>3, <3>2, <3>3
  <2> QED BY <2>2, <2>3
<1>5. CASE JobStore /\ store' # store
  <2>1. ASSUME NEW x \in Rooms, NEW u, store' = [store EXCEPT ![x] = u]
        PROVE  store'[r] = IF x = r THEN u ELSE store[r]
    BY <2>1 DEF TypeOK
  <2>2. ASSUME NEW n \in Nodes
        PROVE  /\ dflt[n] \in RoomDefaults
               /\ GetClients(store[r], dflt[n]) = store[r].clients
    BY <1>1 DEF TypeOK, GetClients, Complete, Keys
  <2>3. ASSUME NEW e \in Clients, NEW x \in Rooms, conn'[e] # conn[e],
               store' = [store EXCEPT ![x] = LeaveTxn(store[x], dflt[Home[e]], e).s]
        PROVE  Keeps(store[r], store'[r], c)
    <3>1. e # c /\ Home[e] \in Nodes
      BY <2>3, HomeAssumption DEF Acts
    <3>2. Keeps(store[r], LeaveTxn(store[r], dflt[Home[e]], e).s, c)
      BY <1>1, <2>2, <3>1, TransactionsKeep
    <3> QED BY <1>2, <2>1, <2>3, <3>2
  <2>4. ASSUME NEW n \in Nodes, NEW x \in Rooms,
               store' = [store EXCEPT ![x] = SaveTxn(store[x], dflt[n], ev[n].saved, Relational).s]
        PROVE  Keeps(store[r], store'[r], c)
    <3>1. Keeps(store[r], SaveTxn(store[r], dflt[n], ev[n].saved, Relational).s, c)
      BY <1>1, <2>2, TransactionsKeep
    <3> QED BY <1>2, <2>1, <2>4, <3>1
  <2>5. ASSUME NEW n \in Nodes, NEW x \in Rooms, NEW force, 
               store' = [store EXCEPT ![x] = CloseTxn(store[x], dflt[n], force)]
        PROVE  Keeps(store[r], store'[r], c) \/ (x = r /\ store'[r] = Absent)
    BY <1>2, <2>1, <2>5 DEF CloseTxn
  <2>6. ASSUME NEW n \in Nodes, NEW x \in Rooms, Empty(GetClients(store[x], dflt[n])),
               store' = [store EXCEPT ![x] = CloseTxn(store[x], dflt[n], FALSE)]
        PROVE  \/ Keeps(store[r], store'[r], c)
               \/ store'[r] = Absent /\ Empty(store[r].clients)
    <3>1. Keeps(store[r], store'[r], c) \/ (x = r /\ store'[r] = Absent)
      BY <2>5, <2>6
    <3> QED BY <2>2, <2>6, <3>1
  <2>7. ASSUME NEW n \in Nodes, NEW x \in Rooms, ev[n].pc = "close", x \in ev[n].busy,
               store' = [store EXCEPT ![x] = CloseTxn(store[x], dflt[n], TRUE)]
        PROVE  \/ Keeps(store[r], store'[r], c)
               \/ store'[r] = Absent /\ \E m \in Nodes : ev[m].pc = "close" /\ r \in ev[m].busy
    <3>1. Keeps(store[r], store'[r], c) \/ (x = r /\ store'[r] = Absent)
      BY <2>5, <2>7
    <3> QED BY <2>7, <3>1
  <2> QED
    BY <1>5, <2>3, <2>4, <2>6, <2>7 DEF JobStore
<1> QED
  BY <1>3, <1>4, <1>5, JobStores

\* A client of an existing room is never taken out by what others do, the deletion
\* of the item apart.
THEOREM MembersAreUndisturbed == Spec => MemberUndisturbed
<1> DEFINE Step == \A c \in Clients, r \in Rooms :
          Initialized(store[r]) /\ MemberOf(c, r) /\ ~MemberOf(c, r)'
          => Acts(c) \/ \E n \in Nodes : ev[n].pc = "close" /\ r \in ev[n].busy
<1>1. TypeOK /\ RoomsComplete /\ [Next]_vars => Step
  <2> SUFFICES ASSUME TypeOK, RoomsComplete, [Next]_vars, NEW c \in Clients, NEW r \in Rooms,
                      Initialized(store[r]), MemberOf(c, r), ~MemberOf(c, r)', ~Acts(c)
               PROVE  \E n \in Nodes : ev[n].pc = "close" /\ r \in ev[n].busy
    OBVIOUS
  <2>1. ~Keeps(store[r], store'[r], c)
    <3>1. store[r].clients[c] \in Nat /\ store'[r].clients[c] \in Nat
      <4>1. TypeOK'
        BY TypeNext
      <4> QED BY <4>1 DEF TypeOK, RoomData, Members
    <3> QED BY <3>1 DEF Keeps, MemberOf
  <2>2. ~Empty(store[r].clients)
    BY DEF Empty, MemberOf, TypeOK, RoomData, Members
  <2> QED BY <2>1, <2>2, StepKeeps
<1> QED
  BY <1>1, TypeCorrect, CompleteInvariant, PTL DEF Spec, MemberUndisturbed

\* As long as a room exists, no client's focus is changed by what others do.
THEOREM FocusesAreUndisturbed == Spec => FocusUndisturbed
<1> DEFINE Step == \A c \in Clients, r \in Rooms :
          Initialized(store[r]) /\ Initialized(store'[r]) /\ Focused(c, r)' # Focused(c, r)
          => Acts(c)
<1>1. TypeOK /\ RoomsComplete /\ [Next]_vars => Step
  <2> SUFFICES ASSUME TypeOK, RoomsComplete, [Next]_vars, NEW c \in Clients, NEW r \in Rooms,
                      Initialized(store[r]), Initialized(store'[r]), ~Acts(c)
               PROVE  Focused(c, r)' = Focused(c, r)
    OBVIOUS
  <2>1. ~Initialized(Absent)
    BY DEF Initialized, Absent
  <2>2. Keeps(store[r], store'[r], c)
    BY <2>1, StepKeeps
  <2> QED BY <2>2 DEF Keeps, Focused
<1> QED
  BY <1>1, TypeCorrect, CompleteInvariant, PTL DEF Spec, FocusUndisturbed
-----------------------------------------------------------------------------
(* What does not depend on the store.  A request is at a program counter   *)
(* of its kind; rooms are closed by force only if items are deleted.       *)
(* Where clients wait for the answer to each message, and there is no job  *)
(* but the saves of the item, a client has one request at most, and        *)
(* nothing closes a room.                                                  *)

JoinPcs == {"create", "created", "listen", "push"}
LoadPcs == {"get", "load", "init"}
UpdatePcs == {"focusOf", "take", "recheck", "write"}
BulkPcs == {"filter", "writeAll"}
InRoomPcs == UpdatePcs \cup BulkPcs \cup {"leave", "focuser", "unset", "focus", "discard"}

OnePerClient == \A t, u \in Slots : Busy(t) /\ Busy(u) /\ req[t].c = req[u].c => t = u

KindFits(t) ==
    LET q == req[t]
    IN  Busy(t) =>
            /\ q.pc \in JoinPcs => q.kind = "join"
            /\ q.pc \in LoadPcs \cup InRoomPcs => q.kind # "join"
            /\ q.pc \in UpdatePcs => q.kind = "update"
            /\ q.pc \in BulkPcs => q.kind = "updateAll"
            /\ q.kind = "update" => q.f \in Fields
            /\ q.kind \in {"update", "updateAll"} => q.v \in Values
            /\ q.kind \in Messages

Fitting == \A t \in Slots : KindFits(t)

NoDeletion ==
    /\ \A n \in Nodes : ev[n].pc \notin {"close", "closed"}
    /\ \A n \in Nodes : \A i \in 1 .. Len(queue[n]) : queue[n][i].kind = "update"

NothingCloses ==
    /\ \A c \in Clients : conn[c].pc = "up"
    /\ \A n \in Nodes : sweep[n].pc = "idle"
    /\ \A n \in Nodes, r \in Rooms : mail[n][r] = 0
    /\ NoDeletion

Orderly == OnePerClient /\ Fitting /\ NothingCloses

\* How a handler goes on, and that it leaves the other requests alone.
OthersSame(t) == \A u \in Slots \ {t} : req'[u] = req[u]
Continues(t, pc) ==
    /\ OthersSame(t)
    /\ req'[t].pc = pc
    /\ \A k \in {"kind", "c", "r", "f", "v"} : req'[t][k] = req[t][k]
Ends(t) == OthersSame(t) /\ req'[t].pc \notin RequestPcs

LEMMA GotoContinues ==
    ASSUME TypeOK, NEW t \in Slots, Busy(t), NEW pc, Goto(t, pc)
    PROVE  Continues(t, pc)
<1>1. req[t] \in Request /\ DOMAIN req = Slots
  BY RequestAt DEF TypeOK
<1> QED
  BY <1>1 DEF Goto, Continues, OthersSame, Request

LEMMA DoneEnds ==
    ASSUME TypeOK, NEW t \in Slots, Done(t)
    PROVE  Ends(t)
BY DEF Done, Ends, OthersSame, TypeOK, NoRequest, Spent, RequestPcs

\* A handler that goes on with a value of its own in init, or with the fields left.
LEMMA ExceptContinues ==
    ASSUME TypeOK, NEW t \in Slots, Busy(t), NEW pc, NEW x, NEW y,
           \/ req' = [req EXCEPT ![t].pc = pc, ![t].init = x]
           \/ req' = [req EXCEPT ![t].fs = x, ![t].todo = y, ![t].pc = pc]
    PROVE  Continues(t, pc)
<1>1. req[t] \in Request /\ DOMAIN req = Slots
  BY RequestAt DEF TypeOK
<1>2. CASE req' = [req EXCEPT ![t].pc = pc, ![t].init = x]
  BY <1>1, <1>2 DEF Continues, OthersSame, Request
<1>3. CASE req' = [req EXCEPT ![t].fs = x, ![t].todo = y, ![t].pc = pc]
  BY <1>1, <1>3 DEF Continues, OthersSame, Request
<1> QED
  BY <1>2, <1>3

\* A handler runs in a busy slot, and only touches what handlers touch.
LEMMA HandlerBusy ==
    ASSUME NEW t \in Slots, Handler(t)
    PROVE  Busy(t) /\ UNCHANGED <<bus, jobs>>
BY DEF Handler, Reject, CreateExisting, CreateNew, InitializeCreated, SetRoomListener,
      GetLocalRoom, LoadRoom, InitializeLoaded, CheckMember, Push, Leave, ReadOwnFocus,
      TakeFocus, RecheckFocus, Write, ReadFocuser, Unset, FilterField, WriteAll, Focus,
      Discard, At, Busy, RequestPcs, local

\* Where each action of a handler goes on.
LEMMA HandlerMoves ==
    ASSUME TypeOK, NEW t \in Slots, Busy(t)
    PROVE  LET here == req[t].r \in rooms[Node(t)]
               q == req[t]
           IN  /\ Reject(t) => Ends(t)
               /\ CreateExisting(t) => Continues(t, "has")
               /\ CreateNew(t) => Continues(t, "created")
               /\ InitializeCreated(t) => Continues(t, "listen")
               /\ SetRoomListener(t) => IF here THEN Continues(t, "has") ELSE Ends(t)
               /\ GetLocalRoom(t) => Continues(t, IF here THEN "init" ELSE "load")
               /\ LoadRoom(t) => IF Initialized(store[q.r]) THEN Continues(t, "init") ELSE Ends(t)
               /\ InitializeLoaded(t) => Continues(t, "has")
               /\ CheckMember(t) => IF IsMember(t) # (q.kind = "join")
                                    THEN Continues(t, NextPc(q.kind)) ELSE Ends(t)
               /\ Push(t) \/ Leave(t) \/ Write(t) \/ Unset(t) \/ WriteAll(t) \/ Focus(t) \/ Discard(t)
                  => Ends(t)
               /\ ReadOwnFocus(t) => Continues(t, IF OwnFocus(t) = q.f THEN "write" ELSE "take")
               /\ TakeFocus(t) => Continues(t, "recheck")
               /\ RecheckFocus(t) => IF OwnFocus(t) = q.f THEN Continues(t, "write") ELSE Ends(t)
               /\ ReadFocuser(t) => Continues(t, "unset") \/ Ends(t)
               /\ FilterField(t) => Continues(t, "filter") \/ Continues(t, "writeAll") \/ Ends(t)
<1> DEFINE q == req[t]
<1>1. Reject(t) => Ends(t)
  BY DoneEnds DEF Reject
<1>2. CreateExisting(t) => Continues(t, "has")
  BY ExceptContinues DEF CreateExisting
<1>3. CreateNew(t) => Continues(t, "created")
  BY GotoContinues DEF CreateNew
<1>4. InitializeCreated(t) => Continues(t, "listen")
  <2>1. InitializeCreated(t) => req' = [req EXCEPT ![t].pc = "listen", ![t].init = NoChanges]
    BY DEF InitializeCreated
  <2> QED BY <2>1, ExceptContinues
<1>5. SetRoomListener(t) => IF q.r \in rooms[Node(t)] THEN Continues(t, "has") ELSE Ends(t)
  BY GotoContinues, DoneEnds DEF SetRoomListener
<1>6. GetLocalRoom(t) => Continues(t, IF q.r \in rooms[Node(t)] THEN "init" ELSE "load")
  <2>1. CASE q.r \in rooms[Node(t)]
    BY <2>1, ExceptContinues DEF GetLocalRoom
  <2>2. CASE q.r \notin rooms[Node(t)]
    BY <2>2, GotoContinues DEF GetLocalRoom, Goto
  <2> QED BY <2>1, <2>2
<1>7. LoadRoom(t) => IF Initialized(store[q.r]) THEN Continues(t, "init") ELSE Ends(t)
  BY ExceptContinues, DoneEnds DEF LoadRoom
<1>8. InitializeLoaded(t) => Continues(t, "has")
  <2>1. InitializeLoaded(t) => req' = [req EXCEPT ![t].pc = "has", ![t].init = NoChanges]
    BY DEF InitializeLoaded
  <2> QED BY <2>1, ExceptContinues
<1>9. CheckMember(t) => IF IsMember(t) # (q.kind = "join")
                        THEN Continues(t, NextPc(q.kind)) ELSE Ends(t)
  BY GotoContinues, DoneEnds DEF CheckMember
<1>10. Push(t) \/ Leave(t) \/ Write(t) \/ Unset(t) \/ WriteAll(t) \/ Focus(t) \/ Discard(t)
       => Ends(t)
  BY DoneEnds DEF Push, Leave, Write, Unset, WriteAll, Focus, Discard
<1>11. ReadOwnFocus(t) => Continues(t, IF OwnFocus(t) = q.f THEN "write" ELSE "take")
  BY GotoContinues DEF ReadOwnFocus
<1>12. TakeFocus(t) => Continues(t, "recheck")
  BY GotoContinues DEF TakeFocus
<1>13. RecheckFocus(t) => IF OwnFocus(t) = q.f THEN Continues(t, "write") ELSE Ends(t)
  BY GotoContinues, DoneEnds DEF RecheckFocus
<1>14. ReadFocuser(t) => Continues(t, "unset") \/ Ends(t)
  BY GotoContinues, DoneEnds DEF ReadFocuser
<1>15. FilterField(t) => Continues(t, "filter") \/ Continues(t, "writeAll") \/ Ends(t)
  <2> SUFFICES ASSUME FilterField(t)
               PROVE  Continues(t, "filter") \/ Continues(t, "writeAll") \/ Ends(t)
    OBVIOUS
  <2>1. PICK f \in q.todo :
           LET fs == IF FreeFor(t, f) THEN q.fs ELSE q.fs \ {f}
               todo == q.todo \ {f}
           IN  IF todo = {} /\ fs = {}
               THEN Done(t)
               ELSE req' = [req EXCEPT ![t].fs = fs, ![t].todo = todo,
                                       ![t].pc = IF todo = {} THEN "writeAll" ELSE "filter"]
    BY DEF FilterField
  <2> DEFINE fs == IF FreeFor(t, f) THEN q.fs ELSE q.fs \ {f}
             todo == q.todo \ {f}
             pc == IF todo = {} THEN "writeAll" ELSE "filter"
  <2>2. Done(t) \/ req' = [req EXCEPT ![t].fs = fs, ![t].todo = todo, ![t].pc = pc]
    BY <2>1
  <2>3. Ends(t) \/ Continues(t, pc)
    <3> HIDE DEF fs, todo, pc
    <3> QED BY <2>2, ExceptContinues, DoneEnds
  <2> QED BY <2>3
<1> QED
  BY <1>1, <1>2, <1>3, <1>4, <1>5, <1>6, <1>7, <1>8, <1>9, <1>10, <1>11, <1>12, <1>13,
     <1>14, <1>15

LEMMA OrderlyInit == Init => Orderly
BY DEF Init, Orderly, OnePerClient, Fitting, KindFits, NothingCloses, NoDeletion, Busy,
       RequestPcs, NoRequest, Up, NoCleanup, NoEvent

\* What arrives: a message of a kind the clients send, in an idle slot.
LEMMA ArrivalParts ==
    ASSUME TypeOK, NEW t \in Slots, NEW c \in Clients, NEW r \in Rooms, Arrival(t, c, r)
    PROVE  /\ OthersSame(t) /\ UNCHANGED <<bus, jobs>>
           /\ MayReceive(t, c, req'[t].kind)
           /\ req'[t].c = c
           /\ req'[t].pc = IF req'[t].kind = "join" THEN "create" ELSE "get"
           /\ req'[t].kind = "update" => req'[t].f \in Fields
           /\ req'[t].kind \in {"update", "updateAll"} => req'[t].v \in Values
<1> DEFINE Result0 ==
           /\ OthersSame(t) /\ UNCHANGED <<bus, jobs>>
           /\ MayReceive(t, c, req'[t].kind)
           /\ req'[t].c = c
           /\ req'[t].pc = IF req'[t].kind = "join" THEN "create" ELSE "get"
           /\ req'[t].kind = "update" => req'[t].f \in Fields
           /\ req'[t].kind \in {"update", "updateAll"} => req'[t].v \in Values
<1>1. ASSUME NEW kind \in AllMessages, NEW f, NEW fs, NEW v, NEW init,
             kind = "update" => f \in Fields, kind \in {"update", "updateAll"} => v \in Values,
             Receive(t, Message(kind, c, r, f, fs, v, init))
      PROVE  Result0
  <2> DEFINE m == Message(kind, c, r, f, fs, v, init)
  <2>1. /\ m.c = c /\ m.kind = kind /\ m.f = f /\ m.v = v
        /\ m.pc = IF kind = "join" THEN "create" ELSE "get"
    BY DEF Message
  <2> HIDE DEF m
  <2>2. req' = [req EXCEPT ![t] = m] /\ UNCHANGED <<bus, jobs>> /\ MayReceive(t, m.c, m.kind)
    BY <1>1 DEF m, Receive
  <2>3. req'[t] = m /\ OthersSame(t)
    BY <2>2 DEF OthersSame, TypeOK
  <2> QED BY <1>1, <2>1, <2>2, <2>3
<1> HIDE DEF Result0
<1>2. Result0
  BY <1>1 DEF Arrival, ReceiveJoin, ReceiveLeave, ReceiveUpdate, ReceiveUnset, ReceiveUpdateAll,
              ReceiveFocus, ReceiveDiscard, AllMessages
<1> QED
  BY <1>2 DEF Result0

LEMMA FittingArrival ==
    ASSUME TypeOK, Fitting, NEW t \in Slots, NEW c \in Clients, NEW r \in Rooms, Arrival(t, c, r)
    PROVE  Fitting'
<1> SUFFICES ASSUME NEW u \in Slots PROVE KindFits(u)'
  BY DEF Fitting
<1>1. CASE u = t
  BY <1>1, ArrivalParts
     DEF KindFits, Busy, JoinPcs, LoadPcs, InRoomPcs, UpdatePcs, BulkPcs, MayReceive
<1>2. CASE u # t
  BY <1>2, ArrivalParts DEF KindFits, OthersSame, Fitting, Busy
<1> QED
  BY <1>1, <1>2

LEMMA OrderlyArrival ==
    ASSUME Serial, TypeOK, Orderly, NEW t \in Slots, NEW c \in Clients, NEW r \in Rooms,
           Arrival(t, c, r)
    PROVE  Orderly'
<1>1. \A u \in Slots : Busy(u) => req[u].c # c
  BY ArrivalParts DEF MayReceive, Serial
<1>2. OnePerClient'
  BY <1>1, ArrivalParts DEF OnePerClient, OthersSame, Orderly, Busy
<1>3. NothingCloses'
  BY ArrivalParts DEF NothingCloses, NoDeletion, Orderly, bus, jobs
<1> QED
  BY <1>2, <1>3, FittingArrival DEF Orderly

LEMMA KindAfterHandler ==
    ASSUME TypeOK, NEW t \in Slots, Busy(t), KindFits(t), Handler(t)
    PROVE  KindFits(t)'
<1> DEFINE q == req[t]
<1>1. q.kind \in AllMessages
  BY RequestAt DEF Request
<1>2. ASSUME Ends(t) PROVE KindFits(t)'
  BY <1>2 DEF Ends, KindFits, Busy
<1>3. ASSUME NEW pc, Continues(t, pc),
             pc \in JoinPcs => q.kind = "join",
             pc \in LoadPcs \cup InRoomPcs => q.kind # "join",
             pc \in UpdatePcs => q.kind = "update",
             pc \in BulkPcs => q.kind = "updateAll"
      PROVE  KindFits(t)'
  <2>1. req'[t].pc = pc /\ req'[t].kind = q.kind /\ req'[t].f = q.f /\ req'[t].v = q.v
    BY <1>3 DEF Continues
  <2> QED BY <1>3, <2>1 DEF KindFits
<1> HIDE DEF q
<1>4. /\ q.pc \in JoinPcs => q.kind = "join"
      /\ q.pc \in LoadPcs \cup InRoomPcs => q.kind # "join"
      /\ q.pc \in UpdatePcs => q.kind = "update"
      /\ q.pc \in BulkPcs => q.kind = "updateAll"
  BY DEF q, KindFits
<1> USE DEF JoinPcs, LoadPcs, InRoomPcs, UpdatePcs, BulkPcs
<1>5. CASE Reject(t)
  BY <1>2, <1>5, HandlerMoves
<1>6. CASE CreateExisting(t) \/ InitializeLoaded(t)
  BY <1>3, <1>6, HandlerMoves
<1>7. CASE CreateNew(t)
  <2>1. q.pc = "create" /\ Continues(t, "created")
    BY <1>7, HandlerMoves DEF q, CreateNew, At
  <2> QED BY <1>3, <1>4, <2>1
<1>8. CASE InitializeCreated(t)
  <2>1. q.pc = "created" /\ Continues(t, "listen")
    BY <1>8, HandlerMoves DEF q, InitializeCreated, At
  <2> QED BY <1>3, <1>4, <2>1
<1>9. CASE SetRoomListener(t)
  BY <1>2, <1>3, <1>9, HandlerMoves
<1>10. CASE GetLocalRoom(t)
  <2>1. q.pc = "get" /\ (Continues(t, "init") \/ Continues(t, "load"))
    BY <1>10, HandlerMoves DEF q, GetLocalRoom, At
  <2> QED BY <1>3, <1>4, <2>1
<1>11. CASE LoadRoom(t)
  <2>1. q.pc = "load" /\ (Continues(t, "init") \/ Ends(t))
    BY <1>11, HandlerMoves DEF q, LoadRoom, At
  <2> QED BY <1>2, <1>3, <1>4, <2>1
<1>12. CASE CheckMember(t)
  <2>1. Ends(t) \/ Continues(t, NextPc(q.kind))
    BY <1>12, HandlerMoves DEF q
  <2>2. /\ NextPc(q.kind) \in JoinPcs => q.kind = "join"
        /\ NextPc(q.kind) \in LoadPcs \cup InRoomPcs => q.kind # "join"
        /\ NextPc(q.kind) \in UpdatePcs => q.kind = "update"
        /\ NextPc(q.kind) \in BulkPcs => q.kind = "updateAll"
    BY <1>1 DEF NextPc, AllMessages, q
  <2> QED BY <1>2, <1>3, <2>1, <2>2
<1>13. CASE Push(t) \/ Leave(t) \/ Write(t) \/ Unset(t) \/ WriteAll(t) \/ Focus(t) \/ Discard(t)
  BY <1>2, <1>13, HandlerMoves
<1>14. CASE ReadOwnFocus(t) \/ TakeFocus(t) \/ RecheckFocus(t)
  <2>1. /\ q.pc \in {"focusOf", "take", "recheck"}
        /\ Ends(t) \/ Continues(t, "write") \/ Continues(t, "take") \/ Continues(t, "recheck")
    BY <1>14, HandlerMoves DEF q, ReadOwnFocus, TakeFocus, RecheckFocus, At
  <2> QED BY <1>2, <1>3, <1>4, <2>1
<1>15. CASE ReadFocuser(t) \/ FilterField(t)
  <2>1. \/ q.pc = "focuser" /\ (Ends(t) \/ Continues(t, "unset"))
        \/ q.pc = "filter" /\ (Ends(t) \/ Continues(t, "filter") \/ Continues(t, "writeAll"))
    BY <1>15, HandlerMoves DEF q, ReadFocuser, FilterField, At
  <2> QED BY <1>2, <1>3, <1>4, <2>1
<1> QED
  BY <1>5, <1>6, <1>7, <1>8, <1>9, <1>10, <1>11, <1>12, <1>13, <1>14, <1>15 DEF Handler

LEMMA HandlerEndsOrContinues ==
    ASSUME TypeOK, NEW t \in Slots, Handler(t)
    PROVE  Ends(t) \/ \E pc : Continues(t, pc)
<1>1. Busy(t)
  BY HandlerBusy
<1> QED
  BY <1>1, HandlerMoves DEF Handler

LEMMA FittingHandler ==
    ASSUME TypeOK, Fitting, NEW t \in Slots, Handler(t)
    PROVE  Fitting'
<1>1. Busy(t)
  BY HandlerBusy
<1>2. OthersSame(t)
  BY HandlerEndsOrContinues DEF Ends, Continues
<1> SUFFICES ASSUME NEW u \in Slots PROVE KindFits(u)'
  BY DEF Fitting
<1>3. CASE u = t
  BY <1>1, <1>3, KindAfterHandler DEF Fitting
<1>4. CASE u # t
  BY <1>2, <1>4 DEF KindFits, OthersSame, Fitting, Busy
<1> QED
  BY <1>3, <1>4

LEMMA FittingNext == TypeOK /\ Fitting /\ [Next]_vars => Fitting'
<1> SUFFICES ASSUME TypeOK, Fitting, [Next]_vars PROVE Fitting'
  OBVIOUS
<1>1. CASE UNCHANGED req
  BY <1>1 DEF Fitting, KindFits, Busy
<1>2. ASSUME NEW c \in Clients, Closing(c) PROVE UNCHANGED req
  BY <1>2 DEF Closing, Disconnect, ScanRoom, ScanDone, LeaveFound
<1>3. ASSUME NEW n \in Nodes, Sweep(n) PROVE UNCHANGED req
  BY <1>3 DEF Sweep, SweepStart, SweepClose, SweepClosed
<1>4. ASSUME NEW n \in Nodes, Events(n) PROVE UNCHANGED req
  BY <1>4 DEF Events, EventStart, EventRead, EventClear, EventClose, EventClosed
<1>5. ASSUME NEW n \in Nodes, NEW r \in Rooms, ReceiveClose(n, r) PROVE UNCHANGED req
  BY <1>5 DEF ReceiveClose
<1>6. ASSUME NEW r \in Rooms, SaveItem(r) \/ DeleteItem(r) PROVE UNCHANGED req
  BY <1>6 DEF SaveItem, DeleteItem
<1> QED
  BY <1>1, <1>2, <1>3, <1>4, <1>5, <1>6, FittingArrival, FittingHandler DEF Next, vars

\* An item event is taken up: the next one, and the queue loses it.
LEMMA TakenUp ==
    ASSUME TypeOK, NoDeletion, NEW n \in Nodes, EventStart(n)
    PROVE  NoDeletion'
<1>1. queue[n] \in Seq(Event) /\ ev[n] \in EventTask
  BY DEF TypeOK
<1>2. queue[n] # <<>> /\ queue' = [queue EXCEPT ![n] = Tail(queue[n])]
  BY DEF EventStart
<1>3. /\ Len(Tail(queue[n])) = Len(queue[n]) - 1
      /\ \A i \in 1 .. Len(Tail(queue[n])) : Tail(queue[n])[i] = queue[n][i + 1]
      /\ Head(queue[n]) = queue[n][1] /\ Len(queue[n]) \in Nat \ {0}
  BY <1>1, <1>2, HeadTailProperties, EmptySeq, LenProperties
<1>4. Head(queue[n]).kind = "update"
  BY <1>3 DEF NoDeletion
<1>5. ev'[n].pc \notin {"close", "closed"} /\ \A m \in Nodes \ {n} : ev'[m] = ev[m]
  BY <1>4 DEF EventStart, TypeOK, NoDeletion
<1>6. \A i \in 1 .. Len(queue'[n]) : queue'[n][i].kind = "update"
  BY <1>2, <1>3 DEF TypeOK, NoDeletion
<1>7. \A m \in Nodes \ {n} : queue'[m] = queue[m]
  BY <1>2 DEF TypeOK
<1> QED
  BY <1>5, <1>6, <1>7 DEF NoDeletion

LEMMA Handled ==
    ASSUME TypeOK, NoDeletion, NEW n \in Nodes, EventRead(n) \/ EventClear(n)
    PROVE  NoDeletion'
<1>1. UNCHANGED queue
  BY DEF EventRead, EventClear, bus
<1>2. CASE EventClear(n)
  BY <1>1, <1>2 DEF EventClear, NoEvent, TypeOK, NoDeletion
<1>3. CASE EventRead(n)
  <2>1. PICK x \in ev[n].busy : ev' = [ev EXCEPT ![n].pc = "clear", ![n].saved = db[x]]
    BY <1>3 DEF EventRead
  <2>2. ev'[n].pc = "clear" /\ \A m \in Nodes \ {n} : ev'[m] = ev[m]
    BY <2>1 DEF TypeOK, EventTask
  <2> QED BY <1>1, <2>2 DEF NoDeletion
<1> QED
  BY <1>2, <1>3

LEMMA Saved ==
    ASSUME TypeOK, NoDeletion, NEW r \in Rooms, SaveItem(r)
    PROVE  NoDeletion'
<1> DEFINE e == [kind |-> "update", r |-> r]
<1>1. queue' = [m \in Nodes |-> Append(queue[m], e)] /\ UNCHANGED ev
  BY DEF SaveItem, Emit, jobs
<1>2. ASSUME NEW m \in Nodes, NEW i \in 1 .. Len(queue'[m]) PROVE queue'[m][i].kind = "update"
  <2>1. queue[m] \in Seq(Event) /\ e \in Event /\ queue'[m] = Append(queue[m], e)
    BY <1>1 DEF TypeOK, Event
  <2>2. /\ Len(queue'[m]) = Len(queue[m]) + 1
        /\ \A j \in 1 .. Len(queue[m]) : queue'[m][j] = queue[m][j]
        /\ queue'[m][Len(queue[m]) + 1] = e /\ Len(queue[m]) \in Nat
    BY <2>1, AppendProperties, LenProperties
  <2>3. i \in 1 .. Len(queue[m]) \/ i = Len(queue[m]) + 1
    BY <1>2, <2>2
  <2> QED BY <2>2, <2>3 DEF NoDeletion
<1> QED
  BY <1>1, <1>2 DEF NoDeletion

LEMMA NoDeletionNext ==
    ASSUME "delete" \notin Jobs, TypeOK, NoDeletion, [Next]_vars
    PROVE  NoDeletion'
<1>1. CASE UNCHANGED <<queue, ev>>
  BY <1>1 DEF NoDeletion
<1>2. ASSUME NEW t \in Slots, NEW c \in Clients, NEW r \in Rooms, Arrival(t, c, r)
      PROVE  UNCHANGED <<queue, ev>>
  BY <1>2, ArrivalParts DEF bus, jobs
<1>3. ASSUME NEW t \in Slots, Handler(t) PROVE UNCHANGED <<queue, ev>>
  BY <1>3, HandlerBusy DEF bus, jobs
<1>4. ASSUME NEW c \in Clients, Closing(c) PROVE UNCHANGED <<queue, ev>>
  BY <1>4 DEF Closing, Disconnect, ScanRoom, ScanDone, LeaveFound, bus
<1>5. ASSUME NEW n \in Nodes, Sweep(n) PROVE UNCHANGED <<queue, ev>>
  BY <1>5 DEF Sweep, SweepStart, SweepClose, SweepClosed, bus
<1>6. ASSUME NEW n \in Nodes PROVE ~EventClose(n) /\ ~EventClosed(n)
  BY DEF EventClose, EventClosed, NoDeletion
<1>7. ASSUME NEW n \in Nodes, NEW r \in Rooms, ReceiveClose(n, r) PROVE UNCHANGED <<queue, ev>>
  BY <1>7 DEF ReceiveClose, jobs
<1>8. ASSUME NEW r \in Rooms PROVE ~DeleteItem(r)
  BY DEF DeleteItem
<1> QED
  BY <1>1, <1>2, <1>3, <1>4, <1>5, <1>6, <1>7, <1>8, TakenUp, Handled, Saved
     DEF Next, Events, vars, bus, jobs

LEMMA OrderlyHandler ==
    ASSUME TypeOK, Orderly, NEW t \in Slots, Handler(t)
    PROVE  Orderly'
<1>1. Busy(t) /\ UNCHANGED <<bus, jobs>>
  BY HandlerBusy
<1>2. OthersSame(t) /\ (Busy(t)' => req'[t].c = req[t].c)
  BY HandlerEndsOrContinues DEF Ends, Continues, Busy
<1>3. OnePerClient'
  BY <1>1, <1>2 DEF OnePerClient, OthersSame, Orderly, Busy
<1>4. NothingCloses'
  BY <1>1 DEF NothingCloses, NoDeletion, Orderly, bus, jobs
<1> QED
  BY <1>3, <1>4, FittingHandler DEF Orderly

\* What no step of a serial room does.
LEMMA SerialJobs ==
    ASSUME Serial, TypeOK, Orderly, [Next]_vars
    PROVE  \/ \E t \in Slots, c \in Clients, r \in Rooms : Arrival(t, c, r)
           \/ \E t \in Slots : Handler(t)
           \/ \E n \in Nodes : EventStart(n) \/ EventRead(n) \/ EventClear(n)
           \/ \E r \in Rooms : SaveItem(r)
           \/ UNCHANGED vars
<1>1. ASSUME NEW c \in Clients PROVE ~Closing(c)
  BY DEF Closing, Disconnect, ScanRoom, ScanDone, LeaveFound, Serial, Orderly, NothingCloses
<1>2. ASSUME NEW n \in Nodes PROVE ~Sweep(n) /\ ~EventClose(n) /\ ~EventClosed(n)
  BY DEF Sweep, SweepStart, SweepClose, SweepClosed, EventClose, EventClosed, Serial, Orderly,
         NothingCloses, NoDeletion
<1>3. ASSUME NEW n \in Nodes, NEW r \in Rooms PROVE ~ReceiveClose(n, r)
  BY DEF ReceiveClose, Orderly, NothingCloses
<1>4. ASSUME NEW r \in Rooms PROVE ~DeleteItem(r)
  BY DEF DeleteItem, Serial
<1> QED
  BY <1>1, <1>2, <1>3, <1>4 DEF Next, Events

LEMMA OrderlyEvents ==
    ASSUME TypeOK, Orderly, NEW n \in Nodes, EventStart(n) \/ EventRead(n) \/ EventClear(n)
    PROVE  Orderly'
<1>1. UNCHANGED <<req, conn, sweep, mail>>
  BY DEF EventStart, EventRead, EventClear, bus
<1>2. OnePerClient' /\ Fitting'
  BY <1>1 DEF Orderly, OnePerClient, Fitting, KindFits, Busy
<1>3. NoDeletion'
  BY TakenUp, Handled DEF Orderly, NothingCloses
<1> QED
  BY <1>1, <1>2, <1>3 DEF Orderly, NothingCloses

LEMMA OrderlySave ==
    ASSUME TypeOK, Orderly, NEW r \in Rooms, SaveItem(r)
    PROVE  Orderly'
<1>1. UNCHANGED <<req, conn, sweep, mail>>
  BY DEF SaveItem, jobs
<1>2. OnePerClient' /\ Fitting'
  BY <1>1 DEF Orderly, OnePerClient, Fitting, KindFits, Busy
<1>3. NoDeletion'
  BY Saved DEF Orderly, NothingCloses
<1> QED
  BY <1>1, <1>2, <1>3 DEF Orderly, NothingCloses

LEMMA OrderlyNext == Serial /\ TypeOK /\ Orderly /\ [Next]_vars => Orderly'
<1> SUFFICES ASSUME Serial, TypeOK, Orderly, [Next]_vars PROVE Orderly'
  OBVIOUS
<1>1. CASE UNCHANGED vars
  BY <1>1 DEF Orderly, OnePerClient, Fitting, KindFits, NothingCloses, NoDeletion, Busy, vars,
              bus, jobs
<1> QED
  BY <1>1, OrderlyArrival, OrderlyHandler, OrderlyEvents, OrderlySave, SerialJobs

-----------------------------------------------------------------------------
(* The rest of the invariant: the rooms, and what a handler relies on in   *)
(* the store when it goes on.  A process's defaults may name a client of   *)
(* its own, one that was added to a room before the room was initialized.  *)

Creating(t, r) == At(t, "created") /\ req[t].r = r
Entering(t, r) ==
    req[t].pc \in {"created", "listen", "has", "push"} /\ req[t].kind = "join" /\ req[t].r = r

DefaultsFit(n) ==
    /\ dflt[n].changes = NoChanges
    /\ dflt[n].focuses = NoFocuses
    /\ \A c \in Clients : dflt[n].clients[c] \in {0, 1} /\ (dflt[n].clients[c] = 1 => Home[c] = n)

\* A room that is nowhere initialized is empty, unless it is about to be, and
\* without changes; an empty one has changes only while somebody enters it.
RoomFits(r) ==
    LET s == store[r]
    IN  /\ Sound(s)
        /\ ~Initialized(s) =>
               /\ s.changes = NoChanges
               /\ s.focuses = NoFocuses
               /\ ~Empty(s.clients) => \E t \in Slots : Creating(t, r)
               /\ \A n \in Nodes : r \in rooms[n] => \E t \in Slots : Creating(t, r)
        /\ Empty(s.clients) /\ s.changes # NoChanges => \E t \in Slots : Entering(t, r)

SlotFits(t) ==
    LET q == req[t]
        s == store[q.r]
    IN  Busy(t) =>
            /\ q.pc \notin {"create", "get", "load"} => q.r \in rooms[Node(t)]
            /\ q.pc = "has" /\ q.kind # "join" => Initialized(s)
            /\ q.pc \in InRoomPcs => Initialized(s) /\ s.clients[q.c] = 1
            /\ q.pc = "push" => ~IsMember(t)
            /\ q.pc = "write" => s.focuses[q.c] = q.f

Consistent ==
    /\ \A n \in Nodes : DefaultsFit(n)
    /\ \A r \in Rooms : RoomFits(r)
    /\ \A t \in Slots : SlotFits(t)

\* A step that does not disturb the clients in S.
Undisturbed(S) ==
    /\ \A n \in Nodes : rooms[n] \subseteq rooms'[n]
    /\ \A r \in Rooms : Initialized(store[r]) =>
           Initialized(store'[r]) /\ \A c \in S : SameFor(store[r], store'[r], c)
    /\ \A r \in Rooms, c \in S :
           HasClient(store'[r], dflt'[Home[c]], c) => HasClient(store[r], dflt[Home[c]], c)

\* What such a step keeps: the slots of those clients.
LEMMA OthersFit ==
    ASSUME TypeOK, NEW S \in SUBSET Clients, Undisturbed(S), NEW t \in Slots, SlotFits(t),
           req'[t] = req[t], Busy(t) => req[t].c \in S
    PROVE  SlotFits(t)'
<1> DEFINE q == req[t]
<1> SUFFICES ASSUME Busy(t) PROVE SlotFits(t)'
  BY DEF SlotFits, Busy
<1>1. q.r \in Rooms /\ q.c \in S /\ Node(t) \in Nodes
  BY RequestParts
<1>2. Node(t)' = Node(t) /\ Busy(t)'
  BY DEF Node, Busy
<1>3. rooms[Node(t)] \subseteq rooms'[Node(t)]
  BY <1>1 DEF Undisturbed
<1>4. Initialized(store[q.r]) => Initialized(store'[q.r]) /\ SameFor(store[q.r], store'[q.r], q.c)
  BY <1>1 DEF Undisturbed
<1>5. IsMember(t)' => IsMember(t)
  BY <1>1 DEF Undisturbed, IsMember, Node
<1>6. /\ q.pc \notin {"create", "get", "load"} => q.r \in rooms'[Node(t)]
      /\ q.pc = "has" /\ q.kind # "join" => Initialized(store'[q.r])
  BY <1>3, <1>4 DEF SlotFits
<1>7. q.pc \in InRoomPcs => Initialized(store'[q.r]) /\ store'[q.r].clients[q.c] = 1
  BY <1>4 DEF SlotFits, SameFor
<1>8. /\ q.pc = "push" => ~IsMember(t)'
      /\ q.pc = "write" => store'[q.r].focuses[q.c] = q.f
  BY <1>4, <1>5 DEF SlotFits, SameFor, InRoomPcs, UpdatePcs, BulkPcs
<1> QED
  BY <1>2, <1>6, <1>7, <1>8 DEF SlotFits

LEMMA AfterOthers ==
    ASSUME TypeOK, Orderly, Consistent, NEW t \in Slots, Busy(t), OthersSame(t),
           Undisturbed(Clients \ {req[t].c}), SlotFits(t)',
           \A n \in Nodes : DefaultsFit(n)', \A r \in Rooms : RoomFits(r)'
    PROVE  Consistent'
<1>1. ASSUME NEW u \in Slots PROVE SlotFits(u)'
  <2>1. CASE u = t
    BY <2>1
  <2>2. CASE u # t
    <3>1. req'[u] = req[u] /\ SlotFits(u)
      BY <2>2 DEF OthersSame, Consistent
    <3>2. Busy(u) => req[u].c \in Clients \ {req[t].c}
      BY <2>2, RequestParts DEF Orderly, OnePerClient
    <3> QED BY <3>1, <3>2, OthersFit
  <2> QED BY <2>1, <2>2
<1> QED
  BY <1>1 DEF Consistent

\* In an initialized room the defaults are not read.
LEMMA ReadsStore ==
    ASSUME TypeOK, RoomsComplete, NEW n \in Nodes, NEW r \in Rooms, Initialized(store[r])
    PROVE  /\ GetClients(store[r], dflt[n]) = store[r].clients
           /\ GetFocuses(store[r], dflt[n]) = store[r].focuses
BY DEF GetClients, GetFocuses, RoomsComplete, Complete, Keys

-----------------------------------------------------------------------------
(* Handlers that only look                                                 *)

Looks(t) ==
    \/ Reject(t) \/ CreateExisting(t) \/ CreateNew(t) \/ SetRoomListener(t)
    \/ GetLocalRoom(t) \/ LoadRoom(t) \/ CheckMember(t)
    \/ ReadOwnFocus(t) \/ RecheckFocus(t) \/ ReadFocuser(t) \/ FilterField(t)

LEMMA EnlargedMemory ==
    ASSUME TypeOK, NEW m \in Nodes, NEW x, rooms' = [rooms EXCEPT ![m] = @ \cup {x}]
    PROVE  \A n \in Nodes : rooms'[n] = IF n = m THEN rooms[n] \cup {x} ELSE rooms[n]
BY DEF TypeOK

\* They leave the store alone and may keep a room: one that exists, or one they
\* are about to create.
LEMMA LookKeeps ==
    ASSUME TypeOK, NEW t \in Slots, Busy(t), Looks(t)
    PROVE  /\ UNCHANGED <<store, dflt>>
           /\ ~At(t, "created")
           /\ \A n \in Nodes : rooms[n] \subseteq rooms'[n]
           /\ \A n \in Nodes, r \in Rooms :
                  r \in rooms'[n] => r \in rooms[n] \/ Initialized(store[r]) \/ Creating(t, r)'
<1>1. /\ UNCHANGED <<store, dflt>>
      /\ ~At(t, "created")
  BY DEF Looks, Reject, CreateExisting, CreateNew, SetRoomListener, GetLocalRoom, LoadRoom,
         CheckMember, ReadOwnFocus, RecheckFocus, ReadFocuser, FilterField, At, shared
<1>2. ASSUME NEW n \in Nodes, NEW r \in Rooms
      PROVE  /\ r \in rooms[n] => r \in rooms'[n]
             /\ r \in rooms'[n] => r \in rooms[n] \/ Initialized(store[r]) \/ Creating(t, r)'
  <2>1. CASE CreateNew(t)
    <3>1. rooms' = [rooms EXCEPT ![Node(t)] = @ \cup {req[t].r}]
      BY <2>1 DEF CreateNew, Keep
    <3>2. Creating(t, r)' <=> r = req[t].r
      BY <2>1, HandlerMoves DEF Continues, Creating, At
    <3> QED BY <3>1, <3>2, RequestParts, EnlargedMemory
  <2>2. CASE LoadRoom(t)
    <3>1. UNCHANGED rooms \/ /\ Initialized(store[req[t].r])
                             /\ rooms' = [rooms EXCEPT ![Node(t)] = @ \cup {req[t].r}]
      BY <2>2 DEF LoadRoom, Keep
    <3>2. CASE UNCHANGED rooms
      BY <3>2
    <3>3. CASE ~UNCHANGED rooms
      <4>1. rooms'[n] = IF n = Node(t) THEN rooms[n] \cup {req[t].r} ELSE rooms[n]
        BY <3>1, <3>3, RequestParts, EnlargedMemory
      <4> QED BY <3>1, <3>3, <4>1
    <3> QED BY <3>2, <3>3
  <2>3. CASE ~CreateNew(t) /\ ~LoadRoom(t)
    <3>1. UNCHANGED rooms
      BY <2>3 DEF Looks, Reject, CreateExisting, SetRoomListener, GetLocalRoom, CheckMember,
                  ReadOwnFocus, RecheckFocus, ReadFocuser, FilterField, local
    <3> QED BY <3>1
  <2> QED BY <2>1, <2>2, <2>3
<1>3. ASSUME NEW n \in Nodes PROVE rooms[n] \subseteq rooms'[n]
  BY <1>2 DEF TypeOK
<1> QED
  BY <1>1, <1>2, <1>3

\* They do not give up entering a room, unless the client is in it already.
LEMMA LookEnters ==
    ASSUME TypeOK, Orderly, Consistent, NEW t \in Slots, Busy(t), Looks(t),
           NEW r \in Rooms, Entering(t, r)
    PROVE  Entering(t, r)' \/ IsMember(t)
<1>1. req[t].kind = "join" /\ req[t].r = r /\ req[t].pc \in {"created", "listen", "has", "push"}
  BY DEF Entering
<1>2. ASSUME NEW pc \in {"has", "push"}, Continues(t, pc) PROVE Entering(t, r)'
  BY <1>1, <1>2 DEF Continues, Entering
<1>3. SetRoomListener(t) \/ CheckMember(t)
  BY <1>1 DEF Looks, Reject, CreateExisting, CreateNew, GetLocalRoom, LoadRoom,
              ReadOwnFocus, RecheckFocus, ReadFocuser, FilterField, At
<1>4. CASE SetRoomListener(t)
  <2>1. At(t, "listen") /\ r \in rooms[Node(t)]
    BY <1>1, <1>4 DEF SetRoomListener, Consistent, SlotFits, At
  <2> QED BY <1>1, <1>2, <1>4, <2>1, HandlerMoves
<1>5. CASE CheckMember(t)
  BY <1>1, <1>2, <1>5, HandlerMoves DEF NextPc
<1> QED
  BY <1>3, <1>4, <1>5

LEMMA LookRooms ==
    ASSUME TypeOK, RoomsComplete, Orderly, Consistent, NEW t \in Slots, Busy(t), Looks(t),
           OthersSame(t), NEW r \in Rooms
    PROVE  RoomFits(r)'
<1> DEFINE s == store[r]
<1>1. store' = store /\ RoomFits(r)
  BY LookKeeps DEF Consistent
<1>2. ASSUME NEW u \in Slots, Creating(u, r) PROVE Creating(u, r)'
  <2>1. u # t
    BY <1>2, LookKeeps DEF Creating
  <2> QED BY <1>2, <2>1 DEF Creating, OthersSame, At
<1>3. ASSUME ~Initialized(s), NEW n \in Nodes, r \in rooms'[n]
      PROVE  \E u \in Slots : Creating(u, r)'
  <2>1. r \in rooms[n] \/ Creating(t, r)'
    BY <1>3, LookKeeps
  <2> QED BY <1>1, <1>2, <1>3, <2>1 DEF RoomFits
<1>4. ASSUME Empty(s.clients), s.changes # NoChanges PROVE \E u \in Slots : Entering(u, r)'
  <2>1. PICK u \in Slots : Entering(u, r)
    BY <1>1, <1>4 DEF RoomFits
  <2>2. CASE u # t
    BY <2>1, <2>2 DEF Entering, OthersSame
  <2>3. CASE u = t
    <3>1. Initialized(s) /\ req[t].r = r /\ Node(t) \in Nodes /\ req[t].c \in Clients
      BY <1>1, <1>4, <2>1, <2>3, RequestParts DEF RoomFits, Entering
    <3>2. ~IsMember(t)
      BY <1>4, <3>1, ReadsStore DEF IsMember, HasClient, Empty
    <3> QED BY <2>1, <2>3, <3>2, LookEnters
  <2> QED BY <2>2, <2>3
<1> QED
  BY <1>1, <1>2, <1>3, <1>4 DEF RoomFits

LEMMA LookSlot ==
    ASSUME TypeOK, RoomsComplete, Orderly, Consistent, NEW t \in Slots, Busy(t), Looks(t)
    PROVE  SlotFits(t)'
<1> DEFINE q == req[t]
           s == store[q.r]
           n == Node(t)
<1>1. /\ UNCHANGED <<store, dflt>> /\ rooms[n] \subseteq rooms'[n]
      /\ n \in Nodes /\ q.r \in Rooms /\ q.c \in Clients /\ q.kind \in AllMessages
  BY LookKeeps, RequestAt, RequestParts DEF Request
<1>2. ASSUME Ends(t) PROVE SlotFits(t)'
  BY <1>2 DEF Ends, SlotFits, Busy
<1>3. /\ q.pc \notin {"create", "get", "load"} => q.r \in rooms'[n]
      /\ q.pc \in InRoomPcs => Initialized(s) /\ s.clients[q.c] = 1
      /\ q.pc = "has" /\ q.kind # "join" => Initialized(s)
  BY <1>1 DEF Consistent, SlotFits
<1>4. ASSUME NEW pc, Continues(t, pc),
             pc \notin {"create", "get", "load"} => q.r \in rooms'[n],
             pc = "has" /\ q.kind # "join" => Initialized(s),
             pc \in InRoomPcs => Initialized(s) /\ s.clients[q.c] = 1,
             pc = "push" => ~IsMember(t),
             pc = "write" => s.focuses[q.c] = q.f
      PROVE  SlotFits(t)'
  <2>1. /\ req'[t].pc = pc /\ req'[t].kind = q.kind /\ req'[t].c = q.c
        /\ req'[t].r = q.r /\ req'[t].f = q.f
    BY <1>4 DEF Continues
  <2>2. Node(t)' = n /\ IsMember(t)' = IsMember(t)
    BY <1>1, <2>1 DEF Node, IsMember
  <2> QED BY <1>1, <1>4, <2>1, <2>2 DEF SlotFits
<1>5. Initialized(s) =>
          /\ IsMember(t) <=> s.clients[q.c] > 0
          /\ OwnFocus(t) = s.focuses[q.c]
  BY <1>1, ReadsStore DEF IsMember, HasClient, OwnFocus
<1> HIDE DEF q, s, n
<1>6. CASE Reject(t)
  BY <1>2, <1>6, HandlerMoves
<1>7. CASE CreateExisting(t)
  <2>1. q.pc = "create" /\ q.r \in rooms[n] /\ Continues(t, "has")
    BY <1>7, HandlerMoves DEF CreateExisting, At, q, n
  <2>2. q.kind = "join"
    BY <2>1 DEF Orderly, Fitting, KindFits, JoinPcs, q
  <2> QED BY <1>1, <1>4, <2>1, <2>2 DEF InRoomPcs, UpdatePcs, BulkPcs
<1>8. CASE CreateNew(t)
  <2>1. Continues(t, "created") /\ q.r \in rooms'[n]
    BY <1>1, <1>8, HandlerMoves DEF CreateNew, Keep, q, n, TypeOK
  <2> QED BY <1>4, <2>1 DEF InRoomPcs, UpdatePcs, BulkPcs
<1>9. CASE SetRoomListener(t)
  <2>1. q.pc = "listen" /\ (Ends(t) \/ Continues(t, "has"))
    BY <1>9, HandlerMoves DEF SetRoomListener, At, q
  <2>2. q.kind = "join"
    BY <2>1 DEF Orderly, Fitting, KindFits, JoinPcs, q
  <2> QED BY <1>2, <1>3, <1>4, <2>1, <2>2 DEF InRoomPcs, UpdatePcs, BulkPcs
<1>10. CASE GetLocalRoom(t)
  <2>1. Continues(t, IF q.r \in rooms[n] THEN "init" ELSE "load")
    BY <1>10, HandlerMoves DEF q, n
  <2>2. CASE q.r \in rooms[n]
    BY <1>1, <1>4, <2>1, <2>2 DEF InRoomPcs, UpdatePcs, BulkPcs
  <2>3. CASE q.r \notin rooms[n]
    BY <1>4, <2>1, <2>3 DEF InRoomPcs, UpdatePcs, BulkPcs
  <2> QED BY <2>2, <2>3
<1>11. CASE LoadRoom(t)
  <2>1. CASE Initialized(s)
    <3>1. Continues(t, "init") /\ rooms' = [rooms EXCEPT ![n] = @ \cup {q.r}]
      BY <1>11, <2>1, HandlerMoves DEF LoadRoom, Keep, q, n, s
    <3>2. \A m \in Nodes : rooms'[m] = IF m = n THEN rooms[m] \cup {q.r} ELSE rooms[m]
      <4>1. n \in Nodes
        BY <1>1
      <4> QED BY <3>1, <4>1, EnlargedMemory
    <3>3. q.r \in rooms'[n]
      BY <1>1, <3>2
    <3> QED BY <1>4, <3>1, <3>3 DEF InRoomPcs, UpdatePcs, BulkPcs
  <2>2. CASE ~Initialized(s)
    BY <1>2, <1>11, <2>2, HandlerMoves DEF q, s
  <2> QED BY <2>1, <2>2
<1>12. CASE CheckMember(t)
  <2>1. q.pc = "has" /\ IF IsMember(t) # (q.kind = "join") THEN Continues(t, NextPc(q.kind)) ELSE Ends(t)
    BY <1>12, HandlerMoves DEF CheckMember, At, q
  <2>2. CASE q.kind = "join" /\ ~IsMember(t)
    <3>1. NextPc(q.kind) = "push"
      BY <2>2 DEF NextPc
    <3> QED BY <1>3, <1>4, <2>1, <2>2, <3>1 DEF InRoomPcs, UpdatePcs, BulkPcs
  <2>3. CASE q.kind # "join" /\ IsMember(t)
    <3>1. Initialized(s) /\ s.clients[q.c] = 1
      <4>1. Initialized(s) /\ s.clients[q.c] > 0
        BY <1>3, <1>5, <2>1, <2>3
      <4>2. s.clients[q.c] \in {0, 1}
        BY <1>1 DEF s, Consistent, RoomFits, Sound
      <4> QED BY <4>1, <4>2
    <3>2. NextPc(q.kind) \in {"leave", "focusOf", "focuser", "filter", "focus", "discard"}
      BY <1>1, <2>3 DEF NextPc, AllMessages
    <3> QED BY <1>3, <1>4, <2>1, <2>3, <3>1, <3>2
  <2>4. CASE IsMember(t) = (q.kind = "join")
    BY <1>2, <2>1, <2>4
  <2>5. IsMember(t) \in BOOLEAN
    BY DEF IsMember, HasClient
  <2> QED BY <2>2, <2>3, <2>4, <2>5
<1>13. CASE ReadOwnFocus(t)
  <2>1. q.pc = "focusOf" /\ Continues(t, IF OwnFocus(t) = q.f THEN "write" ELSE "take")
    BY <1>13, HandlerMoves DEF ReadOwnFocus, At, q
  <2>2. Initialized(s) /\ s.clients[q.c] = 1 /\ q.r \in rooms'[n]
    BY <1>3, <2>1 DEF InRoomPcs, UpdatePcs, BulkPcs
  <2>3. CASE OwnFocus(t) = q.f
    BY <1>4, <1>5, <2>1, <2>2, <2>3
  <2>4. CASE OwnFocus(t) # q.f
    BY <1>4, <2>1, <2>2, <2>4
  <2> QED BY <2>3, <2>4
<1>14. CASE RecheckFocus(t)
  <2>1. q.pc = "recheck" /\ IF OwnFocus(t) = q.f THEN Continues(t, "write") ELSE Ends(t)
    BY <1>14, HandlerMoves DEF RecheckFocus, At, q
  <2>2. Initialized(s) /\ s.clients[q.c] = 1 /\ q.r \in rooms'[n]
    BY <1>3, <2>1 DEF InRoomPcs, UpdatePcs, BulkPcs
  <2>3. CASE OwnFocus(t) = q.f
    BY <1>4, <1>5, <2>1, <2>2, <2>3
  <2>4. CASE OwnFocus(t) # q.f
    BY <1>2, <2>1, <2>4
  <2> QED BY <2>3, <2>4
<1>15. CASE ReadFocuser(t) \/ FilterField(t)
  <2>1. /\ q.pc \in {"focuser", "filter"}
        /\ Ends(t) \/ \E pc \in {"unset", "filter", "writeAll"} : Continues(t, pc)
    BY <1>15, HandlerMoves DEF ReadFocuser, FilterField, At, q
  <2>2. Initialized(s) /\ s.clients[q.c] = 1 /\ q.r \in rooms'[n]
    BY <1>3, <2>1 DEF InRoomPcs, BulkPcs
  <2> QED BY <1>2, <1>4, <2>1, <2>2
<1> QED
  BY <1>6, <1>7, <1>8, <1>9, <1>10, <1>11, <1>12, <1>13, <1>14, <1>15 DEF Looks

LEMMA LookConsistent ==
    ASSUME TypeOK, RoomsComplete, Orderly, Consistent, NEW t \in Slots, Busy(t), Looks(t)
    PROVE  Consistent'
<1>1. OthersSame(t)
  BY HandlerEndsOrContinues DEF Looks, Handler, Ends, Continues
<1>2. Undisturbed(Clients \ {req[t].c})
  BY LookKeeps DEF Undisturbed, SameFor
<1>3. \A n \in Nodes : DefaultsFit(n)'
  BY LookKeeps DEF Consistent, DefaultsFit
<1> QED
  BY <1>1, <1>2, <1>3, LookRooms, LookSlot, AfterOthers

-----------------------------------------------------------------------------
(* Handlers that write                                                     *)

\* What a handler changes in one room only, all others are as before.
OnlyRoom(x) == rooms' = rooms /\ \A r \in Rooms \ {x} : store'[r] = store[r]

LEMMA OtherRooms ==
    ASSUME Consistent, NEW t \in Slots, OthersSame(t), OnlyRoom(req[t].r),
           NEW r \in Rooms, r # req[t].r
    PROVE  RoomFits(r)'
<1>1. store'[r] = store[r] /\ rooms' = rooms /\ RoomFits(r)
  BY DEF OnlyRoom, Consistent
<1>2. ASSUME NEW u \in Slots, req[u].r = r PROVE req'[u] = req[u]
  BY <1>2 DEF OthersSame
<1>3. ASSUME NEW u \in Slots PROVE /\ Creating(u, r) => Creating(u, r)'
                                   /\ Entering(u, r) => Entering(u, r)'
  BY <1>2 DEF Creating, Entering, At
<1> QED
  BY <1>1, <1>3 DEF RoomFits

\* The room of a handler that has got beyond its creation.
LEMMA SomebodyCreates ==
    ASSUME TypeOK, Orderly, Consistent, NEW t \in Slots, Busy(t), OthersSame(t),
           req[t].pc \in {"init", "push"}, ~Initialized(store[req[t].r])
    PROVE  \E u \in Slots : Creating(u, req[t].r) /\ req'[u] = req[u] /\ req[u].kind = "join"
<1>1. req[t].r \in rooms[Node(t)] /\ Node(t) \in Nodes /\ req[t].r \in Rooms
  BY RequestParts DEF Consistent, SlotFits
<1>2. PICK u \in Slots : Creating(u, req[t].r)
  BY <1>1 DEF Consistent, RoomFits
<1>3. u # t /\ req[u].kind = "join"
  BY <1>2 DEF Creating, At, Orderly, Fitting, KindFits, JoinPcs, Busy, RequestPcs
<1> QED
  BY <1>2, <1>3 DEF OthersSame

LEMMA InitializeConsistent ==
    ASSUME TypeOK, RoomsComplete, Orderly, Consistent, NEW t \in Slots, Busy(t),
           InitializeCreated(t) \/ InitializeLoaded(t)
    PROVE  Consistent'
<1> DEFINE q == req[t]
           s == store[q.r]
<1>1. /\ store' = [store EXCEPT ![q.r] = InitTxn(s, q.init)]
      /\ UNCHANGED <<dflt, rooms>>
  BY DEF InitializeCreated, InitializeLoaded, local
<1>2. \/ q.pc = "created" /\ Continues(t, "listen")
      \/ q.pc = "init" /\ Continues(t, "has")
  BY HandlerMoves DEF InitializeCreated, InitializeLoaded, At
<1>3. /\ q.r \in Rooms /\ q.c \in Clients /\ Node(t) \in Nodes /\ q.r \in rooms[Node(t)]
      /\ q.pc = "created" => q.kind = "join"
      /\ q.pc = "init" => q.kind # "join"
  BY <1>2, RequestParts DEF Consistent, SlotFits, Orderly, Fitting, KindFits, JoinPcs, LoadPcs
<1>4. /\ OthersSame(t) /\ OnlyRoom(q.r)
      /\ req'[t].kind = q.kind /\ req'[t].c = q.c /\ req'[t].r = q.r
  BY <1>1, <1>2, <1>3 DEF Continues, OnlyRoom, TypeOK
<1>5. store'[q.r] = InitTxn(s, q.init)
  BY <1>1, <1>3 DEF TypeOK
<1>6. Initialized(s) => store' = store
  BY <1>1, <1>3 DEF InitTxn, TypeOK
<1>7. ~Initialized(s) =>
          /\ store'[q.r].clients = NoMembers /\ store'[q.r].focuses = NoFocuses
          /\ store'[q.r].keys = Keys
  BY <1>5 DEF InitTxn
<1>8. Initialized(store'[q.r])
  BY <1>6, <1>7 DEF Initialized, Keys
<1>9. Entering(t, q.r)' \/ ~Entering(t, q.r)
  BY <1>2, <1>3, <1>4 DEF Entering, Continues
<1>10. RoomFits(q.r)'
  <2>1. CASE Initialized(s)
    <3>1. RoomFits(q.r)
      BY <1>3 DEF Consistent
    <3>2. ASSUME NEW u \in Slots, Entering(u, q.r) PROVE \E w \in Slots : Entering(w, q.r)'
      <4>1. CASE u = t
        BY <1>9, <3>2, <4>1
      <4>2. CASE u # t
        BY <1>4, <3>2, <4>2 DEF OthersSame, Entering
      <4> QED BY <4>1, <4>2
    <3> QED BY <1>4, <1>6, <2>1, <3>1, <3>2 DEF RoomFits
  <2>2. CASE ~Initialized(s)
    <3>1. Sound(store'[q.r])
      BY <1>7, <2>2 DEF Sound, NoMembers, NoFocuses
    <3>2. \E u \in Slots : Entering(u, q.r)'
      <4>1. CASE q.pc = "created"
        BY <1>2, <1>3, <1>4, <4>1 DEF Entering, Continues
      <4>2. CASE q.pc = "init"
        <5>1. PICK u \in Slots : Creating(u, q.r) /\ req'[u] = req[u] /\ req[u].kind = "join"
          BY <1>4, <2>2, <4>2, SomebodyCreates
        <5> QED BY <1>4, <5>1 DEF Creating, Entering, At
      <4> QED BY <1>2, <4>1, <4>2
    <3> QED BY <1>4, <1>8, <3>1, <3>2 DEF RoomFits
  <2> QED BY <2>1, <2>2
<1>11. \A r \in Rooms : RoomFits(r)'
  BY <1>4, <1>10, OtherRooms
<1>12. \A n \in Nodes : DefaultsFit(n)'
  BY <1>1 DEF Consistent, DefaultsFit
<1>13. SlotFits(t)'
  <2>1. Node(t)' = Node(t) /\ q.r \in rooms'[Node(t)]
    BY <1>1, <1>3, <1>4 DEF Node
  <2> QED BY <1>2, <1>4, <1>8, <2>1 DEF SlotFits, Continues, InRoomPcs, UpdatePcs, BulkPcs
<1>14. Undisturbed(Clients \ {q.c})
  <2>1. ASSUME NEW r \in Rooms
        PROVE  /\ Initialized(store[r]) => store'[r] = store[r]
               /\ store'[r] = store[r] \/ (store'[r].clients = NoMembers /\ store'[r].keys = Keys)
    BY <1>4, <1>6, <1>7 DEF OnlyRoom
  <2>2. ASSUME NEW r \in Rooms, NEW c \in Clients, HasClient(store'[r], dflt'[Home[c]], c)
        PROVE  HasClient(store[r], dflt[Home[c]], c)
    BY <1>1, <2>1, <2>2 DEF HasClient, GetClients, NoMembers, Keys
  <2> QED BY <1>1, <2>1, <2>2 DEF Undisturbed, SameFor
<1> QED
  BY <1>4, <1>11, <1>12, <1>13, <1>14, AfterOthers

\* The client joins.  If the room is not initialized yet, the array of clients it
\* is added to is the one of the defaults of its process.
LEMMA PushConsistent ==
    ASSUME TypeOK, RoomsComplete, Orderly, Consistent, NEW t \in Slots, Busy(t), Push(t)
    PROVE  Consistent'
<1> DEFINE q == req[t]
<1>0. PICK room \in Rooms, n \in Nodes : room = q.r /\ n = Node(t)
  BY RequestParts
<1> DEFINE s == store[room]
           d == dflt[n]
           old == GetClients(s, d)
           m == [old EXCEPT ![q.c] = @ + 1]
<1>1. q.c \in Clients /\ s \in RoomData /\ d \in RoomDefaults /\ n = Home[q.c]
  BY <1>0, RequestParts DEF Node
<1>2. q.pc = "push" /\ ~IsMember(t) /\ Ends(t) /\ OthersSame(t)
  BY HandlerMoves DEF Push, At, Consistent, SlotFits, Ends
<1>3. /\ store' = [store EXCEPT ![room] = SetClients(s, m)]
      /\ dflt' = [dflt EXCEPT ![n] = AliasClients(s, d, m)]
      /\ rooms' = rooms
  BY <1>0 DEF Push, Commit, PushTxn, Result, local
<1>4. old \in Members /\ old[q.c] = 0
  BY <1>0, <1>1, <1>2, GetTypes DEF IsMember, HasClient, Members
<1>5. m[q.c] = 1 /\ \A c \in Clients \ {q.c} : m[c] = old[c]
  BY <1>1, <1>4 DEF Members
<1>6. Sound(s) /\ DefaultsFit(n) /\ RoomFits(room)
  BY <1>1 DEF Consistent, RoomFits
<1>7. \A c \in Clients : old[c] \in {0, 1}
  BY <1>6 DEF GetClients, Sound, DefaultsFit
<1> HIDE DEF m
<1>8. /\ store'[room].clients = m /\ store'[room].keys = s.keys \cup {"clients"}
      /\ store'[room].focuses = s.focuses /\ store'[room].changes = s.changes
  BY <1>1, <1>3 DEF SetClients, RoomData, TypeOK
<1>9. OnlyRoom(room)
  BY <1>3 DEF OnlyRoom, TypeOK
<1>10. /\ \A k \in Nodes \ {n} : dflt'[k] = dflt[k]
       /\ dflt'[n] = AliasClients(s, d, m)
  BY <1>1, <1>3 DEF TypeOK
<1>11. ("clients" \in s.keys /\ old = s.clients /\ dflt'[n] = d)
       \/ (/\ "clients" \notin s.keys /\ old = d.clients /\ dflt'[n].clients = m
           /\ dflt'[n].changes = d.changes /\ dflt'[n].focuses = d.focuses)
  BY <1>1, <1>10 DEF AliasClients, GetClients, RoomDefaults
<1>12. (Initialized(store'[room]) <=> Initialized(s)) /\ (Initialized(s) => "clients" \in s.keys)
  BY <1>1, <1>8 DEF Initialized, RoomsComplete, Complete, Keys
<1>13. RoomFits(room)'
  <2>1. ~Empty(m)
    BY <1>1, <1>5 DEF Empty
  <2>2. Sound(store'[room])
    <3>1. ASSUME NEW c \in Clients PROVE m[c] \in {0, 1}
      BY <1>5, <1>7
    <3>2. ASSUME NEW c \in Clients, s.focuses[c] # NoField PROVE m[c] = 1
      <4>1. Initialized(s)
        BY <1>6, <3>2 DEF RoomFits, NoFocuses
      <4>2. old[c] = 1
        BY <1>6, <1>11, <1>12, <3>2, <4>1 DEF Sound
      <4> QED BY <1>5, <4>2
    <3> QED BY <1>8, <3>1, <3>2 DEF Sound
  <2>3. ~Initialized(s) => \E u \in Slots : Creating(u, room)'
    <3> SUFFICES ASSUME ~Initialized(s) PROVE \E u \in Slots : Creating(u, room)'
      OBVIOUS
    <3>1. PICK u \in Slots : Creating(u, room) /\ req'[u] = req[u]
      BY <1>0, <1>2, SomebodyCreates
    <3>2. req'[u].pc = "created" /\ req'[u].r = room
      BY <3>1 DEF Creating, At
    <3> QED BY <3>2 DEF Creating, At
  <2> QED BY <1>6, <1>8, <1>12, <2>1, <2>2, <2>3 DEF RoomFits
<1>14. \A r \in Rooms : RoomFits(r)'
  BY <1>0, <1>2, <1>9, <1>13, OtherRooms
<1>15. \A k \in Nodes : DefaultsFit(k)'
  <2>1. ASSUME NEW k \in Nodes \ {n} PROVE DefaultsFit(k)'
    BY <1>10 DEF Consistent, DefaultsFit
  <2>2. DefaultsFit(n)'
    <3>1. CASE dflt'[n] = d
      BY <1>6, <3>1 DEF DefaultsFit
    <3>2. CASE /\ old = d.clients /\ dflt'[n].clients = m
               /\ dflt'[n].changes = d.changes /\ dflt'[n].focuses = d.focuses
      <4>1. ASSUME NEW c \in Clients PROVE m[c] \in {0, 1} /\ (m[c] = 1 => Home[c] = n)
        <5>1. CASE c = q.c
          BY <1>1, <1>5, <5>1
        <5>2. CASE c # q.c
          BY <1>5, <1>6, <3>2, <5>2 DEF DefaultsFit
        <5> QED BY <5>1, <5>2
      <4> QED BY <1>6, <3>2, <4>1 DEF DefaultsFit
    <3> QED BY <1>11, <3>1, <3>2
  <2> QED BY <2>1, <2>2
<1>16. SlotFits(t)'
  BY <1>2 DEF Ends, SlotFits, Busy
<1>17. Undisturbed(Clients \ {q.c})
  <2>1. ASSUME NEW r \in Rooms, Initialized(store[r])
        PROVE  /\ Initialized(store'[r])
               /\ \A c \in Clients \ {q.c} : SameFor(store[r], store'[r], c)
    <3>1. CASE r # room
      BY <1>9, <2>1, <3>1 DEF OnlyRoom, SameFor
    <3>2. CASE r = room
      BY <1>5, <1>8, <1>11, <1>12, <2>1, <3>2 DEF SameFor
    <3> QED BY <3>1, <3>2
  <2>2. ASSUME NEW r \in Rooms, NEW c \in Clients \ {q.c}, HasClient(store'[r], dflt'[Home[c]], c)
        PROVE  HasClient(store[r], dflt[Home[c]], c)
    <3>1. Home[c] \in Nodes /\ dflt'[Home[c]].clients[c] = dflt[Home[c]].clients[c]
      <4>1. Home[c] \in Nodes
        BY HomeAssumption
      <4>2. CASE Home[c] # n
        BY <1>10, <4>1, <4>2
      <4>3. CASE Home[c] = n
        BY <1>5, <1>11, <4>3
      <4> QED BY <4>1, <4>2, <4>3
    <3>2. CASE r # room
      BY <1>9, <2>2, <3>1, <3>2 DEF OnlyRoom, HasClient, GetClients
    <3>3. CASE r = room
      <4>1. old[c] > 0
        BY <1>5, <1>8, <2>2, <3>3 DEF HasClient, GetClients
      <4>2. CASE "clients" \in s.keys
        BY <1>11, <3>3, <4>1, <4>2 DEF HasClient, GetClients
      <4>3. CASE "clients" \notin s.keys
        <5>1. d.clients[c] = 1
          BY <1>7, <1>11, <4>1, <4>3
        <5>2. Home[c] = n
          BY <1>6, <5>1 DEF DefaultsFit
        <5> QED BY <3>3, <4>3, <5>1, <5>2 DEF HasClient, GetClients
      <4> QED BY <4>2, <4>3
    <3> QED BY <3>2, <3>3
  <2> QED BY <1>3, <2>1, <2>2 DEF Undisturbed
<1> QED
  BY <1>2, <1>14, <1>15, <1>16, <1>17, AfterOthers

\* The transactions of a client that is in the room.
LEMMA MemberConsistent ==
    ASSUME TypeOK, RoomsComplete, Orderly, Consistent, NEW t \in Slots, Busy(t),
           \/ Leave(t) \/ TakeFocus(t) \/ Write(t) \/ Unset(t) \/ WriteAll(t)
           \/ Focus(t) \/ Discard(t)
    PROVE  Consistent'
<1> DEFINE q == req[t]
<1>0. PICK room \in Rooms, n \in Nodes : room = q.r /\ n = Node(t)
  BY RequestParts
<1> DEFINE s == store[room]
           d == dflt[n]
<1>1. q.c \in Clients /\ s \in RoomData /\ d \in RoomDefaults
  BY <1>0, RequestParts
<1>2. q.pc \in InRoomPcs
  BY DEF Leave, TakeFocus, Write, Unset, WriteAll, Focus, Discard, At, InRoomPcs, UpdatePcs, BulkPcs
<1>3. Initialized(s) /\ s.clients[q.c] = 1 /\ room \in rooms[n] /\ Sound(s) /\ Complete(s)
  BY <1>0, <1>1, <1>2 DEF Consistent, SlotFits, RoomFits, RoomsComplete, InRoomPcs, UpdatePcs, BulkPcs
<1>4. \E res : /\ MemberResult(s, d, q.c, res)
               /\ TakeFocus(t) => res.s.clients = s.clients
               /\ Commit(n, room, res)
  <2>1. ASSUME NEW f, NEW fs, NEW v
        PROVE  /\ MemberResult(s, d, q.c, LeaveTxn(s, d, q.c))
               /\ MemberResult(s, d, q.c, FocusTxn(s, d, q.c, f))
               /\ FocusTxn(s, d, q.c, f).s.clients = s.clients
               /\ MemberResult(s, d, q.c, UpdateTxn(s, d, fs, v))
               /\ MemberResult(s, d, q.c, DropTxn(s, d, fs))
               /\ MemberResult(s, d, q.c, DropAllTxn(s, d))
    <3> HIDE DEF q, s, d
    <3> QED BY <1>1, <1>3, MemberTxns
  <2>2. CASE TakeFocus(t)
    BY <1>0, <2>1, <2>2 DEF TakeFocus
  <2>3. CASE ~TakeFocus(t)
    <3>1. CASE Leave(t)
      BY <1>0, <2>1, <2>3, <3>1 DEF Leave
    <3>2. CASE Focus(t)
      BY <1>0, <2>1, <2>3, <3>2 DEF Focus
    <3>3. CASE Write(t)
      BY <1>0, <2>1, <2>3, <3>3 DEF Write
    <3>4. CASE WriteAll(t)
      BY <1>0, <2>1, <2>3, <3>4 DEF WriteAll
    <3>5. CASE Unset(t)
      BY <1>0, <2>1, <2>3, <3>5 DEF Unset
    <3>6. CASE Discard(t)
      BY <1>0, <2>1, <2>3, <3>6 DEF Discard
    <3> QED BY <2>3, <3>1, <3>2, <3>3, <3>4, <3>5, <3>6
  <2> QED BY <2>2, <2>3
<1>5. PICK res : /\ MemberResult(s, d, q.c, res)
                 /\ TakeFocus(t) => res.s.clients = s.clients
                 /\ Commit(n, room, res)
  BY <1>4
<1>6. store'[room] = res.s /\ dflt' = dflt /\ rooms' = rooms /\ OnlyRoom(room)
  <2>1. rooms' = rooms
    BY DEF Leave, TakeFocus, Write, Unset, WriteAll, Focus, Discard, local
  <2>2. store' = [store EXCEPT ![room] = res.s] /\ dflt' = [dflt EXCEPT ![n] = d]
    BY <1>5 DEF Commit, MemberResult
  <2> QED BY <1>1, <2>1, <2>2 DEF TypeOK, OnlyRoom
<1>7. \/ Ends(t)
      \/ TakeFocus(t) /\ Continues(t, "recheck") /\ q.pc = "take"
  BY HandlerMoves DEF TakeFocus, At
<1>8. OthersSame(t)
  BY <1>7 DEF Ends, Continues
<1>9. RoomFits(room)'
  BY <1>5, <1>6 DEF RoomFits, MemberResult
<1>10. \A r \in Rooms : RoomFits(r)'
  BY <1>0, <1>6, <1>8, <1>9, OtherRooms
<1>11. \A k \in Nodes : DefaultsFit(k)'
  BY <1>6 DEF Consistent, DefaultsFit
<1>12. SlotFits(t)'
  <2>1. CASE Ends(t)
    BY <2>1 DEF Ends, SlotFits, Busy
  <2>2. CASE TakeFocus(t) /\ Continues(t, "recheck")
    <3>1. req'[t].pc = "recheck" /\ req'[t].r = room /\ req'[t].c = q.c /\ Node(t)' = n
      BY <1>0, <2>2 DEF Continues, Node
    <3>2. Initialized(store'[room]) /\ store'[room].clients[q.c] = 1 /\ room \in rooms'[n]
      BY <1>3, <1>5, <1>6, <2>2 DEF MemberResult
    <3> QED BY <3>1, <3>2 DEF SlotFits
  <2> QED BY <1>7, <2>1, <2>2
<1>13. Undisturbed(Clients \ {q.c})
  <2>1. ASSUME NEW r \in Rooms, Initialized(store[r])
        PROVE  /\ Initialized(store'[r])
               /\ \A c \in Clients \ {q.c} : SameFor(store[r], store'[r], c)
    <3>1. CASE r # room
      BY <1>6, <2>1, <3>1 DEF OnlyRoom, SameFor
    <3>2. CASE r = room
      BY <1>5, <1>6, <3>2 DEF MemberResult
    <3> QED BY <3>1, <3>2
  <2>2. ASSUME NEW r \in Rooms, NEW c \in Clients \ {q.c}, HasClient(store'[r], dflt'[Home[c]], c)
        PROVE  HasClient(store[r], dflt[Home[c]], c)
    <3>1. CASE ~Initialized(store[r])
      BY <1>3, <1>6, <2>2, <3>1 DEF OnlyRoom
    <3>2. CASE Initialized(store[r])
      <4>1. Home[c] \in Nodes /\ RoomsComplete' /\ TypeOK'
        <5>1. [Next]_vars
          BY DEF Next, Handler
        <5> QED BY <5>1, HomeAssumption, CompleteNext, TypeNext
      <4>2. GetClients(store[r], dflt[Home[c]]) = store[r].clients
        BY <3>2, <4>1, ReadsStore
      <4>3. GetClients(store'[r], dflt'[Home[c]]) = store'[r].clients
        BY <2>1, <3>2, <4>1 DEF GetClients, RoomsComplete, Complete, Keys
      <4> QED BY <2>1, <2>2, <3>2, <4>2, <4>3 DEF HasClient, SameFor
    <3> QED BY <3>1, <3>2
  <2> QED BY <1>6, <2>1, <2>2 DEF Undisturbed
<1> QED
  BY <1>8, <1>10, <1>11, <1>12, <1>13, AfterOthers

LEMMA HandlerConsistent ==
    ASSUME TypeOK, RoomsComplete, Orderly, Consistent, NEW t \in Slots, Handler(t)
    PROVE  Consistent'
<1>1. Busy(t)
  BY HandlerBusy
<1> QED
  BY <1>1, LookConsistent, InitializeConsistent, PushConsistent, MemberConsistent
     DEF Handler, Looks

-----------------------------------------------------------------------------
(* The other steps                                                         *)

LEMMA ConsistentInit == Init => Consistent
<1> SUFFICES ASSUME Init PROVE Consistent
  OBVIOUS
<1>1. ASSUME NEW n \in Nodes PROVE DefaultsFit(n)
  BY <1>1 DEF Init, DefaultsFit, FreshDefaults, NoMembers
<1>2. ASSUME NEW r \in Rooms PROVE RoomFits(r)
  BY <1>2 DEF Init, RoomFits, Sound, Absent, NoMembers, NoFocuses, Empty
<1>3. ASSUME NEW t \in Slots PROVE SlotFits(t)
  BY <1>3 DEF Init, SlotFits, Busy, RequestPcs, NoRequest
<1> QED
  BY <1>1, <1>2, <1>3 DEF Consistent

LEMMA ArrivalConsistent ==
    ASSUME TypeOK, Consistent, NEW t \in Slots, NEW c \in Clients, NEW r \in Rooms,
           Arrival(t, c, r)
    PROVE  Consistent'
<1>1. PICK m : m.pc \in {"create", "get"} /\ Receive(t, m)
  <2>1. ASSUME NEW kind, NEW f, NEW fs, NEW v, NEW init
        PROVE  Message(kind, c, r, f, fs, v, init).pc \in {"create", "get"}
    BY DEF Message
  <2> QED
    BY <2>1 DEF Arrival, ReceiveJoin, ReceiveLeave, ReceiveUpdate, ReceiveUnset, ReceiveUpdateAll,
                ReceiveFocus, ReceiveDiscard
<1>2. /\ req[t].pc = "idle" /\ req'[t] = m /\ OthersSame(t)
      /\ UNCHANGED <<store, dflt, rooms>>
  BY <1>1 DEF Receive, MayReceive, At, OthersSame, TypeOK, shared, local
<1>3. \A n \in Nodes : DefaultsFit(n)'
  BY <1>2 DEF Consistent, DefaultsFit
<1>4. ASSUME NEW x \in Rooms PROVE RoomFits(x)'
  <2>1. ASSUME NEW u \in Slots PROVE /\ Creating(u, x) => Creating(u, x)'
                                     /\ Entering(u, x) => Entering(u, x)'
    <3>1. CASE u = t
      BY <1>2, <3>1 DEF Creating, Entering, At
    <3>2. CASE u # t
      BY <1>2, <3>2 DEF Creating, Entering, At, OthersSame
    <3> QED BY <3>1, <3>2
  <2>2. RoomFits(x)
    BY DEF Consistent
  <2> QED BY <1>2, <2>1, <2>2 DEF RoomFits
<1>5. ASSUME NEW u \in Slots PROVE SlotFits(u)'
  <2>1. CASE u = t
    BY <1>1, <1>2, <2>1 DEF SlotFits, InRoomPcs, UpdatePcs, BulkPcs
  <2>2. CASE u # t
    <3>1. req'[u] = req[u] /\ SlotFits(u) /\ Undisturbed(Clients)
      BY <1>2, <2>2 DEF OthersSame, Consistent, Undisturbed, SameFor
    <3> QED BY <3>1, RequestParts, OthersFit
  <2> QED BY <2>1, <2>2
<1> QED
  BY <1>3, <1>4, <1>5 DEF Consistent

\* A save clears changes, and touches nothing else.
LEMMA ClearConsistent ==
    ASSUME TypeOK, Consistent, NEW n \in Nodes, EventClear(n)
    PROVE  Consistent'
<1>1. PICK x \in ev[n].busy : Commit(n, x, SaveTxn(store[x], dflt[n], ev[n].saved, Relational))
  BY DEF EventClear
<1>2. x \in Rooms /\ store[x] \in RoomData /\ dflt[n] \in RoomDefaults
  BY DEF TypeOK, EventTask
<1> DEFINE s == store[x]
           y == SaveTxn(store[x], dflt[n], ev[n].saved, Relational)
<1>3. /\ y.d = dflt[n] /\ y.s.clients = s.clients /\ y.s.focuses = s.focuses
      /\ Initialized(y.s) <=> Initialized(s)
      /\ "clients" \in y.s.keys <=> "clients" \in s.keys
      /\ GetChanges(s, dflt[n]) = NoChanges => y.s.changes = NoChanges
  BY <1>2, SaveResult
<1> HIDE DEF y
<1>4. store' = [store EXCEPT ![x] = y.s] /\ dflt' = [dflt EXCEPT ![n] = y.d]
  BY <1>1 DEF Commit, y
<1>5. dflt' = dflt /\ store'[x] = y.s /\ \A r \in Rooms \ {x} : store'[r] = store[r]
  BY <1>2, <1>3, <1>4 DEF TypeOK
<1>6. UNCHANGED <<rooms, req>>
  BY DEF EventClear, local
<1>7. s.changes = NoChanges => y.s.changes = NoChanges
  BY <1>3 DEF GetChanges, Consistent, DefaultsFit
<1>8. ASSUME NEW r \in Rooms
      PROVE  /\ store'[r].clients = store[r].clients /\ store'[r].focuses = store[r].focuses
             /\ Initialized(store'[r]) <=> Initialized(store[r])
             /\ "clients" \in store'[r].keys <=> "clients" \in store[r].keys
             /\ store[r].changes = NoChanges => store'[r].changes = NoChanges
  <2>1. CASE r = x
    BY <1>3, <1>5, <1>7, <2>1
  <2>2. CASE r # x
    BY <1>5, <2>2
  <2> QED BY <2>1, <2>2
<1>9. ASSUME NEW r \in Rooms PROVE RoomFits(r)'
  <2>1. RoomFits(r)
    BY DEF Consistent
  <2>2. ASSUME NEW u \in Slots PROVE /\ Creating(u, r) => Creating(u, r)'
                                     /\ Entering(u, r) => Entering(u, r)'
    BY <1>6 DEF Creating, Entering, At
  <2>3. Sound(store'[r])
    BY <1>8, <2>1 DEF Sound, RoomFits
  <2> QED BY <1>6, <1>8, <2>1, <2>2, <2>3 DEF RoomFits
<1>10. Undisturbed(Clients)
  BY <1>5, <1>6, <1>8 DEF Undisturbed, SameFor, HasClient, GetClients
<1>11. ASSUME NEW t \in Slots PROVE SlotFits(t)'
  <2>1. SlotFits(t) /\ req'[t] = req[t]
    BY <1>6 DEF Consistent
  <2> QED BY <1>10, <2>1, RequestParts, OthersFit
<1> QED
  BY <1>5, <1>9, <1>11 DEF Consistent, DefaultsFit

LEMMA ConsistentNext ==
    Serial /\ TypeOK /\ RoomsComplete /\ Orderly /\ Consistent /\ [Next]_vars => Consistent'
<1> SUFFICES ASSUME Serial, TypeOK, RoomsComplete, Orderly, Consistent, [Next]_vars
             PROVE  Consistent'
  OBVIOUS
<1>1. ASSUME UNCHANGED <<store, dflt, rooms, req>> PROVE Consistent'
  BY <1>1 DEF Consistent, DefaultsFit, RoomFits, SlotFits, Creating, Entering, At, Busy, IsMember,
              Node
<1>2. ASSUME NEW n \in Nodes, EventStart(n) \/ EventRead(n) PROVE Consistent'
  BY <1>1, <1>2 DEF EventStart, EventRead, shared, local
<1>3. ASSUME NEW r \in Rooms, SaveItem(r) PROVE Consistent'
  BY <1>1, <1>3 DEF SaveItem, local, jobs
<1>4. CASE UNCHANGED vars
  BY <1>1, <1>4 DEF vars, shared, local
<1> QED
  BY <1>2, <1>3, <1>4, SerialJobs, ArrivalConsistent, HandlerConsistent, ClearConsistent

-----------------------------------------------------------------------------
(* What clients rely on.  A transaction changes one room, and with it what *)
(* EditingRoom says of that room, unless the room does not exist.          *)

Listed(m) == {c \in Clients : m[c] > 0}
Inside(s) == IF Initialized(s) THEN Listed(s.clients) ELSE {}
HeldIn(s) == IF Initialized(s) THEN s.focuses ELSE NoFocuses
UnsavedIn(s) == IF Initialized(s) THEN s.changes ELSE NoChanges

LEMMA RoomView ==
    ASSUME NEW r \in Rooms
    PROVE  /\ r \in OpenRooms <=> Initialized(store[r])
           /\ Present[r] = Inside(store[r])
           /\ Held[r] = HeldIn(store[r])
           /\ Unsaved[r] = UnsavedIn(store[r])
BY DEF OpenRooms, Present, Held, Unsaved, Inside, Listed, HeldIn, UnsavedIn, MemberOf

LEMMA ViewFunctions ==
    /\ Present = [y \in Rooms |-> Present[y]]
    /\ Held = [y \in Rooms |-> Held[y]]
    /\ Unsaved = [y \in Rooms |-> Unsaved[y]]
BY DEF Present, Held, Unsaved

LEMMA SelfUpdate ==
    ASSUME NEW S, NEW F, F = [y \in S |-> F[y]], NEW z \in S, NEW w, w = F[z]
    PROVE  [F EXCEPT ![z] = w] = F
OBVIOUS

LEMMA ViewStep ==
    ASSUME TypeOK, NEW r \in Rooms, NEW x, store' = [store EXCEPT ![r] = x]
    PROVE  /\ OpenRooms' = IF Initialized(x) THEN OpenRooms \cup {r} ELSE OpenRooms \ {r}
           /\ Present' = [Present EXCEPT ![r] = Inside(x)]
           /\ Held' = [Held EXCEPT ![r] = HeldIn(x)]
           /\ Unsaved' = [Unsaved EXCEPT ![r] = UnsavedIn(x)]
<1>1. \A y \in Rooms : store'[y] = IF y = r THEN x ELSE store[y]
  BY DEF TypeOK
<1>2. ASSUME NEW y \in Rooms
      PROVE  y \in OpenRooms' <=> Initialized(IF y = r THEN x ELSE store[y])
  BY <1>1 DEF OpenRooms
<1>3. OpenRooms' = IF Initialized(x) THEN OpenRooms \cup {r} ELSE OpenRooms \ {r}
  BY <1>2 DEF OpenRooms
<1>4. ASSUME NEW y \in Rooms
      PROVE  Present'[y] = IF y = r THEN Inside(x) ELSE Present[y]
  BY <1>1, <1>2 DEF Present, Inside, Listed, MemberOf, OpenRooms
<1>5. ASSUME NEW y \in Rooms
      PROVE  Held'[y] = IF y = r THEN HeldIn(x) ELSE Held[y]
  BY <1>1, <1>2 DEF Held, HeldIn, OpenRooms
<1>6. ASSUME NEW y \in Rooms
      PROVE  Unsaved'[y] = IF y = r THEN UnsavedIn(x) ELSE Unsaved[y]
  BY <1>1, <1>2 DEF Unsaved, UnsavedIn, OpenRooms
<1>7. /\ Present' = [y \in Rooms |-> Present'[y]] /\ Present = [y \in Rooms |-> Present[y]]
      /\ Held' = [y \in Rooms |-> Held'[y]] /\ Held = [y \in Rooms |-> Held[y]]
      /\ Unsaved' = [y \in Rooms |-> Unsaved'[y]] /\ Unsaved = [y \in Rooms |-> Unsaved[y]]
  BY DEF Present, Held, Unsaved
<1>8. Present' = [Present EXCEPT ![r] = Inside(x)]
  BY <1>4, <1>7
<1>9. Held' = [Held EXCEPT ![r] = HeldIn(x)]
  BY <1>5, <1>7
<1>10. Unsaved' = [Unsaved EXCEPT ![r] = UnsavedIn(x)]
  BY <1>6, <1>7
<1> QED
  BY <1>3, <1>8, <1>9, <1>10

\* Nothing clients rely on changes where a room stays away, or keeps its members,
\* focuses and changes.
LEMMA ViewStutters ==
    ASSUME TypeOK, NEW r \in Rooms, NEW x, store' = [store EXCEPT ![r] = x],
           Initialized(x) <=> Initialized(store[r]),
           Inside(x) = Inside(store[r]), HeldIn(x) = HeldIn(store[r]),
           UnsavedIn(x) = UnsavedIn(store[r])
    PROVE  UNCHANGED Editing!editing
<1>1. /\ OpenRooms' = IF Initialized(x) THEN OpenRooms \cup {r} ELSE OpenRooms \ {r}
      /\ Present' = [Present EXCEPT ![r] = Inside(x)]
      /\ Held' = [Held EXCEPT ![r] = HeldIn(x)]
      /\ Unsaved' = [Unsaved EXCEPT ![r] = UnsavedIn(x)]
  BY ViewStep
<1>2. /\ r \in OpenRooms <=> Initialized(x)
      /\ Inside(x) = Present[r] /\ HeldIn(x) = Held[r] /\ UnsavedIn(x) = Unsaved[r]
  BY RoomView
<1>3. UNCHANGED <<OpenRooms, Present, Held, Unsaved>>
  BY <1>1, <1>2, ViewFunctions, SelfUpdate
<1> QED
  BY <1>3 DEF Editing!editing

LEMMA ClosedStutters ==
    ASSUME TypeOK, NEW r \in Rooms, NEW x, store' = [store EXCEPT ![r] = x],
           ~Initialized(x), ~Initialized(store[r])
    PROVE  UNCHANGED Editing!editing
BY ViewStutters DEF Inside, HeldIn, UnsavedIn

LEMMA LookStutters ==
    ASSUME UNCHANGED store
    PROVE  UNCHANGED Editing!editing
BY DEF Editing!editing, OpenRooms, Present, Held, Unsaved, MemberOf

LEMMA OpenStep ==
    ASSUME TypeOK, NEW t \in Slots, Busy(t), InitializeCreated(t) \/ InitializeLoaded(t)
    PROVE  Editing!Next \/ UNCHANGED Editing!editing
<1> DEFINE q == req[t]
<1>0. PICK r \in Rooms : r = q.r
  BY RequestParts
<1> DEFINE s == store[r]
           x == InitTxn(s, q.init)
<1>1. q.init \in Changes
  BY RequestAt DEF Request
<1>2. store' = [store EXCEPT ![r] = x]
  BY <1>0 DEF InitializeCreated, InitializeLoaded
<1>3. CASE Initialized(s)
  <2>1. store' = store
    BY <1>2, <1>3 DEF InitTxn, TypeOK
  <2> QED BY <2>1, LookStutters
<1>4. CASE ~Initialized(s)
  <2>1. /\ Initialized(x) /\ x.clients = NoMembers /\ x.focuses = NoFocuses
        /\ x.changes = q.init
    BY <1>4 DEF InitTxn, Initialized, Keys
  <2> HIDE DEF x
  <2>2. Inside(x) = Inside(s) /\ HeldIn(x) = HeldIn(s) /\ UnsavedIn(x) = q.init
    BY <1>4, <2>1 DEF Inside, Listed, HeldIn, UnsavedIn, NoMembers
  <2>3. /\ r \notin OpenRooms /\ Inside(x) = Present[r] /\ HeldIn(x) = Held[r]
    BY <1>4, <2>2, RoomView
  <2>4. /\ OpenRooms' = OpenRooms \cup {r}
        /\ Present' = [Present EXCEPT ![r] = Inside(x)]
        /\ Held' = [Held EXCEPT ![r] = HeldIn(x)]
        /\ Unsaved' = [Unsaved EXCEPT ![r] = q.init]
    <3>1. /\ OpenRooms' = IF Initialized(x) THEN OpenRooms \cup {r} ELSE OpenRooms \ {r}
          /\ Present' = [Present EXCEPT ![r] = Inside(x)]
          /\ Held' = [Held EXCEPT ![r] = HeldIn(x)]
          /\ Unsaved' = [Unsaved EXCEPT ![r] = UnsavedIn(x)]
      BY <1>2, ViewStep
    <3> QED BY <2>1, <2>2, <3>1
  <2>5. Present' = Present /\ Held' = Held
    BY <2>3, <2>4, ViewFunctions, SelfUpdate
  <2>6. Editing!Open(r, q.init)
    BY <2>3, <2>4, <2>5 DEF Editing!Open
  <2> QED BY <1>1, <2>6 DEF Editing!Next, Changes
<1> QED
  BY <1>3, <1>4

\* A transaction on a room that exists: the room before and after it.
LEMMA OpenParts ==
    ASSUME TypeOK, RoomsComplete, NEW r \in Rooms, NEW n \in Nodes, Initialized(store[r])
    PROVE  /\ store[r] \in RoomData /\ dflt[n] \in RoomDefaults /\ Complete(store[r])
           /\ r \in OpenRooms
           /\ Present[r] = Listed(store[r].clients)
           /\ Held[r] = store[r].focuses /\ Unsaved[r] = store[r].changes
BY CompleteParts, RoomView DEF Inside, HeldIn, UnsavedIn

RoomBecomes(r, m, fo, ch) ==
    /\ UNCHANGED OpenRooms
    /\ Present' = [Present EXCEPT ![r] = Listed(m)]
    /\ Held' = [Held EXCEPT ![r] = fo]
    /\ Unsaved' = [Unsaved EXCEPT ![r] = ch]
    /\ m = store[r].clients => UNCHANGED Present
    /\ fo = store[r].focuses => UNCHANGED Held
    /\ ch = store[r].changes => UNCHANGED Unsaved

LEMMA BecomesStep ==
    ASSUME TypeOK, NEW r \in Rooms, Initialized(store[r]), NEW x, NEW m, NEW fo, NEW ch,
           store' = [store EXCEPT ![r] = x], Becomes(store[r], x, m, fo, ch)
    PROVE  RoomBecomes(r, m, fo, ch)
<1>1. /\ Initialized(x)
      /\ Inside(x) = Listed(m) /\ HeldIn(x) = fo /\ UnsavedIn(x) = ch
  BY DEF Becomes, Inside, HeldIn, UnsavedIn
<1>2. /\ r \in OpenRooms
      /\ Present[r] = Listed(store[r].clients)
      /\ Held[r] = store[r].focuses /\ Unsaved[r] = store[r].changes
  BY RoomView DEF Inside, HeldIn, UnsavedIn
<1>3. /\ OpenRooms' = OpenRooms
      /\ Present' = [Present EXCEPT ![r] = Listed(m)]
      /\ Held' = [Held EXCEPT ![r] = fo]
      /\ Unsaved' = [Unsaved EXCEPT ![r] = ch]
  <2>1. /\ OpenRooms' = IF Initialized(x) THEN OpenRooms \cup {r} ELSE OpenRooms \ {r}
        /\ Present' = [Present EXCEPT ![r] = Inside(x)]
        /\ Held' = [Held EXCEPT ![r] = HeldIn(x)]
        /\ Unsaved' = [Unsaved EXCEPT ![r] = UnsavedIn(x)]
    BY ViewStep
  <2> QED BY <1>1, <1>2, <2>1
<1> QED
  BY <1>2, <1>3, ViewFunctions, SelfUpdate DEF RoomBecomes

LEMMA EnterStep ==
    ASSUME TypeOK, RoomsComplete, NEW t \in Slots, Busy(t), Push(t)
    PROVE  Editing!Next \/ UNCHANGED Editing!editing
<1> DEFINE q == req[t]
<1>0. PICK r \in Rooms, n \in Nodes, c \in Clients : r = q.r /\ n = Node(t) /\ c = q.c
  BY RequestParts
<1> DEFINE s == store[r]
           x == PushTxn(s, dflt[n], c).s
           m == [s.clients EXCEPT ![c] = @ + 1]
<1>1. s \in RoomData /\ dflt[n] \in RoomDefaults /\ Complete(s)
  BY CompleteParts
<1>2. store' = [store EXCEPT ![r] = x]
  BY <1>0 DEF Push, Commit
<1>3. CASE Initialized(s)
  <2>1. Becomes(s, x, m, s.focuses, s.changes)
    BY <1>1, <1>3, TransactionsBecome
  <2>2. Listed(m) = Listed(s.clients) \cup {c}
    BY <1>1 DEF RoomData, Members, Listed
  <2> HIDE DEF x, m
  <2>3. r \in OpenRooms /\ Present[r] = Listed(s.clients)
    BY <1>3, OpenParts
  <2>4. /\ UNCHANGED <<OpenRooms, Held, Unsaved>>
        /\ Present' = [Present EXCEPT ![r] = Listed(m)]
    <3> HIDE DEF s
    <3>1. store' = [store EXCEPT ![r] = x] /\ Initialized(store[r])
          /\ Becomes(store[r], x, m, store[r].focuses, store[r].changes)
      BY <1>2, <1>3, <2>1 DEF s
    <3>2. RoomBecomes(r, m, store[r].focuses, store[r].changes)
      BY <3>1, BecomesStep
    <3> QED BY <3>2 DEF RoomBecomes
  <2>5. CASE c \notin Present[r]
    <3>1. Editing!Enter(r, c)
      BY <2>2, <2>3, <2>4, <2>5 DEF Editing!Enter
    <3> QED BY <3>1 DEF Editing!Next
  <2>6. CASE c \in Present[r]
    <3>1. Listed(m) = Present[r]
      BY <2>2, <2>3, <2>6
    <3> QED BY <2>4, <3>1, ViewFunctions, SelfUpdate DEF Editing!editing
  <2> QED BY <2>5, <2>6
<1>4. CASE ~Initialized(s)
  <2>1. ~Initialized(x)
    BY <1>1, <1>4, TransactionsStayClosed
  <2> HIDE DEF x
  <2> QED BY <1>2, <1>4, <2>1, ClosedStutters
<1> QED
  BY <1>3, <1>4

\* The room of a careful handler that has found its client there.
LEMMA CarefulParts ==
    ASSUME TypeOK, RoomsComplete, Serial => Consistent, NEW t \in Slots, Busy(t),
           req[t].pc \in InRoomPcs, NEW r \in Rooms, NEW c \in Clients,
           r = req[t].r, c = req[t].c
    PROVE  Serial => c \in Present[r]
<1> SUFFICES ASSUME Serial PROVE c \in Present[r]
  OBVIOUS
<1>1. Initialized(store[r]) /\ store[r].clients[c] = 1
  BY DEF Consistent, SlotFits
<1>2. c \in Inside(store[r])
  BY <1>1 DEF Inside, Listed
<1> QED
  BY <1>2, RoomView
\* A client leaves: it asks to, or its connection is lost.
LEMMA LeaveView ==
    ASSUME TypeOK, RoomsComplete, NEW r \in Rooms, NEW n \in Nodes, NEW c \in Clients,
           Serial => c \in Present[r],
           store' = [store EXCEPT ![r] = LeaveTxn(store[r], dflt[n], c).s]
    PROVE  Editing!Next \/ UNCHANGED Editing!editing
<1> DEFINE s == store[r]
           x == LeaveTxn(s, dflt[n], c).s
           m == [s.clients EXCEPT ![c] = 0]
           fo == [s.focuses EXCEPT ![c] = NoField]
           ch == IF Empty(m) THEN NoChanges ELSE s.changes
<1>1. s \in RoomData /\ dflt[n] \in RoomDefaults /\ Complete(s)
  BY CompleteParts
<1>2. CASE Initialized(s)
  <2>1. Becomes(s, x, m, fo, ch)
    BY <1>1, <1>2, TransactionsBecome
  <2>2. Listed(m) = Listed(s.clients) \ {c}
    BY <1>1 DEF RoomData, Members, Listed
  <2>3. Empty(m) <=> Listed(s.clients) \subseteq {c}
    <3>1. m \in Members
      BY <1>1 DEF RoomData, Members
    <3> HIDE DEF m
    <3>2. Empty(m) <=> Listed(m) = {}
      BY <3>1 DEF Empty, Listed, Members
    <3> QED BY <2>2, <3>2
  <2>4. /\ r \in OpenRooms /\ Present[r] = Listed(s.clients)
        /\ Held[r] = s.focuses /\ Unsaved[r] = s.changes
    BY <1>2, RoomView DEF Inside, HeldIn, UnsavedIn
  <2> HIDE DEF x, m, fo, ch
  <2>5. RoomBecomes(r, m, fo, ch)
    BY <1>2, <2>1, BecomesStep DEF x
  <2>6. /\ fo = [Held[r] EXCEPT ![c] = NoField]
        /\ ch = IF Present[r] \subseteq {c} THEN NoChanges ELSE Unsaved[r]
        /\ Listed(m) = Present[r] \ {c}
    BY <2>2, <2>3, <2>4 DEF fo, ch
  <2>7. /\ OpenRooms' = OpenRooms
        /\ Present' = [Present EXCEPT ![r] = Present[r] \ {c}]
        /\ Held' = [Held EXCEPT ![r] = [Held[r] EXCEPT ![c] = NoField]]
        /\ Unsaved' = [Unsaved EXCEPT ![r] = IF Present[r] \subseteq {c} THEN NoChanges ELSE Unsaved[r]]
    BY <2>5, <2>6 DEF RoomBecomes
  <2>8. Editing!Leave(r, c)
    BY <2>4, <2>7 DEF Editing!Leave, Editing!Unchanged, NoChanges
  <2> QED BY <2>8 DEF Editing!Next
<1>3. CASE ~Initialized(s)
  <2>1. ~Initialized(x)
    BY <1>1, <1>3, TransactionsStayClosed
  <2> HIDE DEF s
  <2> QED BY <1>3, <2>1, ClosedStutters DEF s
<1> QED
  BY <1>2, <1>3

LEMMA LeaveStep ==
    ASSUME TypeOK, RoomsComplete, Serial => Consistent, NEW t \in Slots, Busy(t), Leave(t)
    PROVE  Editing!Next \/ UNCHANGED Editing!editing
<1>0. PICK r \in Rooms, n \in Nodes, c \in Clients : r = req[t].r /\ n = Node(t) /\ c = req[t].c
  BY RequestParts
<1>1. req[t].pc \in InRoomPcs
  BY DEF Leave, At, InRoomPcs
<1>2. Serial => c \in Present[r]
  BY <1>0, <1>1, CarefulParts
<1>3. store' = [store EXCEPT ![r] = LeaveTxn(store[r], dflt[n], c).s]
  BY <1>0 DEF Leave, Commit
<1> QED
  BY <1>2, <1>3, LeaveView

LEMMA LostStep ==
    ASSUME TypeOK, RoomsComplete, Serial => Orderly, NEW c \in Clients, LeaveFound(c)
    PROVE  Editing!Next \/ UNCHANGED Editing!editing
<1>1. PICK r \in conn[c].found : Commit(Home[c], r, LeaveTxn(store[r], dflt[Home[c]], c))
  BY DEF LeaveFound
<1>2. r \in Rooms /\ Home[c] \in Nodes
  BY HomeAssumption DEF TypeOK, Connection
<1>3. ~Serial
  BY DEF LeaveFound, Orderly, NothingCloses
<1>4. store' = [store EXCEPT ![r] = LeaveTxn(store[r], dflt[Home[c]], c).s]
  BY <1>1 DEF Commit
<1> QED
  BY <1>2, <1>3, <1>4, LeaveView

LEMMA FocusStep ==
    ASSUME TypeOK, RoomsComplete, Serial => Consistent, NEW t \in Slots, Busy(t),
           TakeFocus(t) \/ Focus(t)
    PROVE  Editing!Next \/ UNCHANGED Editing!editing
<1>0. PICK r \in Rooms, n \in Nodes, c \in Clients, f \in Fields \cup {NoField} :
          r = req[t].r /\ n = Node(t) /\ c = req[t].c /\ f = req[t].f
  BY RequestParts, RequestAt DEF Request
<1> DEFINE s == store[r]
           x == FocusTxn(s, dflt[n], c, f).s
           free == f = NoField \/ FocusersOf(s.focuses, f) \subseteq {c}
           fo == IF free THEN [s.focuses EXCEPT ![c] = f] ELSE s.focuses
<1>1. req[t].pc \in InRoomPcs
  BY DEF TakeFocus, Focus, At, InRoomPcs, UpdatePcs
<1>2. s \in RoomData /\ dflt[n] \in RoomDefaults /\ Complete(s)
  BY CompleteParts
<1>3. store' = [store EXCEPT ![r] = x]
  BY <1>0 DEF TakeFocus, Focus, Commit
<1>4. Serial => c \in Present[r]
  BY <1>0, <1>1, CarefulParts
<1>5. CASE Initialized(s)
  <2>1. Becomes(s, x, s.clients, fo, s.changes)
    BY <1>2, <1>5, TransactionsBecome
  <2>2. r \in OpenRooms /\ Held[r] = s.focuses
    BY <1>5, RoomView DEF HeldIn
  <2> HIDE DEF x, fo
  <2>3. RoomBecomes(r, s.clients, fo, s.changes)
    BY <1>3, <1>5, <2>1, BecomesStep
  <2>4. UNCHANGED <<OpenRooms, Present, Unsaved>> /\ Held' = [Held EXCEPT ![r] = fo]
    BY <2>3 DEF RoomBecomes
  <2>5. CASE free
    <3>1. f = NoField \/ \A e \in Clients \ {c} : Held[r][e] # f
      BY <2>2, <2>5 DEF FocusersOf
    <3>2. Held' = [Held EXCEPT ![r] = [Held[r] EXCEPT ![c] = f]]
      BY <2>2, <2>4, <2>5 DEF fo
    <3>3. Editing!Focus(r, c, f)
      BY <1>4, <2>2, <2>4, <3>1, <3>2 DEF Editing!Focus
    <3> QED BY <3>3 DEF Editing!Next
  <2>6. CASE ~free
    <3>1. fo = Held[r]
      BY <2>2, <2>6 DEF fo
    <3> QED BY <2>4, <3>1, ViewFunctions, SelfUpdate DEF Editing!editing
  <2> QED BY <2>5, <2>6
<1>6. CASE ~Initialized(s)
  <2>1. ~Initialized(x)
    BY <1>2, <1>6, TransactionsStayClosed
  <2> HIDE DEF x
  <2> QED BY <1>3, <1>6, <2>1, ClosedStutters
<1> QED
  BY <1>5, <1>6

\* What a careful handler writes is a field its client holds.
LEMMA WrittenFields ==
    ASSUME TypeOK, RoomsComplete, Fitting, Serial => Consistent, NEW t \in Slots, Busy(t),
           Write(t) \/ WriteAll(t), NEW r \in Rooms, NEW c \in Clients, NEW fs,
           r = req[t].r, c = req[t].c, fs = IF Write(t) THEN {req[t].f} ELSE req[t].fs
    PROVE  fs \in SUBSET Fields /\ req[t].v \in Values /\ Editing!Written(r, c, fs)
<1>1. req[t] \in Request
  BY RequestAt
<1>2. CASE Write(t)
  <2>1. req[t].pc = "write"
    BY <1>2 DEF Write, At
  <2>2. req[t].f \in Fields /\ req[t].v \in Values
    BY <2>1 DEF Fitting, KindFits, UpdatePcs
  <2>3. Serial => {req[t].f} = {Held[r][c]}
    <3> SUFFICES ASSUME Serial PROVE req[t].f = Held[r][c]
      OBVIOUS
    <3>1. SlotFits(t)
      BY DEF Consistent
    <3>2. store[r].focuses[c] = req[t].f /\ Initialized(store[r])
      BY <2>1, <3>1 DEF SlotFits, InRoomPcs, UpdatePcs
    <3> QED BY <3>2, RoomView DEF HeldIn
  <2> QED BY <1>2, <2>2, <2>3 DEF Editing!Written
<1>3. CASE ~Write(t)
  <2>1. req[t].pc = "writeAll"
    BY <1>3 DEF WriteAll, At
  <2>2. req[t].v \in Values /\ "updateAll" \in Messages
    BY <2>1 DEF Fitting, KindFits, BulkPcs
  <2>3. req[t].fs \in SUBSET Fields
    BY <1>1 DEF Request
  <2> QED BY <1>3, <2>2, <2>3 DEF Editing!Written
<1> QED
  BY <1>2, <1>3

LEMMA EditStep ==
    ASSUME TypeOK, RoomsComplete, Fitting, Serial => Consistent, NEW t \in Slots, Busy(t),
           Write(t) \/ WriteAll(t)
    PROVE  Editing!Next \/ UNCHANGED Editing!editing
<1>a. PICK r \in Rooms, n \in Nodes, c \in Clients : r = req[t].r /\ n = Node(t) /\ c = req[t].c
  BY RequestParts
<1>b. PICK fs, v : v = req[t].v /\ fs = IF Write(t) THEN {req[t].f} ELSE req[t].fs
  OBVIOUS
<1> DEFINE s == store[r]
           x == UpdateTxn(s, dflt[n], fs, v).s
           ch == [g \in Fields |-> IF g \in fs THEN v ELSE s.changes[g]]
<1>1. req[t].pc \in InRoomPcs
  BY DEF Write, WriteAll, At, InRoomPcs, UpdatePcs, BulkPcs
<1>2. s \in RoomData /\ dflt[n] \in RoomDefaults /\ Complete(s)
  BY CompleteParts
<1>3. store' = [store EXCEPT ![r] = x]
  <2>1. CASE Write(t)
    BY <1>a, <1>b, <2>1 DEF Write, Commit
  <2>2. CASE ~Write(t)
    BY <1>a, <1>b, <2>2 DEF WriteAll, Commit
  <2> QED BY <2>1, <2>2
<1>4. Serial => c \in Present[r]
  BY <1>a, <1>b, <1>1, CarefulParts
<1>5. fs \in SUBSET Fields /\ v \in Values /\ Editing!Written(r, c, fs)
  BY <1>a, <1>b, WrittenFields
<1>6. CASE Initialized(s)
  <2>1. Becomes(s, x, s.clients, s.focuses, ch)
    BY <1>2, <1>6, TransactionsBecome
  <2>2. r \in OpenRooms /\ Unsaved[r] = s.changes
    BY <1>6, RoomView DEF UnsavedIn
  <2>3. ch = [g \in Fields |-> IF g \in fs THEN v ELSE Unsaved[r][g]]
    BY <2>2
  <2> HIDE DEF x, ch
  <2>4. RoomBecomes(r, s.clients, s.focuses, ch)
    BY <1>3, <1>6, <2>1, BecomesStep
  <2>5. UNCHANGED <<OpenRooms, Present, Held>> /\ Unsaved' = [Unsaved EXCEPT ![r] = ch]
    BY <2>4 DEF RoomBecomes
  <2>6. Editing!Edit(r, c, fs, v)
    BY <1>4, <1>5, <2>2, <2>3, <2>5 DEF Editing!Edit
  <2> QED BY <1>5, <2>6 DEF Editing!Next
<1>7. CASE ~Initialized(s)
  <2>1. ~Initialized(x)
    BY <1>a, <1>b, <1>2, <1>7, TransactionsStayClosed
  <2> HIDE DEF x
  <2> QED BY <1>3, <1>7, <2>1, ClosedStutters
<1> QED
  BY <1>6, <1>7
\* Fields are cleared: by a client that unsets or discards them.
LEMMA ClearStep ==
    ASSUME TypeOK, NEW r \in Rooms, Initialized(store[r]), NEW x, NEW fs \in SUBSET Fields,
           store' = [store EXCEPT ![r] = x],
           Becomes(store[r], x, store[r].clients, store[r].focuses,
                   [g \in Fields |-> IF g \in fs THEN NoValue ELSE store[r].changes[g]])
    PROVE  Editing!Next
<1> DEFINE ch == [g \in Fields |-> IF g \in fs THEN NoValue ELSE store[r].changes[g]]
<1>1. r \in OpenRooms /\ Unsaved[r] = store[r].changes
  BY RoomView DEF UnsavedIn
<1>2. ch = [g \in Fields |-> IF g \in fs THEN NoValue ELSE Unsaved[r][g]]
  BY <1>1
<1> HIDE DEF ch
<1>3. RoomBecomes(r, store[r].clients, store[r].focuses, ch)
  BY BecomesStep DEF ch
<1>4. UNCHANGED <<OpenRooms, Present, Held>> /\ Unsaved' = [Unsaved EXCEPT ![r] = ch]
  BY <1>3 DEF RoomBecomes
<1>5. Editing!Clear(r, fs)
  BY <1>1, <1>2, <1>4 DEF Editing!Clear
<1> QED
  BY <1>5 DEF Editing!Next

LEMMA DropStep ==
    ASSUME TypeOK, RoomsComplete, NEW t \in Slots, Busy(t), Unset(t) \/ Discard(t)
    PROVE  Editing!Next \/ UNCHANGED Editing!editing
<1>0. PICK r \in Rooms, n \in Nodes, c \in Clients : r = req[t].r /\ n = Node(t) /\ c = req[t].c
  BY RequestParts
<1> DEFINE s == store[r]
           d == dflt[n]
           dropped(fs) == [g \in Fields |-> IF g \in fs THEN NoValue ELSE s.changes[g]]
<1>1. s \in RoomData /\ d \in RoomDefaults /\ Complete(s)
  BY CompleteParts
<1>2. ASSUME NEW fs \in SUBSET Fields, store' = [store EXCEPT ![r] = DropTxn(s, d, fs).s]
      PROVE  Editing!Next \/ UNCHANGED Editing!editing
  <2>1. CASE Initialized(s)
    <3>1. Becomes(s, DropTxn(s, d, fs).s, s.clients, s.focuses, dropped(fs))
      BY <1>1, <2>1, TransactionsBecome
    <3> QED BY <1>2, <2>1, <3>1, ClearStep
  <2>2. CASE ~Initialized(s)
    <3>1. ~Initialized(DropTxn(s, d, fs).s)
      BY <1>0, <1>1, <2>2, TransactionsStayClosed
    <3> QED BY <1>2, <2>2, <3>1, ClosedStutters
  <2> QED BY <2>1, <2>2
<1>3. CASE Unset(t)
  <2>1. DropTxn(s, d, {req[t].f}) = DropTxn(s, d, {req[t].f} \cap Fields)
    BY DEF DropTxn
  <2>2. store' = [store EXCEPT ![r] = DropTxn(s, d, {req[t].f} \cap Fields).s]
    BY <1>0, <1>3, <2>1 DEF Unset, Commit
  <2> QED BY <1>2, <2>2
<1>4. CASE Discard(t) /\ req[t].kind # "discardAll"
  <2>1. store' = [store EXCEPT ![r] = DropTxn(s, d, req[t].fs).s]
    BY <1>0, <1>4 DEF Discard, Commit
  <2>2. req[t].fs \in SUBSET Fields
    BY RequestAt DEF Request
  <2> QED BY <1>2, <2>1, <2>2
<1>5. CASE Discard(t) /\ req[t].kind = "discardAll"
  <2>1. store' = [store EXCEPT ![r] = DropAllTxn(s, d).s]
    BY <1>0, <1>5 DEF Discard, Commit
  <2>2. CASE Initialized(s)
    <3>1. Becomes(s, DropAllTxn(s, d).s, s.clients, s.focuses, NoChanges)
      BY <1>0, <1>1, <2>2, TransactionsBecome
    <3>2. NoChanges = dropped(Fields)
      BY DEF NoChanges
    <3> QED BY <2>1, <2>2, <3>1, <3>2, ClearStep
  <2>3. CASE ~Initialized(s)
    <3>1. ~Initialized(DropAllTxn(s, d).s)
      BY <1>0, <1>1, <2>3, TransactionsStayClosed
    <3> QED BY <2>1, <2>3, <3>1, ClosedStutters
  <2> QED BY <2>2, <2>3
<1> QED
  BY <1>3, <1>4, <1>5

\* ... or because they have been saved.  A room that does not exist has no changes.
LEMMA SavedStep ==
    ASSUME TypeOK, RoomsComplete, NEW n \in Nodes, EventClear(n)
    PROVE  Editing!Next \/ UNCHANGED Editing!editing
<1>1. PICK r \in ev[n].busy : Commit(n, r, SaveTxn(store[r], dflt[n], ev[n].saved, Relational))
  BY DEF EventClear
<1>2. r \in Rooms /\ store[r] \in RoomData /\ dflt[n] \in RoomDefaults /\ Complete(store[r])
  <2>1. r \in Rooms
    BY DEF TypeOK, EventTask
  <2> QED BY <2>1, CompleteParts
<1> DEFINE s == store[r]
           x == SaveTxn(s, dflt[n], ev[n].saved, Relational).s
<1>3. store' = [store EXCEPT ![r] = x]
  BY <1>1 DEF Commit
<1>4. CASE Initialized(s)
  <2> DEFINE fs == {g \in Fields : g \in Relational \/ s.changes[g] = ev[n].saved[g]}
             ch == [g \in Fields |-> IF g \in fs THEN NoValue ELSE s.changes[g]]
  <2>1. Becomes(s, x, s.clients, s.focuses, ch)
    BY <1>2, <1>4, SaveBecomes
  <2>2. fs \in SUBSET Fields
    OBVIOUS
  <2> HIDE DEF x, fs
  <2> QED BY <1>2, <1>3, <1>4, <2>1, <2>2, ClearStep
<1>5. CASE ~Initialized(s)
  <2>1. ~Initialized(x)
    BY <1>2, <1>5, SaveResult
  <2> HIDE DEF x
  <2> QED BY <1>2, <1>3, <1>5, <2>1, ClosedStutters
<1> QED
  BY <1>4, <1>5

\* A room is closed: it is empty, or its item has been deleted.
LEMMA CloseView ==
    ASSUME TypeOK, RoomsComplete, ~Serial, NEW r \in Rooms, NEW n \in Nodes, NEW force \in BOOLEAN,
           force => "delete" \in Jobs,
           store' = [store EXCEPT ![r] = CloseTxn(store[r], dflt[n], force)]
    PROVE  Editing!Next \/ UNCHANGED Editing!editing
<1> DEFINE s == store[r]
           x == CloseTxn(s, dflt[n], force)
<1>1. s \in RoomData /\ dflt[n] \in RoomDefaults /\ Complete(s)
  BY CompleteParts
<1>2. CASE Closes(s, dflt[n], force)
  <2>1. Initialized(s) /\ x = Absent
    BY <1>2 DEF Closes, CloseTxn
  <2>2. force \/ Empty(s.clients)
    BY <1>1, <1>2, <2>1 DEF Closes, GetClients, Complete, Keys
  <2>3. ~Initialized(x) /\ Inside(x) = {} /\ HeldIn(x) = NoFocuses /\ UnsavedIn(x) = NoChanges
    BY <2>1 DEF Absent, Initialized, Inside, HeldIn, UnsavedIn
  <2>4. r \in OpenRooms /\ Present[r] = Listed(s.clients)
    BY <2>1, RoomView DEF Inside
  <2>5. "delete" \in Jobs \/ Present[r] = {}
    <3>1. Empty(s.clients) => Listed(s.clients) = {}
      BY DEF Empty, Listed
    <3> QED BY <2>2, <2>4, <3>1
  <2> HIDE DEF x
  <2>6. /\ OpenRooms' = OpenRooms \ {r}
        /\ Present' = [Present EXCEPT ![r] = {}]
        /\ Held' = [Held EXCEPT ![r] = NoFocuses]
        /\ Unsaved' = [Unsaved EXCEPT ![r] = NoChanges]
    <3>1. /\ OpenRooms' = IF Initialized(x) THEN OpenRooms \cup {r} ELSE OpenRooms \ {r}
          /\ Present' = [Present EXCEPT ![r] = Inside(x)]
          /\ Held' = [Held EXCEPT ![r] = HeldIn(x)]
          /\ Unsaved' = [Unsaved EXCEPT ![r] = UnsavedIn(x)]
      BY ViewStep DEF x
    <3> QED BY <2>3, <3>1
  <2>7. Editing!Close(r)
    BY <2>4, <2>5, <2>6 DEF Editing!Close, Editing!Unfocused, Editing!Unchanged, NoFocuses, NoChanges
  <2> QED BY <2>7 DEF Editing!Next
<1>3. CASE ~Closes(s, dflt[n], force)
  <2>1. store' = store
    BY <1>3 DEF CloseTxn, TypeOK
  <2> QED BY <2>1, LookStutters
<1> QED
  BY <1>2, <1>3

LEMMA SweptStep ==
    ASSUME TypeOK, RoomsComplete, Serial => Orderly, NEW n \in Nodes, SweepClose(n)
    PROVE  Editing!Next \/ UNCHANGED Editing!editing
<1>1. PICK r \in sweep[n].todo : store' = [store EXCEPT ![r] = CloseTxn(store[r], dflt[n], FALSE)]
  BY DEF SweepClose
<1>2. r \in Rooms
  BY DEF TypeOK, Cleanup
<1>3. ~Serial
  BY DEF SweepClose, Orderly, NothingCloses
<1> QED
  BY <1>1, <1>2, <1>3, CloseView

LEMMA DeletedStep ==
    ASSUME TypeOK, RoomsComplete, Serial => Orderly, "delete" \in Jobs \/ NoDeletion,
           NEW n \in Nodes, EventClose(n)
    PROVE  Editing!Next \/ UNCHANGED Editing!editing
<1>1. PICK r \in ev[n].busy : store' = [store EXCEPT ![r] = CloseTxn(store[r], dflt[n], TRUE)]
  BY DEF EventClose
<1>2. r \in Rooms
  BY DEF TypeOK, EventTask
<1>3. ~Serial /\ "delete" \in Jobs
  BY DEF EventClose, Orderly, NothingCloses, NoDeletion
<1> QED
  BY <1>1, <1>2, <1>3, CloseView

\* The invariant: what holds whatever clients and jobs do, and what careful
\* clients may rely on besides.
IInv ==
    /\ Fitting
    /\ RoomsComplete
    /\ "delete" \in Jobs \/ NoDeletion
    /\ Serial => Orderly /\ Consistent

LEMMA IInvariant == Spec => []IInv
<1>1. Init => IInv
  <2>1. Init => Fitting /\ NoDeletion
    BY OrderlyInit DEF Orderly, NothingCloses
  <2>2. Init => RoomsComplete
    BY DEF Init, RoomsComplete, Complete, Absent, Initialized
  <2> QED BY <2>1, <2>2, OrderlyInit, ConsistentInit DEF IInv
<1>2. TypeOK /\ IInv /\ [Next]_vars => IInv'
  BY FittingNext, CompleteNext, NoDeletionNext, OrderlyNext, ConsistentNext DEF IInv
<1> QED
  BY <1>1, <1>2, TypeCorrect, PTL DEF Spec

\* To their clients the rooms are those of EditingRoom, whatever clients and jobs
\* do: every transaction of a handler, whatever it has read before, of a lost
\* connection, of the cleanup and of an item event is one of its steps, or changes
\* nothing there.
THEOREM RoomsAreEditingRooms == Spec => IsEditingRoom
<1>1. Init => Editing!Init
  <2> SUFFICES ASSUME Init PROVE Editing!Init
    OBVIOUS
  <2>1. ASSUME NEW r \in Rooms PROVE r \notin OpenRooms
    BY <2>1 DEF Init, Absent, OpenRooms, Initialized
  <2>2. OpenRooms = {}
    BY <2>1 DEF OpenRooms
  <2>3. /\ Present = [r \in Rooms |-> {}]
        /\ Held = [r \in Rooms |-> NoFocuses] /\ Unsaved = [r \in Rooms |-> NoChanges]
    BY <2>2 DEF Present, Held, Unsaved
  <2> QED BY <2>2, <2>3
             DEF Editing!Init, Editing!Unfocused, Editing!Unchanged, NoFocuses, NoChanges
<1>2. TypeOK /\ IInv /\ [Next]_vars => [Editing!Next]_(Editing!editing)
  <2> SUFFICES ASSUME TypeOK, IInv, [Next]_vars
               PROVE  Editing!Next \/ UNCHANGED Editing!editing
    OBVIOUS
  <2>1. /\ Fitting /\ RoomsComplete /\ ("delete" \in Jobs \/ NoDeletion)
        /\ Serial => Consistent
        /\ Serial => Orderly
    BY DEF IInv
  <2>2. CASE UNCHANGED store
    BY <2>2, LookStutters
  <2>3. ASSUME NEW t \in Slots, NEW c \in Clients, NEW r \in Rooms, Arrival(t, c, r)
        PROVE  UNCHANGED store
    BY <2>3 DEF Arrival, ReceiveJoin, ReceiveLeave, ReceiveUpdate, ReceiveUnset, ReceiveUpdateAll,
                ReceiveFocus, ReceiveDiscard, Receive, shared
  <2>4. ASSUME NEW n \in Nodes, NEW r \in Rooms, ReceiveClose(n, r) PROVE UNCHANGED store
    BY <2>4 DEF ReceiveClose, shared
  <2>5. ASSUME NEW r \in Rooms, SaveItem(r) \/ DeleteItem(r) PROVE UNCHANGED store
    BY <2>5 DEF SaveItem, DeleteItem, shared
  <2>6. ASSUME NEW c \in Clients, Closing(c)
        PROVE  Editing!Next \/ UNCHANGED Editing!editing
    <3>1. UNCHANGED store \/ LeaveFound(c)
      BY <2>6 DEF Closing, Disconnect, ScanRoom, ScanDone, shared
    <3> QED BY <2>1, <2>2, <3>1, LostStep
  <2>7. ASSUME NEW n \in Nodes, Sweep(n) \/ Events(n)
        PROVE  Editing!Next \/ UNCHANGED Editing!editing
    <3>1. UNCHANGED store \/ SweepClose(n) \/ EventClear(n) \/ EventClose(n)
      BY <2>7 DEF Sweep, Events, SweepStart, SweepClosed, EventStart, EventRead, EventClosed, shared
    <3> QED BY <2>1, <2>2, <3>1, SweptStep, SavedStep, DeletedStep
  <2>8. ASSUME NEW t \in Slots, Handler(t)
        PROVE  Editing!Next \/ UNCHANGED Editing!editing
    <3>1. Busy(t)
      BY <2>8, HandlerBusy
    <3>2. CASE Looks(t)
      BY <3>1, <3>2, LookKeeps, LookStutters
    <3>3. CASE InitializeCreated(t) \/ InitializeLoaded(t)
      BY <3>1, <3>3, OpenStep
    <3>4. CASE Push(t)
      BY <2>1, <3>1, <3>4, EnterStep
    <3>5. CASE Leave(t)
      BY <2>1, <3>1, <3>5, LeaveStep
    <3>6. CASE TakeFocus(t) \/ Focus(t)
      BY <2>1, <3>1, <3>6, FocusStep
    <3>7. CASE Write(t) \/ WriteAll(t)
      BY <2>1, <3>1, <3>7, EditStep
    <3>8. CASE Unset(t) \/ Discard(t)
      BY <2>1, <3>1, <3>8, DropStep
    <3> QED BY <2>8, <3>2, <3>3, <3>4, <3>5, <3>6, <3>7, <3>8 DEF Handler, Looks
  <2>9. CASE UNCHANGED vars
    BY <2>2, <2>9 DEF vars, shared
  <2> QED BY <2>2, <2>3, <2>4, <2>5, <2>6, <2>7, <2>8, <2>9 DEF Next
<1> QED
  BY <1>1, <1>2, TypeCorrect, IInvariant, PTL DEF Spec, IsEditingRoom, Editing!Spec
=============================================================================
