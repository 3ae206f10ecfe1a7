------------------------ MODULE CollabCluster_proofs ------------------------
(* Proofs about the registry of instances and the jobs that clean up: the  *)
(* types of the variables, and that a connected client is registered.      *)
EXTENDS CollabCluster, TLAPS, SequenceTheorems

USE HomeAssumption, JobAssumption, FlagAssumption

-----------------------------------------------------------------------------
(* What steps make of rooms, queues and handlers                           *)

LEMMA RoomTypes ==
    /\ NoRoom \in Room
    /\ \A x \in Room : /\ Initialize(x) \in Room
                       /\ \A c \in Clients : /\ WithoutClient(x, c) \in Room
                                             /\ [x EXCEPT !.clients = @ \cup {c}] \in Room
BY DEF Room, NoRoom, Initialize, WithoutClient

LEMMA EntryTypes ==
    /\ NoEntry \in Entry /\ NewEntry \in Entry
    /\ \A e \in Entry, r \in Rooms : /\ [e EXCEPT !.rooms = @ \ {r}] \in Entry
                                     /\ [e EXCEPT !.known = TRUE, !.rooms = @ \cup {r}] \in Entry
<1>1. NoEntry \in Entry /\ NewEntry \in Entry
  BY DEF Entry, NoEntry, NewEntry
<1>2. ASSUME NEW e \in Entry, NEW r \in Rooms
      PROVE  /\ [e EXCEPT !.rooms = @ \ {r}] \in Entry
             /\ [e EXCEPT !.known = TRUE, !.rooms = @ \cup {r}] \in Entry
  BY DEF Entry
<1> QED
  BY <1>1, <1>2

\* What a transaction makes of the clients of an entry.
Kept(e, x) ==
    CASE x.kind = "register" -> {}
      [] x.kind = "add" -> e.clients \cup {x.c}
      [] x.kind = "remove" -> e.clients \ {x.c}

LEMMA AppliedType ==
    ASSUME NEW e \in Entry, NEW x \in Transaction
    PROVE  /\ Applied(e, x) \in Entry
           /\ Applied(e, x).clients = Kept(e, x)
           /\ Applied(e, x).known => e.known \/ x.kind \in {"register", "add"}
<1>1. CASE x.kind = "register"
  BY <1>1, EntryTypes DEF Applied, Kept, NewEntry
<1>2. CASE x.kind = "add"
  <2>1. x.c \in Clients
    BY <1>2 DEF Transaction, Register
  <2> QED BY <1>2, <2>1 DEF Applied, Kept, Entry
<1>3. CASE x.kind = "remove"
  <2>1. x.c \in Clients
    BY <1>3 DEF Transaction, Register
  <2> QED BY <1>3, <2>1 DEF Applied, Kept, Entry
<1> QED
  BY <1>1, <1>2, <1>3 DEF Transaction, Register

LEMMA AddClientType ==
    ASSUME TypeOK, NEW n \in Instances, NEW c \in Clients, AddClient(n, c)
    PROVE  /\ clients' \in [Instances -> SUBSET Clients]
           /\ pending' \in [Instances -> Seq(Transaction)]
<1> DEFINE s == Append(pending[n], [kind |-> "add", c |-> c])
<1>1. [kind |-> "add", c |-> c] \in Transaction
  BY DEF Transaction
<1>2. s \in Seq(Transaction)
  BY <1>1, AppendProperties DEF TypeOK
<1>3. CASE UNCHANGED <<clients, pending>>
  BY <1>3 DEF TypeOK
<1>4. CASE clients' = [clients EXCEPT ![n] = @ \cup {c}] /\ pending' = [pending EXCEPT ![n] = s]
  <2> HIDE DEF s
  <2>1. clients' \in [Instances -> SUBSET Clients]
    BY <1>4 DEF TypeOK
  <2>2. pending' \in [Instances -> Seq(Transaction)]
    BY <1>2, <1>4 DEF TypeOK
  <2> QED BY <2>1, <2>2
<1> QED
  BY <1>3, <1>4 DEF AddClient

LEMMA JoinType ==
    ASSUME TypeOK, NEW c \in Clients
    PROVE  /\ \A pc \in {"create", "init", "register", "listen", "has", "push", "done"} :
                  JoinGoto(c, pc) => join' \in [Clients -> Join] /\ join'[c].pc = pc
                                     /\ \A d \in Clients : d # c => join'[d] = join[d]
           /\ JoinDone(c) => join' \in [Clients -> Join] /\ join'[c].pc = "done"
                             /\ \A d \in Clients : d # c => join'[d] = join[d]
<1>1. join \in [Clients -> Join] /\ join[c] \in Join
  BY DEF TypeOK
<1>2. ASSUME NEW pc \in {"create", "init", "register", "listen", "has", "push", "done"}, JoinGoto(c, pc)
      PROVE  join' \in [Clients -> Join] /\ join'[c].pc = pc
             /\ \A d \in Clients : d # c => join'[d] = join[d]
  <2>1. [join[c] EXCEPT !.pc = pc] \in Join /\ [join[c] EXCEPT !.pc = pc].pc = pc
    BY <1>1 DEF Join
  <2>2. join' = [join EXCEPT ![c] = [join[c] EXCEPT !.pc = pc]]
    BY <1>2 DEF JoinGoto
  <2> QED BY <1>1, <2>1, <2>2
<1>3. [pc |-> "done", at |-> {}] \in Join
  BY DEF Join
<1> QED
  BY <1>1, <1>2, <1>3 DEF JoinDone

LEMMA ForgetType ==
    ASSUME TypeOK, NEW n \in Instances, NEW r \in Rooms, Forget(n, r)
    PROVE  /\ mail' \in [Instances -> SUBSET Rooms]
           /\ listeners' \in [Instances -> SUBSET Rooms]
           /\ rooms' \in [Instances -> SUBSET Rooms]
BY DEF TypeOK, Forget

-----------------------------------------------------------------------------
(* What the steps of the jobs make of their local variables                *)

PruneFits(x) ==
    /\ x.pc = "get" => x.rooms # {}
    /\ x.pc = "evict" => x.todo # {}
SweepFits(x) ==
    /\ x.pc = "evict" => x.invalid # {}
    /\ x.pc = "leave" => x.who # {} /\ x.at # {}
    /\ x.pc = "close" => x.rooms # {}

\* The job waits for instances it has seen in the registry, and takes those for dead
\* that have not answered.
SilentFits(n, x) ==
    /\ x.pc = "wait" =>
           \/ \A m \in x.silent : registry[m].known
           \/ prune[n].pc = "wait" /\ x.silent \subseteq prune[n].silent
    /\ x.pc = "delete" =>
           /\ prune[n].pc = "wait" /\ x.silent = prune[n].silent
           /\ Timely => \A m \in x.silent : ~Up(m)

PruneMoves(n, x) ==
    /\ x \in Prune /\ PruneFits(x) /\ SilentFits(n, x)
    /\ prune' = [prune EXCEPT ![n] = x]
SweepMoves(n, x) ==
    /\ x \in Sweep /\ SweepFits(x)
    /\ sweep' = [sweep EXCEPT ![n] = x]

LEMMA NoPruneType == NoPrune \in Prune /\ PruneFits(NoPrune) /\ \A n : SilentFits(n, NoPrune)
BY DEF NoPrune, Prune, PruneFits, SilentFits

LEMMA NoSweepType == NoSweep \in Sweep /\ SweepFits(NoSweep)
BY DEF NoSweep, Sweep, SweepFits

LEMMA PruneNextMoves ==
    ASSUME TypeOK, NEW n \in Instances, PruneNext(n)
    PROVE  \E x : PruneMoves(n, x)
<1> DEFINE p == prune[n]
<1>1. p \in Prune
  BY DEF TypeOK
<1>2. CASE p.rooms = {}
  BY <1>2, NoPruneType DEF PruneNext, PruneMoves
<1>3. CASE p.rooms # {}
  <2> DEFINE x == [p EXCEPT !.pc = "get", !.at = {}, !.todo = {}]
  <2>1. x \in Prune /\ x.pc = "get" /\ x.rooms = p.rooms
    BY <1>1 DEF Prune
  <2>2. prune' = [prune EXCEPT ![n] = x]
    BY <1>3 DEF PruneNext
  <2> HIDE DEF x
  <2>3. PruneMoves(n, x)
    BY <1>3, <2>1, <2>2 DEF PruneMoves, PruneFits, SilentFits
  <2> QED BY <2>3
<1> QED
  BY <1>2, <1>3

\* The job goes on with another counter, or with these fields changed.
LEMMA PruneGoto ==
    ASSUME TypeOK, NEW n \in Instances,
           NEW pc \in {"idle", "wait", "delete", "init", "evict", "close", "unregister", "closed"},
           NEW silent \in SUBSET Instances, NEW roms \in SUBSET Rooms, NEW at \in SUBSET Rooms,
           NEW todo \in SUBSET Clients,
           LET x == [pc |-> pc, silent |-> silent, clients |-> prune[n].clients, rooms |-> roms,
                     at |-> at, todo |-> todo]
           IN  prune' = [prune EXCEPT ![n] = x] /\ SilentFits(n, x),
           pc = "evict" => todo # {}
    PROVE  \E x : PruneMoves(n, x)
<1> DEFINE x == [pc |-> pc, silent |-> silent, clients |-> prune[n].clients, rooms |-> roms,
                 at |-> at, todo |-> todo]
<1>1. prune[n] \in Prune
  BY DEF TypeOK
<1>2. x \in Prune /\ x.pc = pc /\ x.todo = todo
  BY <1>1 DEF Prune
<1>3. prune' = [prune EXCEPT ![n] = x] /\ SilentFits(n, x)
  OBVIOUS
<1> HIDE DEF x
<1>4. PruneFits(x)
  BY <1>2 DEF PruneFits
<1> QED
  BY <1>2, <1>3, <1>4 DEF PruneMoves

LEMMA PruneExcept ==
    ASSUME NEW p \in Prune, NEW a, NEW b
    PROVE  /\ [p EXCEPT !.pc = a, !.silent = b]
                 = [pc |-> a, silent |-> b, clients |-> p.clients, rooms |-> p.rooms, at |-> p.at,
                    todo |-> p.todo]
           /\ [p EXCEPT !.silent = b]
                 = [pc |-> p.pc, silent |-> b, clients |-> p.clients, rooms |-> p.rooms, at |-> p.at,
                    todo |-> p.todo]
           /\ [p EXCEPT !.pc = a, !.todo = b]
                 = [pc |-> a, silent |-> p.silent, clients |-> p.clients, rooms |-> p.rooms,
                    at |-> p.at, todo |-> b]
           /\ [p EXCEPT !.todo = b, !.pc = a]
                 = [pc |-> a, silent |-> p.silent, clients |-> p.clients, rooms |-> p.rooms,
                    at |-> p.at, todo |-> b]
<1> DEFINE g == [p EXCEPT !.pc = a]
           h == [p EXCEPT !.todo = b]
<1>1. g = [pc |-> a, silent |-> p.silent, clients |-> p.clients, rooms |-> p.rooms, at |-> p.at,
           todo |-> p.todo]
  BY DEF Prune
<1>2. [p EXCEPT !.silent = b]
          = [pc |-> p.pc, silent |-> b, clients |-> p.clients, rooms |-> p.rooms, at |-> p.at,
             todo |-> p.todo]
  BY DEF Prune
<1>3. h = [pc |-> p.pc, silent |-> p.silent, clients |-> p.clients, rooms |-> p.rooms, at |-> p.at,
           todo |-> b]
  BY DEF Prune
<1>4. /\ [p EXCEPT !.pc = a, !.silent = b] = [g EXCEPT !.silent = b]
      /\ [p EXCEPT !.pc = a, !.todo = b] = [g EXCEPT !.todo = b]
      /\ [p EXCEPT !.todo = b, !.pc = a] = [h EXCEPT !.pc = a]
  OBVIOUS
<1> HIDE DEF g, h
<1>5. [g EXCEPT !.silent = b]
          = [pc |-> a, silent |-> b, clients |-> p.clients, rooms |-> p.rooms, at |-> p.at,
             todo |-> p.todo]
  BY <1>1
<1>6. [g EXCEPT !.todo = b]
          = [pc |-> a, silent |-> p.silent, clients |-> p.clients, rooms |-> p.rooms,
             at |-> p.at, todo |-> b]
  BY <1>1
<1>7. [h EXCEPT !.pc = a]
          = [pc |-> a, silent |-> p.silent, clients |-> p.clients, rooms |-> p.rooms,
             at |-> p.at, todo |-> b]
  BY <1>3
<1> QED
  BY <1>2, <1>4, <1>5, <1>6, <1>7

\* Every step of the cron job.
LEMMA PruningMoves ==
    ASSUME TypeOK, NEW n \in Instances, Pruning(n) \/ \E m \in Instances : Pong(n, m)
    PROVE  \E x : PruneMoves(n, x)
<1> DEFINE p == prune[n]
<1>1. /\ prune \in [Instances -> Prune] /\ p \in Prune
      /\ p = [pc |-> p.pc, silent |-> p.silent, clients |-> p.clients, rooms |-> p.rooms,
              at |-> p.at, todo |-> p.todo]
      /\ p.silent \in SUBSET Instances /\ p.clients \in SUBSET Clients /\ p.rooms \in SUBSET Rooms
      /\ p.at \in SUBSET Rooms /\ p.todo \in SUBSET Clients
  BY DEF TypeOK, Prune
<1>2. CASE PruneStart(n)
  <2> DEFINE silent == {m \in Instances : registry[m].known} \ {n}
             x == [pc |-> "wait", silent |-> silent, clients |-> p.clients, rooms |-> p.rooms,
                   at |-> p.at, todo |-> p.todo]
  <2>1. prune' = [prune EXCEPT ![n] = x]
    <3>1. [p EXCEPT !.pc = "wait", !.silent = silent] = x
      <4>1. p \in Prune
        BY <1>1
      <4> HIDE DEF silent, p
      <4> QED BY <4>1, PruneExcept
    <3>2. prune' = [prune EXCEPT ![n] = [p EXCEPT !.pc = "wait", !.silent = silent]]
      BY <1>1, <1>2 DEF PruneStart
    <3> QED BY <3>1, <3>2
  <2>2. SilentFits(n, x) /\ silent \in SUBSET Instances
    BY DEF SilentFits
  <2> HIDE DEF silent
  <2> QED BY <1>1, <2>1, <2>2, PruneGoto
<1>3. ASSUME NEW m \in Instances, Pong(n, m) PROVE \E x : PruneMoves(n, x)
  <2> DEFINE silent == p.silent \ {m}
             x == [pc |-> "wait", silent |-> silent, clients |-> p.clients, rooms |-> p.rooms,
                   at |-> p.at, todo |-> p.todo]
  <2>1. prune' = [prune EXCEPT ![n] = x]
    <3>1. [p EXCEPT !.silent = silent] = x
      <4>1. p.pc = "wait"
        BY <1>3 DEF Pong, PruneIs
      <4>2. [p EXCEPT !.silent = silent]
                = [pc |-> p.pc, silent |-> silent, clients |-> p.clients, rooms |-> p.rooms, at |-> p.at,
                   todo |-> p.todo]
        <5>1. p \in Prune
          BY <1>1
        <5> HIDE DEF silent, p
        <5> QED BY <5>1, PruneExcept
      <4> QED BY <4>1, <4>2
    <3>2. prune' = [prune EXCEPT ![n] = [p EXCEPT !.silent = silent]]
      BY <1>1, <1>3 DEF Pong
    <3> QED BY <3>1, <3>2
  <2>2. SilentFits(n, x) /\ silent \in SUBSET Instances
    BY <1>1, <1>3 DEF SilentFits, Pong, PruneIs
  <2> HIDE DEF silent
  <2> QED BY <1>1, <2>1, <2>2, PruneGoto
<1>4. CASE PruneTimeout(n)
  <2>1. PICK pc \in {"idle", "delete"} : prune' = [prune EXCEPT ![n].pc = pc]
    BY <1>4 DEF PruneTimeout
  <2> DEFINE x == [pc |-> pc, silent |-> p.silent, clients |-> p.clients, rooms |-> p.rooms,
                   at |-> p.at, todo |-> p.todo]
  <2>2. prune' = [prune EXCEPT ![n] = x]
    <3>1. [p EXCEPT !.pc = pc] = x
      BY <1>1
    <3>2. prune' = [prune EXCEPT ![n] = [p EXCEPT !.pc = pc]]
      BY <1>1, <2>1
    <3> QED BY <3>1, <3>2
  <2>3. SilentFits(n, x)
    BY <1>4 DEF SilentFits, PruneTimeout, PruneIs
  <2> QED BY <1>1, <2>2, <2>3, PruneGoto
<1>5. CASE PruneDelete(n)
  <2> DEFINE dead == p.silent
             roomsOf == UNION {registry[m].rooms : m \in dead}
             clientsOf == UNION {registry[m].clients : m \in dead}
             x == [NoPrune EXCEPT !.pc = "get", !.rooms = roomsOf, !.clients = clientsOf]
  <2>1. roomsOf \in SUBSET Rooms /\ clientsOf \in SUBSET Clients
    BY <1>1 DEF TypeOK, Entry
  <2>2. prune' = [prune EXCEPT ![n] = IF roomsOf = {} THEN NoPrune ELSE x]
    BY <1>5 DEF PruneDelete
  <2> HIDE DEF roomsOf, clientsOf
  <2>3. CASE roomsOf = {}
    BY <2>2, <2>3, NoPruneType DEF PruneMoves
  <2>4. CASE roomsOf # {}
    <3>1. x \in Prune /\ x.pc = "get" /\ x.rooms = roomsOf
      BY <2>1 DEF NoPrune, Prune
    <3> HIDE DEF x
    <3>2. PruneMoves(n, x)
      BY <2>2, <2>4, <3>1 DEF PruneMoves, PruneFits, SilentFits
    <3> QED BY <3>2
  <2> QED BY <2>3, <2>4
<1>6. CASE PruneGet(n)
  <2>1. PICK r \in p.rooms :
           \/ prune' = [prune EXCEPT ![n].pc = "init", ![n].rooms = @ \ {r}, ![n].at = {r}]
           \/ prune' = [prune EXCEPT ![n] = IF @.rooms = {r} THEN NoPrune
                                            ELSE [@ EXCEPT !.rooms = prune[n].rooms \ {r}]]
    BY <1>6 DEF PruneGet
  <2>2. CASE prune' = [prune EXCEPT ![n].pc = "init", ![n].rooms = @ \ {r}, ![n].at = {r}]
    <3> DEFINE rest == p.rooms \ {r}
               at == {r}
               x == [pc |-> "init", silent |-> p.silent, clients |-> p.clients, rooms |-> rest,
                     at |-> at, todo |-> p.todo]
    <3>1. prune' = [prune EXCEPT ![n] = x]
      BY <1>1, <2>2
    <3>2. SilentFits(n, x) /\ rest \in SUBSET Rooms /\ at \in SUBSET Rooms
      BY <1>1, <2>1 DEF SilentFits
    <3> HIDE DEF rest, at
    <3> QED BY <1>1, <3>1, <3>2, PruneGoto
  <2>3. CASE p.rooms = {r} /\ prune' = [prune EXCEPT ![n] = NoPrune]
    BY <2>3, NoPruneType DEF PruneMoves
  <2>4. CASE p.rooms # {r} /\ prune' = [prune EXCEPT ![n] = [p EXCEPT !.rooms = p.rooms \ {r}]]
    <3> DEFINE x == [p EXCEPT !.rooms = p.rooms \ {r}]
    <3>1. x \in Prune /\ x.pc = p.pc /\ x.rooms = p.rooms \ {r} /\ x.todo = p.todo /\ p.pc = "get"
      BY <1>1, <1>6 DEF Prune, PruneGet, PruneIs
    <3>2. prune' = [prune EXCEPT ![n] = x]
      BY <2>4
    <3> HIDE DEF x
    <3>3. x.rooms # {}
      BY <2>1, <2>4, <3>1
    <3>4. PruneMoves(n, x)
      BY <3>1, <3>2, <3>3 DEF PruneMoves, PruneFits, SilentFits
    <3> QED BY <3>4
  <2>5. CASE prune' = [prune EXCEPT ![n] = IF @.rooms = {r} THEN NoPrune
                                            ELSE [@ EXCEPT !.rooms = prune[n].rooms \ {r}]]
    <3>1. CASE p.rooms = {r}
      <4>1. prune' = [prune EXCEPT ![n] = NoPrune]
        BY <2>5, <3>1
      <4> QED BY <2>3, <3>1, <4>1
    <3>2. CASE p.rooms # {r}
      <4>1. prune' = [prune EXCEPT ![n] = [p EXCEPT !.rooms = p.rooms \ {r}]]
        BY <2>5, <3>2
      <4> QED BY <2>4, <3>2, <4>1
    <3> QED BY <3>1, <3>2
  <2> QED BY <2>1, <2>2, <2>5
<1>7. CASE PruneInit(n)
  <2>1. PICK pc \in {"close", "evict"} : pc = IF p.clients = {} THEN "close" ELSE "evict"
    OBVIOUS
  <2> DEFINE x == [pc |-> pc, silent |-> p.silent, clients |-> p.clients, rooms |-> p.rooms,
                   at |-> p.at, todo |-> p.clients]
  <2>2. prune' = [prune EXCEPT ![n] = x]
    <3>1. [p EXCEPT !.pc = pc, !.todo = p.clients] = x
      <4>1. p \in Prune
        BY <1>1
      <4> HIDE DEF p
      <4> QED BY <4>1, PruneExcept
    <3>2. prune' = [prune EXCEPT ![n] = [p EXCEPT !.pc = pc, !.todo = p.clients]]
      BY <1>1, <1>7, <2>1 DEF PruneInit
    <3> QED BY <3>1, <3>2
  <2>3. SilentFits(n, x)
    BY DEF SilentFits
  <2> QED BY <1>1, <2>1, <2>2, <2>3, PruneGoto
<1>8. CASE PruneEvict(n)
  <2>1. PICK c \in p.todo :
           prune' = [prune EXCEPT ![n].todo = @ \ {c},
                                  ![n].pc = IF p.todo = {c} THEN "close" ELSE "evict"]
    BY <1>8 DEF PruneEvict
  <2>2. PICK pc \in {"close", "evict"} : pc = IF p.todo = {c} THEN "close" ELSE "evict"
    OBVIOUS
  <2> DEFINE todo == p.todo \ {c}
             x == [pc |-> pc, silent |-> p.silent, clients |-> p.clients, rooms |-> p.rooms,
                   at |-> p.at, todo |-> todo]
  <2>3. prune' = [prune EXCEPT ![n] = x]
    <3>1. [p EXCEPT !.todo = todo, !.pc = pc] = x
      <4>1. p \in Prune
        BY <1>1
      <4> HIDE DEF todo, p
      <4> QED BY <4>1, PruneExcept
    <3>2. prune' = [prune EXCEPT ![n] = [p EXCEPT !.todo = todo, !.pc = pc]]
      BY <1>1, <2>1, <2>2
    <3> QED BY <3>1, <3>2
  <2>4. SilentFits(n, x) /\ todo \in SUBSET Clients /\ (pc = "evict" => todo # {})
    BY <1>1, <2>1, <2>2 DEF SilentFits
  <2> HIDE DEF todo
  <2> QED BY <1>1, <2>2, <2>3, <2>4, PruneGoto
<1>9. CASE PruneClose(n) \/ PruneUnregister(n)
  <2>1. CASE PruneNext(n)
    BY <2>1, PruneNextMoves
  <2>2. ASSUME NEW pc \in {"unregister", "closed"}, prune' = [prune EXCEPT ![n].pc = pc]
        PROVE  \E x : PruneMoves(n, x)
    <3> DEFINE x == [pc |-> pc, silent |-> p.silent, clients |-> p.clients, rooms |-> p.rooms,
                     at |-> p.at, todo |-> p.todo]
    <3>1. prune' = [prune EXCEPT ![n] = x]
      <4>1. [p EXCEPT !.pc = pc] = x
        BY <1>1
      <4>2. prune' = [prune EXCEPT ![n] = [p EXCEPT !.pc = pc]]
        BY <1>1, <2>2
      <4> QED BY <4>1, <4>2
    <3>2. SilentFits(n, x)
      BY DEF SilentFits
    <3> QED BY <1>1, <3>1, <3>2, PruneGoto
  <2> QED BY <1>9, <2>1, <2>2 DEF PruneClose, PruneUnregister
<1>10. CASE PruneClosed(n)
  BY <1>10, PruneNextMoves DEF PruneClosed
<1> QED
  BY <1>2, <1>3, <1>4, <1>5, <1>6, <1>7, <1>8, <1>9, <1>10 DEF Pruning

LEMMA SweepOnType ==
    ASSUME TypeOK, NEW n \in Instances, NEW invalid \in SUBSET Clients
    PROVE  SweepOn(n, invalid) \in Sweep /\ SweepFits(SweepOn(n, invalid))
<1>1. rooms[n] \in SUBSET Rooms
  BY DEF TypeOK
<1>2. CASE invalid # {}
  <2> DEFINE x == [NoSweep EXCEPT !.pc = "evict", !.invalid = invalid]
  <2>1. x \in Sweep /\ x.pc = "evict" /\ x.invalid = invalid
    BY DEF NoSweep, Sweep
  <2>2. SweepOn(n, invalid) = x
    BY <1>2 DEF SweepOn
  <2> HIDE DEF x
  <2> QED BY <1>2, <2>1, <2>2 DEF SweepFits
<1>3. CASE invalid = {} /\ rooms[n] = {}
  BY <1>3, NoSweepType DEF SweepOn
<1>4. CASE invalid = {} /\ rooms[n] # {}
  <2> DEFINE x == [NoSweep EXCEPT !.pc = "close", !.rooms = rooms[n]]
  <2>1. x \in Sweep /\ x.pc = "close" /\ x.rooms = rooms[n]
    BY <1>1 DEF NoSweep, Sweep
  <2>2. SweepOn(n, invalid) = x
    BY <1>4 DEF SweepOn
  <2> HIDE DEF x
  <2> QED BY <1>4, <2>1, <2>2 DEF SweepFits
<1> QED
  BY <1>2, <1>3, <1>4

LEMMA SweepNextType ==
    ASSUME NEW s \in Sweep
    PROVE  SweepNext(s) \in Sweep /\ SweepFits(SweepNext(s))
<1>1. CASE s.rooms = {}
  BY <1>1, NoSweepType DEF SweepNext
<1>2. CASE s.rooms # {}
  <2> DEFINE x == [s EXCEPT !.pc = "close", !.at = {}]
  <2>1. x \in Sweep /\ x.pc = "close" /\ x.rooms = s.rooms
    BY DEF Sweep
  <2>2. SweepNext(s) = x
    BY <1>2 DEF SweepNext
  <2> HIDE DEF x
  <2> QED BY <1>2, <2>1, <2>2 DEF SweepFits
<1> QED
  BY <1>1, <1>2

\* Every step of the interval job.
LEMMA SweepingMoves ==
    ASSUME TypeOK, NEW n \in Instances, Sweeping(n)
    PROVE  \E x : SweepMoves(n, x)
<1> DEFINE s == sweep[n]
<1>1. /\ sweep \in [Instances -> Sweep] /\ s \in Sweep
      /\ s.global \in SUBSET Clients /\ s.invalid \in SUBSET Clients /\ s.who \in SUBSET Clients
      /\ s.rooms \in SUBSET Rooms /\ s.at \in SUBSET Rooms
  BY DEF TypeOK, Sweep
<1>2. /\ room \in [Rooms -> Room] /\ rooms[n] \in SUBSET Rooms
      /\ \A r \in rooms[n] : room[r].clients \in SUBSET Clients
  BY DEF TypeOK, Room
<1>3. CASE SweepStart(n)
  <2> DEFINE global == UNION {registry[m].clients : m \in Instances}
             g == [s EXCEPT !.pc = "local"]
             x == [g EXCEPT !.global = global]
  <2>1. global \in SUBSET Clients
    BY DEF TypeOK, Entry
  <2>2. sweep' = [sweep EXCEPT ![n] = x]
    BY <1>1, <1>3 DEF SweepStart
  <2> HIDE DEF global
  <2>3. g \in Sweep /\ g.pc = "local"
    BY <1>1 DEF Sweep
  <2> HIDE DEF g
  <2>4. x \in Sweep /\ x.pc = "local"
    BY <2>1, <2>3 DEF Sweep
  <2> HIDE DEF x
  <2>5. SweepMoves(n, x)
    BY <2>2, <2>4 DEF SweepMoves, SweepFits
  <2> QED BY <2>5
<1>4. CASE SweepLocal(n)
  <2> DEFINE invalid == (UNION {room[r].clients : r \in rooms[n]}) \ s.global
  <2>1. invalid \in SUBSET Clients
    BY <1>2
  <2>2. sweep' = [sweep EXCEPT ![n] = SweepOn(n, invalid)]
    BY <1>4 DEF SweepLocal
  <2> HIDE DEF invalid
  <2>3. SweepMoves(n, SweepOn(n, invalid))
    BY <2>1, <2>2, SweepOnType DEF SweepMoves
  <2> QED BY <2>3
<1>5. CASE SweepScan(n)
  <2>1. PICK c \in s.invalid :
           LET found == {r \in rooms[n] : c \in room[r].clients}
           IN  sweep' = [sweep EXCEPT ![n] =
                  IF found = {} THEN SweepOn(n, @.invalid \ {c})
                  ELSE [NoSweep EXCEPT !.pc = "leave", !.invalid = sweep[n].invalid \ {c},
                                       !.who = {c}, !.at = found]]
    BY <1>5 DEF SweepScan
  <2> DEFINE found == {r \in rooms[n] : c \in room[r].clients}
             rest == s.invalid \ {c}
             who == {c}
             x == [NoSweep EXCEPT !.pc = "leave", !.invalid = rest, !.who = who, !.at = found]
  <2>2. found \in SUBSET Rooms /\ rest \in SUBSET Clients /\ who \in SUBSET Clients /\ who # {}
    BY <1>1, <1>2, <2>1
  <2>3. CASE found = {}
    <3>1. sweep' = [sweep EXCEPT ![n] = SweepOn(n, rest)]
      BY <2>1, <2>3
    <3> HIDE DEF rest
    <3>2. SweepMoves(n, SweepOn(n, rest))
      BY <2>2, <3>1, SweepOnType DEF SweepMoves
    <3> QED BY <3>2
  <2>4. CASE found # {}
    <3>1. sweep' = [sweep EXCEPT ![n] = x]
      BY <2>1, <2>4
    <3> HIDE DEF found, rest, who
    <3> DEFINE a == [NoSweep EXCEPT !.pc = "leave", !.invalid = rest]
               b == [a EXCEPT !.who = who]
    <3>2. a \in Sweep /\ a.pc = "leave"
      BY <2>2 DEF Sweep, NoSweep
    <3>3. x = [b EXCEPT !.at = found]
      OBVIOUS
    <3> HIDE DEF a, x
    <3>4. b \in Sweep /\ b.pc = "leave" /\ b.who = who
      BY <2>2, <3>2 DEF Sweep
    <3> HIDE DEF b
    <3>5. x \in Sweep /\ x.pc = "leave" /\ x.who = who /\ x.at = found
      BY <2>2, <3>3, <3>4 DEF Sweep
    <3>6. SweepMoves(n, x)
      BY <2>2, <2>4, <3>1, <3>5 DEF SweepMoves, SweepFits
    <3> QED BY <3>6
  <2> QED BY <2>3, <2>4
<1>6. CASE SweepLeave(n)
  <2>1. PICK r \in s.at :
           sweep' = [sweep EXCEPT ![n] = IF @.at = {r} THEN SweepOn(n, @.invalid)
                                         ELSE [@ EXCEPT !.at = sweep[n].at \ {r}]]
    BY <1>6 DEF SweepLeave
  <2>2. CASE s.at = {r}
    <3>1. sweep' = [sweep EXCEPT ![n] = SweepOn(n, s.invalid)]
      BY <2>1, <2>2
    <3>2. SweepMoves(n, SweepOn(n, s.invalid))
      BY <1>1, <3>1, SweepOnType DEF SweepMoves
    <3> QED BY <3>2
  <2>3. CASE s.at # {r}
    <3> DEFINE rest == s.at \ {r}
               x == [s EXCEPT !.at = rest]
    <3>1. sweep' = [sweep EXCEPT ![n] = x]
      BY <2>1, <2>3
    <3>2. rest \in SUBSET Rooms /\ rest # {} /\ s.pc = "leave" /\ s.who # {}
      BY <1>1, <1>6, <2>1, <2>3 DEF SweepLeave, SweepIs
    <3> HIDE DEF rest
    <3>3. x \in Sweep /\ x.pc = "leave" /\ x.who # {} /\ x.at = rest
      BY <1>1, <3>2 DEF Sweep
    <3> HIDE DEF x
    <3>4. SweepMoves(n, x)
      BY <3>1, <3>2, <3>3 DEF SweepMoves, SweepFits
    <3> QED BY <3>4
  <2> QED BY <2>2, <2>3
<1>7. CASE SweepClose(n)
  <2>1. PICK r \in s.rooms :
           LET t == [s EXCEPT !.rooms = @ \ {r}, !.at = {r}]
           IN  \/ sweep' = [sweep EXCEPT ![n] = [t EXCEPT !.pc = "unregister"]]
               \/ sweep' = [sweep EXCEPT ![n] = SweepNext(t)]
    BY <1>7 DEF SweepClose
  <2> DEFINE rest == s.rooms \ {r}
             at == {r}
             g == [s EXCEPT !.rooms = rest]
             t == [g EXCEPT !.at = at]
             x == [t EXCEPT !.pc = "unregister"]
  <2>2. sweep' = [sweep EXCEPT ![n] = x] \/ sweep' = [sweep EXCEPT ![n] = SweepNext(t)]
    BY <2>1
  <2>3. rest \in SUBSET Rooms /\ at \in SUBSET Rooms
    BY <1>1, <2>1
  <2> HIDE DEF rest, at
  <2>4. g \in Sweep
    BY <1>1, <2>3 DEF Sweep
  <2> HIDE DEF g
  <2>5. t \in Sweep
    BY <2>3, <2>4 DEF Sweep
  <2> HIDE DEF t
  <2>6. x \in Sweep /\ x.pc = "unregister"
    BY <2>5 DEF Sweep
  <2> HIDE DEF x
  <2>7. SweepFits(x)
    BY <2>6 DEF SweepFits
  <2>8. SweepNext(t) \in Sweep /\ SweepFits(SweepNext(t))
    BY <2>5, SweepNextType
  <2> QED BY <2>2, <2>6, <2>7, <2>8 DEF SweepMoves
<1>8. CASE SweepUnregister(n)
  <2> DEFINE x == [s EXCEPT !.pc = "closed"]
  <2>1. x \in Sweep /\ x.pc = "closed"
    BY <1>1 DEF Sweep
  <2>2. sweep' = [sweep EXCEPT ![n] = x]
    BY <1>1, <1>8 DEF SweepUnregister
  <2> HIDE DEF x
  <2>3. SweepMoves(n, x)
    BY <2>1, <2>2 DEF SweepMoves, SweepFits
  <2> QED BY <2>3
<1>9. CASE SweepClosed(n)
  <2>1. sweep' = [sweep EXCEPT ![n] = SweepNext(s)]
    BY <1>1, <1>9 DEF SweepClosed
  <2>2. SweepMoves(n, SweepNext(s))
    BY <1>1, <2>1, SweepNextType DEF SweepMoves
  <2> QED BY <2>2
<1> QED
  BY <1>3, <1>4, <1>5, <1>6, <1>7, <1>8, <1>9 DEF Sweeping

-----------------------------------------------------------------------------
(* The types of the variables                                              *)

DataOK ==
    /\ up \in [Instances -> {"off", "up", "down"}]
    /\ conn \in [Clients -> {"new", "open", "closed"}]
    /\ clients \in [Instances -> SUBSET Clients]
    /\ registry \in [Instances -> Entry]
    /\ pending \in [Instances -> Seq(Transaction)]
    /\ room \in [Rooms -> Room]
    /\ rooms \in [Instances -> SUBSET Rooms]
    /\ listeners \in [Instances -> SUBSET Rooms]
    /\ mail \in [Instances -> SUBSET Rooms]
    /\ join \in [Clients -> Join]
    /\ leave \in [Clients -> Leaving]
JobsOK ==
    /\ prune \in [Instances -> Prune]
    /\ sweep \in [Instances -> Sweep]
    /\ \A n \in Instances : PruneFits(prune[n]) /\ SweepFits(sweep[n])

LEMMA TypeParts == /\ TypeOK <=> DataOK /\ JobsOK
                   /\ TypeOK' <=> DataOK' /\ JobsOK'
BY DEF TypeOK, JobsGoOn, DataOK, JobsOK, PruneFits, SweepFits

LEMMA JobsType ==
    ASSUME TypeOK, [Next]_vars
    PROVE  JobsOK'
<1>1. JobsOK
  BY TypeParts
<1>2. CASE UNCHANGED <<prune, sweep>>
  BY <1>1, <1>2 DEF JobsOK
<1>3. ASSUME NEW n \in Instances, NEW x, PruneMoves(n, x), UNCHANGED sweep
      PROVE  JobsOK'
  BY <1>1, <1>3 DEF JobsOK, PruneMoves
<1>4. ASSUME NEW n \in Instances, NEW x, SweepMoves(n, x), UNCHANGED prune
      PROVE  JobsOK'
  BY <1>1, <1>4 DEF JobsOK, SweepMoves
<1>5. ASSUME NEW n \in Instances, Start(n) \/ CommitPending(n)
      PROVE  JobsOK'
  BY <1>2, <1>5 DEF Start, CommitPending, jobs
<1>6. ASSUME NEW n \in Instances, Crash(n)
      PROVE  JobsOK'
  BY <1>1, <1>6, NoPruneType, NoSweepType DEF JobsOK, Crash
<1>7. ASSUME NEW n \in Instances, Pruning(n) \/ \E m \in Instances : Pong(n, m)
      PROVE  JobsOK'
  <2>1. UNCHANGED sweep
    BY <1>7 DEF Pruning, Pong, PruneStart, PruneTimeout, PruneDelete, PruneGet, PruneInit, PruneEvict,
                PruneClose, PruneUnregister, PruneClosed
  <2>2. PICK x : PruneMoves(n, x)
    BY <1>7, PruningMoves
  <2> QED BY <1>3, <2>1, <2>2
<1>8. ASSUME NEW n \in Instances, Sweeping(n)
      PROVE  JobsOK'
  <2>1. UNCHANGED prune
    BY <1>8 DEF Sweeping, SweepStart, SweepLocal, SweepScan, SweepLeave, SweepClose, SweepUnregister,
                SweepClosed
  <2>2. PICK x : SweepMoves(n, x)
    BY <1>8, SweepingMoves
  <2> QED BY <1>4, <2>1, <2>2
<1>9. ASSUME NEW n \in Instances, NEW r \in Rooms, ReceiveClose(n, r)
      PROVE  JobsOK'
  BY <1>2, <1>9 DEF ReceiveClose, jobs
<1>10. ASSUME NEW c \in Clients, Connect(c) \/ Drop(c) \/ Joining(c) \/ Dropped(c)
       PROVE  JobsOK'
  BY <1>2, <1>10 DEF Connect, Drop, Joining, Dropped, jobs, JoinExisting, JoinNew, JoinInit,
                     JoinRegister, JoinListen, JoinHas, JoinPush, ScanRoom, LeaveFound
<1>11. ASSUME NEW c \in Clients, NEW r \in Rooms, JoinStart(c, r)
       PROVE  JobsOK'
  BY <1>2, <1>11 DEF JoinStart
<1>12. CASE UNCHANGED vars
  BY <1>2, <1>12 DEF vars, jobs
<1> QED
  BY <1>5, <1>6, <1>7, <1>8, <1>9, <1>10, <1>11, <1>12 DEF Next

LEMMA DataType ==
    ASSUME TypeOK, [Next]_vars
    PROVE  DataOK'
<1>1. DataOK
  BY TypeParts
<1>2. ASSUME UNCHANGED <<up, conn, clients, pending, join, leave>>,
             registry' \in [Instances -> Entry], room' \in [Rooms -> Room],
             rooms' \in [Instances -> SUBSET Rooms], listeners' \in [Instances -> SUBSET Rooms],
             mail' \in [Instances -> SUBSET Rooms]
      PROVE  DataOK'
  BY <1>1, <1>2 DEF DataOK
<1>3. ASSUME NEW r \in Rooms, NEW x \in Room, room' = [room EXCEPT ![r] = x]
      PROVE  room' \in [Rooms -> Room]
  BY <1>1, <1>3 DEF DataOK
<1>4. ASSUME NEW m \in Instances, NEW e \in Entry, registry' = [registry EXCEPT ![m] = e]
      PROVE  registry' \in [Instances -> Entry]
  BY <1>1, <1>4 DEF DataOK
<1>5. ASSUME NEW n \in Instances, NEW r \in Rooms
      PROVE  /\ RegisterRoom(n, r) => registry' \in [Instances -> Entry]
             /\ UnregisterRoom(n, r) => registry' \in [Instances -> Entry]
  <2> DEFINE e == registry[n]
             a == [e EXCEPT !.known = TRUE, !.rooms = @ \cup {r}]
             b == [e EXCEPT !.rooms = @ \ {r}]
  <2>1. registry \in [Instances -> Entry] /\ e \in Entry
    BY <1>1 DEF DataOK
  <2>2. a \in Entry /\ b \in Entry
    BY <2>1, EntryTypes
  <2>3. /\ RegisterRoom(n, r) => registry' = [registry EXCEPT ![n] = a]
        /\ UnregisterRoom(n, r) => registry' = [registry EXCEPT ![n] = b]
    BY <2>1 DEF RegisterRoom, UnregisterRoom
  <2> HIDE DEF a, b
  <2> QED BY <1>4, <2>2, <2>3
<1>6. \A r \in Rooms : /\ room[r] \in Room /\ NoRoom \in Room /\ Initialize(room[r]) \in Room
                       /\ \A c \in Clients : /\ WithoutClient(room[r], c) \in Room
                                             /\ [room[r] EXCEPT !.clients = @ \cup {c}] \in Room
  BY <1>1, RoomTypes DEF DataOK
<1>7. ASSUME NEW n \in Instances, Start(n)
      PROVE  DataOK'
  <2>1. <<Register>> \in Seq(Transaction)
    BY DEF Transaction
  <2>2. pending' \in [Instances -> Seq(Transaction)]
    BY <1>1, <1>7, <2>1 DEF Start, DataOK
  <2> QED BY <1>1, <1>7, <2>2 DEF Start, DataOK, tables, shared, jobs
<1>8. ASSUME NEW n \in Instances, Crash(n)
      PROVE  DataOK'
  <2>1. [pc |-> "done", at |-> {}] \in Join /\ NotLeaving \in Leaving /\ <<>> \in Seq(Transaction)
    BY DEF Join, Leaving, NotLeaving
  <2>2. join' \in [Clients -> Join] /\ leave' \in [Clients -> Leaving]
    BY <1>1, <1>8, <2>1 DEF Crash, DataOK
  <2>3. pending' \in [Instances -> Seq(Transaction)] /\ conn' \in [Clients -> {"new", "open", "closed"}]
    BY <1>1, <1>8, <2>1 DEF Crash, DataOK
  <2> QED BY <1>1, <1>8, <2>2, <2>3 DEF Crash, DataOK
<1>9. ASSUME NEW n \in Instances, CommitPending(n)
      PROVE  DataOK'
  <2> DEFINE q == pending[n]
  <2>1. q \in Seq(Transaction) /\ Len(q) \in Nat /\ DOMAIN q = 1..Len(q)
    BY <1>1 DEF DataOK
  <2>2. PICK i \in DOMAIN q :
           /\ registry' = [registry EXCEPT ![n] = Applied(@, q[i])]
           /\ pending' = [pending EXCEPT ![n] = SubSeq(@, 1, i - 1) \o SubSeq(@, i + 1, Len(@))]
    BY <1>9 DEF CommitPending
  <2>3. registry' \in [Instances -> Entry]
    <3>1. registry[n] \in Entry /\ q[i] \in Transaction
      BY <1>1, <2>1 DEF DataOK
    <3>2. Applied(registry[n], q[i]) \in Entry
      BY <3>1, AppliedType
    <3>3. registry' = [registry EXCEPT ![n] = Applied(registry[n], q[i])]
      BY <2>2
    <3> QED BY <1>4, <3>2, <3>3
  <2>4. pending' \in [Instances -> Seq(Transaction)]
    <3> DEFINE a == SubSeq(q, 1, i - 1)
               b == SubSeq(q, i + 1, Len(q))
    <3>1. i \in Int /\ i - 1 \in Int /\ i + 1 \in Int /\ i - 1 <= Len(q) /\ i + 1 >= 1
      BY <2>1
    <3>2. a \in Seq(Transaction) /\ b \in Seq(Transaction)
      BY <2>1, <3>1
    <3>3. pending' = [pending EXCEPT ![n] = a \o b]
      BY <1>1, <2>2 DEF DataOK
    <3> HIDE DEF a, b
    <3>4. a \o b \in Seq(Transaction)
      BY <3>2
    <3> QED BY <1>1, <3>3, <3>4 DEF DataOK
  <2> QED BY <1>1, <1>9, <2>3, <2>4 DEF CommitPending, DataOK, tables, jobs
<1>10. ASSUME NEW n \in Instances, Pruning(n) \/ \E m \in Instances : Pong(n, m)
       PROVE  DataOK'
  <2>1. prune[n] \in Prune /\ prune[n].at \in SUBSET Rooms /\ prune[n].todo \in SUBSET Clients
        /\ prune[n].rooms \in SUBSET Rooms
    BY DEF TypeOK, Prune
  <2>2. CASE PruneStart(n) \/ PruneTimeout(n) \/ \E m \in Instances : Pong(n, m)
    BY <1>1, <2>2 DEF DataOK, PruneStart, PruneTimeout, Pong, tables, shared
  <2>3. CASE PruneDelete(n)
    <3>1. registry' \in [Instances -> Entry]
      BY <1>1, <2>3, EntryTypes DEF DataOK, PruneDelete
    <3> QED BY <1>1, <2>3, <3>1 DEF DataOK, PruneDelete, tables
  <2>4. CASE PruneGet(n)
    <3>1. PICK r \in prune[n].rooms : rooms' \in {rooms, [rooms EXCEPT ![n] = @ \cup {r}]}
      BY <2>4 DEF PruneGet
    <3>2. rooms' \in [Instances -> SUBSET Rooms]
      <4> DEFINE x == rooms[n] \cup {r}
      <4>1. x \in SUBSET Rooms /\ rooms' \in {rooms, [rooms EXCEPT ![n] = x]}
        BY <1>1, <2>1, <3>1 DEF DataOK
      <4> HIDE DEF x
      <4> QED BY <1>1, <4>1 DEF DataOK
    <3> QED BY <1>1, <2>4, <3>2 DEF DataOK, PruneGet, shared
  <2>5. CASE PruneInit(n)
    <3>1. room' \in [Rooms -> Room]
      BY <1>3, <1>6, <2>1, <2>5 DEF PruneInit
    <3> QED BY <1>1, <2>5, <3>1 DEF DataOK, PruneInit, tables
  <2>6. CASE PruneEvict(n)
    <3>1. room' \in [Rooms -> Room]
      BY <1>3, <1>6, <2>1, <2>6 DEF PruneEvict
    <3> QED BY <1>1, <2>6, <3>1 DEF DataOK, PruneEvict, tables
  <2>7. CASE PruneClose(n)
    <3>1. room' \in [Rooms -> Room]
      BY <1>1, <1>3, <1>6, <2>1, <2>7 DEF PruneClose, DataOK
    <3> QED BY <1>1, <2>7, <3>1 DEF DataOK, PruneClose, tables
  <2>8. CASE PruneUnregister(n)
    <3>1. registry' \in [Instances -> Entry]
      BY <1>5, <2>1, <2>8 DEF PruneUnregister
    <3> QED BY <1>1, <2>8, <3>1 DEF DataOK, PruneUnregister, tables
  <2>9. CASE PruneClosed(n)
    <3>1. PICK r \in prune[n].at : Forget(n, r)
      BY <2>9 DEF PruneClosed
    <3>2. /\ mail' \in [Instances -> SUBSET Rooms]
          /\ listeners' \in [Instances -> SUBSET Rooms]
          /\ rooms' \in [Instances -> SUBSET Rooms]
      BY <2>1, <3>1, ForgetType
    <3> QED BY <1>1, <2>9, <3>2 DEF DataOK, PruneClosed
  <2> QED BY <1>10, <2>2, <2>3, <2>4, <2>5, <2>6, <2>7, <2>8, <2>9 DEF Pruning
<1>11. ASSUME NEW n \in Instances, Sweeping(n)
       PROVE  DataOK'
  <2>1. sweep[n] \in Sweep /\ sweep[n].at \in SUBSET Rooms /\ sweep[n].who \in SUBSET Clients
        /\ sweep[n].rooms \in SUBSET Rooms
    BY DEF TypeOK, Sweep
  <2>2. CASE SweepStart(n) \/ SweepLocal(n) \/ SweepScan(n)
    BY <1>1, <2>2 DEF DataOK, SweepStart, SweepLocal, SweepScan, tables, shared
  <2>3. CASE SweepLeave(n)
    <3>1. room' \in [Rooms -> Room]
      BY <1>3, <1>6, <2>1, <2>3 DEF SweepLeave
    <3> QED BY <1>1, <2>3, <3>1 DEF DataOK, SweepLeave, tables
  <2>4. CASE SweepClose(n)
    <3>1. room' \in [Rooms -> Room]
      BY <1>1, <1>3, <1>6, <2>1, <2>4 DEF SweepClose, DataOK
    <3> QED BY <1>1, <2>4, <3>1 DEF DataOK, SweepClose, tables
  <2>5. CASE SweepUnregister(n)
    <3>1. registry' \in [Instances -> Entry]
      BY <1>5, <2>1, <2>5 DEF SweepUnregister
    <3> QED BY <1>1, <2>5, <3>1 DEF DataOK, SweepUnregister, tables
  <2>6. CASE SweepClosed(n)
    <3>1. PICK r \in sweep[n].at : Forget(n, r)
      BY <2>6 DEF SweepClosed
    <3>2. /\ mail' \in [Instances -> SUBSET Rooms]
          /\ listeners' \in [Instances -> SUBSET Rooms]
          /\ rooms' \in [Instances -> SUBSET Rooms]
      BY <2>1, <3>1, ForgetType
    <3> QED BY <1>1, <2>6, <3>2 DEF DataOK, SweepClosed
  <2> QED BY <1>11, <2>2, <2>3, <2>4, <2>5, <2>6 DEF Sweeping
<1>12. ASSUME NEW n \in Instances, NEW r \in Rooms, ReceiveClose(n, r)
       PROVE  DataOK'
  <2>1. mail' \in [Instances -> SUBSET Rooms] /\ rooms' \in [Instances -> SUBSET Rooms]
        /\ listeners' \in [Instances -> SUBSET Rooms]
    <3>1. /\ mail' = [mail EXCEPT ![n] = @ \ {r}]
          /\ rooms' \in {rooms, [rooms EXCEPT ![n] = @ \ {r}]}
          /\ listeners' \in {listeners, [listeners EXCEPT ![n] = @ \ {r}]}
      BY <1>12 DEF ReceiveClose
    <3> DEFINE x == mail[n] \ {r}
               y == rooms[n] \ {r}
               z == listeners[n] \ {r}
    <3>2. x \in SUBSET Rooms /\ y \in SUBSET Rooms /\ z \in SUBSET Rooms
      BY <1>1 DEF DataOK
    <3>3. /\ mail' = [mail EXCEPT ![n] = x]
          /\ rooms' \in {rooms, [rooms EXCEPT ![n] = y]}
          /\ listeners' \in {listeners, [listeners EXCEPT ![n] = z]}
      BY <3>1
    <3> HIDE DEF x, y, z
    <3> QED BY <1>1, <3>2, <3>3 DEF DataOK
  <2> QED BY <1>1, <1>12, <2>1 DEF DataOK, ReceiveClose, jobs
<1>13. ASSUME NEW c \in Clients, Connect(c) \/ Drop(c)
       PROVE  DataOK'
  <2>1. Home[c] \in Instances
    OBVIOUS
  <2>2. CASE Connect(c)
    <3>1. clients' \in [Instances -> SUBSET Clients] /\ pending' \in [Instances -> Seq(Transaction)]
      BY <2>1, <2>2, AddClientType DEF Connect
    <3> QED BY <1>1, <2>2, <3>1 DEF DataOK, Connect, shared, jobs
  <2>3. CASE Drop(c)
    <3> DEFINE q == Append(pending[Home[c]], [kind |-> "remove", c |-> c])
               l == [todo |-> rooms[Home[c]], found |-> {}]
    <3>1. q \in Seq(Transaction)
      <4>1. [kind |-> "remove", c |-> c] \in Transaction
        BY DEF Transaction
      <4> QED BY <1>1, <2>1, <4>1 DEF DataOK
    <3>2. l \in Leaving
      BY <1>1, <2>1 DEF DataOK, Leaving
    <3>3. /\ pending' = [pending EXCEPT ![Home[c]] = q]
          /\ leave' = [leave EXCEPT ![c] = l]
      BY <1>1, <2>3 DEF Drop, DataOK
    <3> HIDE DEF q, l
    <3>4. pending' \in [Instances -> Seq(Transaction)] /\ leave' \in [Clients -> Leaving]
      BY <1>1, <3>1, <3>2, <3>3 DEF DataOK
    <3>5. conn' \in [Clients -> {"new", "open", "closed"}] /\ clients' \in [Instances -> SUBSET Clients]
      BY <1>1, <2>3 DEF Drop, DataOK
    <3> QED BY <1>1, <2>3, <3>4, <3>5 DEF DataOK, Drop, shared
  <2> QED BY <1>13, <2>2, <2>3
<1>14. ASSUME NEW c \in Clients, Dropped(c)
       PROVE  DataOK'
  <2>1. leave[c] \in Leaving /\ leave[c].todo \in SUBSET Rooms /\ leave[c].found \in SUBSET Rooms
    BY <1>1 DEF DataOK, Leaving
  <2>2. CASE ScanRoom(c)
    <3>1. PICK r \in leave[c].todo :
             leave' = [leave EXCEPT ![c].todo = @ \ {r},
                                    ![c].found = IF c \in room[r].clients THEN @ \cup {r} ELSE @]
      BY <2>2 DEF ScanRoom
    <3> DEFINE todo == leave[c].todo \ {r}
               found == IF c \in room[r].clients THEN leave[c].found \cup {r} ELSE leave[c].found
               g == [leave[c] EXCEPT !.todo = todo]
               l == [g EXCEPT !.found = found]
    <3>2. todo \in SUBSET Rooms /\ found \in SUBSET Rooms
      BY <2>1, <3>1
    <3>3. leave' = [leave EXCEPT ![c] = l]
      <4>1. g.found = leave[c].found
        BY <2>1 DEF Leaving
      <4> QED BY <1>1, <3>1, <4>1 DEF DataOK
    <3> HIDE DEF todo, found
    <3>4. l \in Leaving
      <4>1. g \in Leaving
        BY <2>1, <3>2 DEF Leaving
      <4> HIDE DEF g
      <4> QED BY <3>2, <4>1 DEF Leaving
    <3> HIDE DEF l
    <3>5. leave' \in [Clients -> Leaving]
      BY <1>1, <3>3, <3>4 DEF DataOK
    <3> QED BY <1>1, <2>2, <3>5 DEF DataOK, ScanRoom, tables, shared
  <2>3. CASE LeaveFound(c)
    <3>1. PICK r \in leave[c].found : /\ room' = [room EXCEPT ![r] = WithoutClient(@, c)]
                                      /\ leave' = [leave EXCEPT ![c].found = @ \ {r}]
      BY <2>3 DEF LeaveFound
    <3>2. room' \in [Rooms -> Room]
      BY <1>3, <1>6, <2>1, <3>1
    <3>3. leave' \in [Clients -> Leaving]
      <4> DEFINE l == [leave[c] EXCEPT !.found = @ \ {r}]
      <4>1. l \in Leaving
        BY <2>1 DEF Leaving
      <4>2. leave' = [leave EXCEPT ![c] = l]
        BY <1>1, <3>1 DEF DataOK
      <4> HIDE DEF l
      <4> QED BY <1>1, <4>1, <4>2 DEF DataOK
    <3> QED BY <1>1, <2>3, <3>2, <3>3 DEF DataOK, LeaveFound, tables
  <2> QED BY <1>14, <2>2, <2>3 DEF Dropped
<1>15. ASSUME NEW c \in Clients, Joining(c)
       PROVE  DataOK'
  <2>1. Home[c] \in Instances /\ join[c] \in Join /\ join[c].at \in SUBSET Rooms
    BY <1>1 DEF DataOK, Join
  <2>2. join' \in [Clients -> Join]
    BY <1>15, JoinType DEF Joining, JoinExisting, JoinNew, JoinInit, JoinRegister, JoinListen, JoinHas,
                           JoinPush
  <2>3. CASE JoinExisting(c) \/ JoinListen(c)
    <3>1. listeners' \in [Instances -> SUBSET Rooms]
      <4>1. PICK r \in join[c].at : listeners' = [listeners EXCEPT ![Home[c]] = @ \cup {r}]
        BY <2>3 DEF JoinExisting, JoinListen
      <4> QED BY <1>1, <2>1, <4>1 DEF DataOK
    <3>2. UNCHANGED <<clients, pending>> \/ AddClient(Home[c], c)
      BY <2>3 DEF JoinExisting, JoinListen
    <3>3. clients' \in [Instances -> SUBSET Clients] /\ pending' \in [Instances -> Seq(Transaction)]
      BY <1>1, <2>1, <3>2, AddClientType DEF DataOK
    <3> QED BY <1>1, <2>2, <2>3, <3>1, <3>3 DEF DataOK, JoinExisting, JoinListen, shared
  <2>4. CASE JoinNew(c)
    <3>1. rooms' \in [Instances -> SUBSET Rooms]
      BY <1>1, <2>1, <2>4 DEF DataOK, JoinNew
    <3> QED BY <1>1, <2>2, <2>4, <3>1 DEF DataOK, JoinNew, shared
  <2>5. CASE JoinInit(c)
    <3>1. room' \in [Rooms -> Room]
      BY <1>3, <1>6, <2>1, <2>5 DEF JoinInit
    <3> QED BY <1>1, <2>2, <2>5, <3>1 DEF DataOK, JoinInit, tables
  <2>6. CASE JoinRegister(c)
    <3>1. registry' \in [Instances -> Entry]
      BY <1>5, <2>1, <2>6 DEF JoinRegister
    <3> QED BY <1>1, <2>2, <2>6, <3>1 DEF DataOK, JoinRegister, tables
  <2>7. CASE JoinHas(c)
    BY <1>1, <2>2, <2>7 DEF DataOK, JoinHas, tables, shared
  <2>8. CASE JoinPush(c)
    <3>1. PICK r \in join[c].at : room' = [room EXCEPT ![r].clients = @ \cup {c}]
      BY <2>8 DEF JoinPush
    <3> DEFINE x == [room[r] EXCEPT !.clients = @ \cup {c}]
    <3>2. room' = [room EXCEPT ![r] = x] /\ x \in Room
      BY <1>1, <1>6, <2>1, <3>1 DEF DataOK
    <3> HIDE DEF x
    <3>3. room' \in [Rooms -> Room]
      BY <1>3, <2>1, <3>2
    <3> QED BY <1>1, <2>2, <2>8, <3>3 DEF DataOK, JoinPush, tables
  <2> QED BY <1>15, <2>3, <2>4, <2>5, <2>6, <2>7, <2>8 DEF Joining
<1>16. ASSUME NEW c \in Clients, NEW r \in Rooms, JoinStart(c, r)
       PROVE  DataOK'
  <2>1. [pc |-> "create", at |-> {r}] \in Join
    BY DEF Join
  <2>2. join' \in [Clients -> Join]
    BY <1>1, <1>16, <2>1 DEF DataOK, JoinStart
  <2> QED BY <1>1, <1>16, <2>2 DEF DataOK, JoinStart, tables, shared
<1>17. CASE UNCHANGED vars
  BY <1>1, <1>17 DEF DataOK, vars, tables, shared, jobs
<1> QED
  BY <1>7, <1>8, <1>9, <1>10, <1>11, <1>12, <1>13, <1>14, <1>15, <1>16, <1>17 DEF Next

LEMMA InitType == Init => TypeOK
<1> SUFFICES ASSUME Init PROVE TypeOK
  OBVIOUS
<1>1. NoJoin \in Join /\ NotLeaving \in Leaving /\ <<>> \in Seq(Transaction)
  BY DEF NoJoin, Join, NotLeaving, Leaving
<1>2. DataOK
  BY <1>1, EntryTypes, RoomTypes DEF Init, DataOK
<1>3. JobsOK
  BY NoPruneType, NoSweepType DEF Init, JobsOK
<1> QED
  BY <1>2, <1>3, TypeParts

LEMMA NextType == TypeOK /\ [Next]_vars => TypeOK'
BY DataType, JobsType, TypeParts

\* The variables keep their types, and a job in the middle of a loop has something left
\* to do there, whatever the instances, the clients and the bounds are.
THEOREM TypeCorrect == Spec => []TypeOK
BY InitType, NextType, PTL DEF Spec

-----------------------------------------------------------------------------
(* Queues of registry transactions                                         *)

\* One transaction of the queue has been committed: the others are still there.
Committed(q, p, i) ==
    /\ \A j \in DOMAIN q : j # i => \E k \in DOMAIN p : p[k] = q[j]
    /\ \A k \in DOMAIN p : \E j \in DOMAIN q : j # i /\ p[k] = q[j]

LEMMA CommitLeaves ==
    ASSUME NEW q \in Seq(Transaction), NEW i \in DOMAIN q
    PROVE  Committed(q, SubSeq(q, 1, i - 1) \o SubSeq(q, i + 1, Len(q)), i)
<1> DEFINE a == SubSeq(q, 1, i - 1)
           b == SubSeq(q, i + 1, Len(q))
           p == a \o b
<1>1. Len(q) \in Nat /\ DOMAIN q = 1..Len(q) /\ i \in 1..Len(q)
  OBVIOUS
<1>2. /\ a \in Seq(Transaction) /\ Len(a) = i - 1 /\ \A k \in 1..i - 1 : a[k] = q[k]
      /\ b \in Seq(Transaction) /\ Len(b) = Len(q) - i /\ \A k \in 1..Len(q) - i : b[k] = q[k + i]
  BY <1>1
<1> HIDE DEF a, b
<1>3. /\ Len(p) = Len(q) - 1 /\ DOMAIN p = 1..Len(q) - 1
      /\ \A k \in 1..Len(q) - 1 : p[k] = IF k < i THEN q[k] ELSE q[k + 1]
  <2>1. /\ Len(p) = Len(a) + Len(b)
        /\ \A k \in 1..Len(a) + Len(b) : p[k] = IF k <= Len(a) THEN a[k] ELSE b[k - Len(a)]
    BY <1>2, ConcatProperties
  <2>2. p \in Seq(Transaction) /\ DOMAIN p = 1..Len(p)
    BY <1>2, ConcatProperties
  <2> HIDE DEF p
  <2>3. Len(p) = Len(q) - 1
    BY <1>1, <1>2, <2>1
  <2>4. ASSUME NEW k \in 1..Len(q) - 1 PROVE p[k] = IF k < i THEN q[k] ELSE q[k + 1]
    <3>1. k \in Nat /\ i \in Nat /\ k <= Len(q) - 1 /\ k \in 1..Len(a) + Len(b)
      BY <1>1, <1>2
    <3>2. CASE k < i
      BY <1>1, <1>2, <2>1, <3>1, <3>2
    <3>3. CASE k >= i
      <4>1. k - Len(a) \in 1..Len(q) - i /\ (k - Len(a)) + i = k + 1 /\ ~(k <= Len(a))
        BY <1>1, <1>2, <3>1, <3>3
      <4>2. p[k] = b[k - Len(a)]
        BY <2>1, <3>1, <4>1
      <4>3. b[k - Len(a)] = q[(k - Len(a)) + i]
        BY <1>2, <4>1
      <4> QED BY <1>1, <3>1, <3>3, <4>1, <4>2, <4>3
    <3> QED BY <3>1, <3>2, <3>3
  <2> QED BY <2>2, <2>3, <2>4
<1> HIDE DEF p
<1>4. \A j \in DOMAIN q : j # i => \E k \in DOMAIN p : p[k] = q[j]
  <2> SUFFICES ASSUME NEW j \in DOMAIN q, j # i PROVE \E k \in DOMAIN p : p[k] = q[j]
    OBVIOUS
  <2>1. CASE j < i
    BY <1>1, <1>3, <2>1
  <2>2. CASE j > i
    <3>1. j - 1 \in DOMAIN p /\ p[j - 1] = q[j]
      BY <1>1, <1>3, <2>2
    <3> QED BY <3>1
  <2> QED BY <1>1, <2>1, <2>2
<1>5. \A k \in DOMAIN p : \E j \in DOMAIN q : j # i /\ p[k] = q[j]
  <2> SUFFICES ASSUME NEW k \in DOMAIN p PROVE \E j \in DOMAIN q : j # i /\ p[k] = q[j]
    OBVIOUS
  <2>1. CASE k < i
    BY <1>1, <1>3, <2>1
  <2>2. CASE k >= i
    <3>1. k + 1 \in DOMAIN q /\ k + 1 # i /\ p[k] = q[k + 1]
      BY <1>1, <1>3, <2>2
    <3> QED BY <3>1
  <2> QED BY <1>1, <1>3, <2>1, <2>2
<1> QED
  BY <1>4, <1>5 DEF Committed, p, a, b

LEMMA AppendKeeps ==
    ASSUME NEW q \in Seq(Transaction), NEW x \in Transaction
    PROVE  /\ \A i \in DOMAIN q : i \in DOMAIN Append(q, x) /\ Append(q, x)[i] = q[i]
           /\ \E i \in DOMAIN Append(q, x) : Append(q, x)[i] = x
           /\ \A i \in DOMAIN Append(q, x) : Append(q, x)[i] = x \/ (i \in DOMAIN q /\ Append(q, x)[i] = q[i])
<1> DEFINE p == Append(q, x)
<1>1. /\ Len(q) \in Nat /\ DOMAIN q = 1..Len(q) /\ DOMAIN p = 1..Len(q) + 1
      /\ p[Len(q) + 1] = x /\ \A i \in 1..Len(q) : p[i] = q[i]
  OBVIOUS
<1> HIDE DEF p
<1>2. Len(q) + 1 \in DOMAIN p
  BY <1>1
<1>3. \A i \in DOMAIN p : i \in DOMAIN q \/ i = Len(q) + 1
  BY <1>1
<1>4. /\ \A i \in DOMAIN q : i \in DOMAIN p /\ p[i] = q[i]
      /\ \E i \in DOMAIN p : p[i] = x
      /\ \A i \in DOMAIN p : p[i] = x \/ (i \in DOMAIN q /\ p[i] = q[i])
  BY <1>1, <1>2, <1>3
<1> QED
  BY <1>4 DEF p

-----------------------------------------------------------------------------
(* A connected client is registered                                        *)

\* Only a running instance has clients, handlers and transactions, and the clients
\* of an instance are those that connect to it.
Living ==
    /\ \A c \in Clients : /\ conn[c] = "open" => c \in clients[Home[c]]
                          /\ join[c].pc \in {"create", "init", "register", "listen", "has", "push"}
                                 => Up(Home[c])
    /\ \A n \in Instances : /\ ~Up(n) => clients[n] = {} /\ pending[n] = <<>>
                            /\ \A c \in clients[n] : Home[c] = n

\* The registry knows instances that have been started, and the cron job deletes
\* instances that have crashed.
Dead ==
    \A n \in Instances :
        /\ registry[n].known => up[n] # "off"
        /\ prune[n].pc = "wait" => \A m \in prune[n].silent : up[m] # "off"
        /\ prune[n].pc = "delete" => \A m \in prune[n].silent : up[m] = "down"

\* No removal of a connected client is pending; a registration comes first.
Adding(c) == [kind |-> "add", c |-> c]
Removing(c) == [kind |-> "remove", c |-> c]
Waiting ==
    /\ \A c \in Clients : conn[c] # "closed" =>
          \A i \in DOMAIN pending[Home[c]] : pending[Home[c]][i] # Removing(c)
    /\ \A n \in Instances : up[n] = "off" => registry[n].clients = {}
    /\ Ordered => \A n \in Instances : \A i \in DOMAIN pending[n] :
                      pending[n][i] = Register => i = 1 /\ registry[n].clients = {}

\* A client that has not connected has done nothing.
Unborn == \A c \in Clients : conn[c] = "new" => join[c].pc = "none" /\ c \notin clients[Home[c]]

RegistryInv == Living /\ Unborn /\ (Timely => Dead) /\ Waiting

\* The steps that leave the clients and their instance alone.
Quiet ==
    \/ \E n \in Instances : Pruning(n) \/ Sweeping(n)
    \/ \E n, m \in Instances : Pong(n, m)
    \/ \E n \in Instances, r \in Rooms : ReceiveClose(n, r)
    \/ \E c \in Clients : Dropped(c)
    \/ UNCHANGED vars

LEMMA QuietFrame == Quiet => UNCHANGED <<up, conn, clients, pending, join>>
<1>1. ASSUME NEW n \in Instances, Pruning(n) \/ \E m \in Instances : Pong(n, m)
      PROVE  UNCHANGED <<up, conn, clients, pending, join>>
  BY <1>1 DEF Pruning, Pong, PruneStart, PruneTimeout, PruneDelete, PruneGet, PruneInit, PruneEvict,
              PruneClose, PruneUnregister, PruneClosed, tables
<1>2. ASSUME NEW n \in Instances, Sweeping(n)
      PROVE  UNCHANGED <<up, conn, clients, pending, join>>
  BY <1>2 DEF Sweeping, SweepStart, SweepLocal, SweepScan, SweepLeave, SweepClose, SweepUnregister,
              SweepClosed, tables
<1>3. ASSUME NEW n \in Instances, NEW r \in Rooms, ReceiveClose(n, r)
      PROVE  UNCHANGED <<up, conn, clients, pending, join>>
  BY <1>3 DEF ReceiveClose, jobs
<1>4. ASSUME NEW c \in Clients, Dropped(c)
      PROVE  UNCHANGED <<up, conn, clients, pending, join>>
  BY <1>4 DEF Dropped, ScanRoom, LeaveFound, tables
<1>5. CASE UNCHANGED vars
  BY <1>5 DEF vars, tables, jobs
<1> QED
  BY <1>1, <1>2, <1>3, <1>4, <1>5 DEF Quiet

\* The other steps of a join.
JoinMoves(c) == JoinNew(c) \/ JoinInit(c) \/ JoinRegister(c) \/ JoinHas(c) \/ JoinPush(c)

LEMMA JoinFrame ==
    ASSUME TypeOK, NEW c \in Clients, JoinMoves(c)
    PROVE  /\ UNCHANGED <<up, conn, clients, pending>>
           /\ join[c].pc \in {"create", "init", "register", "has", "push"}
           /\ \A d \in Clients : d # c => join'[d] = join[d]
<1>1. UNCHANGED <<up, conn, clients, pending>>
      /\ join[c].pc \in {"create", "init", "register", "has", "push"}
  BY DEF JoinMoves, JoinNew, JoinInit, JoinRegister, JoinHas, JoinPush, tables
<1>2. \A d \in Clients : d # c => join'[d] = join[d]
  BY JoinType DEF JoinMoves, JoinNew, JoinInit, JoinRegister, JoinHas, JoinPush
<1> QED
  BY <1>1, <1>2

LEMMA NextKinds ==
    ASSUME [Next]_vars
    PROVE  \/ Quiet
           \/ \E n \in Instances : Start(n) \/ Crash(n) \/ CommitPending(n)
           \/ \E c \in Clients : Connect(c) \/ Drop(c) \/ JoinExisting(c) \/ JoinListen(c) \/ JoinMoves(c)
           \/ \E c \in Clients, r \in Rooms : JoinStart(c, r)
BY DEF Next, Quiet, Joining, JoinMoves

LEMMA LivingInit == Init => Living
BY DEF Init, Living, Up, NoJoin

LEMMA LivingNext ==
    ASSUME TypeOK, Living, [Next]_vars
    PROVE  Living'
<1>1. /\ up \in [Instances -> {"off", "up", "down"}] /\ conn \in [Clients -> {"new", "open", "closed"}]
      /\ clients \in [Instances -> SUBSET Clients] /\ pending \in [Instances -> Seq(Transaction)]
      /\ join \in [Clients -> Join] /\ \A c \in Clients : Home[c] \in Instances
  BY DEF TypeOK
<1>2. CASE Quiet
  BY <1>2, QuietFrame DEF Living, Up
<1>3. ASSUME NEW n \in Instances, Start(n)
      PROVE  Living'
  <2>1. UNCHANGED <<conn, clients, join>> /\ up' = [up EXCEPT ![n] = "up"] /\ up[n] = "off"
        /\ pending' = [pending EXCEPT ![n] = <<Register>>]
    BY <1>3 DEF Start, tables, jobs
  <2>2. \A m \in Instances : Up(m) => Up(m)'
    BY <1>1, <2>1 DEF Up
  <2>3. \A m \in Instances : ~Up(m)' => m # n /\ ~Up(m) /\ pending'[m] = pending[m]
    BY <1>1, <2>1 DEF Up
  <2> QED BY <2>1, <2>2, <2>3 DEF Living
<1>4. ASSUME NEW n \in Instances, Crash(n)
      PROVE  Living'
  <2>1. /\ up' = [up EXCEPT ![n] = "down"]
        /\ conn' = [c \in Clients |-> IF Home[c] = n THEN "closed" ELSE conn[c]]
        /\ clients' = [clients EXCEPT ![n] = {}]
        /\ pending' = [pending EXCEPT ![n] = <<>>]
        /\ join' = [c \in Clients |-> IF Home[c] = n THEN [pc |-> "done", at |-> {}] ELSE join[c]]
    BY <1>4 DEF Crash
  <2>2. \A c \in Clients : /\ conn'[c] = "open" => c \in clients'[Home[c]]
                           /\ join'[c].pc \in {"create", "init", "register", "listen", "has", "push"}
                                  => Up(Home[c])'
    BY <1>1, <2>1 DEF Living, Up
  <2>3. \A m \in Instances : /\ ~Up(m)' => clients'[m] = {} /\ pending'[m] = <<>>
                             /\ \A c \in clients'[m] : Home[c] = m
    BY <1>1, <2>1 DEF Living, Up
  <2> QED BY <2>2, <2>3 DEF Living
<1>5. ASSUME NEW n \in Instances, CommitPending(n)
      PROVE  Living'
  <2>1. UNCHANGED <<up, conn, clients, join>> /\ pending[n] # <<>>
    BY <1>1, <1>5 DEF CommitPending, tables, jobs
  <2>2. \A m \in Instances : m # n => pending'[m] = pending[m]
    BY <1>1, <1>5 DEF CommitPending
  <2> QED BY <2>1, <2>2 DEF Living, Up
<1>6. ASSUME NEW c \in Clients, AddClient(Home[c], c), Up(Home[c]), UNCHANGED up,
             \A d \in Clients : /\ conn'[d] = "open" => conn[d] = "open" \/ d = c
                                /\ d # c => join'[d] = join[d]
      PROVE  Living'
  <2> DEFINE n == Home[c]
  <2>1. \A m \in Instances : m # n => clients'[m] = clients[m] /\ pending'[m] = pending[m]
    BY <1>1, <1>6 DEF AddClient
  <2>2. clients'[n] = clients[n] \cup {c}
    BY <1>1, <1>6 DEF AddClient
  <2>3. ASSUME NEW m \in Instances
        PROVE  clients[m] \subseteq clients'[m] /\ \A d \in clients'[m] : d \in clients[m] \/ (d = c /\ m = n)
    BY <2>1, <2>2
  <2>4. \A d \in Clients : conn'[d] = "open" => d \in clients'[Home[d]]
    BY <1>1, <1>6, <2>2, <2>3 DEF Living
  <2>5. \A d \in Clients : join'[d].pc \in {"create", "init", "register", "listen", "has", "push"}
                                 => Up(Home[d])'
    BY <1>6 DEF Living, Up
  <2>6. \A m \in Instances : /\ ~Up(m)' => clients'[m] = {} /\ pending'[m] = <<>>
                             /\ \A d \in clients'[m] : Home[d] = m
    BY <1>6, <2>1, <2>3 DEF Living, Up
  <2> QED BY <2>4, <2>5, <2>6 DEF Living
<1>7. ASSUME NEW c \in Clients, Connect(c)
      PROVE  Living'
  <2>1. /\ AddClient(Home[c], c) /\ Up(Home[c]) /\ UNCHANGED <<up, join>>
        /\ conn' = [conn EXCEPT ![c] = "open"]
    BY <1>7 DEF Connect, jobs
  <2> QED BY <1>1, <1>6, <2>1
<1>8. ASSUME NEW c \in Clients, JoinExisting(c) \/ JoinListen(c)
      PROVE  Living'
  <2>1. /\ join[c].pc \in {"create", "listen"} /\ UNCHANGED <<up, conn>>
        /\ AddClient(Home[c], c) \/ UNCHANGED <<clients, pending>>
    BY <1>8 DEF JoinExisting, JoinListen
  <2>2. \A d \in Clients : d # c => join'[d] = join[d]
    BY <1>8, JoinType DEF JoinExisting, JoinListen
  <2>3. Up(Home[c])
    BY <2>1 DEF Living
  <2>4. CASE AddClient(Home[c], c)
    BY <1>6, <2>1, <2>2, <2>3, <2>4
  <2>5. CASE UNCHANGED <<clients, pending>>
    BY <2>1, <2>2, <2>3, <2>5 DEF Living, Up
  <2> QED BY <2>1, <2>4, <2>5
<1>9. ASSUME NEW c \in Clients, JoinMoves(c)
      PROVE  Living'
  <2>1. Up(Home[c])
    BY <1>9, JoinFrame DEF Living
  <2> QED BY <1>9, <2>1, JoinFrame DEF Living, Up
<1>10. ASSUME NEW c \in Clients, NEW r \in Rooms, JoinStart(c, r)
       PROVE  Living'
  <2>1. /\ conn[c] = "open" /\ UNCHANGED <<up, conn, clients, pending>>
        /\ \A d \in Clients : d # c => join'[d] = join[d]
    BY <1>1, <1>10 DEF JoinStart, tables
  <2>2. Up(Home[c])
    BY <1>1, <2>1 DEF Living
  <2> QED BY <2>1, <2>2 DEF Living, Up
<1>11. ASSUME NEW c \in Clients, Drop(c)
       PROVE  Living'
  <2> DEFINE n == Home[c]
  <2>1. /\ conn[c] = "open" /\ UNCHANGED <<up, join>> /\ conn' = [conn EXCEPT ![c] = "closed"]
        /\ clients' = [clients EXCEPT ![n] = @ \ {c}]
        /\ \A m \in Instances : m # n => pending'[m] = pending[m]
    BY <1>1, <1>11 DEF Drop
  <2>2. Up(n)
    BY <1>1, <2>1 DEF Living
  <2>3. \A d \in Clients : conn'[d] = "open" => d # c /\ conn[d] = "open"
    BY <1>1, <2>1
  <2>4. \A m \in Instances : clients'[m] = IF m = n THEN clients[m] \ {c} ELSE clients[m]
    BY <1>1, <2>1
  <2> QED BY <1>1, <2>1, <2>2, <2>3, <2>4 DEF Living, Up
<1> QED
  BY <1>2, <1>3, <1>4, <1>5, <1>7, <1>8, <1>9, <1>10, <1>11, NextKinds

LEMMA UnbornNext ==
    ASSUME TypeOK, Unborn, [Next]_vars
    PROVE  Unborn'
<1>1. /\ \A c \in Clients : Home[c] \in Instances
      /\ clients \in [Instances -> SUBSET Clients]
      /\ conn \in [Clients -> {"new", "open", "closed"}] /\ join \in [Clients -> Join]
  BY DEF TypeOK
<1>2. ASSUME UNCHANGED <<conn, clients, join>>
      PROVE  Unborn'
  BY <1>2 DEF Unborn
<1>3. CASE Quiet
  BY <1>2, <1>3, QuietFrame
<1>4. ASSUME NEW n \in Instances, Start(n) \/ CommitPending(n)
      PROVE  Unborn'
  BY <1>2, <1>4 DEF Start, CommitPending, tables, jobs
<1>5. ASSUME NEW n \in Instances, Crash(n)
      PROVE  Unborn'
  <2>1. /\ conn' = [c \in Clients |-> IF Home[c] = n THEN "closed" ELSE conn[c]]
        /\ clients' = [clients EXCEPT ![n] = {}]
        /\ join' = [c \in Clients |-> IF Home[c] = n THEN [pc |-> "done", at |-> {}] ELSE join[c]]
    BY <1>5 DEF Crash
  <2> QED BY <1>1, <2>1 DEF Unborn
\* One client moves, which has connected.
<1>6. ASSUME NEW c \in Clients, conn'[c] # "new",
             \A d \in Clients : d # c => conn'[d] = conn[d] /\ join'[d] = join[d],
             \A m \in Instances : clients'[m] \subseteq clients[m] \cup {c}
      PROVE  Unborn'
  BY <1>1, <1>6 DEF Unborn
<1>7. ASSUME NEW c \in Clients, AddClient(Home[c], c)
      PROVE  \A m \in Instances : clients'[m] \subseteq clients[m] \cup {c}
  BY <1>1, <1>7 DEF AddClient
<1>8. ASSUME NEW c \in Clients, Connect(c)
      PROVE  Unborn'
  <2>1. AddClient(Home[c], c) /\ conn' = [conn EXCEPT ![c] = "open"] /\ join' = join
    BY <1>8 DEF Connect, jobs
  <2> QED BY <1>1, <1>6, <1>7, <2>1
<1>9. ASSUME NEW c \in Clients, JoinExisting(c)
      PROVE  Unborn'
  <2>1. /\ AddClient(Home[c], c) /\ conn' = conn /\ join[c].pc = "create"
        /\ \A d \in Clients : d # c => join'[d] = join[d]
    BY <1>9, JoinType DEF JoinExisting
  <2>2. conn[c] # "new"
    BY <2>1 DEF Unborn
  <2> QED BY <1>6, <1>7, <2>1, <2>2
<1>10. ASSUME NEW c \in Clients, JoinListen(c)
       PROVE  Unborn'
  <2>1. /\ AddClient(Home[c], c) \/ clients' = clients
        /\ conn' = conn /\ join[c].pc = "listen"
        /\ \A d \in Clients : d # c => join'[d] = join[d]
    BY <1>10, JoinType DEF JoinListen
  <2>2. conn[c] # "new"
    BY <2>1 DEF Unborn
  <2> QED BY <1>6, <1>7, <2>1, <2>2
<1>11. ASSUME NEW c \in Clients, Drop(c)
       PROVE  Unborn'
  <2>1. /\ conn' = [conn EXCEPT ![c] = "closed"] /\ join' = join
        /\ clients' = [clients EXCEPT ![Home[c]] = @ \ {c}]
    BY <1>11 DEF Drop
  <2>2. \A m \in Instances : clients'[m] \subseteq clients[m]
    BY <1>1, <2>1
  <2> QED BY <1>1, <1>6, <2>1, <2>2
<1>12. ASSUME NEW c \in Clients, JoinMoves(c)
       PROVE  Unborn'
  <2>1. conn[c] # "new"
    BY <1>12, JoinFrame DEF Unborn
  <2> QED BY <1>6, <1>12, <2>1, JoinFrame
<1>13. ASSUME NEW c \in Clients, NEW r \in Rooms, JoinStart(c, r)
       PROVE  Unborn'
  <2>1. /\ conn[c] = "open" /\ UNCHANGED <<conn, clients>>
        /\ join' = [join EXCEPT ![c] = [pc |-> "create", at |-> {r}]]
    BY <1>13 DEF JoinStart, tables
  <2> QED BY <1>1, <1>6, <2>1
<1> QED
  BY <1>3, <1>4, <1>5, <1>8, <1>9, <1>10, <1>11, <1>12, <1>13, NextKinds

LEMMA JoiningRegistry ==
    ASSUME TypeOK, NEW c \in Clients, JoinMoves(c)
    PROVE  /\ UNCHANGED prune
           /\ \A m \in Instances : /\ registry'[m].clients = registry[m].clients
                                   /\ registry'[m].known => registry[m].known \/ m = Home[c]
<1>1. registry \in [Instances -> Entry] /\ Home[c] \in Instances
  BY DEF TypeOK
<1>2. CASE JoinRegister(c)
  <2>1. PICK r \in join[c].at : RegisterRoom(Home[c], r)
    BY <1>2 DEF JoinRegister
  <2> DEFINE e == registry[Home[c]]
             g == [e EXCEPT !.known = TRUE]
             d == [g EXCEPT !.rooms = @ \cup {r}]
  <2>2. registry' = [registry EXCEPT ![Home[c]] = d]
    BY <1>1, <2>1 DEF RegisterRoom
  <2>3. d.clients = e.clients
    BY <1>1 DEF Entry
  <2> HIDE DEF d
  <2>4. UNCHANGED prune
    BY <1>2 DEF JoinRegister
  <2> QED BY <1>1, <2>2, <2>3, <2>4
<1>3. CASE ~JoinRegister(c)
  BY <1>3 DEF JoinMoves, JoinNew, JoinInit, JoinHas, JoinPush, shared
<1> QED
  BY <1>2, <1>3

\* What a quiet step makes of the registry: entries that are deleted are those of the
\* instances the cron job has found silent.
LEMMA QuietRegistry ==
    ASSUME TypeOK, Quiet
    PROVE  \A m \in Instances :
               \/ registry'[m].clients = registry[m].clients /\ registry'[m].known = registry[m].known
               \/ registry'[m] = NoEntry /\ TakenForDead(m)
<1>1. registry \in [Instances -> Entry]
  BY DEF TypeOK
<1>2. CASE UNCHANGED registry
  BY <1>2
<1>3. ASSUME NEW n \in Instances, NEW r, UnregisterRoom(n, r)
      PROVE  \A m \in Instances : registry'[m].clients = registry[m].clients
                                  /\ registry'[m].known = registry[m].known
  <2> DEFINE d == [registry[n] EXCEPT !.rooms = @ \ {r}]
  <2>1. registry' = [registry EXCEPT ![n] = d]
    BY <1>1, <1>3 DEF UnregisterRoom
  <2>2. d.clients = registry[n].clients /\ d.known = registry[n].known
    BY <1>1 DEF Entry
  <2> HIDE DEF d
  <2> QED BY <1>1, <2>1, <2>2
<1>4. ASSUME NEW n \in Instances, PruneDelete(n)
      PROVE  \A m \in Instances :
               \/ registry'[m].clients = registry[m].clients /\ registry'[m].known = registry[m].known
               \/ registry'[m] = NoEntry /\ TakenForDead(m)
  BY <1>4 DEF PruneDelete, TakenForDead
<1>5. ASSUME NEW n \in Instances, PruneUnregister(n) \/ SweepUnregister(n)
      PROVE  \A m \in Instances : registry'[m].clients = registry[m].clients
                                  /\ registry'[m].known = registry[m].known
  BY <1>3, <1>5 DEF PruneUnregister, SweepUnregister
<1>6. ASSUME NEW n \in Instances, Pruning(n) \/ \E m \in Instances : Pong(n, m),
             ~PruneDelete(n), ~PruneUnregister(n)
      PROVE  UNCHANGED registry
  BY <1>6 DEF Pruning, Pong, PruneStart, PruneTimeout, PruneGet, PruneInit, PruneEvict, PruneClose,
              PruneClosed, shared
<1>7. ASSUME NEW n \in Instances, Sweeping(n), ~SweepUnregister(n)
      PROVE  UNCHANGED registry
  BY <1>7 DEF Sweeping, SweepStart, SweepLocal, SweepScan, SweepLeave, SweepClose, SweepClosed, shared
<1>8. ASSUME NEW n \in Instances, NEW r \in Rooms, ReceiveClose(n, r)
      PROVE  UNCHANGED registry
  BY <1>8 DEF ReceiveClose
<1>9. ASSUME NEW c \in Clients, Dropped(c)
      PROVE  UNCHANGED registry
  BY <1>9 DEF Dropped, ScanRoom, LeaveFound, shared
<1>10. CASE UNCHANGED vars
  BY <1>2, <1>10 DEF vars, shared
<1>11. ASSUME NEW n \in Instances, Pruning(n) \/ \E m \in Instances : Pong(n, m)
       PROVE  \A m \in Instances :
               \/ registry'[m].clients = registry[m].clients /\ registry'[m].known = registry[m].known
               \/ registry'[m] = NoEntry /\ TakenForDead(m)
  BY <1>2, <1>4, <1>5, <1>6, <1>11
<1>12. ASSUME NEW n \in Instances, Sweeping(n)
       PROVE  \A m \in Instances : registry'[m].clients = registry[m].clients
                                  /\ registry'[m].known = registry[m].known
  BY <1>5, <1>7, <1>12
<1> QED
  BY <1>2, <1>8, <1>9, <1>10, <1>11, <1>12 DEF Quiet

LEMMA CommitKnown ==
    ASSUME TypeOK, NEW n \in Instances, CommitPending(n)
    PROVE  /\ pending[n] # <<>>
           /\ \A m \in Instances : m # n => registry'[m] = registry[m] /\ pending'[m] = pending[m]
           /\ UNCHANGED <<up, conn, clients, prune>>
<1>1. registry \in [Instances -> Entry] /\ pending \in [Instances -> Seq(Transaction)]
  BY DEF TypeOK
<1> QED
  BY <1>1 DEF CommitPending, tables, jobs

LEMMA DeadInit == Init => Dead
<1>1. NoEntry.known = FALSE /\ NoPrune.pc = "idle"
  BY DEF NoEntry, NoPrune
<1> QED
  BY <1>1 DEF Init, Dead

LEMMA DeadNext ==
    ASSUME TypeOK, Living, Dead, [Next]_vars, Timely
    PROVE  Dead'
<1>1. /\ up \in [Instances -> {"off", "up", "down"}] /\ registry \in [Instances -> Entry]
      /\ prune \in [Instances -> Prune] /\ \A c \in Clients : Home[c] \in Instances
      /\ \A n \in Instances : prune[n].silent \in SUBSET Instances
  BY DEF TypeOK, Prune
<1>2. NoEntry.known = FALSE /\ NoPrune.pc = "idle"
  BY DEF NoEntry, NoPrune
<1>3. ASSUME UNCHANGED <<up, prune>>,
             \A m \in Instances : registry'[m].known => registry[m].known \/ up[m] # "off"
      PROVE  Dead'
  BY <1>3 DEF Dead
<1>4. CASE Quiet
  <2>1. UNCHANGED up
    BY <1>4, QuietFrame
  <2>2. \A m \in Instances : registry'[m].known => registry[m].known
    BY <1>2, <1>4, QuietRegistry
  <2>3. ASSUME NEW n \in Instances, NEW x, PruneMoves(n, x)
        PROVE  Dead'
    <3>1. prune' = [prune EXCEPT ![n] = x] /\ SilentFits(n, x)
      BY <2>3 DEF PruneMoves
    <3>2. x.pc = "wait" => \A m \in x.silent : up[m] # "off"
      <4>1. x.silent \in SUBSET Instances
        BY <2>3 DEF PruneMoves, Prune
      <4> QED BY <3>1, <4>1 DEF SilentFits, Dead
    <3>3. x.pc = "delete" => \A m \in x.silent : up[m] = "down"
      BY <1>1, <3>1 DEF SilentFits, Dead, Up
    <3>4. \A k \in Instances : prune'[k] = IF k = n THEN x ELSE prune[k]
      BY <1>1, <3>1
    <3> QED BY <2>1, <2>2, <3>2, <3>3, <3>4 DEF Dead
  <2>4. CASE UNCHANGED prune
    BY <1>3, <2>1, <2>2, <2>4
  <2>5. ASSUME NEW n \in Instances, Pruning(n) \/ \E m \in Instances : Pong(n, m)
        PROVE  Dead'
    BY <2>3, <2>5, PruningMoves
  <2>6. \/ UNCHANGED prune
        \/ \E n \in Instances : Pruning(n) \/ \E m \in Instances : Pong(n, m)
    BY <1>4 DEF Quiet, Sweeping, SweepStart, SweepLocal, SweepScan, SweepLeave, SweepClose,
                SweepUnregister, SweepClosed, ReceiveClose, Dropped, ScanRoom, LeaveFound, vars, jobs
  <2> QED BY <2>4, <2>5, <2>6
<1>5. ASSUME NEW n \in Instances, Start(n)
      PROVE  Dead'
  <2>1. up[n] = "off" /\ up' = [up EXCEPT ![n] = "up"] /\ UNCHANGED <<registry, prune>>
    BY <1>5 DEF Start, shared, jobs
  <2>2. \A m \in Instances : /\ up[m] # "off" => up'[m] # "off"
                             /\ up[m] = "down" => up'[m] = "down"
    BY <1>1, <2>1
  <2> QED BY <1>1, <2>1, <2>2 DEF Dead
<1>6. ASSUME NEW n \in Instances, Crash(n)
      PROVE  Dead'
  <2>1. up' = [up EXCEPT ![n] = "down"] /\ UNCHANGED registry /\ prune' = [prune EXCEPT ![n] = NoPrune]
    BY <1>6 DEF Crash
  <2>2. \A m \in Instances : /\ up[m] # "off" => up'[m] # "off"
                             /\ up[m] = "down" => up'[m] = "down"
    BY <1>1, <2>1
  <2>3. \A m \in Instances : prune'[m] = IF m = n THEN NoPrune ELSE prune[m]
    BY <1>1, <2>1
  <2> QED BY <1>1, <1>2, <2>1, <2>2, <2>3 DEF Dead
<1>7. ASSUME NEW n \in Instances, CommitPending(n)
      PROVE  Dead'
  <2>1. Up(n)
    BY <1>7, CommitKnown DEF Living
  <2> QED BY <1>3, <1>7, <2>1, CommitKnown DEF Up
<1>8. ASSUME NEW c \in Clients, Connect(c) \/ Drop(c) \/ JoinExisting(c) \/ JoinListen(c)
      PROVE  Dead'
  <2>1. UNCHANGED <<up, prune, registry>>
    BY <1>8 DEF Connect, Drop, JoinExisting, JoinListen, shared, jobs
  <2> QED BY <1>3, <2>1
<1>9. ASSUME NEW c \in Clients, JoinMoves(c)
      PROVE  Dead'
  <2>1. UNCHANGED up /\ Up(Home[c])
    BY <1>9, JoinFrame DEF Living
  <2> QED BY <1>3, <1>9, <2>1, JoiningRegistry DEF Up
<1>10. ASSUME NEW c \in Clients, NEW r \in Rooms, JoinStart(c, r)
       PROVE  Dead'
  <2>1. UNCHANGED <<up, prune, registry>>
    BY <1>10 DEF JoinStart, shared
  <2> QED BY <1>3, <2>1
<1> QED
  BY <1>4, <1>5, <1>6, <1>7, <1>8, <1>9, <1>10, NextKinds


\* Another client may go, and clients of the registry.
LEMMA WaitingShrinks ==
    ASSUME TypeOK, Waiting, UNCHANGED pending,
           \A c \in Clients : conn'[c] # "closed" => conn[c] # "closed",
           \A n \in Instances : /\ up'[n] = "off" => up[n] = "off"
                                /\ registry'[n].clients = registry[n].clients \/ registry'[n].clients = {}
    PROVE  Waiting'
BY DEF Waiting

\* The queue of one instance changes: what has come to it.
LEMMA WaitingQueue ==
    ASSUME TypeOK, Waiting, NEW n \in Instances, UNCHANGED <<up, registry>>,
           \A c \in Clients : conn'[c] # "closed" => conn[c] # "closed",
           \A m \in Instances : m # n => pending'[m] = pending[m],
           \A i \in DOMAIN pending'[n] :
              \/ i \in DOMAIN pending[n] /\ pending'[n][i] = pending[n][i]
              \/ /\ pending'[n][i] # Register
                 /\ \A c \in Clients : pending'[n][i] = Removing(c) => conn'[c] = "closed"
    PROVE  Waiting'
<1>1. ASSUME NEW c \in Clients, conn'[c] # "closed", NEW i \in DOMAIN pending'[Home[c]]
      PROVE  pending'[Home[c]][i] # Removing(c)
  BY <1>1 DEF Waiting
<1>2. ASSUME Ordered, NEW m \in Instances, NEW i \in DOMAIN pending'[m], pending'[m][i] = Register
      PROVE  i = 1 /\ registry'[m].clients = {}
  BY <1>2 DEF Waiting
<1> QED
  BY <1>1, <1>2 DEF Waiting

LEMMA WaitingCommit ==
    ASSUME TypeOK, Waiting, Living, NEW n \in Instances, CommitPending(n)
    PROVE  Waiting'
<1> DEFINE q == pending[n]
           p == pending'[n]
<1>1. PICK i \in DOMAIN q :
         /\ Ordered => i = 1
         /\ registry' = [registry EXCEPT ![n] = Applied(@, q[i])]
         /\ pending' = [pending EXCEPT ![n] = SubSeq(@, 1, i - 1) \o SubSeq(@, i + 1, Len(@))]
  BY DEF CommitPending
<1>2. q \in Seq(Transaction) /\ Committed(q, p, i) /\ UNCHANGED <<up, conn>>
      /\ \A m \in Instances : m # n => pending'[m] = pending[m] /\ registry'[m] = registry[m]
  BY <1>1, CommitLeaves, CommitKnown DEF TypeOK
<1> HIDE DEF p
<1>3. ASSUME NEW c \in Clients, conn'[c] # "closed", NEW k \in DOMAIN pending'[Home[c]]
      PROVE  pending'[Home[c]][k] # Removing(c)
  <2>1. CASE Home[c] = n
    BY <1>2, <1>3, <2>1 DEF Waiting, Committed, p
  <2>2. CASE Home[c] # n
    BY <1>2, <1>3, <2>2 DEF Waiting, TypeOK
  <2> QED BY <2>1, <2>2
<1>4. up[n] # "off"
  BY <1>1 DEF Living, Up
<1>5. ASSUME Ordered, NEW m \in Instances, NEW k \in DOMAIN pending'[m], pending'[m][k] = Register
      PROVE  k = 1 /\ registry'[m].clients = {}
  <2>1. CASE m = n
    <3>1. PICK j \in DOMAIN q : j # i /\ pending'[m][k] = q[j]
      BY <1>2, <1>5, <2>1 DEF Committed, p
    <3> QED BY <1>1, <1>5, <3>1 DEF Waiting
  <2>2. CASE m # n
    BY <1>2, <1>5, <2>2 DEF Waiting
  <2> QED BY <2>1, <2>2
<1> QED
  BY <1>2, <1>3, <1>4, <1>5 DEF Waiting

LEMMA WaitingNext ==
    ASSUME TypeOK, Living, Waiting, [Next]_vars
    PROVE  Waiting'
<1>1. /\ registry \in [Instances -> Entry] /\ \A c \in Clients : Home[c] \in Instances
      /\ pending \in [Instances -> Seq(Transaction)] /\ up \in [Instances -> {"off", "up", "down"}]
      /\ conn \in [Clients -> {"new", "open", "closed"}]
  BY DEF TypeOK
<1>2. CASE Quiet
  <2>1. UNCHANGED <<up, conn, pending>>
    BY <1>2, QuietFrame
  <2>2. \A n \in Instances : registry'[n].clients = registry[n].clients \/ registry'[n].clients = {}
    BY <1>2, QuietRegistry DEF NoEntry
  <2> QED BY <2>1, <2>2, WaitingShrinks
<1>3. ASSUME NEW n \in Instances, Start(n)
      PROVE  Waiting'
  <2>1. /\ up' = [up EXCEPT ![n] = "up"] /\ up[n] = "off" /\ UNCHANGED <<conn, registry>>
        /\ pending' = [pending EXCEPT ![n] = <<Register>>]
    BY <1>3 DEF Start, shared
  <2>2. DOMAIN pending'[n] = {1} /\ pending'[n][1] = Register
        /\ \A m \in Instances : m # n => pending'[m] = pending[m]
    BY <1>1, <2>1
  <2>3. \A c \in Clients : Register # Removing(c)
    BY DEF Register, Removing
  <2> QED BY <1>1, <2>1, <2>2, <2>3 DEF Waiting
<1>4. ASSUME NEW n \in Instances, Crash(n)
      PROVE  Waiting'
  <2>1. /\ up' = [up EXCEPT ![n] = "down"] /\ UNCHANGED registry
        /\ conn' = [c \in Clients |-> IF Home[c] = n THEN "closed" ELSE conn[c]]
        /\ pending' = [pending EXCEPT ![n] = <<>>]
    BY <1>4 DEF Crash
  <2>2. DOMAIN pending'[n] = {} /\ \A m \in Instances : m # n => pending'[m] = pending[m]
    BY <1>1, <2>1
  <2> QED BY <1>1, <2>1, <2>2 DEF Waiting
<1>5. ASSUME NEW n \in Instances, CommitPending(n)
      PROVE  Waiting'
  BY <1>5, WaitingCommit
<1>6. ASSUME NEW c \in Clients, AddClient(Home[c], c), UNCHANGED <<up, registry>>,
             \A d \in Clients : conn'[d] # "closed" => conn[d] # "closed"
      PROVE  Waiting'
  <2> DEFINE n == Home[c]
  <2>1. CASE UNCHANGED pending
    BY <1>6, <2>1, WaitingShrinks
  <2>2. CASE pending' = [pending EXCEPT ![n] = Append(@, Adding(c))]
    <3>1. Adding(c) \in Transaction /\ Adding(c) # Register /\ \A d \in Clients : Adding(c) # Removing(d)
      BY DEF Adding, Removing, Transaction, Register
    <3>2. pending[n] \in Seq(Transaction) /\ pending'[n] = Append(pending[n], Adding(c))
          /\ \A m \in Instances : m # n => pending'[m] = pending[m]
      BY <1>1, <2>2
    <3>3. \A i \in DOMAIN pending'[n] : pending'[n][i] = Adding(c)
                \/ (i \in DOMAIN pending[n] /\ pending'[n][i] = pending[n][i])
      BY <3>1, <3>2, AppendKeeps
    <3>4. \A i \in DOMAIN pending'[n] :
              \/ i \in DOMAIN pending[n] /\ pending'[n][i] = pending[n][i]
              \/ /\ pending'[n][i] # Register
                 /\ \A d \in Clients : pending'[n][i] = Removing(d) => conn'[d] = "closed"
      BY <3>1, <3>3
    <3>5. n \in Instances
      BY <1>1
    <3> HIDE DEF n
    <3> QED BY <1>6, <3>2, <3>4, <3>5, WaitingQueue
  <2> QED BY <1>6, <2>1, <2>2 DEF AddClient, Adding
<1>7. ASSUME NEW c \in Clients, Connect(c) \/ JoinExisting(c) \/ JoinListen(c)
      PROVE  Waiting'
  <2>1. /\ UNCHANGED <<up, registry>> /\ (AddClient(Home[c], c) \/ UNCHANGED pending)
        /\ conn' = conn \/ (conn[c] = "new" /\ conn' = [conn EXCEPT ![c] = "open"])
    BY <1>7 DEF Connect, JoinExisting, JoinListen, shared
  <2>2. \A d \in Clients : conn'[d] # "closed" => conn[d] # "closed"
    BY <1>1, <2>1
  <2> QED BY <1>6, <2>1, <2>2, WaitingShrinks
<1>8. ASSUME NEW c \in Clients, Drop(c)
      PROVE  Waiting'
  <2> DEFINE n == Home[c]
  <2>1. /\ pending' = [pending EXCEPT ![n] = Append(@, Removing(c))] /\ UNCHANGED <<up, registry>>
        /\ conn' = [conn EXCEPT ![c] = "closed"]
    BY <1>8 DEF Drop, shared, Removing
  <2>2. Removing(c) \in Transaction /\ Removing(c) # Register
        /\ \A d \in Clients : Removing(c) = Removing(d) => conn'[d] = "closed"
    BY <1>1, <2>1 DEF Removing, Transaction, Register
  <2>3. pending[n] \in Seq(Transaction) /\ pending'[n] = Append(pending[n], Removing(c))
        /\ \A m \in Instances : m # n => pending'[m] = pending[m]
    BY <1>1, <2>1
  <2>4. \A i \in DOMAIN pending'[n] : pending'[n][i] = Removing(c)
              \/ (i \in DOMAIN pending[n] /\ pending'[n][i] = pending[n][i])
    BY <2>2, <2>3, AppendKeeps
  <2>5. \A d \in Clients : conn'[d] # "closed" => conn[d] # "closed"
    BY <1>1, <2>1
  <2> QED BY <1>1, <2>1, <2>2, <2>3, <2>4, <2>5, WaitingQueue
<1>9. ASSUME NEW c \in Clients, JoinMoves(c)
      PROVE  Waiting'
  BY <1>9, JoinFrame, JoiningRegistry, WaitingShrinks
<1>10. ASSUME NEW c \in Clients, NEW r \in Rooms, JoinStart(c, r)
       PROVE  Waiting'
  <2>1. UNCHANGED <<up, conn, pending, registry>>
    BY <1>10 DEF JoinStart, shared
  <2> QED BY <2>1, WaitingShrinks
<1> QED
  BY <1>2, <1>3, <1>4, <1>5, <1>7, <1>8, <1>9, <1>10, NextKinds

LEMMA RegistryHolds == Spec => [](TypeOK /\ RegistryInv)
<1>1. Init => TypeOK /\ RegistryInv
  <2>1. Init => Waiting /\ Unborn
    BY DEF Init, Waiting, Unborn, NoEntry, NewEntry, NoJoin
  <2> QED BY <2>1, InitType, LivingInit, DeadInit DEF RegistryInv
<1>2. TypeOK /\ RegistryInv /\ [Next]_vars => (TypeOK /\ RegistryInv)'
  BY NextType, LivingNext, UnbornNext, DeadNext, WaitingNext DEF RegistryInv
<1> QED
  BY <1>1, <1>2, PTL DEF Spec

\* What one step does to the registration of one client.
Stays(c) ==
    Open(c)' /\ (Open(c) => Covered(c)) =>
       \/ Covered(c)'
       \/ ~Ordered /\ Replaced(Home[c])
       \/ ~Timely /\ TakenForDead(Home[c])

\* The entry keeps its clients and the queue its transactions.
LEMMA SameStays ==
    ASSUME TypeOK, NEW c \in Clients, Open(c)' => Open(c),
           registry'[Home[c]].clients = registry[Home[c]].clients,
           \A i \in DOMAIN pending[Home[c]] :
              \E j \in DOMAIN pending'[Home[c]] : pending'[Home[c]][j] = pending[Home[c]][i]
    PROVE  Stays(c)
BY DEF Stays, Covered

LEMMA CommitStays ==
    ASSUME TypeOK, Living, Waiting, NEW c \in Clients, NEW n \in Instances, CommitPending(n)
    PROVE  Stays(c)
<1> DEFINE q == pending[n]
           p == pending'[n]
<1>1. PICK i \in DOMAIN q :
         /\ Ordered => i = 1
         /\ registry' = [registry EXCEPT ![n] = Applied(@, q[i])]
         /\ pending' = [pending EXCEPT ![n] = SubSeq(@, 1, i - 1) \o SubSeq(@, i + 1, Len(@))]
  BY DEF CommitPending
<1>2. q \in Seq(Transaction) /\ q[i] \in Transaction /\ Committed(q, p, i) /\ UNCHANGED <<up, conn>>
      /\ \A m \in Instances : m # n => pending'[m] = pending[m] /\ registry'[m] = registry[m]
      /\ Home[c] \in Instances /\ registry \in [Instances -> Entry]
  BY <1>1, CommitLeaves, CommitKnown DEF TypeOK
<1>3. registry'[n].clients = Kept(registry[n], q[i]) /\ registry'[n] = Applied(registry[n], q[i])
  <2>1. registry \in [Instances -> Entry]
    BY DEF TypeOK
  <2>2. registry[n] \in Entry
    BY <2>1
  <2>3. registry'[n] = Applied(registry[n], q[i])
    BY <1>1, <2>1
  <2> QED BY <1>2, <2>2, <2>3, AppliedType
<1> HIDE DEF p
<1>4. CASE Home[c] # n
  BY <1>2, <1>4, SameStays DEF Open
<1>5. CASE Home[c] = n
  <2> SUFFICES ASSUME Open(c), Covered(c) PROVE Covered(c)' \/ (~Ordered /\ Replaced(n))
    BY <1>2, <1>5 DEF Stays, Open
  <2>1. ASSUME NEW j \in DOMAIN q, j # i, q[j] = Adding(c)
        PROVE  Covered(c)'
    BY <1>2, <1>5, <2>1 DEF Committed, Covered, Adding, p
  <2>2. CASE q[i] = Adding(c)
    <3>1. c \in registry'[n].clients
      BY <1>3, <2>2 DEF Kept, Adding
    <3> QED BY <1>5, <3>1 DEF Covered
  <2>3. CASE q[i] # Adding(c) /\ c \in registry[n].clients
    <3>1. q[i] # Removing(c)
      BY <1>5 DEF Waiting, Open
    <3>2. CASE q[i] = Register
      <4>1. ~Ordered
        BY <2>3, <3>2 DEF Waiting
      <4>2. registry'[n] = NewEntry
        BY <1>3, <3>2 DEF Applied, Register
      <4> QED BY <3>2, <4>1, <4>2 DEF Replaced
    <3>3. CASE q[i] # Register
      <4>1. c \in Kept(registry[n], q[i])
        BY <1>2, <2>3, <3>1, <3>3 DEF Kept, Transaction, Removing, Register
      <4> QED BY <1>3, <1>5, <4>1 DEF Covered
    <3> QED BY <3>2, <3>3
  <2>4. CASE q[i] # Adding(c) /\ c \notin registry[n].clients
    BY <1>5, <2>1, <2>4 DEF Covered, Adding
  <2> QED BY <2>2, <2>3, <2>4
<1> QED
  BY <1>4, <1>5

LEMMA NextStays ==
    ASSUME TypeOK, RegistryInv, [Next]_vars, NEW c \in Clients
    PROVE  Stays(c)
<1>1. /\ registry \in [Instances -> Entry] /\ Home \in [Clients -> Instances]
      /\ pending \in [Instances -> Seq(Transaction)] /\ up \in [Instances -> {"off", "up", "down"}]
      /\ conn \in [Clients -> {"new", "open", "closed"}]
  BY HomeAssumption DEF TypeOK
<1>2. Living /\ Waiting /\ (Timely => Dead)
  BY DEF RegistryInv
<1>3. Open(c) => Up(Home[c])
  BY <1>1, <1>2 DEF Open, Living
<1>4. CASE Quiet
  <2>1. UNCHANGED <<up, conn, pending>>
    BY <1>4, QuietFrame
  <2>2. CASE registry'[Home[c]].clients = registry[Home[c]].clients
    BY <2>1, <2>2, SameStays DEF Open
  <2>3. CASE TakenForDead(Home[c])
    <3>1. Open(c) => ~Timely
      BY <1>2, <1>3, <2>3 DEF Dead, TakenForDead, PruneIs, Up
    <3> QED BY <2>1, <2>3, <3>1 DEF Stays, Open
  <2> QED BY <1>1, <1>4, <2>2, <2>3, QuietRegistry
<1>5. ASSUME NEW n \in Instances, Start(n)
      PROVE  Stays(c)
  <2>1. up[n] = "off" /\ UNCHANGED <<conn, registry>> /\ pending' = [pending EXCEPT ![n] = <<Register>>]
    BY <1>5 DEF Start, shared
  <2>2. Open(c) => Home[c] # n
    BY <1>3, <2>1 DEF Up
  <2>3. CASE Home[c] # n
    BY <1>1, <2>1, <2>3, SameStays DEF Open
  <2> QED BY <2>1, <2>2, <2>3 DEF Stays, Open
<1>6. ASSUME NEW n \in Instances, Crash(n)
      PROVE  Stays(c)
  <2>1. /\ UNCHANGED registry /\ pending' = [pending EXCEPT ![n] = <<>>]
        /\ conn' = [d \in Clients |-> IF Home[d] = n THEN "closed" ELSE conn[d]]
    BY <1>6 DEF Crash
  <2>2. CASE Home[c] # n
    BY <1>1, <2>1, <2>2, SameStays DEF Open
  <2>3. CASE Home[c] = n
    BY <1>1, <2>1, <2>3 DEF Stays, Open
  <2> QED BY <2>2, <2>3
<1>7. ASSUME NEW n \in Instances, CommitPending(n)
      PROVE  Stays(c)
  BY <1>2, <1>7, CommitStays
<1>8. ASSUME NEW n \in Instances, NEW x \in Transaction, UNCHANGED registry, Open(c)' => Open(c),
             pending' = [pending EXCEPT ![n] = Append(@, x)]
      PROVE  Stays(c)
  <2>1. CASE Home[c] = n
    <3>1. pending[n] \in Seq(Transaction) /\ pending'[n] = Append(pending[n], x)
      BY <1>1, <1>8
    <3>2. \A i \in DOMAIN pending[n] : i \in DOMAIN pending'[n] /\ pending'[n][i] = pending[n][i]
      BY <3>1, AppendKeeps
    <3> QED BY <1>8, <2>1, <3>2, SameStays
  <2>2. CASE Home[c] # n
    BY <1>1, <1>8, <2>2, SameStays
  <2> QED BY <2>1, <2>2
<1>9. ASSUME NEW d \in Clients, AddClient(Home[d], d), UNCHANGED registry, Open(c)' => Open(c)
      PROVE  Stays(c)
  <2>1. CASE UNCHANGED pending
    BY <1>9, <2>1, SameStays
  <2>2. CASE pending' = [pending EXCEPT ![Home[d]] = Append(@, Adding(d))]
    BY <1>1, <1>8, <1>9, <2>2 DEF Adding, Transaction
  <2> QED BY <1>9, <2>1, <2>2 DEF AddClient, Adding
<1>10. ASSUME NEW d \in Clients, Connect(d)
       PROVE  Stays(c)
  <2>1. /\ UNCHANGED registry /\ AddClient(Home[d], d) /\ conn' = [conn EXCEPT ![d] = "open"]
        /\ conn[d] = "new"
    BY <1>10 DEF Connect, shared
  <2>2. CASE d # c
    BY <1>1, <1>9, <2>1, <2>2 DEF Open
  <2>3. CASE d = c
    <3>1. c \notin clients[Home[c]]
      BY <2>1, <2>3 DEF RegistryInv, Unborn
    <3>2. CASE pending' = [pending EXCEPT ![Home[c]] = Append(@, Adding(c))]
      <4>1. Adding(c) \in Transaction
        BY DEF Adding, Transaction
      <4>2. pending[Home[c]] \in Seq(Transaction) /\ pending'[Home[c]] = Append(pending[Home[c]], Adding(c))
        BY <1>1, <3>2
      <4>3. \E i \in DOMAIN pending'[Home[c]] : pending'[Home[c]][i] = Adding(c)
        BY <4>1, <4>2, AppendKeeps
      <4> QED BY <4>3 DEF Stays, Covered, Adding
    <3> QED BY <2>1, <2>3, <3>1, <3>2 DEF AddClient, Adding
  <2> QED BY <2>2, <2>3
<1>11. ASSUME NEW d \in Clients, JoinExisting(d) \/ JoinListen(d)
       PROVE  Stays(c)
  <2>1. UNCHANGED <<conn, registry>> /\ (AddClient(Home[d], d) \/ UNCHANGED pending)
    BY <1>11 DEF JoinExisting, JoinListen, shared
  <2> QED BY <1>9, <2>1, SameStays DEF Open
<1>12. ASSUME NEW d \in Clients, Drop(d)
       PROVE  Stays(c)
  <2>1. /\ UNCHANGED registry /\ conn' = [conn EXCEPT ![d] = "closed"]
        /\ pending' = [pending EXCEPT ![Home[d]] = Append(@, Removing(d))]
    BY <1>12 DEF Drop, shared, Removing
  <2>2. Removing(d) \in Transaction /\ (Open(c)' => Open(c))
    BY <1>1, <2>1 DEF Removing, Transaction, Open
  <2> QED BY <1>1, <1>8, <2>1, <2>2
<1>13. ASSUME NEW d \in Clients, JoinMoves(d)
       PROVE  Stays(c)
  <2>1. UNCHANGED <<conn, pending>> /\ registry'[Home[c]].clients = registry[Home[c]].clients
    BY <1>1, <1>13, JoinFrame, JoiningRegistry
  <2> QED BY <2>1, SameStays DEF Open
<1>14. ASSUME NEW d \in Clients, NEW r \in Rooms, JoinStart(d, r)
       PROVE  Stays(c)
  <2>1. UNCHANGED <<conn, pending, registry>>
    BY <1>14 DEF JoinStart, shared
  <2> QED BY <2>1, SameStays DEF Open
<1> QED
  BY <1>4, <1>5, <1>6, <1>7, <1>10, <1>11, <1>12, <1>13, <1>14, NextKinds

\* A connected client is in the registry or on its way into it, for all numbers of
\* instances, clients and rooms, whatever they start, crash, drop and prune, until its
\* instance's own registration is committed behind the client's, or a job deletes the
\* instance because its answer to a ping is late (addClient, pruneDeadInstances).
THEOREM ConnectedStayRegistered == Spec => StaysRegistered
<1>1. TypeOK /\ RegistryInv /\ [Next]_vars =>
        [\A c \in Clients :
          Open(c)' /\ (Open(c) => Covered(c)) =>
             \/ Covered(c)'
             \/ ~Ordered /\ Replaced(Home[c])
             \/ ~Timely /\ TakenForDead(Home[c])]_vars
  BY NextStays DEF Stays
<1> QED
  BY <1>1, RegistryHolds, PTL DEF Spec, StaysRegistered
=============================================================================
