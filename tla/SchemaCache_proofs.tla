------------------------- MODULE SchemaCache_proofs -------------------------
(* Proofs about the election of the process that reads the schema.         *)
EXTENDS SchemaCache, SequenceTheorems, TLAPS

USE HomeAssumption, BoundAssumption

\* While a call reads, the counter keeps the others from it.
CounterHeld == ~overrun => ((\E c \in Calls : Reading(c)) => counter > 0)

IInv == TypeOK /\ OneReader /\ CounterHeld

-----------------------------------------------------------------------------
(* Schemas, calls and messages                                             *)

LEMMA Kinds ==
    /\ Idle \in Call
    /\ NoSchema \in Schema \cup {NoSchema}
BY DEF Idle, Call

LEMMA SchemaOfType ==
    ASSUME TypeOK, NEW v \in 0 .. MaxVersion PROVE SchemaOf(v) \in Schema
<1>1. CASE v < version
  <2>1. SchemaOf(v) = [version |-> v, state |-> "raced"]
    BY <1>1 DEF SchemaOf
  <2> QED
    BY <2>1 DEF Schema
<1>2. CASE ~(v < version)
  <2>1. SchemaOf(v) = [version |-> v, state |-> "latest"]
    BY <1>2 DEF SchemaOf
  <2> QED
    BY <2>1 DEF Schema
<1> QED
  BY <1>1, <1>2

Steps == {"idle", "increment", "reset", "subscribe", "wait", "read", "publish", "fail", "release"}

\* A call that begins anew with an attempt.
Begin(pc, a) == [Idle EXCEPT !.pc = pc, !.attempt = a]

LEMMA BeginType ==
    ASSUME NEW pc \in Steps, NEW a \in 0 .. MaxAttempts - 1
    PROVE  Begin(pc, a) \in Call /\ Begin(pc, a).pc = pc
<1> DEFINE x == [Idle EXCEPT !.pc = pc]
<1>1. x = [pc |-> pc, attempt |-> 0, seen |-> 0]
  BY DEF Idle
<1> HIDE DEF x
<1>2. [x EXCEPT !.attempt = a] = [pc |-> pc, attempt |-> a, seen |-> 0]
  BY <1>1
<1>3. Begin(pc, a) = [pc |-> pc, attempt |-> a, seen |-> 0]
  BY <1>2 DEF Begin, x
<1> QED
  BY <1>3 DEF Call, Steps

\* A call that moves on with what it has seen.
LEMMA PcAndSeen ==
    ASSUME call \in [Calls -> Call], NEW c \in Calls, NEW pc \in Steps, NEW v \in 0 .. MaxVersion,
           call' = [call EXCEPT ![c].pc = pc, ![c].seen = v]
    PROVE  /\ call' \in [Calls -> Call]
           /\ call'[c].pc = pc
           /\ \A d \in Calls : d # c => call'[d] = call[d]
<1> DEFINE x == [call[c] EXCEPT !.pc = pc]
           f == [call EXCEPT ![c] = x]
<1>1. x \in Call /\ x.pc = pc
  BY DEF Call, Steps
<1>2. f \in [Calls -> Call] /\ f[c] = x /\ \A d \in Calls : d # c => f[d] = call[d]
  BY <1>1
<1>3. call' = [f EXCEPT ![c] = [f[c] EXCEPT !.seen = v]]
  OBVIOUS
<1> HIDE DEF f, x
<1>4. [x EXCEPT !.seen = v] \in Call /\ [x EXCEPT !.seen = v].pc = pc
  BY <1>1 DEF Call
<1> QED
  BY <1>2, <1>3, <1>4

\* A call that tries again is idle or about to increment the counter.
LEMMA Again ==
    ASSUME TypeOK, NEW c \in Calls, TryAgain(c)
    PROVE  /\ call' \in [Calls -> Call]
           /\ call'[c].pc \in {"idle", "increment"}
           /\ \A d \in Calls : d # c => call'[d] = call[d]
<1> DEFINE a == call[c].attempt + 1
           x == IF memory[Home[c]] # NoSchema \/ a >= MaxAttempts THEN Idle ELSE Begin("increment", a)
<1>1. call \in [Calls -> Call] /\ call' = [call EXCEPT ![c] = x]
  BY DEF TypeOK, TryAgain, Begin
<1>2. ~(a >= MaxAttempts) => a \in 0 .. MaxAttempts - 1
  BY <1>1 DEF Call
<1>3. ~(a >= MaxAttempts) => Begin("increment", a) \in Call /\ Begin("increment", a).pc = "increment"
  BY <1>2, BeginType DEF Steps
<1> HIDE DEF a
<1>4. x \in Call /\ x.pc \in {"idle", "increment"}
  BY <1>3, Kinds DEF Idle
<1> HIDE DEF x
<1> QED
  BY <1>1, <1>4

LEMMA RemoveAtType ==
    ASSUME NEW S, NEW q \in Seq(S), NEW i \in 1 .. Len(q)
    PROVE  RemoveAt(q, i) \in Seq(S)
<1>1. SubSeq(q, 1, i - 1) \in Seq(S)
  BY SubSeqProperties
<1>2. SubSeq(q, i + 1, Len(q)) \in Seq(S)
  BY SubSeqProperties
<1> QED
  BY <1>1, <1>2, ConcatProperties DEF RemoveAt

\* What is left when the i-th message is handled.
LEMMA RestOfMail ==
    ASSUME NEW S, NEW q \in Seq(S), NEW i \in 1 .. Len(q)
    PROVE  /\ Len(RemoveAt(q, i)) = Len(q) - 1
           /\ \A j \in 1 .. Len(q) - 1 : RemoveAt(q, i)[j] = IF j < i THEN q[j] ELSE q[j + 1]
<1> DEFINE a == SubSeq(q, 1, i - 1)
           b == SubSeq(q, i + 1, Len(q))
<1>1. Len(q) \in Nat /\ \A j \in 1 .. Len(q) : q[j] \in S
  BY ElementOfSeq
<1>2. /\ a \in Seq(S) /\ Len(a) = i - 1
      /\ \A j \in 1 .. i - 1 : a[j] = q[j]
  BY <1>1, SubSeqProperties
<1>3. /\ b \in Seq(S) /\ Len(b) = Len(q) - i
      /\ \A j \in 1 .. Len(q) - i : b[j] = q[i + j]
  BY <1>1, SubSeqProperties
<1> HIDE DEF a, b
<1>4. /\ Len(a \o b) = Len(q) - 1
      /\ \A j \in 1 .. Len(q) - 1 : (a \o b)[j] = IF j < i THEN a[j] ELSE b[j - (i - 1)]
  <2>1. /\ Len(a \o b) = Len(a) + Len(b)
        /\ \A j \in 1 .. Len(a) + Len(b) :
              (a \o b)[j] = IF j <= Len(a) THEN a[j] ELSE b[j - Len(a)]
    BY <1>2, <1>3, ConcatProperties
  <2>2. Len(a) + Len(b) = Len(q) - 1
    BY <1>1, <1>2, <1>3
  <2>3. \A j \in 1 .. Len(q) - 1 : j <= Len(a) <=> j < i
    BY <1>1, <1>2
  <2> QED
    BY <1>2, <2>1, <2>2, <2>3
<1>5. RemoveAt(q, i) = a \o b
  BY DEF RemoveAt, a, b
<1>6. ASSUME NEW j \in 1 .. Len(q) - 1 PROVE RemoveAt(q, i)[j] = IF j < i THEN q[j] ELSE q[j + 1]
  <2>1. CASE j < i
    BY <1>1, <1>2, <1>4, <1>5, <2>1
  <2>2. CASE ~(j < i)
    <3>1. j - (i - 1) \in 1 .. Len(q) - i /\ i + (j - (i - 1)) = j + 1
      BY <1>1, <2>2
    <3> QED
      BY <1>3, <1>4, <1>5, <2>2, <3>1
  <2> QED
    BY <2>1, <2>2
<1> QED
  BY <1>4, <1>5, <1>6

LEMMA OvertakeType ==
    ASSUME NEW q \in Seq(Message), NEW i \in 1 .. Len(q)
    PROVE  /\ Overtake(q, i) \in Seq(Message) /\ Len(Overtake(q, i)) = Len(q)
           /\ \A j \in 1 .. Len(q) : Overtake(q, i)[j].kind = q[j].kind
<1> DEFINE n == Overtake(q, i)
<1>1. Len(q) \in Nat /\ DOMAIN q = 1 .. Len(q) /\ \A j \in 1 .. Len(q) : q[j] \in Message
  BY ElementOfSeq
<1>2. ASSUME NEW j \in 1 .. Len(q) PROVE n[j] \in Message /\ n[j].kind = q[j].kind
  <2>1. CASE j < i /\ q[j].kind = "done" /\ Old(q[j].schema)
    <3>1. q[j] \in [kind : {"done"}, schema : Schema \cup {NoSchema}]
      BY <1>1, <2>1 DEF Message
    <3>2. q[j].schema \in Schema
      BY <2>1, <3>1 DEF Old
    <3>3. n[j] = [q[j] EXCEPT !.schema.state = "overtaken"]
      BY <1>1, <2>1 DEF Overtake
    <3>4. [q[j].schema EXCEPT !.state = "overtaken"] \in Schema
      BY <3>2 DEF Schema
    <3> HIDE DEF n
    <3> QED
      BY <3>1, <3>3, <3>4 DEF Message
  <2>2. CASE ~(j < i /\ q[j].kind = "done" /\ Old(q[j].schema))
    <3>1. n[j] = q[j]
      BY <1>1, <2>2 DEF Overtake
    <3> QED
      BY <1>1, <3>1
  <2> QED
    BY <2>1, <2>2
<1>3. n = [j \in 1 .. Len(q) |-> n[j]]
  BY <1>1 DEF Overtake
<1> HIDE DEF n
<1>4. n \in Seq(Message) /\ Len(n) = Len(q)
  <2>1. n \in [1 .. Len(q) -> Message]
    BY <1>2, <1>3
  <2> QED
    BY <1>1, <2>1, SeqDef, LenProperties
<1> QED
  BY <1>2, <1>4 DEF n

LEMMA SendType ==
    ASSUME TypeOK, NEW P, NEW m \in Message, SendTo(P, m)
    PROVE  mail' \in [Processes -> Seq(Message)]
BY AppendProperties DEF SendTo, TypeOK

-----------------------------------------------------------------------------
(* The first state                                                         *)

LEMMA InitIInv == Init => IInv
<1> SUFFICES ASSUME Init PROVE IInv
  OBVIOUS
<1>1. \A c \in Calls : call[c] = Idle /\ ~Reading(c)
  BY DEF Init, Reading, Idle
<1>2. mail \in [Processes -> Seq(Message)]
  BY EmptySeq DEF Init
<1>3. call \in [Calls -> Call] /\ memory \in [Processes -> Schema \cup {NoSchema}]
  BY Kinds DEF Init
<1>4. TypeOK
  <2>1. version \in 0 .. MaxVersion /\ counter \in Nat /\ left \subseteq Processes
    BY DEF Init
  <2>2. faults \in 0 .. MaxFaults
    BY DEF Init
  <2>4. overrun \in BOOLEAN
    BY Zenon DEF Init
  <2>3. change \in [Processes -> {"none", "committed", "cleared", "lost"}]
    BY DEF Init
  <2> QED
    BY <1>2, <1>3, <2>1, <2>2, <2>3, <2>4 DEF TypeOK
<1> QED
  BY <1>1, <1>4 DEF IInv, OneReader, CounterHeld

-----------------------------------------------------------------------------
(* Steps in which no call begins to read                                   *)

NoNewReader == \A c \in Calls : Reading(c)' => Reading(c)

LEMMA OthersRead ==
    ASSUME IInv, NoNewReader, counter' = counter, overrun' = overrun
    PROVE  OneReader' /\ CounterHeld'
BY DEF IInv, NoNewReader, OneReader, CounterHeld

LEMMA GetSchemaStep == ASSUME IInv, NEW c \in Calls, GetSchema(c) PROVE IInv'
<1>1. TypeOK'
  BY DEF IInv, TypeOK, GetSchema, Goto, Call
<1>2. NoNewReader
  BY DEF IInv, TypeOK, GetSchema, Goto, Call, NoNewReader, Reading
<1> QED
  BY <1>1, <1>2, OthersRead DEF IInv, GetSchema

LEMMA IncrementStep == ASSUME IInv, NEW c \in Calls, Increment(c) PROVE IInv'
<1> DEFINE pc == IF counter + 1 = 1 THEN "read"
                 ELSE IF counter + 1 >= MaxIterations THEN "reset" ELSE "subscribe"
           v == IF counter + 1 = 1 THEN version ELSE 0
<1>2. call \in [Calls -> Call] /\ counter \in Nat /\ counter' = counter + 1 /\ overrun' = overrun
  BY DEF IInv, TypeOK, Increment
<1>5. pc \in Steps /\ v \in 0 .. MaxVersion /\ (counter # 0 => pc \notin {"read", "publish", "fail", "release"})
  BY <1>2 DEF IInv, TypeOK, Steps
<1>6. call' = [call EXCEPT ![c].pc = pc, ![c].seen = v]
  BY DEF Increment
<1> HIDE DEF pc, v
<1>7. /\ call' \in [Calls -> Call]
      /\ call'[c].pc = pc
      /\ \A d \in Calls : d # c => call'[d] = call[d]
  BY <1>2, <1>5, <1>6, PcAndSeen
<1>1. TypeOK'
  BY <1>2, <1>7 DEF IInv, TypeOK, Increment
<1>3. CASE counter = 0
  <2>1. ~overrun => \A d \in Calls : ~Reading(d)
    BY <1>3 DEF IInv, CounterHeld
  <2>2. OneReader'
    BY <1>2, <1>7, <2>1 DEF OneReader, Reading
  <2> QED
    BY <1>1, <1>2, <2>2 DEF IInv, CounterHeld
<1>4. CASE counter # 0
  <2>1. NoNewReader
    BY <1>4, <1>5, <1>7 DEF NoNewReader, Reading
  <2> QED
    BY <1>1, <1>2, <2>1 DEF IInv, NoNewReader, OneReader, CounterHeld
<1> QED
  BY <1>3, <1>4

LEMMA ResetStep == ASSUME IInv, NEW c \in Calls, Reset(c) PROVE IInv'
<1>1. TypeOK'
  BY DEF IInv, TypeOK, Reset, Goto, Call
<1> QED
  BY <1>1 DEF IInv, Reset, OneReader, CounterHeld

LEMMA SubscribeStep == ASSUME IInv, NEW c \in Calls, Subscribe(c) PROVE IInv'
<1>1. TypeOK'
  BY DEF IInv, TypeOK, Subscribe, Goto, Call
<1>2. NoNewReader
  BY DEF IInv, TypeOK, Subscribe, Goto, Call, NoNewReader, Reading
<1> QED
  BY <1>1, <1>2, OthersRead DEF IInv, Subscribe

LEMMA TimeoutStep == ASSUME IInv, NEW c \in Calls, Timeout(c) PROVE IInv'
<1>1. TypeOK
  BY DEF IInv
<1>2. /\ call' \in [Calls -> Call]
      /\ call'[c].pc \in {"idle", "increment"}
      /\ \A d \in Calls : d # c => call'[d] = call[d]
  BY <1>1, Again DEF Timeout
<1>3. TypeOK'
  BY <1>1, <1>2 DEF TypeOK, Timeout
<1>4. NoNewReader
  BY <1>2 DEF NoNewReader, Reading
<1> QED
  BY <1>3, <1>4, OthersRead DEF IInv, Timeout

LEMMA ReadStep == ASSUME IInv, NEW c \in Calls, Read(c) PROVE IInv'
<1>1. TypeOK
  BY DEF IInv
<1>2. PICK v \in call[c].seen .. version :
         /\ memory' = [memory EXCEPT ![Home[c]] = SchemaOf(v)]
         /\ call' = [call EXCEPT ![c].pc = "publish", ![c].seen = v]
  BY DEF Read
<1>3. v \in 0 .. MaxVersion
  BY <1>1, <1>2 DEF TypeOK, Call
<1>4. SchemaOf(v) \in Schema
  BY <1>1, <1>3, SchemaOfType
<1>5. memory' \in [Processes -> Schema \cup {NoSchema}]
  BY <1>1, <1>2, <1>4 DEF TypeOK
<1>6. /\ call' \in [Calls -> Call]
      /\ \A d \in Calls : d # c => call'[d] = call[d]
  BY <1>1, <1>2, <1>3, PcAndSeen DEF TypeOK, Steps
<1>7. TypeOK'
  BY <1>1, <1>5, <1>6 DEF TypeOK, Read
<1>8. Reading(c)
  BY DEF Read, Reading
<1>9. NoNewReader
  BY <1>6, <1>8 DEF NoNewReader, Reading
<1> QED
  BY <1>7, <1>9, OthersRead DEF IInv, Read

LEMMA FailToReadStep == ASSUME IInv, NEW c \in Calls, FailToRead(c) PROVE IInv'
<1>1. call' \in [Calls -> Call] /\ \A d \in Calls : d # c => call'[d] = call[d]
  BY DEF IInv, TypeOK, FailToRead, Goto, Call
<1>2. TypeOK'
  BY <1>1 DEF IInv, TypeOK, FailToRead
<1>3. NoNewReader
  BY <1>1 DEF NoNewReader, Reading, FailToRead
<1> QED
  BY <1>2, <1>3, OthersRead DEF IInv, FailToRead

LEMMA PublishStep == ASSUME IInv, NEW c \in Calls, Publish(c) PROVE IInv'
<1> DEFINE m == [kind |-> "done",
                 schema |-> IF call[c].pc = "fail" THEN NoSchema ELSE SchemaOf(call[c].seen)]
<1>1. TypeOK
  BY DEF IInv
<1>2. m \in Message
  <2>1. call[c].seen \in 0 .. MaxVersion
    BY <1>1 DEF TypeOK, Call
  <2>2. SchemaOf(call[c].seen) \in Schema
    BY <1>1, <2>1, SchemaOfType
  <2> QED
    BY <2>2 DEF Message
<1> HIDE DEF m
<1>3. mail' \in [Processes -> Seq(Message)]
  BY <1>1, <1>2, SendType DEF Publish, m
<1>4. call' \in [Calls -> Call] /\ \A d \in Calls : d # c => call'[d] = call[d]
  <2>1. [Idle EXCEPT !.pc = "release"] \in Call
    BY DEF Idle, Call
  <2> QED
    BY <1>1, <2>1 DEF Publish, TypeOK
<1>5. TypeOK'
  BY <1>1, <1>3, <1>4 DEF TypeOK, Publish
<1>6. Reading(c)
  BY DEF Publish, Reading
<1>7. NoNewReader
  BY <1>4, <1>6 DEF NoNewReader, Reading
<1> QED
  BY <1>5, <1>7, OthersRead DEF IInv, Publish

\* The reader is the one that deletes the counter.
LEMMA ReleaseStep == ASSUME IInv, NEW c \in Calls, Release(c) PROVE IInv'
<1>1. TypeOK'
  BY Kinds DEF IInv, TypeOK, Release
<1>2. Reading(c)
  BY DEF Release, Reading
<1>3. ~Reading(c)' /\ \A d \in Calls : d # c => call'[d] = call[d]
  BY DEF IInv, TypeOK, Release, Reading, Idle
<1>4. overrun' = overrun
  BY DEF Release
<1>5. ~overrun => \A d \in Calls : ~Reading(d)'
  BY <1>2, <1>3 DEF IInv, OneReader, Reading
<1> QED
  BY <1>1, <1>4, <1>5 DEF IInv, OneReader, CounterHeld

-----------------------------------------------------------------------------
(* Messages, changes and crashes                                           *)

LEMMA HandleStep == ASSUME IInv, NEW p \in Processes, Handle(p) PROVE IInv'
<1>1. TypeOK
  BY DEF IInv
<1>2. PICK i \in 1 .. Len(mail[p]) :
         HandleDone(p, i) \/ HandleChanged(p, i)
  BY DEF Handle
<1>3. mail[p] \in Seq(Message) /\ mail[p][i] \in Message
  <2>1. mail[p] \in Seq(Message)
    BY <1>1 DEF TypeOK
  <2> QED
    BY <2>1, ElementOfSeq
<1>4. mail' \in [Processes -> Seq(Message)]
  <2>1. mail \in [Processes -> Seq(Message)]
    BY <1>1 DEF TypeOK
  <2>2. CASE HandleDone(p, i)
    BY <1>3, <2>1, <2>2, RemoveAtType DEF HandleDone
  <2>3. CASE HandleChanged(p, i)
    <3>1. RemoveAt(Overtake(mail[p], i), i) \in Seq(Message)
      BY <1>3, OvertakeType, RemoveAtType
    <3> QED
      BY <2>1, <2>3, <3>1 DEF HandleChanged
  <2> QED
    BY <1>2, <2>2, <2>3
<1>5. UNCHANGED <<version, counter, change, faults, overrun>>
  BY DEF Handle
<1>6. CASE HandleDone(p, i)
  <2>1. mail[p][i].schema \in Schema \cup {NoSchema}
    BY <1>3, <1>6 DEF HandleDone, Message
  <2>2. memory' \in [Processes -> Schema \cup {NoSchema}]
    BY <1>1, <1>6, <2>1 DEF HandleDone, TypeOK
  <2>3. ASSUME NEW c \in Calls
        PROVE  call'[c] \in Call /\ (call'[c] = call[c] \/ call'[c].pc \in {"idle", "increment"})
    <3> DEFINE a == call[c].attempt + 1
    <3>1. call[c] \in Call
      BY <1>1 DEF TypeOK
    <3>2. ~(a >= MaxAttempts) => a \in 0 .. MaxAttempts - 1
      BY <3>1 DEF Call
    <3>3. ~(a >= MaxAttempts) => Begin("increment", a) \in Call /\ Begin("increment", a).pc = "increment"
      BY <3>2, BeginType DEF Steps
    <3>4. \/ call'[c] = call[c]
          \/ call'[c] = Idle
          \/ ~(a >= MaxAttempts) /\ call'[c] = Begin("increment", a)
      BY <1>6 DEF HandleDone, Begin
    <3> HIDE DEF a
    <3> QED
      BY <3>1, <3>3, <3>4, Kinds DEF Idle
  <2>4. call' \in [Calls -> Call]
    <3>1. DOMAIN call' = Calls /\ call' = [c \in Calls |-> call'[c]]
      BY <1>6 DEF HandleDone
    <3> QED
      BY <2>3, <3>1
  <2>5. left' \subseteq Processes
    BY <1>1, <1>6 DEF HandleDone, TypeOK
  <2>6. TypeOK'
    BY <1>1, <1>4, <1>5, <2>2, <2>4, <2>5 DEF TypeOK
  <2>7. NoNewReader
    BY <2>3 DEF NoNewReader, Reading
  <2> QED
    BY <1>5, <2>6, <2>7, OthersRead DEF IInv
<1>7. CASE HandleChanged(p, i)
  <2>1. TypeOK'
    BY <1>1, <1>4, <1>5, <1>7, Kinds DEF TypeOK, HandleChanged
  <2>2. NoNewReader
    BY <1>7 DEF NoNewReader, Reading, HandleChanged
  <2> QED
    BY <1>5, <2>1, <2>2, OthersRead DEF IInv
<1> QED
  BY <1>2, <1>6, <1>7

LEMMA CommitStep == ASSUME IInv, NEW p \in Processes, Commit(p) PROVE IInv'
<1>1. TypeOK'
  BY DEF IInv, TypeOK, Commit
<1>2. NoNewReader
  BY DEF Commit, NoNewReader, Reading
<1> QED
  BY <1>1, <1>2, OthersRead DEF IInv, Commit

LEMMA ClearSystemCacheStep == ASSUME IInv, NEW p \in Processes, ClearSystemCache(p) PROVE IInv'
<1>1. TypeOK'
  BY Kinds DEF IInv, TypeOK, ClearSystemCache
<1>2. NoNewReader
  BY DEF ClearSystemCache, NoNewReader, Reading
<1> QED
  BY <1>1, <1>2, OthersRead DEF IInv, ClearSystemCache

LEMMA AnnounceStep == ASSUME IInv, NEW p \in Processes, Announce(p) PROVE IInv'
<1>1. [kind |-> "changed"] \in Message
  BY DEF Message
<1>2. mail' \in [Processes -> Seq(Message)]
  BY <1>1, SendType DEF IInv, Announce
<1>3. TypeOK'
  BY <1>2 DEF IInv, TypeOK, Announce
<1>4. NoNewReader
  BY DEF Announce, NoNewReader, Reading
<1> QED
  BY <1>3, <1>4, OthersRead DEF IInv, Announce

LEMMA CrashStep == ASSUME IInv, NEW p \in Processes, Crash(p) PROVE IInv'
<1>1. TypeOK'
  <2>1. mail' \in [Processes -> Seq(Message)]
    BY EmptySeq DEF IInv, TypeOK, Crash
  <2>2. call' \in [Calls -> Call] /\ memory' \in [Processes -> Schema \cup {NoSchema}]
    BY Kinds DEF IInv, TypeOK, Crash
  <2> QED
    BY <2>1, <2>2 DEF IInv, TypeOK, Crash
<1>2. NoNewReader
  BY DEF Crash, NoNewReader, Reading, Idle
<1> QED
  BY <1>1, <1>2, OthersRead DEF IInv, Crash

-----------------------------------------------------------------------------
(* Theorems                                                                *)

LEMMA StepIInv == IInv /\ [Next]_vars => IInv'
<1> SUFFICES ASSUME IInv, [Next]_vars PROVE IInv'
  OBVIOUS
<1>1. ASSUME NEW c \in Calls, GetSchema(c) \/ Step(c) \/ FailToRead(c) PROVE IInv'
  BY <1>1, GetSchemaStep, IncrementStep, ResetStep, SubscribeStep, TimeoutStep, ReadStep,
     FailToReadStep, PublishStep, ReleaseStep DEF Step
<1>2. ASSUME NEW p \in Processes,
             Handle(p) \/ Commit(p) \/ ClearSystemCache(p) \/ Announce(p) \/ Crash(p)
      PROVE  IInv'
  BY <1>2, HandleStep, CommitStep, ClearSystemCacheStep, AnnounceStep, CrashStep
<1>3. CASE UNCHANGED vars
  BY <1>3 DEF vars, IInv, TypeOK, OneReader, CounterHeld, Reading
<1> QED
  BY <1>1, <1>2, <1>3 DEF Next

\* The inductive invariant holds of every behaviour.
LEMMA Invariance == Spec => []IInv
  BY InitIInv, StepIInv, PTL DEF Spec

\* The types hold, for any number of processes and calls.
THEOREM TypeCorrect == Spec => []TypeOK
<1>1. IInv => TypeOK
  BY DEF IInv
<1> QED
  BY <1>1, Invariance, PTL

\* Two calls never read the schema at the same time, in whatever order calls, messages,
\* time-outs and crashes come, until the counter was deleted for being too high.
THEOREM ReaderIsElected == Spec => []OneReader
<1>1. IInv => OneReader
  BY DEF IInv
<1> QED
  BY <1>1, Invariance, PTL

-----------------------------------------------------------------------------
(* An old schema is about to be dropped                                    *)

\* The schema is older than version v and nothing shows it; a message after the
\* i-th one says that there was a change.
Outdated(s, v) == s # NoSchema /\ s.version < v /\ s.state = "latest"
Told(m, i) == \E j \in 1 .. Len(m) : j > i /\ m[j].kind = "changed"

\* A schema on its way to a process, or in its memory, is followed by the message
\* of every change it has missed.
MailFits(m, v) ==
    \A i \in 1 .. Len(m) : m[i].kind = "done" /\ Outdated(m[i].schema, v) => Told(m, i)
ProcessFits(p) ==
    /\ MailFits(mail[p], version)
    /\ Outdated(memory[p], version) => Told(mail[p], 0)

Pending == \E p \in Processes : change[p] # "none"
SInv == Pending \/ \A p \in Processes : ProcessFits(p)

LEMMA SchemaOfIsNew ==
    ASSUME TypeOK, NEW v \in 0 .. MaxVersion
    PROVE  ~Outdated(SchemaOf(v), version)
BY DEF Outdated, SchemaOf, TypeOK

LEMMA AppendFits ==
    ASSUME NEW m \in Seq(Message), NEW x \in Message, NEW v
    PROVE  /\ \A i \in Nat : Told(m, i) => Told(Append(m, x), i)
           /\ MailFits(m, v) /\ (x.kind = "done" => ~Outdated(x.schema, v)) => MailFits(Append(m, x), v)
           /\ x.kind = "changed" => Told(Append(m, x), 0) /\ MailFits(Append(m, x), v)
<1> DEFINE n == Append(m, x)
<1>1. /\ Len(m) \in Nat /\ Len(n) = Len(m) + 1 /\ n[Len(m) + 1] = x
      /\ \A i \in 1 .. Len(m) : n[i] = m[i]
  BY AppendProperties
<1> HIDE DEF n
<1>2. \A i \in Nat : Told(m, i) => Told(n, i)
  BY <1>1 DEF Told
<1>3. MailFits(m, v) /\ (x.kind = "done" => ~Outdated(x.schema, v)) => MailFits(n, v)
  BY <1>1, <1>2 DEF MailFits
<1>4. x.kind = "changed" => \A i \in 0 .. Len(m) : Told(n, i)
  BY <1>1 DEF Told
<1>5. x.kind = "changed" => MailFits(n, v)
  BY <1>1, <1>4 DEF MailFits
<1> QED
  BY <1>1, <1>2, <1>3, <1>4, <1>5 DEF n

LEMMA OneGoes ==
    ASSUME NEW m \in Seq(Message), NEW i \in 1 .. Len(m), NEW v, MailFits(m, v)
    PROVE  /\ m[i].kind = "done" => MailFits(RemoveAt(m, i), v)
           /\ m[i].kind = "done" /\ Told(m, 0) => Told(RemoveAt(m, i), 0)
           /\ Told(m, i) => Told(RemoveAt(m, i), 0)
<1> DEFINE n == RemoveAt(m, i)
<1>1. /\ Len(m) \in Nat /\ Len(n) = Len(m) - 1
      /\ \A j \in 1 .. Len(n) : n[j] = IF j < i THEN m[j] ELSE m[j + 1]
  <2>1. Len(m) \in Nat
    BY LenProperties
  <2>2. Len(n) = Len(m) - 1 /\ \A j \in 1 .. Len(m) - 1 : n[j] = IF j < i THEN m[j] ELSE m[j + 1]
    BY RestOfMail
  <2> HIDE DEF n
  <2> QED
    BY <2>1, <2>2
<1> HIDE DEF n
<1>2. ASSUME NEW k \in Nat, NEW j \in 1 .. Len(m), j > k, j # i, m[j].kind = "changed"
      PROVE  Told(n, IF k < i THEN k ELSE k - 1)
  <2> DEFINE h == IF j < i THEN j ELSE j - 1
  <2>1. h \in 1 .. Len(n) /\ h > (IF k < i THEN k ELSE k - 1)
    BY <1>1, <1>2
  <2>2. n[h] = m[j]
    <3>1. CASE j < i
      BY <1>1, <2>1, <3>1
    <3>2. CASE ~(j < i)
      <4>1. h = j - 1 /\ ~(h < i) /\ h + 1 = j
        BY <1>1, <1>2, <3>2
      <4> QED
        BY <1>1, <2>1, <4>1
    <3> QED
      BY <3>1, <3>2
  <2> QED
    BY <1>2, <2>1, <2>2 DEF Told
<1>3. ASSUME m[i].kind = "done", NEW k \in 1 .. Len(n), n[k].kind = "done", Outdated(n[k].schema, v)
      PROVE  Told(n, k)
  <2> DEFINE h == IF k < i THEN k ELSE k + 1
  <2>1. h \in 1 .. Len(m) /\ h # i
    BY <1>1
  <2>2. n[k] = m[h]
    BY <1>1
  <2>3. Told(m, h)
    BY <1>3, <2>1, <2>2 DEF MailFits
  <2>4. PICK j \in 1 .. Len(m) : j > h /\ m[j].kind = "changed"
    BY <2>3 DEF Told
  <2>5. j # i /\ h \in Nat
    BY <1>1, <1>3, <2>4
  <2>6. Told(n, IF h < i THEN h ELSE h - 1)
    BY <1>2, <2>4, <2>5
  <2>7. (IF h < i THEN h ELSE h - 1) = k
    BY <1>1
  <2> QED
    BY <2>6, <2>7
<1>4. ASSUME m[i].kind = "done", Told(m, 0) PROVE Told(n, 0)
  <2>1. PICK j \in 1 .. Len(m) : j > 0 /\ m[j].kind = "changed"
    BY <1>4 DEF Told
  <2>2. j # i
    BY <1>4, <2>1
  <2>3. Told(n, IF 0 < i THEN 0 ELSE 0 - 1)
    BY <1>2, <2>1, <2>2
  <2> QED
    BY <2>3
<1>5. ASSUME Told(m, i) PROVE Told(n, 0)
  <2>1. PICK j \in 1 .. Len(m) : j > i /\ m[j].kind = "changed"
    BY <1>5 DEF Told
  <2>2. j > 0 /\ j # i
    BY <1>1, <2>1
  <2>3. Told(n, IF 0 < i THEN 0 ELSE 0 - 1)
    BY <1>2, <2>1, <2>2
  <2> QED
    BY <2>3
<1> QED
  BY <1>3, <1>4, <1>5 DEF MailFits, n

\* When schemaChanged is handled, the schemas it overtakes are marked.
LEMMA ChangeGoes ==
    ASSUME NEW m \in Seq(Message), NEW i \in 1 .. Len(m), MailFits(m, version)
    PROVE  MailFits(RemoveAt(Overtake(m, i), i), version)
<1> DEFINE o == Overtake(m, i)
           n == RemoveAt(o, i)
<1>1. /\ Len(m) \in Nat /\ DOMAIN m = 1 .. Len(m) /\ o \in Seq(Message) /\ Len(o) = Len(m)
      /\ \A j \in 1 .. Len(m) : o[j].kind = m[j].kind
  BY OvertakeType, LenProperties
<1>2. \A j \in 1 .. Len(m) : ~(j < i) => o[j] = m[j]
  BY <1>1 DEF Overtake
<1>3. ASSUME NEW j \in 1 .. Len(m), j < i, o[j].kind = "done" PROVE ~Outdated(o[j].schema, version)
  <2>1. m[j] \in Message /\ m[j].kind = "done"
    BY <1>1, <1>3, ElementOfSeq
  <2>2. m[j] \in [kind : {"done"}, schema : Schema \cup {NoSchema}]
    BY <2>1 DEF Message
  <2>3. CASE ~Old(m[j].schema)
    <3>1. o[j] = m[j]
      BY <1>1, <2>3 DEF Overtake
    <3> QED
      BY <2>3, <3>1 DEF Outdated, Old
  <2>4. CASE Old(m[j].schema)
    <3>1. o[j] = [m[j] EXCEPT !.schema.state = "overtaken"]
      BY <1>1, <1>3, <2>1, <2>4 DEF Overtake
    <3>2. m[j].schema \in Schema
      BY <2>2, <2>4 DEF Old
    <3>3. o[j].schema = [m[j].schema EXCEPT !.state = "overtaken"]
      BY <2>2, <3>1
    <3>4. o[j].schema.state = "overtaken"
      BY <3>2, <3>3 DEF Schema
    <3> QED
      BY <3>4 DEF Outdated
  <2> QED
    BY <2>3, <2>4
<1> HIDE DEF o
<1>4. /\ Len(n) = Len(m) - 1
      /\ \A j \in 1 .. Len(n) : n[j] = IF j < i THEN o[j] ELSE o[j + 1]
  BY <1>1, RestOfMail
<1> HIDE DEF n
<1>5. ASSUME NEW k \in 1 .. Len(n), n[k].kind = "done", Outdated(n[k].schema, version)
      PROVE  Told(n, k)
  <2>1. ~(k < i) /\ k + 1 \in 1 .. Len(m) /\ n[k] = m[k + 1]
    <3>1. k \in 1 .. Len(m) /\ k + 1 \in 1 .. Len(m)
      BY <1>1, <1>4
    <3>2. k < i => n[k] = o[k]
      BY <1>4
    <3>3. ~(k < i)
      BY <1>3, <1>5, <3>1, <3>2
    <3>4. n[k] = o[k + 1] /\ ~(k + 1 < i)
      BY <1>1, <1>4, <3>3
    <3> QED
      BY <1>2, <3>1, <3>3, <3>4
  <2>2. Told(m, k + 1)
    BY <1>5, <2>1 DEF MailFits
  <2>3. PICK j \in 1 .. Len(m) : j > k + 1 /\ m[j].kind = "changed"
    BY <2>2 DEF Told
  <2>4. j - 1 \in 1 .. Len(n) /\ j - 1 > k /\ n[j - 1] = m[j]
    BY <1>1, <1>2, <1>4, <2>1, <2>3
  <2> QED
    BY <2>3, <2>4 DEF Told
<1> QED
  BY <1>5 DEF MailFits, n, o

\* Steps that leave the messages and the memories alone.
LEMMA CallsOnly ==
    ASSUME SInv, UNCHANGED <<version, memory, mail, change>>
    PROVE  SInv'
BY DEF SInv, Pending, ProcessFits

LEMMA ReadFits == ASSUME IInv, SInv, NEW c \in Calls, Read(c) PROVE SInv'
<1>1. PICK v \in call[c].seen .. version : memory' = [memory EXCEPT ![Home[c]] = SchemaOf(v)]
  BY DEF Read
<1>2. TypeOK /\ v \in 0 .. MaxVersion /\ UNCHANGED <<version, mail, change>>
  BY DEF IInv, TypeOK, Call, Read
<1>3. ~Outdated(SchemaOf(v), version)
  BY <1>2, SchemaOfIsNew
<1>4. \A p \in Processes : memory'[p] = memory[p] \/ memory'[p] = SchemaOf(v)
  BY <1>1, <1>2 DEF TypeOK
<1> QED
  BY <1>2, <1>3, <1>4 DEF SInv, Pending, ProcessFits

LEMMA PublishFits == ASSUME IInv, SInv, NEW c \in Calls, Publish(c) PROVE SInv'
<1> DEFINE m == [kind |-> "done",
                 schema |-> IF call[c].pc = "fail" THEN NoSchema ELSE SchemaOf(call[c].seen)]
<1>1. TypeOK /\ call[c].seen \in 0 .. MaxVersion /\ UNCHANGED <<version, memory, change>>
  BY DEF IInv, TypeOK, Call, Publish
<1>2. m \in Message /\ ~Outdated(m.schema, version)
  <2>1. SchemaOf(call[c].seen) \in Schema /\ ~Outdated(SchemaOf(call[c].seen), version)
    BY <1>1, SchemaOfIsNew, SchemaOfType
  <2> QED
    BY <2>1 DEF Message, Outdated
<1> HIDE DEF m
<1>3. SendTo({p \in Processes : Subscribed(p)}, m)
  BY DEF Publish, m
<1>4. ASSUME NEW p \in Processes, ProcessFits(p) PROVE ProcessFits(p)'
  <2>1. mail[p] \in Seq(Message) /\ mail'[p] \in {mail[p], Append(mail[p], m)}
    BY <1>1, <1>3 DEF TypeOK, SendTo
  <2> QED
    BY <1>1, <1>2, <1>4, <2>1, AppendFits DEF ProcessFits
<1> QED
  BY <1>1, <1>4 DEF SInv, Pending

LEMMA AnnounceFits == ASSUME IInv, NEW p \in Processes, Announce(p) PROVE SInv'
<1> DEFINE m == [kind |-> "changed"]
<1>1. TypeOK /\ SendTo(Processes, m) /\ m \in Message /\ m.kind = "changed"
  BY DEF IInv, Announce, Message
<1> HIDE DEF m
<1>2. \A q \in Processes : mail[q] \in Seq(Message) /\ mail'[q] = Append(mail[q], m)
  BY <1>1 DEF TypeOK, SendTo
<1>3. ASSUME NEW q \in Processes PROVE ProcessFits(q)'
  <2>1. ASSUME NEW v PROVE Told(Append(mail[q], m), 0) /\ MailFits(Append(mail[q], m), v)
    BY <1>1, <1>2, AppendFits
  <2>2. Told(mail'[q], 0) /\ MailFits(mail'[q], version')
    BY <1>2, <2>1
  <2> QED
    BY <2>2 DEF ProcessFits
<1> QED
  BY <1>3 DEF SInv

LEMMA HandleFits ==
    ASSUME IInv, SInv, NEW p \in Processes, Handle(p)
    PROVE  SInv'
<1>1. /\ mail \in [Processes -> Seq(Message)] /\ memory \in [Processes -> Schema \cup {NoSchema}]
      /\ mail[p] \in Seq(Message) /\ UNCHANGED <<version, change>>
  BY DEF IInv, TypeOK, Handle
<1>2. PICK i \in 1 .. Len(mail[p]) : HandleDone(p, i) \/ HandleChanged(p, i)
  BY DEF Handle
<1>3. ASSUME NEW q \in Processes, q # p, ProcessFits(q) PROVE ProcessFits(q)'
  <2>1. mail'[q] = mail[q] /\ memory'[q] = memory[q]
    BY <1>1, <1>2, <1>3 DEF HandleDone, HandleChanged
  <2> QED
    BY <1>1, <1>3, <2>1 DEF ProcessFits
<1>4. ASSUME ProcessFits(p) PROVE ProcessFits(p)'
  <2> DEFINE m == mail[p]
             n == RemoveAt(m, i)
  <2>1. m \in Seq(Message) /\ MailFits(m, version) /\ (Outdated(memory[p], version) => Told(m, 0))
    BY <1>1, <1>4 DEF ProcessFits
  <2>2. CASE HandleDone(p, i)
    <3>1. m[i].kind = "done" /\ memory'[p] \in {memory[p], m[i].schema} /\ mail'[p] = n
      BY <1>1, <2>2 DEF HandleDone
    <3> HIDE DEF m, n
    <3>2. /\ MailFits(n, version)
          /\ Told(m, i) => Told(n, 0)
          /\ Told(m, 0) => Told(n, 0)
      BY <2>1, <3>1, OneGoes DEF n, m
    <3>3. Outdated(m[i].schema, version) => Told(m, i)
      BY <2>1, <3>1 DEF MailFits, m
    <3>4. Outdated(memory'[p], version) => Told(n, 0)
      BY <2>1, <3>1, <3>2, <3>3
    <3> QED
      BY <1>1, <3>1, <3>2, <3>4 DEF ProcessFits
  <2>3. CASE HandleChanged(p, i)
    <3>1. memory'[p] = NoSchema /\ mail'[p] = RemoveAt(Overtake(m, i), i)
      BY <1>1, <2>3 DEF HandleChanged
    <3>2. MailFits(RemoveAt(Overtake(m, i), i), version)
      BY <2>1, ChangeGoes
    <3> QED
      BY <1>1, <3>1, <3>2 DEF ProcessFits, Outdated
  <2> QED
    BY <1>2, <2>2, <2>3
<1> QED
  BY <1>1, <1>3, <1>4 DEF SInv, Pending

LEMMA ChangeFits ==
    ASSUME IInv, NEW p \in Processes, Commit(p) \/ ClearSystemCache(p)
    PROVE  SInv'
BY DEF IInv, TypeOK, Commit, ClearSystemCache, SInv, Pending

LEMMA CrashFits == ASSUME IInv, SInv, NEW p \in Processes, Crash(p) PROVE SInv'
<1>1. TypeOK /\ version' = version
  BY DEF IInv, Crash
<1>2. Pending => Pending'
  BY <1>1 DEF TypeOK, Crash, Pending
<1>3. ASSUME NEW q \in Processes, ProcessFits(q) PROVE ProcessFits(q)'
  <2>1. CASE q = p
    <3>1. memory'[q] = NoSchema /\ mail'[q] = <<>>
      BY <1>1, <2>1 DEF TypeOK, Crash
    <3> QED
      BY <3>1 DEF ProcessFits, MailFits, Outdated
  <2>2. CASE q # p
    <3>1. memory'[q] = memory[q] /\ mail'[q] = mail[q]
      BY <1>1, <2>2 DEF TypeOK, Crash
    <3> QED
      BY <1>1, <1>3, <3>1 DEF ProcessFits
  <2> QED
    BY <2>1, <2>2
<1> QED
  BY <1>2, <1>3 DEF SInv

LEMMA NextFits ==
    ASSUME IInv, SInv, [Next]_vars
    PROVE  SInv'
<1>1. ASSUME NEW c \in Calls, GetSchema(c) \/ Step(c) \/ FailToRead(c) PROVE SInv'
  <2>1. CASE Read(c) \/ Publish(c)
    BY <2>1, ReadFits, PublishFits
  <2>2. CASE GetSchema(c) \/ FailToRead(c) \/ Increment(c) \/ Reset(c) \/ Subscribe(c) \/ Timeout(c)
             \/ Release(c)
    <3>1. UNCHANGED <<version, memory, mail, change>>
      BY <2>2 DEF GetSchema, FailToRead, Increment, Reset, Subscribe, Timeout, Release
    <3> QED
      BY <3>1, CallsOnly
  <2> QED
    BY <1>1, <2>1, <2>2 DEF Step
<1>2. ASSUME NEW p \in Processes,
             Handle(p) \/ Commit(p) \/ ClearSystemCache(p) \/ Announce(p) \/ Crash(p)
      PROVE  SInv'
  BY <1>2, HandleFits, ChangeFits, AnnounceFits, CrashFits
<1>3. CASE UNCHANGED vars
  BY <1>3, CallsOnly DEF vars
<1> QED
  BY <1>1, <1>2, <1>3 DEF Next

LEMMA OutdatedIsTold ==
    ASSUME IInv, SInv PROVE StaleIsRaced
<1> SUFFICES ASSUME NEW p \in Processes, memory[p] # NoSchema, memory[p].version < version,
                    memory[p].state \notin {"raced", "overtaken"}, ~Pending
             PROVE  \E i \in 1 .. Len(mail[p]) : mail[p][i].kind = "changed"
  BY DEF StaleIsRaced, ToldOfChange, Pending
<1>1. memory[p] \in Schema
  BY DEF IInv, TypeOK
<1>2. memory[p].state = "latest"
  BY <1>1 DEF Schema
<1>3. ProcessFits(p) /\ Outdated(memory[p], version)
  BY <1>2 DEF SInv, Outdated
<1> QED
  BY <1>3 DEF ProcessFits, Told

\* A process that has an old schema in memory is about to be told of the change,
\* however long schemas are decompressed: if not, what it keeps was read while the
\* schema changed or was overtaken by the message of the change, or the process that
\* changed the schema has ended (clearSystemCache, the handlers of schemaChanged and
\* schemaCache--done).
THEOREM OldSchemasAreDropped == Spec => []StaleIsRaced
<1>1. Init => SInv
  BY DEF Init, SInv, ProcessFits, MailFits, Outdated
<1>2. IInv /\ SInv /\ [Next]_vars => SInv'
  BY NextFits
<1>3. IInv /\ SInv => StaleIsRaced
  BY OutdatedIsTold
<1> QED
  BY <1>1, <1>2, <1>3, Invariance, PTL DEF Spec
=============================================================================
