----------------------------- MODULE SchemaCache -----------------------------
(***************************************************************************)
(* The schema that every process keeps in memory: one process reads it     *)
(* from the database, the others wait for its message.                     *)
(* api/src/utils/get-schema.ts (getSchema) and api/src/cache.ts            *)
(* (clearSystemCache, the handler of schemaChanged, memorySchemaCache).    *)
(*                                                                         *)
(* A counter in Redis elects the reader: whoever gets 1.  Every await is a *)
(* step: the increment, the deletion of the counter, the subscription, the *)
(* read, the message.                                                      *)
(*                                                                         *)
(* Redis passes messages on in the order it got them.  A schema is larger  *)
(* than what the bus compresses (packages/memory/src/bus/lib/redis.ts), so *)
(* it is decompressed asynchronously before it is handled, and later       *)
(* messages may be handled meanwhile; schemaChanged is handled at once.    *)
(***************************************************************************)
EXTENDS Naturals, Sequences

CONSTANTS
    Processes,
    Calls,            \* calls of getSchema under way
    Home,             \* the process of a call
    MaxIterations,    \* CACHE_SCHEMA_MAX_ITERATIONS
    MaxAttempts,      \* MAX_ATTEMPTS
    MaxMail,          \* bound: messages on their way to a process
    MaxVersion,       \* bound: changes of the schema
    Changers,         \* bound: processes that change the schema
    MaxFaults,        \* bound: reads that fail and processes that crash
    NoSchema

ASSUME HomeAssumption == Home \in [Calls -> Processes]
ASSUME BoundAssumption ==
    /\ {MaxMail, MaxVersion, MaxFaults} \subseteq Nat
    /\ MaxIterations \in Nat \ {0, 1}
    /\ MaxAttempts \in Nat \ {0}

VARIABLES
    version,      \* of the schema in the database
    counter,      \* schemaCache--preparing
    memory,       \* per process: memorySchemaCache
    mail,         \* per process: messages on their way
    call,         \* per call: where it is
    left,         \* processes with a listener whose call timed out
    change,       \* per process: a change it has committed and not announced
    faults,       \* number of failed reads and crashes
    overrun       \* has the counter been deleted because it got too high?

vars == <<version, counter, memory, mail, call, left, change, faults, overrun>>

-----------------------------------------------------------------------------
(* Schemas, messages and calls                                             *)

\* raced: the database had a newer version when the schema was passed on;
\* overtaken: schemaChanged was handled while the message with it was decompressed.
Schema == [version : 0 .. MaxVersion, state : {"latest", "raced", "overtaken"}]
SchemaOf(v) == [version |-> v, state |-> IF v < version THEN "raced" ELSE "latest"]

Message == [kind : {"done"}, schema : Schema \cup {NoSchema}] \cup [kind : {"changed"}]

Call ==
    [pc : {"idle", "increment", "reset", "subscribe", "wait", "read", "publish", "fail", "release"},
     attempt : 0 .. MaxAttempts - 1, seen : 0 .. MaxVersion]
Idle == [pc |-> "idle", attempt |-> 0, seen |-> 0]

TypeOK ==
    /\ version \in 0 .. MaxVersion
    /\ counter \in Nat
    /\ memory \in [Processes -> Schema \cup {NoSchema}]
    /\ mail \in [Processes -> Seq(Message)]
    /\ call \in [Calls -> Call]
    /\ left \subseteq Processes
    /\ change \in [Processes -> {"none", "committed", "cleared", "lost"}]
    /\ faults \in 0 .. MaxFaults
    /\ overrun \in BOOLEAN

Init ==
    /\ version = 0
    /\ counter = 0
    /\ memory = [p \in Processes |-> NoSchema]
    /\ mail = [p \in Processes |-> <<>>]
    /\ call = [c \in Calls |-> Idle]
    /\ left = {}
    /\ change = [p \in Processes |-> "none"]
    /\ faults = 0
    /\ overrun = FALSE

Goto(c, pc) == call' = [call EXCEPT ![c].pc = pc]
Waiting(p) == {c \in Calls : Home[c] = p /\ call[c].pc = "wait"}
Subscribed(p) == Waiting(p) # {} \/ p \in left

\* Redis passes a message to the processes that have subscribed.
SendTo(P, m) ==
    /\ \A p \in P : Len(mail[p]) < MaxMail
    /\ mail' = [p \in Processes |-> IF p \in P THEN Append(mail[p], m) ELSE mail[p]]

-----------------------------------------------------------------------------
(* getSchema                                                               *)

\* Mutant: one attempt too many.
TryOnceMore(c) ==
    call' = [call EXCEPT ![c] =
                IF memory[Home[c]] # NoSchema \/ @.attempt >= MaxAttempts THEN Idle
                ELSE [Idle EXCEPT !.pc = "increment", !.attempt = call[c].attempt + 1]]

\* With attempt + 1, or from the start: memory first, then the counter, unless
\* all attempts are used up.
TryAgain(c) ==
    call' = [call EXCEPT ![c] =
                IF memory[Home[c]] # NoSchema \/ @.attempt + 1 >= MaxAttempts THEN Idle
                ELSE [Idle EXCEPT !.pc = "increment", !.attempt = call[c].attempt + 1]]

\* A call that finds a schema in memory changes nothing.
GetSchema(c) ==
    /\ call[c] = Idle
    /\ memory[Home[c]] = NoSchema
    /\ Goto(c, "increment")
    /\ UNCHANGED <<version, counter, memory, mail, left, change, faults, overrun>>

\* Mutant: the counter is deleted before the schema is read.
IncrementFreely(c) ==
    /\ call[c].pc = "increment"
    /\ counter' = 0
    /\ call' = [call EXCEPT ![c].pc = "read", ![c].seen = version]
    /\ UNCHANGED <<version, memory, mail, left, change, faults, overrun>>

Increment(c) ==
    LET id == counter + 1
    IN  /\ call[c].pc = "increment"
        /\ counter' = id
        /\ call' = [call EXCEPT ![c].pc = IF id = 1 THEN "read"
                                          ELSE IF id >= MaxIterations THEN "reset" ELSE "subscribe",
                                ![c].seen = IF id = 1 THEN version ELSE 0]
        /\ UNCHANGED <<version, memory, mail, left, change, faults, overrun>>

Reset(c) ==
    /\ call[c].pc = "reset"
    /\ counter' = 0
    /\ overrun' = TRUE
    /\ Goto(c, "subscribe")
    /\ UNCHANGED <<version, memory, mail, left, change, faults>>

Subscribe(c) ==
    /\ call[c].pc = "subscribe"
    /\ Goto(c, "wait")
    /\ UNCHANGED <<version, counter, memory, mail, left, change, faults, overrun>>

\* Mutant: the call goes on waiting instead of taking part again.
TimeoutAndWait(c) ==
    /\ call[c].pc = "wait"
    /\ Goto(c, "subscribe")
    /\ left' = left \cup {Home[c]}
    /\ UNCHANGED <<version, counter, memory, mail, change, faults, overrun>>

\* The listener is not removed.
Timeout(c) ==
    /\ call[c].pc = "wait"
    /\ TryAgain(c)
    /\ left' = left \cup {Home[c]}
    /\ UNCHANGED <<version, counter, memory, mail, change, faults, overrun>>

\* The schema as of some moment of the read; the caller gets it.
Read(c) ==
    /\ call[c].pc = "read"
    /\ \E v \in call[c].seen .. version :
          /\ memory' = [memory EXCEPT ![Home[c]] = SchemaOf(v)]
          /\ call' = [call EXCEPT ![c].pc = "publish", ![c].seen = v]
    /\ UNCHANGED <<version, counter, mail, left, change, faults, overrun>>

FailToRead(c) ==
    /\ call[c].pc = "read"
    /\ faults < MaxFaults
    /\ faults' = faults + 1
    /\ Goto(c, "fail")
    /\ UNCHANGED <<version, counter, memory, mail, left, change, overrun>>

\* finally: the message, then the counter.
Publish(c) ==
    /\ call[c].pc \in {"publish", "fail"}
    /\ SendTo({p \in Processes : Subscribed(p)},
              [kind |-> "done",
               schema |-> IF call[c].pc = "fail" THEN NoSchema ELSE SchemaOf(call[c].seen)])
    /\ call' = [call EXCEPT ![c] = [Idle EXCEPT !.pc = "release"]]
    /\ UNCHANGED <<version, counter, memory, left, change, faults, overrun>>

Release(c) ==
    /\ call[c].pc = "release"
    /\ counter' = 0
    /\ call' = [call EXCEPT ![c] = Idle]
    /\ UNCHANGED <<version, memory, mail, left, change, faults, overrun>>

-----------------------------------------------------------------------------
(* The listeners of a process                                              *)

RemoveAt(q, i) == SubSeq(q, 1, i - 1) \o SubSeq(q, i + 1, Len(q))

\* schemaCache--done goes to the listeners there are when it is handled: each
\* unsubscribes, keeps the schema and answers its call, or tries again.
HandleDone(p, i) ==
    LET s == mail[p][i].schema
        Answered(c) == c \in Waiting(p)
    IN  /\ mail[p][i].kind = "done"
        /\ memory' = IF s # NoSchema /\ Subscribed(p) THEN [memory EXCEPT ![p] = s] ELSE memory
        /\ mail' = [mail EXCEPT ![p] = RemoveAt(@, i)]
        /\ left' = left \ {p}
        /\ call' = [c \in Calls |->
                       IF ~Answered(c) THEN call[c]
                       ELSE IF s # NoSchema \/ memory[p] # NoSchema
                               \/ call[c].attempt + 1 >= MaxAttempts THEN Idle
                       ELSE [Idle EXCEPT !.pc = "increment", !.attempt = call[c].attempt + 1]]

\* Older schemas that came before message i and are still to be handled are marked.
Old(s) == s # NoSchema /\ s.version < version /\ s.state = "latest"
Overtake(q, i) ==
    [j \in DOMAIN q |-> IF j < i /\ q[j].kind = "done" /\ Old(q[j].schema)
                        THEN [q[j] EXCEPT !.schema.state = "overtaken"] ELSE q[j]]

HandleChanged(p, i) ==
    /\ mail[p][i].kind = "changed"
    /\ memory' = [memory EXCEPT ![p] = NoSchema]
    /\ mail' = [mail EXCEPT ![p] = RemoveAt(Overtake(@, i), i)]
    /\ UNCHANGED <<call, left>>

\* Only schemas are still being decompressed when a later message is handled.
Handle(p) ==
    /\ \E i \in 1 .. Len(mail[p]) :
          /\ \A j \in 1 .. i - 1 : mail[p][j].kind = "done"
          /\ HandleDone(p, i) \/ HandleChanged(p, i)
    /\ UNCHANGED <<version, counter, change, faults, overrun>>

-----------------------------------------------------------------------------
(* A change of the schema: commit, then clearSystemCache                   *)

Commit(p) ==
    /\ p \in Changers
    /\ change[p] \in {"none", "lost"}
    /\ version < MaxVersion
    /\ version' = version + 1
    /\ change' = [change EXCEPT ![p] = "committed"]
    /\ UNCHANGED <<counter, memory, mail, call, left, faults, overrun>>

ClearSystemCache(p) ==
    /\ change[p] = "committed"
    /\ memory' = [memory EXCEPT ![p] = NoSchema]
    /\ change' = [change EXCEPT ![p] = "cleared"]
    /\ UNCHANGED <<version, counter, mail, call, left, faults, overrun>>

\* Mutant: the process itself is left out.
AnnounceToOthers(p) ==
    /\ change[p] = "cleared"
    /\ SendTo(Processes \ {p}, [kind |-> "changed"])
    /\ change' = [change EXCEPT ![p] = "none"]
    /\ UNCHANGED <<version, counter, memory, call, left, faults, overrun>>

Announce(p) ==
    /\ change[p] = "cleared"
    /\ SendTo(Processes, [kind |-> "changed"])
    /\ change' = [change EXCEPT ![p] = "none"]
    /\ UNCHANGED <<version, counter, memory, call, left, faults, overrun>>

-----------------------------------------------------------------------------
(* A crash and the restart of the process                                  *)

Crash(p) ==
    /\ faults < MaxFaults
    /\ faults' = faults + 1
    /\ memory' = [memory EXCEPT ![p] = NoSchema]
    /\ mail' = [mail EXCEPT ![p] = <<>>]
    /\ call' = [c \in Calls |-> IF Home[c] = p THEN Idle ELSE call[c]]
    /\ left' = left \ {p}
    /\ change' = [change EXCEPT ![p] = IF @ = "none" THEN "none" ELSE "lost"]
    /\ UNCHANGED <<version, counter, overrun>>

-----------------------------------------------------------------------------

Step(c) ==
    \/ Increment(c) \/ Reset(c) \/ Subscribe(c) \/ Timeout(c)
    \/ Read(c) \/ Publish(c) \/ Release(c)

Next ==
    \/ \E c \in Calls : GetSchema(c) \/ Step(c) \/ FailToRead(c)
    \/ \E p \in Processes :
          Handle(p) \/ Commit(p) \/ ClearSystemCache(p) \/ Announce(p) \/ Crash(p)

\* Requests keep coming; running processes go on.
Fairness ==
    /\ \A c \in Calls : WF_vars(GetSchema(c) \/ Step(c))
    /\ \A p \in Processes : WF_vars(Handle(p)) /\ WF_vars(ClearSystemCache(p) \/ Announce(p))

Spec == Init /\ [][Next]_vars /\ Fairness

-----------------------------------------------------------------------------
(* Properties                                                              *)

\* A process that keeps an old schema is about to be told, unless the process that
\* changed it ended before it could tell the others.  Two races leave an old schema
\* for good, and its mark says so: it was read, or was on its way, while the schema
\* changed (bypassCache in get-schema.ts is there for "outdated schema"), or
\* schemaChanged overtook it.
ToldOfChange(p) ==
    \/ \E q \in Processes : change[q] # "none"
    \/ \E i \in 1 .. Len(mail[p]) : mail[p][i].kind = "changed"
StaleIsRaced ==
    \A p \in Processes :
        memory[p] # NoSchema /\ memory[p].version < version =>
            memory[p].state \in {"raced", "overtaken"} \/ ToldOfChange(p)

\* The counter elects one reader, whoever crashes or gives up, until so many
\* calls wait that it is deleted (CACHE_SCHEMA_MAX_ITERATIONS).
Reading(c) == call[c].pc \in {"read", "publish", "fail", "release"}
OneReader == ~overrun => \A c, d \in Calls : Reading(c) /\ Reading(d) => c = d

\* Whatever crashed, failed or was missed, every process gets a schema again and again.
SchemaReturns == \A p \in Processes : []<>(memory[p] # NoSchema)
=============================================================================
