--------------------------- MODULE McpOAuth_proofs ---------------------------
(* Proofs about the OAuth server: tokens are single-use, it implements     *)
(* OAuthGrant, a replayed token ends its successor, and a valid grant      *)
(* lasts.                                                                  *)
EXTENDS McpOAuth, TLAPS

USE PartyAssumption, BoundAssumption, NullAssumption

-----------------------------------------------------------------------------
(* The inductive invariant                                                 *)

Exchanging == {"existing", "replaceGrant", "replaceSession", "insert"}

\* What a request knows fits the transaction it runs, also when that is started
\* again.
Sound(r) ==
    /\ req[r].pc # "idle" => req[r].start # "none"
    /\ req[r].pc \in {"burn", "codeReplay"} \cup Exchanging => req[r].start = "burn"
    /\ req[r].pc \in {"consume", "orphan", "dropOrphan", "rotate"} => req[r].start = "consume"
    /\ req[r].pc = "reuse" => req[r].start \in {"consume", "reuse"}
    /\ req[r].pc \in {"dropGrant", "dropSession"} \/ req[r].start = "dropGrant" => req[r].found \in Found
    /\ req[r].start = "burn" => req[r].code \in Codes
    /\ req[r].start \in {"consume", "reuse"} => req[r].token \in Tokens /\ req[r].token <= issued
    /\ req[r].start = "consume" =>
          /\ req[r].seen \in Found /\ req[r].seen.session = req[r].token
          /\ req[r].client = ClientOf[req[r].seen.party]

\* What it has locked, and that the rows are as it left them.
Holds(r) ==
    LET c == req[r].code
        p == PartyOf[c]
    IN  /\ req[r].pc \in {"burn", "codeReplay", "consume", "orphan", "dropOrphan"} => req[r].locks = {}
        /\ req[r].pc \in Exchanging => CodeRow(c) \in req[r].locks
        /\ req[r].pc = "existing" => req[r].locks = {CodeRow(c)}
        /\ req[r].pc \in {"replaceGrant", "replaceSession"} =>
              req[r].found.party = p /\ req[r].locks \subseteq {CodeRow(c), GrantRow(p)}
        /\ req[r].pc = "insert" =>
              \A row \in req[r].locks :
                 \/ row \in {CodeRow(c), GrantRow(p)}
                 \/ row = SessionRow(req[r].found.session) /\ req[r].found.party = p
        /\ req[r].pc = "rotate" =>
              req[r].locks = {SessionRow(req[r].token)} /\ sessions[req[r].token] = req[r].seen.party
        /\ \A d \in Codes :
              CodeRow(d) \in req[r].locks => code[d] = "fresh" /\ ClientOf[PartyOf[d]] = req[r].client

\* No row is locked twice.
Apart(q, r) == req[q].locks \cap req[r].locks = {}
Exclusive == \A q, r \in Requests : q # r => Apart(q, r)

\* A token belongs to one party, whoever remembers it.
Remembers(r, p, t) == req[r].found.party = p /\ req[r].found.session = t
Known(p, t) ==
    \/ grant[p].session = t
    \/ sessions[t] = p
    \/ \E r \in Requests : Remembers(r, p, t)
Owned ==
    /\ \A p \in Parties, t \in Tokens : Known(p, t) => t <= issued
    /\ \A p, q \in Parties, t \in Tokens : Known(p, t) /\ Known(q, t) => p = q

PreviousIsIssued == \A p \in Parties : grant[p].prev <= issued

IInv ==
    /\ TypeOK
    /\ \A r \in Requests : Sound(r) /\ Holds(r)
    /\ Exclusive
    /\ Owned
    /\ PreviousIsSpent
    /\ PreviousIsIssued

-----------------------------------------------------------------------------
(* Rows and records                                                        *)

LEMMA RowsDiffer ==
    /\ \A c, p : CodeRow(c) # GrantRow(p)
    /\ \A c, t : CodeRow(c) # SessionRow(t)
    /\ \A p, t : GrantRow(p) # SessionRow(t)
    /\ \A c, d : CodeRow(c) = CodeRow(d) => c = d
    /\ \A p, q : GrantRow(p) = GrantRow(q) => p = q
    /\ \A s, t : SessionRow(s) = SessionRow(t) => s = t
BY DEF CodeRow, GrantRow, SessionRow

LEMMA RowsAre ==
    /\ \A c \in Codes : CodeRow(c) \in Row
    /\ \A p \in Parties : GrantRow(p) \in Row
    /\ \A t \in Tokens : SessionRow(t) \in Row
BY DEF CodeRow, GrantRow, SessionRow, Row

LEMMA Nulls ==
    /\ NoToken \notin Tokens /\ NoToken \in Nat /\ Tokens \subseteq Nat
    /\ NoToken \notin Codes
    /\ NoGrant \notin Grant
    /\ NoGrant.session = NoToken /\ NoGrant.prev = NoToken /\ NoGrant.code = NoCode /\ NoGrant.id = NoToken
    /\ Nothing \notin Found
    /\ Nothing.party = NoParty /\ Nothing.session = NoToken
BY DEF NoToken, Tokens, NoGrant, Grant, Nothing, Found

LEMMA GrantTypes ==
    ASSUME TypeOK, NEW p \in Parties
    PROVE  /\ grant[p] \in Grant \cup {NoGrant}
           /\ grant[p] # NoGrant =>
                /\ grant[p] \in Grant
                /\ grant[p].id \in Tokens /\ grant[p].session \in Tokens
                /\ grant[p].prev \in Tokens \cup {NoToken} /\ grant[p].code \in Codes
           /\ grant[p].session \in Tokens \cup {NoToken}
           /\ grant[p].prev \in Tokens \cup {NoToken}
           /\ grant[p].session \in Tokens => grant[p] # NoGrant
           /\ grant[p].prev \in Tokens => grant[p] # NoGrant
           /\ grant[p].code \in Codes => grant[p] # NoGrant
<1>1. grant[p] \in Grant \cup {NoGrant}
  BY DEF TypeOK
<1>2. CASE grant[p] \in Grant
  BY <1>2, Nulls DEF Grant
<1>3. CASE grant[p] = NoGrant
  BY <1>3, Nulls
<1> QED
  BY <1>1, <1>2, <1>3

LEMMA RequestTypes ==
    ASSUME TypeOK, NEW r \in Requests
    PROVE  /\ req[r] \in Request
           /\ req[r].locks \subseteq Row
           /\ req[r].found \in Found \cup {Nothing}
           /\ req[r].seen \in Found \cup {Nothing}
           /\ req[r].code \in Codes \cup {NoCode}
           /\ req[r].token \in Tokens \cup {NoToken}
           /\ req[r].tries \in 0 .. MaxAttempts
           /\ req[r].client \in Clients \cup {NoParty}
BY DEF TypeOK, Request

LEMMA FoundTypes ==
    /\ \A f \in Found : f.party \in Parties /\ f.id \in Tokens /\ f.session \in Tokens
    /\ \A f \in Found \cup {Nothing} : f.party \in Parties \/ f.session \in Tokens => f \in Found
BY Nulls DEF Found

LEMMA RememberedIs ==
    ASSUME TypeOK, NEW p \in Parties, grant[p] # NoGrant
    PROVE  /\ Remembered(p) \in Found
           /\ Remembered(p).party = p /\ Remembered(p).session = grant[p].session
BY GrantTypes DEF Remembered, Found

-----------------------------------------------------------------------------
(* How a request moves                                                     *)

Statements == {"idle", "burn", "codeReplay", "existing", "replaceGrant", "replaceSession", "insert",
               "consume", "orphan", "dropOrphan", "rotate", "reuse", "dropGrant", "dropSession"}

Alone(r) == \A q \in Requests : q # r => req'[q] = req[q]

\* Only the statement, the grant it has found and its locks change.
Moved(r, pc, found, locks) ==
    /\ req' \in [Requests -> Request]
    /\ Alone(r)
    /\ req'[r].pc = pc /\ req'[r].found = found /\ req'[r].locks = locks
    /\ req'[r].kind = req[r].kind /\ req'[r].start = req[r].start /\ req'[r].client = req[r].client
    /\ req'[r].code = req[r].code /\ req'[r].token = req[r].token /\ req'[r].seen = req[r].seen

LEMMA GotoMoves ==
    ASSUME TypeOK, NEW r \in Requests, NEW pc \in Statements, Goto(r, pc)
    PROVE  Moved(r, pc, req[r].found, req[r].locks)
<1>1. [req[r] EXCEPT !.pc = pc] \in Request
  BY DEF TypeOK, Request, Statements
<1>2. req' = [req EXCEPT ![r] = [req[r] EXCEPT !.pc = pc]]
  BY DEF Goto
<1>3. req' \in [Requests -> Request]
  BY <1>1, <1>2 DEF TypeOK
<1> QED
  BY <1>2, <1>3, RequestTypes DEF TypeOK, Request, Moved, Alone

LEMMA LockMoves ==
    ASSUME TypeOK, NEW r \in Requests, NEW pc \in Statements, NEW row \in Row, LockAndGoto(r, row, pc)
    PROVE  Moved(r, pc, req[r].found, req[r].locks \cup {row})
<1>1. [req[r] EXCEPT !.pc = pc, !.locks = @ \cup {row}] \in Request
  <2> DEFINE rq == req[r]
             more == rq.locks \cup {row}
  <2>1. rq \in Request
    BY RequestTypes
  <2>2. more \in SUBSET Row
    BY <2>1, RequestTypes
  <2> HIDE DEF rq, more
  <2>3. [rq EXCEPT !.pc = pc, !.locks = more] \in Request
    BY <2>1, <2>2 DEF Request, Statements
  <2> QED
    BY <2>3 DEF rq, more
<1>2. req' = [req EXCEPT ![r] = [req[r] EXCEPT !.pc = pc, !.locks = @ \cup {row}]]
  BY DEF LockAndGoto
<1>3. req' \in [Requests -> Request]
  BY <1>1, <1>2 DEF TypeOK
<1> QED
  BY <1>2, <1>3, RequestTypes DEF TypeOK, Request, Moved, Alone

LEMMA FindMoves ==
    ASSUME TypeOK, NEW r \in Requests, NEW pc \in Statements, NEW f \in Found,
           req' = [req EXCEPT ![r].pc = pc, ![r].found = f]
    PROVE  Moved(r, pc, f, req[r].locks)
<1>1. [req[r] EXCEPT !.pc = pc, !.found = f] \in Request
  <2> DEFINE rq == req[r]
  <2>1. rq \in Request
    BY RequestTypes
  <2> HIDE DEF rq
  <2>2. [rq EXCEPT !.pc = pc, !.found = f] \in Request
    BY <2>1 DEF Request, Statements
  <2> QED
    BY <2>2 DEF rq
<1>2. req' = [req EXCEPT ![r] = [req[r] EXCEPT !.pc = pc, !.found = f]]
  OBVIOUS
<1>3. req' \in [Requests -> Request]
  BY <1>1, <1>2 DEF TypeOK
<1> QED
  BY <1>2, <1>3, RequestTypes DEF TypeOK, Request, Moved, Alone

LEMMA RestartMoves ==
    ASSUME TypeOK, NEW r \in Requests, Sound(r), req[r].pc # "idle", req[r].tries < MaxAttempts,
           req' = [req EXCEPT ![r].pc = req[r].start, ![r].locks = {}, ![r].tries = @ + 1]
    PROVE  Moved(r, req[r].start, req[r].found, {})
<1>1. [req[r] EXCEPT !.pc = req[r].start, !.locks = {}, !.tries = @ + 1] \in Request
  <2> DEFINE rq == req[r]
  <2>1. rq \in Request /\ rq.start \in Statements /\ rq.tries + 1 \in 0 .. MaxAttempts
    BY RequestTypes DEF Request, Sound, Statements
  <2> HIDE DEF rq
  <2>2. [rq EXCEPT !.pc = rq.start, !.locks = {}, !.tries = @ + 1] \in Request
    BY <2>1 DEF Request, Statements
  <2> QED
    BY <2>2 DEF rq
<1>2. req' = [req EXCEPT ![r] = [req[r] EXCEPT !.pc = req[r].start, !.locks = {}, !.tries = @ + 1]]
  OBVIOUS
<1>3. req' \in [Requests -> Request]
  BY <1>1, <1>2 DEF TypeOK
<1> QED
  BY <1>2, <1>3, RequestTypes DEF TypeOK, Request, Moved, Alone

LEMMA FinishMoves ==
    ASSUME TypeOK, NEW r \in Requests, Finish(r)
    PROVE  /\ req' \in [Requests -> Request]
           /\ Alone(r)
           /\ req'[r] = Idle
BY DEF TypeOK, Request, Finish, Idle, Alone, Found, Nothing, Row

-----------------------------------------------------------------------------
(* What the parts of the invariant need of a step                          *)

\* No token is given out, and nothing comes back.
Spent == {c \in Codes : code[c] \in {"used", "gone"}}
Shrinks ==
    /\ issued' = issued
    /\ Spent \subseteq Spent'
    /\ \A p \in Parties : grant'[p] \in {grant[p], NoGrant}
    /\ \A t \in Tokens : sessions'[t] \in {sessions[t], NoParty}

\* Only these rows of codes and of sessions with a token given out change.
Touches(rows) ==
    /\ \A c \in Codes : code'[c] = code[c] \/ CodeRow(c) \in rows
    /\ \A t \in Tokens : t <= issued => sessions'[t] = sessions[t] \/ SessionRow(t) \in rows

Free(r, rows) == \A q \in Requests : q # r => rows \cap req[q].locks = {}

LEMMA Bystander ==
    ASSUME IInv, TypeOK', NEW q \in Requests, req'[q] = req[q], issued' >= issued,
           NEW rows, Touches(rows), rows \cap req[q].locks = {}
    PROVE  Sound(q)' /\ Holds(q)'
<1>1. Sound(q)'
  BY DEF IInv, TypeOK, Sound, Tokens
<1>2. Holds(q)'
  <2>1. \A d \in Codes : CodeRow(d) \in req[q].locks => code'[d] = code[d]
    BY DEF Touches
  <2>2. req[q].pc = "rotate" => sessions'[req[q].token] = sessions[req[q].token]
    BY RowsDiffer DEF Touches, IInv, Sound, Holds
  <2> QED
    BY <2>1, <2>2 DEF IInv, Holds
<1> QED
  BY <1>1, <1>2

LEMMA OwnedShrinks ==
    ASSUME IInv, TypeOK', Shrinks,
           \A r \in Requests, p \in Parties, t \in Tokens : Remembers(r, p, t)' => Known(p, t)
    PROVE  Owned' /\ PreviousIsSpent' /\ PreviousIsIssued'
<1>1. \A p \in Parties, t \in Tokens : Known(p, t)' => Known(p, t)
  BY Nulls DEF Shrinks, Known
<1>2. Owned'
  BY <1>1 DEF IInv, Owned, Shrinks
<1>3. PreviousIsSpent'
  <2> SUFFICES ASSUME NEW p \in Parties, grant'[p].prev # NoToken
               PROVE  sessions'[grant'[p].prev] = NoParty
    BY DEF PreviousIsSpent
  <2>1. grant'[p] = grant[p]
    BY Nulls DEF Shrinks
  <2>2. grant[p].prev \in Tokens
    BY <2>1, GrantTypes DEF IInv
  <2> QED
    BY <2>1, <2>2 DEF Shrinks, IInv, PreviousIsSpent
<1>4. PreviousIsIssued'
  BY Nulls DEF PreviousIsIssued, Shrinks, IInv, TypeOK, NoToken
<1> QED
  BY <1>2, <1>3, <1>4

\* One request moves, and what it changes nobody else has locked.
LEMMA OneRequest ==
    ASSUME IInv, TypeOK', NEW r \in Requests, Alone(r), Shrinks, Sound(r)', Holds(r)',
           NEW rows, Touches(rows), Free(r, rows), req'[r].locks \subseteq rows,
           \A p \in Parties, t \in Tokens : Remembers(r, p, t)' => Known(p, t)
    PROVE  IInv'
<1>1. issued' >= issued
  BY DEF Shrinks, IInv, TypeOK
<1>2. \A q \in Requests : Sound(q)' /\ Holds(q)'
  <2> SUFFICES ASSUME NEW q \in Requests, q # r PROVE Sound(q)' /\ Holds(q)'
    OBVIOUS
  <2> QED
    BY <1>1, Bystander DEF Alone, Free
<1>3. Exclusive'
  BY DEF IInv, Exclusive, Apart, Alone, Free
<1>4. \A q \in Requests, p \in Parties, t \in Tokens : Remembers(q, p, t)' => Known(p, t)
  BY DEF Alone, Remembers, Known
<1> QED
  BY <1>2, <1>3, <1>4, OwnedShrinks DEF IInv

LEMMA WantedIsFree ==
    ASSUME NEW r \in Requests, ~Waits(r) PROVE Free(r, Wanted(r))
BY DEF Waits, WaitsFor, Free

LEMMA LocksAreFree ==
    ASSUME IInv, NEW r \in Requests PROVE Free(r, req[r].locks)
BY DEF IInv, Exclusive, Apart, Free

LEMMA NothingChanged ==
    ASSUME UNCHANGED <<tables, issued>>
    PROVE  Shrinks /\ \A rows : Touches(rows)
BY DEF tables, Shrinks, Touches, Spent

\* A statement that changes no table.
LEMMA Quiet ==
    ASSUME IInv, UNCHANGED <<tables, expired, issued, job>>, NEW r \in Requests,
           req' \in [Requests -> Request], Alone(r), Sound(r)', Holds(r)',
           NEW rows, Free(r, rows), req'[r].locks \subseteq rows,
           \A p \in Parties, t \in Tokens : Remembers(r, p, t)' => Known(p, t)
    PROVE  IInv'
<1>1. TypeOK'
  BY DEF IInv, TypeOK, tables
<1> QED
  BY <1>1, NothingChanged, OneRequest

LEMMA IdleIsFine ==
    ASSUME TypeOK, NEW r \in Requests, Finish(r)
    PROVE  Sound(r)' /\ Holds(r)' /\ req'[r].locks = {}
           /\ \A p \in Parties, t \in Tokens : ~Remembers(r, p, t)'
<1>1. req'[r] = Idle
  BY FinishMoves
<1> QED
  BY <1>1, Nulls DEF Idle, Sound, Holds, Exchanging, Remembers, Nothing, Row, Found

LEMMA GivesUp ==
    ASSUME IInv, UNCHANGED <<tables, expired, issued, job>>, NEW r \in Requests, Finish(r)
    PROVE  IInv'
<1>1. TypeOK
  BY DEF IInv
<1> QED
  BY <1>1, FinishMoves, IdleIsFine, LocksAreFree, Quiet

\* The next statement, with what it found and locked.
LEMMA MovesOn ==
    ASSUME IInv, UNCHANGED <<tables, expired, issued, job>>, NEW r \in Requests,
           NEW pc, NEW found, NEW locks, Moved(r, pc, found, locks), Sound(r)', Holds(r)',
           \/ locks \subseteq req[r].locks
           \/ ~Waits(r) /\ locks \subseteq req[r].locks \cup Wanted(r),
           \/ found = req[r].found
           \/ \E p \in Parties : grant[p] # NoGrant /\ found = Remembered(p)
    PROVE  IInv'
<1>1. Free(r, locks)
  BY WantedIsFree, LocksAreFree DEF Free
<1>2. \A p \in Parties, t \in Tokens : Remembers(r, p, t)' => Known(p, t)
  BY RememberedIs DEF Moved, Remembers, Known, IInv
<1> QED
  BY <1>1, <1>2, Quiet DEF Moved

-----------------------------------------------------------------------------
(* exchangeCode                                                            *)

LEMMA IdleIsRequest == Idle \in Request
BY DEF Idle, Request

\* A call fills in the record of an idle request.
LEMMA CallBegins ==
    ASSUME TypeOK, NEW r \in Requests, NEW new \in Request, req' = [req EXCEPT ![r] = new]
    PROVE  req' \in [Requests -> Request] /\ Alone(r) /\ req'[r] = new
BY DEF TypeOK, Alone

LEMMA ExchangeCodeKeeps ==
    ASSUME IInv, NEW r \in Requests, NEW cl \in Clients, NEW c \in Codes, ExchangeCode(r, cl, c)
    PROVE  IInv'
<1> DEFINE new == [Idle EXCEPT !.pc = "burn", !.kind = "exchange", !.start = "burn",
                               !.client = cl, !.code = c]
<1>1. new \in Request
  BY IdleIsRequest DEF Request
<1>2. req' \in [Requests -> Request] /\ Alone(r) /\ req'[r] = new
  BY <1>1, CallBegins DEF IInv, ExchangeCode
<1>3. Sound(r)' /\ Holds(r)' /\ req'[r].locks = {}
  BY <1>2 DEF Idle, Sound, Holds, Exchanging
<1>4. \A p \in Parties, t \in Tokens : ~Remembers(r, p, t)'
  BY <1>2, Nulls DEF Idle, Remembers
<1> QED
  BY <1>2, <1>3, <1>4, LocksAreFree, Quiet DEF ExchangeCode

LEMMA BurnCodeKeeps ==
    ASSUME IInv, NEW r \in Requests, BurnCode(r)
    PROVE  IInv'
<1> DEFINE c == req[r].code
<1>1. /\ req[r].pc = "burn" /\ ~Waits(r) /\ UNCHANGED <<tables, expired, issued, job>>
      /\ c \in Codes /\ req[r].locks = {} /\ req[r].start = "burn" /\ Sound(r)
  BY DEF BurnCode, IInv, Sound, Holds
<1>2. CASE Finish(r)
  BY <1>1, <1>2, GivesUp
<1>3. CASE /\ code[c] = "fresh" /\ ClientOf[PartyOf[c]] = req[r].client
           /\ LockAndGoto(r, CodeRow(c), "existing")
  <2>1. Moved(r, "existing", req[r].found, req[r].locks \cup {CodeRow(c)})
    BY <1>1, <1>3, LockMoves, RowsAre DEF IInv, Statements
  <2>2. Sound(r)' /\ Holds(r)'
    BY <1>1, <1>3, <2>1, RowsDiffer DEF Moved, Sound, Holds, Exchanging, tables
  <2> QED
    BY <1>1, <2>1, <2>2, MovesOn DEF Wanted
<1>4. CASE Goto(r, "codeReplay")
  <2>1. Moved(r, "codeReplay", req[r].found, req[r].locks)
    BY <1>1, <1>4, GotoMoves DEF IInv, Statements
  <2>2. Sound(r)' /\ Holds(r)'
    BY <1>1, <2>1 DEF Moved, Sound, Holds, Exchanging
  <2> QED
    BY <1>1, <2>1, <2>2, MovesOn
<1> QED
  BY <1>2, <1>3, <1>4 DEF BurnCode

LEMMA FindByCodeKeeps ==
    ASSUME IInv, NEW r \in Requests, FindByCode(r)
    PROVE  IInv'
<1>1. /\ req[r].pc = "codeReplay" /\ UNCHANGED <<tables, expired, issued, job>>
      /\ Sound(r) /\ req[r].locks = {} /\ TypeOK
      /\ req[r].start = "burn" /\ req[r].code \in Codes
  BY DEF FindByCode, IInv, Sound, Holds
<1>2. CASE Finish(r)
  BY <1>1, <1>2, GivesUp
<1>3. ASSUME NEW p \in Parties, grant[p].code = req[r].code,
             req' = [req EXCEPT ![r].pc = "dropGrant", ![r].found = Remembered(p)]
      PROVE  IInv'
  <2>1. grant[p] # NoGrant /\ Remembered(p) \in Found
    BY <1>1, <1>3, GrantTypes, RememberedIs
  <2>2. Moved(r, "dropGrant", Remembered(p), req[r].locks)
    BY <1>1, <1>3, <2>1, FindMoves DEF Statements
  <2>3. Sound(r)' /\ Holds(r)'
    BY <1>1, <2>1, <2>2 DEF Moved, Sound, Holds, Exchanging
  <2> QED
    BY <1>1, <2>1, <2>2, <2>3, MovesOn
<1> QED
  BY <1>2, <1>3 DEF FindByCode

LEMMA FindExistingKeeps ==
    ASSUME IInv, NEW r \in Requests, FindExisting(r)
    PROVE  IInv'
<1> DEFINE c == req[r].code
           p == PartyOf[c]
<1>1. /\ req[r].pc = "existing" /\ UNCHANGED <<tables, expired, issued, job>>
      /\ Sound(r) /\ Holds(r) /\ TypeOK /\ req[r].locks = {CodeRow(c)}
      /\ req[r].start = "burn" /\ c \in Codes /\ p \in Parties
  BY DEF FindExisting, IInv, Sound, Holds, Exchanging
<1>2. CASE Finish(r)
  BY <1>1, <1>2, GivesUp
<1>3. CASE Goto(r, "insert")
  <2>1. Moved(r, "insert", req[r].found, req[r].locks)
    BY <1>1, <1>3, GotoMoves DEF Statements
  <2>2. Sound(r)' /\ Holds(r)'
    BY <1>1, <2>1 DEF Moved, Sound, Holds, Exchanging, tables
  <2> QED
    BY <1>1, <2>1, <2>2, MovesOn
<1>4. CASE /\ grant[p] # NoGrant
           /\ req' = [req EXCEPT ![r].pc = "replaceGrant", ![r].found = Remembered(p)]
  <2>1. Remembered(p) \in Found /\ Remembered(p).party = p
    BY <1>1, <1>4, RememberedIs
  <2>2. Moved(r, "replaceGrant", Remembered(p), req[r].locks)
    BY <1>1, <1>4, <2>1, FindMoves DEF Statements
  <2>3. Sound(r)' /\ Holds(r)'
    BY <1>1, <2>1, <2>2 DEF Moved, Sound, Holds, Exchanging, tables
  <2> QED
    BY <1>1, <1>4, <2>2, <2>3, MovesOn
<1> QED
  BY <1>2, <1>3, <1>4 DEF FindExisting

LEMMA ReplaceGrantKeeps ==
    ASSUME IInv, NEW r \in Requests, ReplaceGrant(r)
    PROVE  IInv'
<1> DEFINE c == req[r].code
           p == PartyOf[c]
<1>1. /\ req[r].pc = "replaceGrant" /\ UNCHANGED <<tables, expired, issued, job>>
      /\ ~Waits(r) /\ Sound(r) /\ Holds(r) /\ TypeOK
      /\ req[r].start = "burn" /\ c \in Codes /\ p \in Parties
  BY DEF ReplaceGrant, IInv, Sound, Exchanging
<1>2. CASE LockAndGoto(r, GrantRow(p), "replaceSession")
  <2>1. Moved(r, "replaceSession", req[r].found, req[r].locks \cup {GrantRow(p)})
    BY <1>1, <1>2, LockMoves, RowsAre DEF Statements
  <2>2. Sound(r)' /\ Holds(r)'
    BY <1>1, <2>1, RowsDiffer DEF Moved, Sound, Holds, Exchanging, tables
  <2> QED
    BY <1>1, <2>1, <2>2, MovesOn DEF Wanted
<1>3. CASE Goto(r, "replaceSession")
  <2>1. Moved(r, "replaceSession", req[r].found, req[r].locks)
    BY <1>1, <1>3, GotoMoves DEF Statements
  <2>2. Sound(r)' /\ Holds(r)'
    BY <1>1, <2>1 DEF Moved, Sound, Holds, Exchanging, tables
  <2> QED
    BY <1>1, <2>1, <2>2, MovesOn
<1> QED
  BY <1>2, <1>3 DEF ReplaceGrant

LEMMA ReplaceSessionKeeps ==
    ASSUME IInv, NEW r \in Requests, ReplaceSession(r)
    PROVE  IInv'
<1> DEFINE c == req[r].code
           p == PartyOf[c]
           t == req[r].found.session
<1>1. /\ req[r].pc = "replaceSession" /\ UNCHANGED <<tables, expired, issued, job>>
      /\ ~Waits(r) /\ Sound(r) /\ Holds(r) /\ TypeOK
      /\ req[r].start = "burn" /\ c \in Codes /\ p \in Parties
      /\ req[r].found.party = p /\ t \in Tokens
  BY RequestTypes, FoundTypes DEF ReplaceSession, IInv, Sound, Holds, Exchanging
<1>2. CASE LockAndGoto(r, SessionRow(t), "insert")
  <2>1. Moved(r, "insert", req[r].found, req[r].locks \cup {SessionRow(t)})
    BY <1>1, <1>2, LockMoves, RowsAre DEF Statements
  <2>2. Sound(r)' /\ Holds(r)'
    BY <1>1, <2>1, RowsDiffer DEF Moved, Sound, Holds, Exchanging, tables
  <2> QED
    BY <1>1, <2>1, <2>2, MovesOn DEF Wanted
<1>3. CASE Goto(r, "insert")
  <2>1. Moved(r, "insert", req[r].found, req[r].locks)
    BY <1>1, <1>3, GotoMoves DEF Statements
  <2>2. Sound(r)' /\ Holds(r)'
    BY <1>1, <2>1 DEF Moved, Sound, Holds, Exchanging, tables
  <2> QED
    BY <1>1, <2>1, <2>2, MovesOn
<1> QED
  BY <1>2, <1>3 DEF ReplaceSession

-----------------------------------------------------------------------------
(* refreshToken                                                            *)

LEMMA RefreshTokenKeeps ==
    ASSUME IInv, NEW r \in Requests, NEW cl \in Clients, NEW t \in Tokens, RefreshToken(r, cl, t)
    PROVE  IInv'
<1> DEFINE New(pc, seen) == [Idle EXCEPT !.pc = pc, !.kind = "refresh", !.start = pc,
                                         !.client = cl, !.token = t, !.seen = seen]
<1>1. UNCHANGED <<tables, expired, issued, job>> /\ TypeOK /\ t <= issued
  <2>1. t \in 1 .. issued
    BY Zenon DEF RefreshToken
  <2>2. UNCHANGED <<tables, expired, issued, job>>
    BY Zenon DEF RefreshToken
  <2> QED
    BY <2>1, <2>2 DEF IInv, TypeOK
<1>2. ASSUME NEW pc \in {"reuse", "consume"}, NEW seen \in Found \cup {Nothing},
             pc = "consume" => seen \in Found /\ seen.session = t /\ cl = ClientOf[seen.party],
             req' = [req EXCEPT ![r] = New(pc, seen)]
      PROVE  IInv'
  <2>1. New(pc, seen) \in Request
    BY <1>2, IdleIsRequest DEF Request
  <2>2. req' \in [Requests -> Request] /\ Alone(r) /\ req'[r] = New(pc, seen)
    BY <1>1, <1>2, <2>1, CallBegins
  <2>3. Sound(r)' /\ Holds(r)' /\ req'[r].locks = {}
    BY <1>1, <1>2, <2>2 DEF Idle, Sound, Holds, Exchanging
  <2>4. \A p \in Parties, u \in Tokens : ~Remembers(r, p, u)'
    BY <2>2, Nulls DEF Idle, Remembers
  <2> QED
    BY <1>1, <2>2, <2>3, <2>4, LocksAreFree, Quiet
<1>3. CASE req' = [req EXCEPT ![r] = New("reuse", Nothing)]
  BY <1>2, <1>3
<1>4. ASSUME NEW p \in Parties, grant[p].session = t, ClientOf[p] = cl,
             req' = [req EXCEPT ![r] = New("consume", Remembered(p))]
      PROVE  IInv'
  <2>1. Remembered(p) \in Found /\ Remembered(p).party = p /\ Remembered(p).session = t
    BY <1>1, <1>4, GrantTypes, RememberedIs
  <2> QED
    BY <1>2, <1>4, <2>1
<1> QED
  BY <1>3, <1>4 DEF RefreshToken

LEMMA ConsumeSessionKeeps ==
    ASSUME IInv, NEW r \in Requests, ConsumeSession(r)
    PROVE  IInv'
<1> DEFINE t == req[r].token
<1>1. /\ req[r].pc = "consume" /\ UNCHANGED <<tables, expired, issued, job>>
      /\ ~Waits(r) /\ Sound(r) /\ Holds(r) /\ TypeOK
      /\ req[r].start = "consume" /\ t \in Tokens /\ req[r].locks = {}
  BY DEF ConsumeSession, IInv, Sound, Holds
<1>2. CASE sessions[t] = req[r].seen.party /\ LockAndGoto(r, SessionRow(t), "rotate")
  <2>1. Moved(r, "rotate", req[r].found, req[r].locks \cup {SessionRow(t)})
    BY <1>1, <1>2, LockMoves, RowsAre DEF Statements
  <2>2. Sound(r)' /\ Holds(r)'
    BY <1>1, <1>2, <2>1, RowsDiffer DEF Moved, Sound, Holds, Exchanging, tables
  <2> QED
    BY <1>1, <2>1, <2>2, MovesOn DEF Wanted
<1>3. CASE Goto(r, "orphan")
  <2>1. Moved(r, "orphan", req[r].found, req[r].locks)
    BY <1>1, <1>3, GotoMoves DEF Statements
  <2>2. Sound(r)' /\ Holds(r)'
    BY <1>1, <2>1 DEF Moved, Sound, Holds, Exchanging
  <2> QED
    BY <1>1, <2>1, <2>2, MovesOn
<1> QED
  BY <1>2, <1>3 DEF ConsumeSession

LEMMA FindOrphanKeeps ==
    ASSUME IInv, NEW r \in Requests, FindOrphan(r)
    PROVE  IInv'
<1>1. /\ req[r].pc = "orphan" /\ UNCHANGED <<tables, expired, issued, job>>
      /\ Sound(r) /\ Holds(r) /\ TypeOK
  BY DEF FindOrphan, IInv
<1>2. ASSUME NEW pc \in {"dropOrphan", "reuse"}, Goto(r, pc)
      PROVE  IInv'
  <2>1. Moved(r, pc, req[r].found, req[r].locks)
    BY <1>1, <1>2, GotoMoves DEF Statements
  <2>2. Sound(r)' /\ Holds(r)'
    BY <1>1, <2>1 DEF Moved, Sound, Holds, Exchanging
  <2> QED
    BY <1>1, <2>1, <2>2, MovesOn
<1> QED
  BY <1>2 DEF FindOrphan

LEMMA GoesToReuse ==
    ASSUME IInv, NEW r \in Requests, req[r].pc = "rotate", Goto(r, "reuse"),
           UNCHANGED <<tables, expired, issued, job>>
    PROVE  IInv'
<1>1. Sound(r) /\ Holds(r) /\ TypeOK
  BY DEF IInv
<1>2. Moved(r, "reuse", req[r].found, req[r].locks)
  BY <1>1, GotoMoves DEF Statements
<1>3. Sound(r)' /\ Holds(r)'
  BY <1>1, <1>2 DEF Moved, Sound, Holds, Exchanging, tables
<1> QED
  BY <1>2, <1>3, MovesOn

LEMMA FindsReused ==
    ASSUME IInv, NEW r \in Requests, req[r].pc = "reuse", UNCHANGED <<tables, expired, issued, job>>,
           NEW p \in ReusedGrants(r),
           req' = [req EXCEPT ![r].pc = "dropGrant", ![r].found = Remembered(p)]
    PROVE  IInv'
<1>1. Sound(r) /\ Holds(r) /\ TypeOK /\ req[r].start \in {"consume", "reuse"} /\ req[r].token \in Tokens
  BY DEF IInv, Sound
<1>2. p \in Parties /\ grant[p] # NoGrant
  BY <1>1, GrantTypes DEF ReusedGrants
<1>3. Remembered(p) \in Found
  BY <1>1, <1>2, RememberedIs
<1>4. Moved(r, "dropGrant", Remembered(p), req[r].locks)
  BY <1>1, <1>3, FindMoves DEF Statements
<1>5. Sound(r)' /\ Holds(r)'
  BY <1>1, <1>3, <1>4 DEF Moved, Sound, Holds, Exchanging, tables
<1> QED
  BY <1>2, <1>4, <1>5, MovesOn

-----------------------------------------------------------------------------
(* revokeToken, the deletion of a grant, and deadlocks                     *)

LEMMA RevokeTokenKeeps ==
    ASSUME IInv, NEW r \in Requests, NEW cl \in Clients, NEW t \in Tokens, RevokeToken(r, cl, t)
    PROVE  IInv'
<1> PICK p \in Parties :
       /\ grant[p].session = t
       /\ req' = [req EXCEPT ![r] = [Idle EXCEPT !.pc = "dropGrant", !.kind = "revoke",
                      !.start = "dropGrant", !.client = cl, !.token = t, !.found = Remembered(p)]]
  BY DEF RevokeToken
<1> DEFINE new == [Idle EXCEPT !.pc = "dropGrant", !.kind = "revoke",
                      !.start = "dropGrant", !.client = cl, !.token = t, !.found = Remembered(p)]
<1>1. UNCHANGED <<tables, expired, issued, job>> /\ TypeOK
  BY DEF RevokeToken, IInv
<1>2. Remembered(p) \in Found /\ Remembered(p).party = p /\ Remembered(p).session = t
  BY <1>1, GrantTypes, RememberedIs
<1>3. new \in Request
  BY <1>2, IdleIsRequest DEF Request
<1>4. req' \in [Requests -> Request] /\ Alone(r) /\ req'[r] = new
  BY <1>1, <1>3, CallBegins
<1>5. Sound(r)' /\ Holds(r)' /\ req'[r].locks = {}
  BY <1>2, <1>4 DEF Idle, Sound, Holds, Exchanging
<1>6. \A q \in Parties, u \in Tokens : Remembers(r, q, u)' => Known(q, u)
  BY <1>2, <1>4 DEF Idle, Remembers, Known
<1> QED
  BY <1>1, <1>4, <1>5, <1>6, LocksAreFree, Quiet

LEMMA DropGrantKeeps ==
    ASSUME IInv, NEW r \in Requests, DropGrant(r)
    PROVE  IInv'
<1> DEFINE p == req[r].found.party
<1>1. /\ req[r].pc = "dropGrant" /\ UNCHANGED <<tables, expired, issued, job>>
      /\ ~Waits(r) /\ Sound(r) /\ Holds(r) /\ TypeOK
      /\ req[r].found \in Found /\ p \in Parties
  BY FoundTypes DEF DropGrant, IInv, Sound
<1>2. CASE LockAndGoto(r, GrantRow(p), "dropSession")
  <2>1. Moved(r, "dropSession", req[r].found, req[r].locks \cup {GrantRow(p)})
    BY <1>1, <1>2, LockMoves, RowsAre DEF Statements
  <2>2. Sound(r)' /\ Holds(r)'
    BY <1>1, <2>1, RowsDiffer DEF Moved, Sound, Holds, Exchanging, tables
  <2> QED
    BY <1>1, <2>1, <2>2, MovesOn DEF Wanted
<1>3. CASE Goto(r, "dropSession")
  <2>1. Moved(r, "dropSession", req[r].found, req[r].locks)
    BY <1>1, <1>3, GotoMoves DEF Statements
  <2>2. Sound(r)' /\ Holds(r)'
    BY <1>1, <2>1 DEF Moved, Sound, Holds, Exchanging, tables
  <2> QED
    BY <1>1, <2>1, <2>2, MovesOn
<1> QED
  BY <1>2, <1>3 DEF DropGrant

LEMMA VictimKeeps ==
    ASSUME IInv, NEW r \in Requests, Victim(r)
    PROVE  IInv'
<1>1. UNCHANGED <<tables, expired, issued, job>> /\ Sound(r) /\ TypeOK
  BY DEF Victim, IInv
<1>2. req[r].pc # "idle"
  BY DEF Victim, Deadlocked, WaitsFor, Wanted
<1>3. CASE Finish(r)
  BY <1>1, <1>3, GivesUp
<1>4. CASE /\ req[r].tries < MaxAttempts
           /\ req' = [req EXCEPT ![r].pc = req[r].start, ![r].locks = {}, ![r].tries = @ + 1]
  <2>1. Moved(r, req[r].start, req[r].found, {})
    BY <1>1, <1>2, <1>4, RestartMoves
  <2>2. req[r].start \in {"burn", "consume", "reuse", "dropGrant"}
    BY <1>1, <1>2, RequestTypes DEF Sound, Request
  <2>3. Sound(r)' /\ Holds(r)'
    BY <1>1, <2>1, <2>2 DEF Moved, Sound, Holds, Exchanging
  <2> QED
    BY <1>1, <2>1, <2>3, MovesOn
<1> QED
  BY <1>3, <1>4 DEF Victim

-----------------------------------------------------------------------------
(* The end of a transaction                                                *)

LEMMA RowsAfter ==
    ASSUME TypeOK, NEW rows
    PROVE  /\ CodesAfter(rows) \in [Codes -> {"none", "fresh", "used", "gone"}]
           /\ GrantsAfter(rows) \in [Parties -> Grant \cup {NoGrant}]
           /\ SessionsAfter(rows) \in [Tokens -> Parties \cup {NoParty}]
           /\ \A c \in Codes : CodesAfter(rows)[c] = IF CodeRow(c) \in rows THEN "used" ELSE code[c]
           /\ \A p \in Parties : GrantsAfter(rows)[p] = IF GrantRow(p) \in rows THEN NoGrant ELSE grant[p]
           /\ \A t \in Tokens :
                 SessionsAfter(rows)[t] = IF SessionRow(t) \in rows THEN NoParty ELSE sessions[t]
BY DEF TypeOK, CodesAfter, GrantsAfter, SessionsAfter

LEMMA CommitShrinks ==
    ASSUME IInv, NEW r \in Requests, NEW rows, Commit(r, rows), UNCHANGED <<expired, issued, job>>
    PROVE  Shrinks /\ Touches(rows) /\ TypeOK'
<1>1. TypeOK
  BY DEF IInv
<1>2. Shrinks
  BY <1>1, RowsAfter DEF Commit, Shrinks, Spent
<1>3. Touches(rows)
  BY <1>1, RowsAfter DEF Commit, Touches
<1>4. TypeOK'
  BY <1>1, RowsAfter, FinishMoves DEF Commit, TypeOK
<1> QED
  BY <1>2, <1>3, <1>4

LEMMA CommitKeeps ==
    ASSUME IInv, NEW r \in Requests, NEW rows, Commit(r, rows), UNCHANGED <<expired, issued, job>>,
           Free(r, rows)
    PROVE  IInv'
<1>1. TypeOK /\ Finish(r)
  BY DEF IInv, Commit
<1> QED
  BY <1>1, FinishMoves, IdleIsFine, CommitShrinks, OneRequest

LEMMA DropOrphanKeeps ==
    ASSUME IInv, NEW r \in Requests, DropOrphan(r)
    PROVE  IInv'
<1> DEFINE rows == IF StillCurrent(r) THEN {GrantRow(req[r].seen.party)} ELSE {}
<1>1. Commit(r, rows) /\ UNCHANGED <<expired, issued, job>> /\ ~Waits(r) /\ req[r].pc = "dropOrphan"
  BY DEF DropOrphan
<1>2. Free(r, rows)
  BY <1>1, WantedIsFree DEF Wanted, Free
<1> QED
  BY <1>1, <1>2, CommitKeeps

LEMMA FindReusedKeeps ==
    ASSUME IInv, NEW r \in Requests, FindReused(r)
    PROVE  IInv'
<1>1. CASE Commit(r, req[r].locks)
  BY <1>1, LocksAreFree, CommitKeeps DEF FindReused
<1>2. CASE \E p \in ReusedGrants(r) :
              /\ req' = [req EXCEPT ![r].pc = "dropGrant", ![r].found = Remembered(p)]
              /\ UNCHANGED tables
  BY <1>2, FindsReused DEF FindReused
<1> QED
  BY <1>1, <1>2 DEF FindReused

LEMMA DropSessionKeeps ==
    ASSUME IInv, NEW r \in Requests, DropSession(r)
    PROVE  IInv'
<1> DEFINE rows == req[r].locks \cup {SessionRow(req[r].found.session)}
<1>1. Commit(r, rows) /\ UNCHANGED <<expired, issued, job>> /\ ~Waits(r) /\ req[r].pc = "dropSession"
  BY DEF DropSession
<1>2. Free(r, rows)
  BY <1>1, WantedIsFree, LocksAreFree DEF Wanted, Free
<1> QED
  BY <1>1, <1>2, CommitKeeps

-----------------------------------------------------------------------------
(* A new token                                                             *)

\* The token is new, and the one before it, if any, has no session any more.
LEMMA TokenKeeps ==
    ASSUME IInv, NEW r \in Requests, NEW p \in Parties, NEW g \in Grant,
           CommitToken(r, req[r].locks, p, g), UNCHANGED <<expired, job>>,
           g.session = issued + 1,
           g.prev # NoToken => g.prev <= issued /\ SessionRow(g.prev) \in req[r].locks
    PROVE  IInv'
<1> DEFINE rows == req[r].locks
           new == issued + 1
<1>1. /\ TypeOK /\ Finish(r) /\ new \in Tokens /\ issued' = new /\ issued \in Nat
      /\ code' = CodesAfter(rows) /\ grant' = [GrantsAfter(rows) EXCEPT ![p] = g]
      /\ sessions' = [SessionsAfter(rows) EXCEPT ![new] = p] /\ clients' = clients
  BY DEF IInv, CommitToken, TypeOK, Tokens
<1>2. TypeOK'
  <2>1. issued' \in 0 .. MaxTokens
    BY <1>1 DEF Tokens
  <2> QED
    BY <1>1, <2>1, RowsAfter, FinishMoves DEF TypeOK
<1>3. Touches(rows)
  BY <1>1, RowsAfter DEF Touches
<1>4. \A q \in Requests : Sound(q)' /\ Holds(q)'
  <2>1. Sound(r)' /\ Holds(r)'
    BY <1>1, IdleIsFine
  <2>2. ASSUME NEW q \in Requests, q # r PROVE Sound(q)' /\ Holds(q)'
    <3>1. req'[q] = req[q] /\ rows \cap req[q].locks = {} /\ issued' >= issued
      BY <1>1, <2>2, FinishMoves, LocksAreFree DEF Alone, Free
    <3> QED
      BY <1>2, <1>3, <3>1, Bystander
  <2> QED
    BY <2>1, <2>2
<1>5. Exclusive'
  BY <1>1, FinishMoves DEF IInv, Exclusive, Apart, Alone, Idle
<1>6. /\ \A q \in Parties : q # p => grant'[q] \in {grant[q], NoGrant}
      /\ grant'[p] = g
      /\ \A t \in Tokens : t # new => sessions'[t] \in {sessions[t], NoParty}
      /\ sessions'[new] = p
      /\ g.prev # NoToken => sessions'[g.prev] = NoParty
  <2>1. g.prev \in Tokens \cup {NoToken}
    BY DEF Grant
  <2>2. g.prev # NoToken => g.prev # new
    BY <1>1, <2>1, Nulls
  <2> QED
    BY <1>1, <2>1, <2>2, RowsAfter
<1>7. \A q \in Requests, u \in Parties, t \in Tokens : Remembers(q, u, t)' => Known(u, t)
  BY <1>1, FinishMoves, IdleIsFine DEF Alone, Remembers, Known
<1>8. \A u \in Parties, t \in Tokens : Known(u, t)' => Known(u, t) \/ (t = new /\ u = p)
  BY <1>1, <1>6, <1>7, Nulls DEF Known
<1>9. \A u \in Parties : ~Known(u, new)
  BY <1>1 DEF IInv, Owned
<1>10. Owned'
  <2>1. \A u \in Parties, t \in Tokens : Known(u, t)' => t <= issued'
    BY <1>1, <1>8, Nulls DEF IInv, Owned
  <2>2. \A u, q \in Parties, t \in Tokens : Known(u, t)' /\ Known(q, t)' => u = q
    BY <1>8, <1>9 DEF IInv, Owned
  <2> QED
    BY <2>1, <2>2 DEF Owned
<1>11. PreviousIsIssued'
  <2>1. \A q \in Parties : grant[q].prev \in Nat /\ grant[q].prev <= issued
    BY <1>1, Nulls, GrantTypes DEF IInv, PreviousIsIssued
  <2>2. g.prev \in Nat /\ g.prev <= issued
    <3>1. g.prev \in Tokens \cup {NoToken}
      BY DEF Grant
    <3>2. CASE g.prev = NoToken
      BY <1>1, <3>2 DEF NoToken
    <3>3. CASE g.prev # NoToken
      BY <3>1, <3>3, Nulls
    <3> QED
      BY <3>2, <3>3
  <2>3. \A q \in Parties : grant'[q].prev \in Nat /\ grant'[q].prev <= issued
    BY <1>1, <1>6, <2>1, <2>2, Nulls DEF NoToken
  <2> QED
    BY <1>1, <2>3 DEF PreviousIsIssued
<1>12. PreviousIsSpent'
  <2> SUFFICES ASSUME NEW q \in Parties, q # p, grant'[q].prev # NoToken
               PROVE  sessions'[grant'[q].prev] = NoParty
    BY <1>6 DEF PreviousIsSpent
  <2>1. grant'[q] = grant[q] /\ grant[q].prev \in Tokens
    BY <1>1, <1>6, Nulls, GrantTypes
  <2>2. grant[q].prev # new
    BY <1>1, <2>1, Nulls DEF IInv, PreviousIsIssued
  <2> QED
    BY <1>6, <2>1, <2>2 DEF IInv, PreviousIsSpent
<1> QED
  BY <1>2, <1>4, <1>5, <1>10, <1>11, <1>12 DEF IInv

LEMMA InsertGrantKeeps ==
    ASSUME IInv, NEW r \in Requests, InsertGrant(r)
    PROVE  IInv'
<1> DEFINE c == req[r].code
           p == PartyOf[c]
           t == issued + 1
           g == [id |-> t, session |-> t, prev |-> NoToken, code |-> c]
<1>1. c \in Codes /\ p \in Parties
  BY DEF InsertGrant, IInv, Sound, Exchanging
<1>2. CASE RollBack(r) /\ UNCHANGED issued
  BY <1>2, GivesUp DEF RollBack, InsertGrant
<1>3. CASE CommitToken(r, req[r].locks, p, g)
  <2>1. t \in Tokens
    BY <1>3 DEF CommitToken, IInv, TypeOK, Tokens
  <2>2. g \in Grant
    BY <1>1, <2>1 DEF Grant
  <2> QED
    BY <1>1, <1>3, <2>2, TokenKeeps DEF InsertGrant
<1> QED
  BY <1>2, <1>3 DEF InsertGrant

LEMMA RotateGrantKeeps ==
    ASSUME IInv, NEW r \in Requests, RotateGrant(r)
    PROVE  IInv'
<1> DEFINE p == req[r].seen.party
           g == [grant[p] EXCEPT !.session = issued + 1, !.prev = req[r].token]
<1>1. /\ req[r].pc = "rotate" /\ TypeOK /\ p \in Parties /\ req[r].token \in Tokens
      /\ req[r].token <= issued /\ req[r].locks = {SessionRow(req[r].token)}
  BY FoundTypes DEF RotateGrant, IInv, Sound, Holds
<1>2. CASE RollBack(r) /\ UNCHANGED issued
  BY <1>2, GivesUp DEF RollBack, RotateGrant
<1>3. CASE Goto(r, "reuse") /\ UNCHANGED <<tables, issued>>
  BY <1>1, <1>3, GoesToReuse DEF RotateGrant
<1>4. CASE StillCurrent(r) /\ CommitToken(r, req[r].locks, p, g)
  <2>1. issued + 1 \in Tokens
    BY <1>4 DEF CommitToken, IInv, TypeOK, Tokens
  <2>2. grant[p] \in Grant
    BY <1>1, <1>4, GrantTypes DEF StillCurrent
  <2>3. g \in Grant /\ g.session = issued + 1 /\ g.prev = req[r].token
    BY <1>1, <2>1, <2>2 DEF Grant
  <2> QED
    BY <1>1, <1>4, <2>3, TokenKeeps DEF RotateGrant
<1> QED
  BY <1>2, <1>3, <1>4 DEF RotateGrant

-----------------------------------------------------------------------------
(* The job, time and the user                                              *)

\* Whatever happens beside the requests leaves locked rows alone.
LEMMA Background ==
    ASSUME IInv, TypeOK', UNCHANGED req, Shrinks, NEW rows, Touches(rows),
           \A q \in Requests : rows \cap req[q].locks = {}
    PROVE  IInv'
<1>1. \A q \in Requests : Sound(q)' /\ Holds(q)'
  <2> TAKE q \in Requests
  <2>1. req'[q] = req[q] /\ issued' >= issued
    BY DEF IInv, TypeOK, Shrinks
  <2> QED
    BY <2>1, Bystander
<1>2. Exclusive'
  BY DEF IInv, Exclusive, Apart
<1>3. \A r \in Requests, p \in Parties, t \in Tokens : Remembers(r, p, t)' => Known(p, t)
  BY DEF Remembers, Known
<1> QED
  BY <1>1, <1>2, <1>3, OwnedShrinks DEF IInv

LEMMA JobKeeps ==
    ASSUME IInv, UNCHANGED <<tables, expired, issued, req>>, job' \in Job
    PROVE  IInv'
<1>1. TypeOK'
  BY DEF IInv, TypeOK, tables
<1>2. Shrinks /\ Touches({})
  BY NothingChanged
<1> QED
  BY <1>1, <1>2, Background

LEMMA SessionsDeleted ==
    ASSUME IInv, NEW doomed \in SUBSET Tokens, \A t \in doomed : ~Locked(SessionRow(t)),
           sessions' = [t \in Tokens |-> IF t \in doomed THEN NoParty ELSE sessions[t]],
           job' \in Job, UNCHANGED <<clients, code, grant, expired, issued, req>>
    PROVE  IInv' /\ Shrinks
<1> DEFINE rows == {SessionRow(t) : t \in doomed}
<1>1. TypeOK'
  BY DEF IInv, TypeOK
<1>2. Shrinks /\ Touches(rows)
  BY DEF IInv, TypeOK, Shrinks, Touches, Spent
<1>3. \A q \in Requests : rows \cap req[q].locks = {}
  BY DEF Locked
<1> QED
  BY <1>1, <1>2, <1>3, Background

LEMMA RememberFinds ==
    ASSUME TypeOK, NEW P \in SUBSET Parties, \A p \in P : grant[p] # NoGrant
    PROVE  Remember(P) \subseteq Found
BY RememberedIs DEF Remember

JobStatements == {"idle", "expired", "sessions", "grants", "orphans", "dropOrphans", "clients",
                  "dropClients"}

LEMMA JobTypes ==
    ASSUME TypeOK, NEW pc \in JobStatements
    PROVE  /\ job \in Job
           /\ job.grants \subseteq Found /\ job.clients \subseteq Clients
           /\ [job EXCEPT !.pc = pc] \in Job
           /\ \A G \in SUBSET Found : [job EXCEPT !.pc = pc, !.grants = G] \in Job
           /\ \A C \in SUBSET Clients : [job EXCEPT !.pc = pc, !.clients = C] \in Job
BY DEF TypeOK, Job, JobStatements

LEMMA CleanCodesKeeps ==
    ASSUME IInv, CleanCodes
    PROVE  IInv' /\ Shrinks
<1> PICK old \in SUBSET {c \in Codes : code[c] = "used"} :
       LET doomed == old \cup {c \in expired \cap Codes : code[c] = "fresh"}
       IN  /\ \A c \in doomed : ~Locked(CodeRow(c))
           /\ code' = [c \in Codes |-> IF c \in doomed THEN "gone" ELSE code[c]]
  BY DEF CleanCodes
<1> DEFINE doomed == old \cup {c \in expired \cap Codes : code[c] = "fresh"}
           rows == {CodeRow(c) : c \in doomed}
<1>1. UNCHANGED <<clients, grant, sessions, expired, issued, req>> /\ TypeOK /\ job' \in Job
  BY JobTypes DEF CleanCodes, JobStep, IInv, JobStatements
<1>2. TypeOK'
  BY <1>1 DEF TypeOK
<1>3. Shrinks /\ Touches(rows)
  BY <1>1 DEF TypeOK, Shrinks, Touches, Spent
<1>4. \A q \in Requests : rows \cap req[q].locks = {}
  BY DEF Locked
<1> QED
  BY <1>1, <1>2, <1>3, <1>4, Background

LEMMA SelectExpiredKeeps ==
    ASSUME IInv, SelectExpired
    PROVE  IInv' /\ Shrinks
<1> DEFINE P == {p \in Parties : grant[p].session \in expired}
<1>1. TypeOK
  BY DEF IInv
<1>2. \A p \in P : grant[p] # NoGrant
  BY <1>1, Nulls DEF TypeOK
<1>3. Remember(P) \subseteq Found
  BY <1>1, <1>2, RememberFinds
<1>4. [job EXCEPT !.pc = "sessions", !.grants = Remember(P)] \in Job
  BY <1>1, <1>3, JobTypes DEF JobStatements
<1> QED
  BY <1>4, JobKeeps, NothingChanged DEF SelectExpired

LEMMA SelectOrphansKeeps ==
    ASSUME IInv, SelectOrphans
    PROVE  IInv' /\ Shrinks
<1> DEFINE P == {p \in Parties : grant[p] # NoGrant /\ sessions[grant[p].session] = NoParty}
<1>1. TypeOK
  BY DEF IInv
<1>2. Remember(P) \subseteq Found
  BY <1>1, RememberFinds
<1>3. [job EXCEPT !.pc = "dropOrphans", !.grants = Remember(P)] \in Job
  BY <1>1, <1>2, JobTypes DEF JobStatements
<1> QED
  BY <1>3, JobKeeps, NothingChanged DEF SelectOrphans

LEMMA DeleteExpiredSessionsKeeps ==
    ASSUME IInv, DeleteExpiredSessions
    PROVE  IInv' /\ Shrinks
<1> DEFINE doomed == {g.session : g \in job.grants}
<1>1. TypeOK
  BY DEF IInv
<1>2. doomed \in SUBSET Tokens /\ job' \in Job
  BY <1>1, JobTypes, FoundTypes DEF DeleteExpiredSessions, JobStep, JobStatements
<1> QED
  BY <1>2, SessionsDeleted DEF DeleteExpiredSessions

LEMMA DeleteGrantsKeeps ==
    ASSUME IInv, NEW from, NEW to \in {"orphans", "clients"}, DeleteGrants(from, to)
    PROVE  IInv' /\ Shrinks
<1>1. /\ TypeOK /\ UNCHANGED <<clients, code, sessions, expired, issued, req>>
      /\ \A p \in Parties : grant'[p] \in {grant[p], NoGrant}
      /\ grant' \in [Parties -> Grant \cup {NoGrant}]
  BY DEF IInv, TypeOK, DeleteGrants
<1>2. job' \in Job
  BY <1>1, JobTypes DEF DeleteGrants, JobStatements
<1>3. TypeOK'
  BY <1>1, <1>2 DEF TypeOK
<1>4. Shrinks /\ Touches({})
  BY <1>1 DEF Shrinks, Touches, Spent
<1> QED
  BY <1>1, <1>3, <1>4, Background

LEMMA SelectClientsKeeps ==
    ASSUME IInv, SelectClients
    PROVE  IInv' /\ Shrinks
<1> PICK old \in SUBSET {cl \in clients : Unused(cl)} :
       job' = [job EXCEPT !.pc = "dropClients", !.clients = old]
  BY DEF SelectClients
<1>1. old \in SUBSET Clients /\ TypeOK
  BY DEF IInv, TypeOK
<1>2. job' \in Job
  BY <1>1, JobTypes DEF JobStatements
<1> QED
  BY <1>2, JobKeeps, NothingChanged DEF SelectClients

LEMMA DeleteClientsKeeps ==
    ASSUME IInv, DeleteClients
    PROVE  IInv' /\ Shrinks
<1> DEFINE gone(p) == ClientOf[p] \in job.clients
<1>1. /\ TypeOK /\ UNCHANGED <<expired, issued, req>> /\ job' = NoJob
      /\ \A r \in Requests : req[r].locks # {} => req[r].client \notin job.clients
      /\ clients' = clients \ job.clients
      /\ code' = [c \in Codes |-> IF gone(PartyOf[c]) THEN "gone" ELSE code[c]]
      /\ grant' = [p \in Parties |-> IF gone(p) THEN NoGrant ELSE grant[p]]
      /\ sessions' = [t \in Tokens |->
                         IF sessions[t] # NoParty /\ gone(sessions[t]) THEN NoParty ELSE sessions[t]]
  BY DEF IInv, DeleteClients
<1>2. NoJob \in Job
  BY DEF NoJob, Job
<1>3. TypeOK'
  BY <1>1, <1>2 DEF TypeOK
<1>4. Shrinks
  BY <1>1 DEF TypeOK, Shrinks, Spent
<1>5. \A q \in Requests : Sound(q)' /\ Holds(q)'
  <2> TAKE q \in Requests
  <2>1. Sound(q) /\ Holds(q)
    BY DEF IInv
  <2>2. Sound(q)'
    BY <1>1, <2>1 DEF Sound
  <2>3. \A d \in Codes : CodeRow(d) \in req[q].locks => code'[d] = code[d]
    BY <1>1, <2>1 DEF Holds
  <2>4. req[q].pc = "rotate" => sessions'[req[q].token] = sessions[req[q].token]
    BY <1>1, <2>1 DEF Holds, Sound
  <2> QED
    BY <1>1, <2>1, <2>2, <2>3, <2>4 DEF Holds
<1>6. Exclusive'
  BY <1>1 DEF IInv, Exclusive, Apart
<1>7. \A r \in Requests, p \in Parties, t \in Tokens : Remembers(r, p, t)' => Known(p, t)
  BY <1>1 DEF Remembers, Known
<1> QED
  BY <1>3, <1>4, <1>5, <1>6, <1>7, OwnedShrinks DEF IInv

LEMMA CleanupKeeps ==
    ASSUME IInv, Cleanup
    PROVE  IInv' /\ Shrinks
BY CleanCodesKeeps, SelectExpiredKeeps, DeleteExpiredSessionsKeeps, DeleteGrantsKeeps,
   SelectOrphansKeeps, SelectClientsKeeps, DeleteClientsKeeps
   DEF Cleanup, DeleteExpiredGrants, DeleteOrphans

LEMMA DecideKeeps ==
    ASSUME IInv, NEW c \in Codes, Decide(c)
    PROVE  IInv' /\ Shrinks
<1>1. TypeOK /\ code[c] = "none" /\ code' = [code EXCEPT ![c] = "fresh"]
      /\ UNCHANGED <<clients, grant, sessions, expired, issued, req, job>>
  BY DEF IInv, Decide
<1>2. TypeOK'
  BY <1>1 DEF TypeOK
<1>3. Shrinks /\ Touches({CodeRow(c)})
  BY <1>1 DEF TypeOK, Shrinks, Touches, Spent
<1>4. \A q \in Requests : {CodeRow(c)} \cap req[q].locks = {}
  BY <1>1 DEF IInv, Holds
<1> QED
  BY <1>1, <1>2, <1>3, <1>4, Background

LEMMA ExpireKeeps ==
    ASSUME IInv, NEW x \in Tokens \cup Codes, Expire(x)
    PROVE  IInv' /\ Shrinks
<1>1. TypeOK /\ UNCHANGED <<tables, issued, req, job>> /\ expired' = expired \cup {x}
  BY DEF IInv, Expire
<1>2. TypeOK'
  BY <1>1 DEF TypeOK, tables
<1>3. Shrinks /\ Touches({})
  BY <1>1, NothingChanged
<1> QED
  BY <1>1, <1>2, <1>3, Background

LEMMA PurgeSessionsKeeps ==
    ASSUME IInv, PurgeSessions
    PROVE  IInv' /\ Shrinks
<1> DEFINE doomed == {t \in expired \cap Tokens : sessions[t] # NoParty}
<1>1. doomed \in SUBSET Tokens /\ job' \in Job
  BY DEF IInv, TypeOK, PurgeSessions
<1> QED
  BY <1>1, SessionsDeleted DEF PurgeSessions

LEMMA ClearUserSessionsKeeps ==
    ASSUME IInv, NEW u, NEW keep, ClearUserSessions(u, keep)
    PROVE  IInv' /\ Shrinks
<1> DEFINE doomed == {t \in Tokens \ {keep} : sessions[t] # NoParty /\ UserOf[sessions[t]] = u}
<1>1. doomed \in SUBSET Tokens /\ job' \in Job
  BY DEF IInv, TypeOK, ClearUserSessions
<1> QED
  BY <1>1, SessionsDeleted DEF ClearUserSessions

-----------------------------------------------------------------------------
(* The invariant                                                           *)

LEMMA StepKeeps ==
    ASSUME IInv, NEW r \in Requests, Step(r)
    PROVE  IInv'
BY BurnCodeKeeps, FindByCodeKeeps, FindExistingKeeps, ReplaceGrantKeeps, ReplaceSessionKeeps,
   InsertGrantKeeps, ConsumeSessionKeeps, FindOrphanKeeps, DropOrphanKeeps, RotateGrantKeeps,
   FindReusedKeeps, DropGrantKeeps, DropSessionKeeps
   DEF Step

LEMMA CallKeeps ==
    ASSUME IInv, NEW r \in Requests, Call(r)
    PROVE  IInv'
BY ExchangeCodeKeeps, RefreshTokenKeeps, RevokeTokenKeeps DEF Call

LEMMA StutterKeeps ==
    ASSUME IInv, UNCHANGED vars
    PROVE  IInv'
<1>1. UNCHANGED <<tables, expired, issued, req>> /\ job' \in Job
  BY DEF IInv, TypeOK, vars
<1> QED
  BY <1>1, JobKeeps

LEMMA NextKeeps ==
    ASSUME IInv, [Next]_vars
    PROVE  IInv'
BY StutterKeeps, StepKeeps, CallKeeps, VictimKeeps, CleanupKeeps, DecideKeeps, ExpireKeeps,
   PurgeSessionsKeeps, ClearUserSessionsKeeps
   DEF Next

LEMMA Begins ==
    ASSUME Init
    PROVE  IInv
<1>1. TypeOK
  <2>1. NoJob \in Job /\ 0 \in 0 .. MaxTokens
    BY DEF NoJob, Job
  <2> QED
    BY <2>1, IdleIsRequest DEF Init, TypeOK
<1>2. \A r \in Requests : req[r] = Idle
  BY DEF Init
<1>3. \A r \in Requests : Sound(r) /\ Holds(r)
  BY <1>2 DEF Sound, Holds, Idle, Exchanging
<1>4. Exclusive
  BY <1>2 DEF Exclusive, Apart, Idle
<1>5. Owned
  BY <1>2, Nulls DEF Init, Owned, Known, Remembers, Idle
<1>6. PreviousIsSpent /\ PreviousIsIssued
  BY Nulls DEF Init, PreviousIsSpent, PreviousIsIssued, NoToken
<1> QED
  BY <1>1, <1>3, <1>4, <1>5, <1>6 DEF IInv

\* The rows of the database, the locks and what each request remembers agree
\* in every state: the inductive invariant.
THEOREM Invariant == Spec => []IInv
<1>1. Init => IInv
  BY Begins
<1>2. IInv /\ [Next]_vars => IInv'
  BY NextKeeps
<1> QED
  BY <1>1, <1>2, PTL DEF Spec

\* The tables, the transactions in progress and the cleanup job always have
\* their types.
THEOREM TypeCorrect == Spec => []TypeOK
<1>1. IInv => TypeOK
  BY DEF IInv
<1> QED
  BY <1>1, Invariant, PTL

\* The refresh token that a grant had before its present one has no session
\* row: whatever requests, cleanup and deletions run together, a used token
\* does not authenticate (refreshToken, exchangeCode).
THEOREM TokensAreSingleUse == Spec => []PreviousIsSpent
<1>1. IInv => PreviousIsSpent
  BY DEF IInv
<1> QED
  BY <1>1, Invariant, PTL

-----------------------------------------------------------------------------
(* The promise                                                             *)

ValidTokens == [p \in Parties |-> {t \in Tokens : grant[p].session = t /\ sessions[t] = p}]

\* Nothing comes back: what happens beside the two statements that store a
\* token only withdraws tokens and codes.
LEMMA ShrinkingWithdraws ==
    ASSUME IInv, Shrinks
    PROVE  Promise!Next
<1> DEFINE P == {p \in Parties : ValidTokens'[p] = {}}
           C == Spent'
<1>1. ASSUME NEW p \in Parties, p \notin P PROVE ValidTokens'[p] = ValidTokens[p]
  <2> PICK t \in Tokens : grant'[p].session = t /\ sessions'[t] = p
    BY <1>1 DEF ValidTokens
  <2>1. grant'[p] = grant[p] /\ sessions'[t] = sessions[t]
    BY Nulls DEF Shrinks
  <2>2. ValidTokens'[p] = {t} /\ ValidTokens[p] = {t}
    BY <2>1 DEF ValidTokens
  <2> QED
    BY <2>2
<1>2. ValidTokens' = [p \in Parties |-> IF p \in P THEN {} ELSE ValidTokens[p]]
  BY <1>1 DEF ValidTokens
<1>3. Spent' = Spent \cup C /\ issued' = issued
  BY DEF Shrinks
<1>4. P \in SUBSET Parties /\ C \in SUBSET Codes
  BY DEF Spent
<1>5. \E Q \in SUBSET Parties, D \in SUBSET Codes : Promise!Withdraw(Q, D)
  BY <1>2, <1>3, <1>4 DEF Promise!Withdraw, ValidTokens, Spent
<1> QED
  BY <1>5 DEF Promise!Next

LEMMA NewToken ==
    ASSUME IInv, NEW r \in Requests, NEW p \in Parties, NEW g \in Grant,
           CommitToken(r, req[r].locks, p, g), g.session = issued + 1,
           \A q \in Parties : GrantRow(q) \in req[r].locks => q = p,
           \A t \in Tokens : SessionRow(t) \in req[r].locks => Known(p, t)
    PROVE  /\ issued + 1 \in Tokens /\ issued + 1 \notin 1 .. issued
           /\ 1 .. issued' = 1 .. issued \cup {issued + 1}
           /\ ValidTokens' = [ValidTokens EXCEPT ![p] = {issued + 1}]
<1> DEFINE rows == req[r].locks
           new == issued + 1
<1>1. /\ TypeOK /\ issued \in Nat /\ new \in Tokens /\ issued' = new
      /\ grant' = [GrantsAfter(rows) EXCEPT ![p] = g]
      /\ sessions' = [SessionsAfter(rows) EXCEPT ![new] = p]
  BY DEF IInv, TypeOK, CommitToken, Tokens
<1>2. /\ grant'[p] = g /\ sessions'[new] = p
      /\ \A q \in Parties : q # p => grant'[q] = grant[q]
  BY <1>1, RowsAfter
<1>3. ValidTokens'[p] = {new}
  BY <1>1, <1>2 DEF ValidTokens
<1>4. ASSUME NEW q \in Parties, q # p PROVE ValidTokens'[q] = ValidTokens[q]
  <2>1. ASSUME NEW t \in Tokens, grant[q].session = t PROVE sessions'[t] = sessions[t]
    <3>1. Known(q, t)
      BY <2>1 DEF Known
    <3>2. t # new /\ SessionRow(t) \notin rows
      BY <1>1, <1>4, <3>1, Nulls DEF IInv, Owned
    <3> QED
      BY <1>1, <3>2, RowsAfter
  <2> QED
    BY <1>2, <1>4, <2>1 DEF ValidTokens
<1>5. ValidTokens' = [ValidTokens EXCEPT ![p] = {new}]
  BY <1>3, <1>4 DEF ValidTokens
<1>6. new \notin 1 .. issued /\ 1 .. issued' = 1 .. issued \cup {new}
  BY <1>1
<1> QED
  BY <1>1, <1>5, <1>6

LEMMA InsertGrantIsAllowed ==
    ASSUME IInv, NEW r \in Requests, InsertGrant(r)
    PROVE  Promise!Next
<1> DEFINE c == req[r].code
           p == PartyOf[c]
           t == issued + 1
           g == [id |-> t, session |-> t, prev |-> NoToken, code |-> c]
           rows == req[r].locks
<1>1. /\ c \in Codes /\ p \in Parties /\ CodeRow(c) \in rows /\ code[c] = "fresh" /\ TypeOK
      /\ \A row \in rows : \/ row \in {CodeRow(c), GrantRow(p)}
                           \/ row = SessionRow(req[r].found.session) /\ req[r].found.party = p
  BY DEF InsertGrant, IInv, Sound, Holds, Exchanging
<1>2. CASE RollBack(r) /\ UNCHANGED issued
  BY <1>2, NothingChanged, ShrinkingWithdraws DEF RollBack
<1>3. CASE CommitToken(r, rows, p, g)
  <2>1. t \in Tokens
    BY <1>3 DEF CommitToken, IInv, TypeOK, Tokens
  <2>2. g \in Grant
    BY <1>1, <2>1 DEF Grant
  <2>3. \A q \in Parties : GrantRow(q) \in rows => q = p
    BY <1>1, RowsDiffer
  <2>4. \A u \in Tokens : SessionRow(u) \in rows => Known(p, u)
    BY <1>1, RowsDiffer DEF Known, Remembers
  <2>5. \A d \in Codes : CodeRow(d) \in rows => d = c
    BY <1>1, RowsDiffer
  <2>6. c \notin Spent /\ Spent' = Spent \cup {c}
    BY <1>1, <1>3, <2>5, RowsAfter DEF CommitToken, Spent
  <2>7. /\ t \notin 1 .. issued /\ 1 .. issued' = 1 .. issued \cup {t}
        /\ ValidTokens' = [ValidTokens EXCEPT ![p] = {t}]
    BY <1>1, <1>3, <2>2, <2>3, <2>4, NewToken
  <2>8. \E d \in Codes, u \in Tokens : Promise!Exchange(d, u)
    BY <1>1, <2>1, <2>6, <2>7 DEF Promise!Exchange, Spent, ValidTokens
  <2> QED
    BY <2>8 DEF Promise!Next
<1> QED
  BY <1>2, <1>3 DEF InsertGrant

LEMMA RotateGrantIsAllowed ==
    ASSUME IInv, NEW r \in Requests, RotateGrant(r)
    PROVE  Promise!Next
<1> DEFINE p == req[r].seen.party
           old == req[r].token
           t == issued + 1
           g == [grant[p] EXCEPT !.session = t, !.prev = old]
           rows == req[r].locks
<1>1. /\ TypeOK /\ p \in Parties /\ old \in Tokens
      /\ rows = {SessionRow(old)} /\ sessions[old] = p
  BY FoundTypes DEF RotateGrant, IInv, Sound, Holds
<1>2. CASE UNCHANGED <<tables, issued>>
  BY <1>2, NothingChanged, ShrinkingWithdraws
<1>3. CASE StillCurrent(r) /\ CommitToken(r, rows, p, g)
  <2>1. t \in Tokens
    BY <1>3 DEF CommitToken, IInv, TypeOK, Tokens
  <2>2. grant[p].session = old /\ grant[p] \in Grant
    BY <1>1, <1>3, GrantTypes DEF StillCurrent
  <2>3. g \in Grant /\ g.session = t
    BY <1>1, <2>1, <2>2 DEF Grant
  <2>4. \A q \in Parties : GrantRow(q) \notin rows
    BY <1>1, RowsDiffer
  <2>5. \A u \in Tokens : SessionRow(u) \in rows => Known(p, u)
    BY <1>1, RowsDiffer DEF Known
  <2>6. Spent' = Spent
    BY <1>1, <1>3, RowsDiffer, RowsAfter DEF CommitToken, Spent
  <2>7. /\ t \notin 1 .. issued /\ 1 .. issued' = 1 .. issued \cup {t}
        /\ ValidTokens' = [ValidTokens EXCEPT ![p] = {t}]
    BY <1>1, <1>3, <2>3, <2>4, <2>5, NewToken
  <2>8. ValidTokens[p] # {}
    BY <1>1, <2>2 DEF ValidTokens
  <2>9. \E q \in Parties, u \in Tokens : Promise!Rotate(q, u)
    BY <1>1, <2>1, <2>6, <2>7, <2>8 DEF Promise!Rotate, Spent, ValidTokens
  <2> QED
    BY <2>9 DEF Promise!Next
<1> QED
  BY <1>2, <1>3 DEF RotateGrant, RollBack

LEMMA StepIsAllowed ==
    ASSUME IInv, NEW r \in Requests, Step(r)
    PROVE  Promise!Next
<1>1. ASSUME UNCHANGED <<tables, expired, issued, job>> PROVE Promise!Next
  BY <1>1, NothingChanged, ShrinkingWithdraws
<1>2. ASSUME NEW rows, Commit(r, rows), UNCHANGED <<expired, issued, job>> PROVE Promise!Next
  BY <1>2, CommitShrinks, ShrinkingWithdraws
<1>3. CASE BurnCode(r) \/ FindByCode(r) \/ FindExisting(r) \/ ReplaceGrant(r) \/ ReplaceSession(r)
  BY <1>1, <1>3 DEF BurnCode, FindByCode, FindExisting, ReplaceGrant, ReplaceSession
<1>4. CASE ConsumeSession(r) \/ FindOrphan(r) \/ DropGrant(r)
  BY <1>1, <1>4 DEF ConsumeSession, FindOrphan, DropGrant
<1>5. CASE DropOrphan(r) \/ DropSession(r)
  BY <1>2, <1>5 DEF DropOrphan, DropSession
<1>6. CASE FindReused(r)
  BY <1>1, <1>2, <1>6 DEF FindReused
<1> QED
  BY <1>3, <1>4, <1>5, <1>6, InsertGrantIsAllowed, RotateGrantIsAllowed DEF Step

LEMMA NextIsAllowed ==
    ASSUME IInv, [Next]_vars
    PROVE  Promise!Next
<1>1. ASSUME UNCHANGED <<tables, issued>> PROVE Promise!Next
  BY <1>1, NothingChanged, ShrinkingWithdraws
<1>2. CASE UNCHANGED vars
  BY <1>1, <1>2 DEF vars
<1>3. ASSUME NEW r \in Requests, Call(r) PROVE Promise!Next
  BY <1>1, <1>3 DEF Call, ExchangeCode, RefreshToken, RevokeToken
<1>4. ASSUME NEW r \in Requests, Victim(r) PROVE Promise!Next
  BY <1>1, <1>4 DEF Victim
<1> QED
  BY <1>2, <1>3, <1>4, StepIsAllowed, CleanupKeeps, DecideKeeps, ExpireKeeps, PurgeSessionsKeeps,
     ClearUserSessionsKeeps, ShrinkingWithdraws
     DEF Next

\* The server implements OAuthGrant: a code gives at most one token, of the
\* tokens of a client and a user at most one is valid, and a token that is no
\* longer valid never is again.
THEOREM ImplementsPromise == Spec => IsPromise
<1>1. Init => Promise!Init
  BY Nulls DEF Init, Promise!Init
<1>2. IInv /\ [Next]_vars => [Promise!Next]_(Promise!grants)
  BY NextIsAllowed
<1> QED
  BY <1>1, <1>2, Invariant, PTL DEF Spec, IsPromise, Promise!Spec
-----------------------------------------------------------------------------
(* A replayed token ends its successor: the inductive invariant.           *)

Successors(g, t) == {p \in Parties : g[p].prev = t}

\* A token is present or previous, of one grant; the clients of grants are there.
Lineage ==
    /\ \A p, q \in Parties : grant[p].prev # NoToken =>
          /\ grant[p].prev # grant[q].session
          /\ grant[p].prev = grant[q].prev => p = q
    /\ \A p \in Parties : grant[p] # NoGrant => ClientOf[p] \in clients

KindFits(r) ==
    /\ req[r].start = "none" => req[r].kind = "none"
    /\ req[r].start = "burn" => req[r].kind = "exchange"
    /\ req[r].start \in {"consume", "reuse"} => req[r].kind = "refresh"
    /\ req[r].start = "dropGrant" => req[r].kind = "revoke"

\* While a grant has the token it was remembered with, it is the same grant.
Matches(g, f) == f \in Found /\ g[f.party].session = f.session => g[f.party].id = f.id

\* A session that a request is about to delete is not the one of a grant that stays.
Fits(r) ==
    LET f == req[r].found
    IN  /\ Matches(grant, f) /\ (req[r].start = "consume" => Matches(grant, req[r].seen))
        /\ req[r].pc \in {"reuse", "dropGrant", "dropSession"} =>
              \A t \in Tokens : SessionRow(t) \in req[r].locks =>
                 t <= issued /\ \A p \in Parties : grant[p].session # t
        /\ req[r].pc = "dropGrant" /\ req[r].kind = "refresh" =>
              (grant[f.party].session = f.session => grant[f.party].prev = req[r].token)
        /\ req[r].pc = "dropSession" =>
              GrantRow(f.party) \in req[r].locks \/ grant[f.party].session # f.session

\* A refresh that will not be given a token has found all successors of the one
\* it presents, and there will be no other.
Replays(r) ==
    LET f == req[r].found
        t == req[r].token
    IN  /\ req[r].pc = "orphan" => sessions[t] # req[r].seen.party
        /\ req[r].pc = "dropOrphan" => sessions[t] = NoParty /\ Successors(grant, t) = {}
        /\ req[r].pc \in {"dropGrant", "dropSession"} /\ req[r].kind = "refresh" =>
              /\ sessions[t] = NoParty
              /\ \A p \in Successors(grant, t) : p = f.party /\ grant[p].id = f.id
        /\ req[r].pc = "dropSession" /\ req[r].kind = "refresh" =>
              GrantRow(f.party) \in req[r].locks \/ Successors(grant, t) = {}

FitsAll(r) == KindFits(r) /\ Fits(r) /\ Replays(r)

RInv ==
    /\ Lineage
    /\ \A r \in Requests : FitsAll(r)

-----------------------------------------------------------------------------
(* What a step does to the tables                                          *)

\* A grant stays or goes, or it has a new token; the token before that had a session.
Moves ==
    /\ issued <= issued'
    /\ \A p \in Parties :
          \/ grant'[p] \in {grant[p], NoGrant}
          \/ /\ grant'[p].session = issued + 1
             /\ grant'[p].prev # NoToken => sessions[grant'[p].prev] # NoParty
    /\ \A t \in Tokens : t <= issued => sessions'[t] \in {sessions[t], NoParty}

LEMMA ShrinkingMoves ==
    ASSUME TypeOK, Shrinks PROVE Moves
BY DEF Shrinks, Moves, TypeOK

LEMMA MatchesStays ==
    ASSUME TypeOK, Moves, NEW f \in Found \cup {Nothing}, f \in Found => f.session <= issued,
           Matches(grant, f)
    PROVE  Matches(grant', f)
<1> SUFFICES ASSUME f \in Found, grant'[f.party].session = f.session
             PROVE  grant'[f.party].id = f.id
  BY DEF Matches
<1>1. f.party \in Parties /\ f.session \in Tokens /\ f.session <= issued
  BY FoundTypes
<1>2. grant'[f.party].session # issued + 1
  <2>1. f.session \in Nat /\ issued \in Nat
    BY <1>1, Nulls DEF TypeOK, Tokens
  <2> QED
    BY <1>1, <2>1
<1>3. grant'[f.party] # NoGrant
  BY <1>1, Nulls
<1>4. grant'[f.party] = grant[f.party]
  BY <1>1, <1>2, <1>3 DEF Moves
<1> QED
  BY <1>4 DEF Matches

\* Who has found a token has found one that was given out.
LEMMA FoundIsIssued ==
    ASSUME IInv, NEW r \in Requests
    PROVE  /\ req[r].found \in Found => req[r].found.session <= issued
           /\ req[r].seen \in Found \cup {Nothing} /\ req[r].found \in Found \cup {Nothing}
BY FoundTypes, RequestTypes DEF IInv, Owned, Known, Remembers

LEMMA FitsStays ==
    ASSUME IInv, Moves, issued' \in Nat, NEW r \in Requests, FitsAll(r), req'[r] = req[r]
    PROVE  FitsAll(r)'
<1> DEFINE f == req[r].found
           t == req[r].token
<1>1. TypeOK /\ Sound(r) /\ issued \in Nat /\ issued' \in Nat /\ issued' >= issued
  BY DEF IInv, TypeOK, Moves
<1>2. /\ f \in Found => f.session <= issued
      /\ req[r].seen \in Found \cup {Nothing} /\ f \in Found \cup {Nothing}
  BY FoundIsIssued
<1>3. Matches(grant', f)
  BY <1>1, <1>2, MatchesStays DEF FitsAll, Fits
<1>4. req[r].start = "consume" => Matches(grant', req[r].seen)
  <2>1. req[r].start = "consume" => req[r].seen.session <= issued
    BY <1>1 DEF Sound
  <2> QED
    BY <1>1, <1>2, <2>1, MatchesStays DEF FitsAll, Fits
<1>5. ASSUME NEW u \in Tokens, u <= issued, NEW p \in Parties, grant[p].session # u
      PROVE  grant'[p].session # u
  <2>1. u # issued + 1
    BY <1>1, <1>5, Nulls
  <2> QED
    BY <1>5, <2>1, Nulls DEF Moves
<1>6. ASSUME f \in Found, grant'[f.party].session = f.session
      PROVE  grant'[f.party] = grant[f.party]
  <2>1. f.party \in Parties /\ f.session \in Tokens
    BY <1>6, FoundTypes
  <2>2. f.session # issued + 1
    BY <1>1, <1>2, <1>6, <2>1, Nulls
  <2> QED
    BY <1>6, <2>1, <2>2, Nulls DEF Moves
<1>7. ASSUME t \in Tokens, sessions[t] = NoParty, NEW p \in Successors(grant', t)
      PROVE  p \in Successors(grant, t) /\ grant'[p] = grant[p]
  BY <1>7, Nulls DEF Successors, Moves
<1>8. t \in Tokens /\ t <= issued /\ sessions[t] = NoParty => sessions'[t] = NoParty
  BY DEF Moves
<1>9. req[r].pc \in {"dropGrant", "dropSession"} => f \in Found
  BY <1>1 DEF Sound
<1>10. req[r].kind = "refresh" \/ req[r].pc \in {"orphan", "dropOrphan"} => t \in Tokens /\ t <= issued
  <2>1. req[r].start \in {"none", "burn", "consume", "reuse", "dropGrant"}
    BY <1>1 DEF TypeOK, Request
  <2> QED
    BY <1>1, <2>1 DEF FitsAll, KindFits, Sound
<1>11. Fits(r)'
  <2>1. req[r].pc \in {"reuse", "dropGrant", "dropSession"} =>
           \A u \in Tokens : SessionRow(u) \in req[r].locks =>
              u <= issued' /\ \A p \in Parties : grant'[p].session # u
    <3> SUFFICES ASSUME req[r].pc \in {"reuse", "dropGrant", "dropSession"},
                        NEW u \in Tokens, SessionRow(u) \in req[r].locks
                 PROVE  u <= issued' /\ \A p \in Parties : grant'[p].session # u
      OBVIOUS
    <3>1. u <= issued /\ \A p \in Parties : grant[p].session # u
      BY DEF FitsAll, Fits
    <3>2. u <= issued'
      BY <1>1, <3>1, Nulls
    <3> QED
      BY <1>5, <3>1, <3>2
  <2>2. req[r].pc = "dropGrant" /\ req[r].kind = "refresh" =>
           (grant'[f.party].session = f.session => grant'[f.party].prev = t)
    BY <1>6, <1>9 DEF FitsAll, Fits
  <2>3. req[r].pc = "dropSession" =>
           GrantRow(f.party) \in req[r].locks \/ grant'[f.party].session # f.session
    BY <1>6, <1>9 DEF FitsAll, Fits
  <2> QED
    BY <1>3, <1>4, <2>1, <2>2, <2>3 DEF Fits
<1>12. Replays(r)'
  <2>1. req[r].pc = "dropOrphan" => sessions'[t] = NoParty /\ Successors(grant', t) = {}
    BY <1>7, <1>8, <1>10 DEF FitsAll, Replays
  <2>2. req[r].pc \in {"dropGrant", "dropSession"} /\ req[r].kind = "refresh" =>
           /\ sessions'[t] = NoParty
           /\ \A p \in Successors(grant', t) : p = f.party /\ grant'[p].id = f.id
    BY <1>7, <1>8, <1>10 DEF FitsAll, Replays
  <2>3. req[r].pc = "dropSession" /\ req[r].kind = "refresh" =>
           GrantRow(f.party) \in req[r].locks \/ Successors(grant', t) = {}
    BY <1>7, <1>10 DEF FitsAll, Replays
  <2>4. req[r].pc = "orphan" => sessions'[t] # req[r].seen.party
    <3> SUFFICES ASSUME req[r].pc = "orphan" PROVE sessions'[t] # req[r].seen.party
      OBVIOUS
    <3>1. req[r].seen.party \in Parties
      BY <1>1, FoundTypes DEF Sound
    <3> QED
      BY <1>10, <3>1 DEF FitsAll, Replays, Moves
  <2> QED
    BY <2>1, <2>2, <2>3, <2>4 DEF Replays
<1> QED
  BY <1>11, <1>12 DEF FitsAll, KindFits

-----------------------------------------------------------------------------
(* Statements that change no table                                         *)

LEMMA QuietMoves ==
    ASSUME IInv, UNCHANGED <<tables, expired, issued, job>>
    PROVE  TypeOK /\ Moves /\ issued' \in Nat
BY NothingChanged, ShrinkingMoves DEF IInv, TypeOK

LEMMA QuietFits ==
    ASSUME IInv, RInv, UNCHANGED <<tables, expired, issued, job>>, NEW r \in Requests, Alone(r),
           FitsAll(r)'
    PROVE  RInv'
<1>1. \A q \in Requests : FitsAll(q)'
  <2> SUFFICES ASSUME NEW q \in Requests, q # r PROVE FitsAll(q)'
    OBVIOUS
  <2>1. FitsAll(q) /\ req'[q] = req[q]
    BY DEF RInv, Alone
  <2> QED
    BY <2>1, QuietMoves, FitsStays
<1> QED
  BY <1>1 DEF RInv, tables, Lineage

LEMMA IdleFits ==
    ASSUME TypeOK, NEW r \in Requests, Finish(r)
    PROVE  FitsAll(r)'
BY FinishMoves, Nulls DEF Idle, FitsAll, KindFits, Fits, Replays, Matches

LEMMA GivesUpFits ==
    ASSUME IInv, RInv, UNCHANGED <<tables, expired, issued, job>>, NEW r \in Requests, Finish(r)
    PROVE  RInv'
BY QuietMoves, FinishMoves, IdleFits, QuietFits

LEMMA RememberedMatches ==
    ASSUME NEW p \in Parties PROVE Matches(grant, Remembered(p))
BY DEF Matches, Remembered

\* The statements before the last deletions rely on nothing new.
LEMMA GoesOnFits ==
    ASSUME IInv, RInv, UNCHANGED <<tables, expired, issued, job>>, NEW r \in Requests,
           NEW pc, NEW found, NEW locks, Moved(r, pc, found, locks),
           pc \notin {"orphan", "dropOrphan", "reuse", "dropGrant", "dropSession"},
           Matches(grant, found)
    PROVE  RInv'
<1>1. FitsAll(r)
  BY DEF RInv
<1>2. FitsAll(r)'
  BY <1>1 DEF FitsAll, KindFits, Fits, Replays, Moved, tables
<1> QED
  BY <1>2, QuietFits DEF Moved

LEMMA FoundMatches ==
    ASSUME RInv, NEW r \in Requests PROVE Matches(grant, req[r].found)
BY DEF RInv, FitsAll, Fits

LEMMA ExchangeCodeFits ==
    ASSUME IInv, RInv, NEW r \in Requests, NEW cl \in Clients, NEW c \in Codes, ExchangeCode(r, cl, c)
    PROVE  RInv'
<1> DEFINE new == [Idle EXCEPT !.pc = "burn", !.kind = "exchange", !.start = "burn",
                               !.client = cl, !.code = c]
<1>1. new \in Request
  BY IdleIsRequest DEF Request
<1>2. Alone(r) /\ req'[r] = new
  BY <1>1, CallBegins DEF IInv, ExchangeCode
<1>3. FitsAll(r)'
  BY <1>2, Nulls DEF Idle, FitsAll, KindFits, Fits, Replays, Matches
<1> QED
  BY <1>2, <1>3, QuietFits DEF ExchangeCode

LEMMA ExchangingFits ==
    ASSUME IInv, RInv, NEW r \in Requests,
           BurnCode(r) \/ FindExisting(r) \/ ReplaceGrant(r) \/ ReplaceSession(r)
    PROVE  RInv'
<1>1. /\ UNCHANGED <<tables, expired, issued, job>> /\ TypeOK /\ Sound(r)
      /\ req[r].pc \in {"burn", "existing", "replaceGrant", "replaceSession"}
  BY DEF BurnCode, FindExisting, ReplaceGrant, ReplaceSession, IInv
<1>2. req[r].code \in Codes /\ PartyOf[req[r].code] \in Parties
  BY <1>1 DEF Sound, Exchanging
<1>3. CASE Finish(r)
  BY <1>1, <1>3, GivesUpFits
<1>4. ASSUME NEW pc \in {"codeReplay", "insert", "replaceSession"}, Goto(r, pc) PROVE RInv'
  <2>1. Moved(r, pc, req[r].found, req[r].locks)
    BY <1>1, <1>4, GotoMoves DEF Statements
  <2> QED
    BY <1>1, <2>1, FoundMatches, GoesOnFits
<1>5. ASSUME NEW pc \in {"existing", "replaceSession", "insert"}, NEW row \in Row, LockAndGoto(r, row, pc)
      PROVE  RInv'
  <2>1. Moved(r, pc, req[r].found, req[r].locks \cup {row})
    <3>1. pc \in Statements
      BY DEF Statements
    <3> QED
      BY <1>1, <1>5, <3>1, LockMoves
  <2> QED
    BY <1>1, <2>1, FoundMatches, GoesOnFits
<1>6. ASSUME NEW p \in Parties, grant[p] # NoGrant,
             req' = [req EXCEPT ![r].pc = "replaceGrant", ![r].found = Remembered(p)]
      PROVE  RInv'
  <2>1. Moved(r, "replaceGrant", Remembered(p), req[r].locks)
    BY <1>1, <1>6, RememberedIs, FindMoves DEF Statements
  <2> QED
    BY <1>1, <2>1, RememberedMatches, GoesOnFits
<1>7. CASE BurnCode(r)
  BY <1>2, <1>3, <1>4, <1>5, <1>7, RowsAre DEF BurnCode
<1>8. CASE FindExisting(r)
  BY <1>2, <1>3, <1>4, <1>6, <1>8 DEF FindExisting
<1>9. CASE ReplaceGrant(r)
  BY <1>2, <1>4, <1>5, <1>9, RowsAre DEF ReplaceGrant
<1>10. CASE ReplaceSession(r)
  <2>1. req[r].found.session \in Tokens
    BY <1>2, <1>10, RequestTypes, FoundTypes DEF ReplaceSession, IInv, Holds
  <2> QED
    BY <1>4, <1>5, <1>10, <2>1, RowsAre DEF ReplaceSession
<1> QED
  BY <1>7, <1>8, <1>9, <1>10

LEMMA FindByCodeFits ==
    ASSUME IInv, RInv, NEW r \in Requests, FindByCode(r)
    PROVE  RInv'
<1>1. /\ req[r].pc = "codeReplay" /\ UNCHANGED <<tables, expired, issued, job>>
      /\ req[r].locks = {} /\ req[r].start = "burn" /\ TypeOK /\ FitsAll(r)
  BY DEF FindByCode, IInv, RInv, Sound, Holds
<1>2. CASE Finish(r)
  BY <1>1, <1>2, GivesUpFits
<1>3. ASSUME NEW p \in Parties, grant[p].code = req[r].code,
             req' = [req EXCEPT ![r].pc = "dropGrant", ![r].found = Remembered(p)]
      PROVE  RInv'
  <2>1. grant[p] # NoGrant
    BY <1>1, <1>3, GrantTypes DEF IInv, Sound
  <2>2. Moved(r, "dropGrant", Remembered(p), req[r].locks)
    BY <1>1, <1>3, <2>1, RememberedIs, FindMoves DEF Statements
  <2>3. FitsAll(r)'
    BY <1>1, <2>2, RememberedMatches DEF FitsAll, KindFits, Fits, Replays, Moved, tables
  <2> QED
    BY <1>1, <2>2, <2>3, QuietFits DEF Moved
<1> QED
  BY <1>2, <1>3 DEF FindByCode

LEMMA RefreshTokenFits ==
    ASSUME IInv, RInv, NEW r \in Requests, NEW cl \in Clients, NEW t \in Tokens, RefreshToken(r, cl, t)
    PROVE  RInv'
<1> DEFINE New(pc, seen) == [Idle EXCEPT !.pc = pc, !.kind = "refresh", !.start = pc,
                                         !.client = cl, !.token = t, !.seen = seen]
<1>1. UNCHANGED <<tables, expired, issued, job>> /\ TypeOK
  BY Zenon DEF RefreshToken, IInv
<1>2. ASSUME NEW pc \in {"reuse", "consume"}, NEW seen \in Found \cup {Nothing},
             pc = "consume" => Matches(grant, seen), req' = [req EXCEPT ![r] = New(pc, seen)]
      PROVE  RInv'
  <2>1. New(pc, seen) \in Request
    BY <1>2, IdleIsRequest DEF Request
  <2>2. Alone(r) /\ req'[r] = New(pc, seen)
    BY <1>1, <1>2, <2>1, CallBegins
  <2>3. /\ req'[r].pc = pc /\ req'[r].start = pc /\ req'[r].kind = "refresh" /\ req'[r].locks = {}
        /\ req'[r].found = Nothing /\ req'[r].seen = seen
    BY <2>2 DEF Idle
  <2>4. FitsAll(r)'
    BY <1>1, <1>2, <2>3, Nulls DEF FitsAll, KindFits, Fits, Replays, Matches, tables
  <2> QED
    BY <1>1, <2>2, <2>4, QuietFits
<1>3. CASE req' = [req EXCEPT ![r] = New("reuse", Nothing)]
  BY <1>2, <1>3
<1>4. ASSUME NEW p \in Parties, grant[p].session = t,
             req' = [req EXCEPT ![r] = New("consume", Remembered(p))]
      PROVE  RInv'
  <2>1. Remembered(p) \in Found
    BY <1>1, <1>4, GrantTypes, RememberedIs
  <2> QED
    BY <1>2, <1>4, <2>1, RememberedMatches
<1> QED
  BY <1>3, <1>4 DEF RefreshToken

Revocation(cl, t, f) ==
    [Idle EXCEPT !.pc = "dropGrant", !.kind = "revoke", !.start = "dropGrant",
                 !.client = cl, !.token = t, !.found = f]

LEMMA RevocationIs ==
    ASSUME NEW cl, NEW t, NEW f
    PROVE  /\ Revocation(cl, t, f).pc = "dropGrant" /\ Revocation(cl, t, f).start = "dropGrant"
           /\ Revocation(cl, t, f).kind = "revoke" /\ Revocation(cl, t, f).found = f
           /\ Revocation(cl, t, f).locks = {}
           /\ cl \in Clients /\ t \in Tokens /\ f \in Found => Revocation(cl, t, f) \in Request
BY IdleIsRequest DEF Revocation, Idle, Request

LEMMA RevokeTokenFits ==
    ASSUME IInv, RInv, NEW r \in Requests, NEW cl \in Clients, NEW t \in Tokens, RevokeToken(r, cl, t)
    PROVE  RInv'
<1>1. UNCHANGED <<tables, expired, issued, job>> /\ TypeOK
  BY DEF RevokeToken, IInv
<1>2. PICK p \in Parties :
         grant[p].session = t /\ req' = [req EXCEPT ![r] = Revocation(cl, t, Remembered(p))]
  BY DEF RevokeToken, Revocation
<1> DEFINE new == Revocation(cl, t, Remembered(p))
<1>3. new \in Request
  BY <1>1, <1>2, GrantTypes, RememberedIs, RevocationIs
<1>4. Alone(r) /\ req'[r] = new
  BY <1>1, <1>2, <1>3, CallBegins
<1>5. /\ req'[r].pc = "dropGrant" /\ req'[r].start = "dropGrant" /\ req'[r].kind = "revoke"
      /\ req'[r].found = Remembered(p) /\ req'[r].locks = {}
  BY <1>4, RevocationIs
<1>6. FitsAll(r)'
  BY <1>1, <1>5, RememberedMatches DEF FitsAll, KindFits, Fits, Replays, tables
<1> QED
  BY <1>1, <1>4, <1>6, QuietFits

LEMMA ConsumeSessionFits ==
    ASSUME IInv, RInv, NEW r \in Requests, ConsumeSession(r)
    PROVE  RInv'
<1> DEFINE t == req[r].token
<1>1. /\ UNCHANGED <<tables, expired, issued, job>> /\ TypeOK /\ t \in Tokens
  BY DEF ConsumeSession, IInv, Sound
<1>2. CASE LockAndGoto(r, SessionRow(t), "rotate")
  <2>1. Moved(r, "rotate", req[r].found, req[r].locks \cup {SessionRow(t)})
    BY <1>1, <1>2, LockMoves, RowsAre DEF Statements
  <2> QED
    BY <1>1, <2>1, FoundMatches, GoesOnFits
<1>3. CASE sessions[t] # req[r].seen.party /\ Goto(r, "orphan")
  <2>1. Moved(r, "orphan", req[r].found, req[r].locks)
    BY <1>1, <1>3, GotoMoves DEF Statements
  <2>2. FitsAll(r)'
    BY <1>1, <1>3, <2>1 DEF RInv, FitsAll, KindFits, Fits, Replays, Moved, tables
  <2> QED
    BY <1>1, <2>1, <2>2, QuietFits DEF Moved
<1> QED
  BY <1>2, <1>3 DEF ConsumeSession

\* A session nobody has any more is not that of a grant.
LEMMA SeenMatches ==
    ASSUME IInv, RInv, NEW r \in Requests, req[r].start = "consume"
    PROVE  /\ req[r].seen.party \in Parties
           /\ grant[req[r].seen.party].session = req[r].token => StillCurrent(r)
<1>1. req[r].seen \in Found /\ req[r].seen.session = req[r].token /\ Matches(grant, req[r].seen)
  BY DEF IInv, RInv, Sound, FitsAll, Fits
<1> QED
  BY <1>1, FoundTypes DEF Matches, StillCurrent

LEMMA FindOrphanFits ==
    ASSUME IInv, RInv, NEW r \in Requests, FindOrphan(r)
    PROVE  RInv'
<1> DEFINE t == req[r].token
           p == req[r].seen.party
<1>1. /\ req[r].pc = "orphan" /\ UNCHANGED <<tables, expired, issued, job>> /\ TypeOK
      /\ req[r].locks = {} /\ req[r].start = "consume" /\ t \in Tokens /\ FitsAll(r)
  BY DEF FindOrphan, IInv, RInv, Sound, Holds
<1>2. CASE Goto(r, "reuse")
  <2>1. Moved(r, "reuse", req[r].found, req[r].locks)
    BY <1>1, <1>2, GotoMoves DEF Statements
  <2>2. FitsAll(r)'
    BY <1>1, <2>1 DEF FitsAll, KindFits, Fits, Replays, Moved, tables
  <2> QED
    BY <1>1, <2>1, <2>2, QuietFits DEF Moved
<1>3. CASE StillCurrent(r) /\ Goto(r, "dropOrphan")
  <2>1. Moved(r, "dropOrphan", req[r].found, req[r].locks)
    BY <1>1, <1>3, GotoMoves DEF Statements
  <2>2. p \in Parties /\ grant[p].session = t /\ sessions[t] # p
    BY <1>1, <1>3, SeenMatches DEF StillCurrent, FitsAll, Replays
  <2>3. sessions[t] = NoParty
    <3>1. Known(p, t) /\ \A q \in Parties : sessions[t] = q => Known(q, t)
      BY <2>2 DEF Known
    <3> QED
      BY <1>1, <2>2, <3>1 DEF IInv, Owned, TypeOK
  <2>4. Successors(grant, t) = {}
    BY <1>1, <2>2, Nulls DEF RInv, Lineage, Successors
  <2>5. FitsAll(r)'
    BY <1>1, <2>1, <2>3, <2>4 DEF FitsAll, KindFits, Fits, Replays, Moved, tables
  <2> QED
    BY <1>1, <2>1, <2>5, QuietFits DEF Moved
<1> QED
  BY <1>1, <1>2, <1>3 DEF FindOrphan

LEMMA GoesToReuseFits ==
    ASSUME IInv, RInv, NEW r \in Requests, req[r].pc = "rotate", ~StillCurrent(r), Goto(r, "reuse"),
           UNCHANGED <<tables, expired, issued, job>>
    PROVE  RInv'
<1> DEFINE t == req[r].token
           p == req[r].seen.party
<1>1. /\ TypeOK /\ req[r].locks = {SessionRow(t)} /\ t \in Tokens /\ t <= issued
      /\ sessions[t] = p /\ p \in Parties /\ grant[p].session # t /\ FitsAll(r)
  BY SeenMatches DEF IInv, RInv, Sound, Holds
<1>2. \A q \in Parties : grant[q].session # t
  BY <1>1 DEF IInv, Owned, Known
<1>3. Moved(r, "reuse", req[r].found, req[r].locks)
  BY <1>1, GotoMoves DEF Statements
<1>4. FitsAll(r)'
  BY <1>1, <1>2, <1>3, RowsDiffer DEF FitsAll, KindFits, Fits, Replays, Moved, tables
<1> QED
  BY <1>3, <1>4, QuietFits DEF Moved

LEMMA FindsReusedFits ==
    ASSUME IInv, RInv, NEW r \in Requests, req[r].pc = "reuse", UNCHANGED <<tables, expired, issued, job>>,
           NEW p \in ReusedGrants(r),
           req' = [req EXCEPT ![r].pc = "dropGrant", ![r].found = Remembered(p)]
    PROVE  RInv'
<1> DEFINE t == req[r].token
<1>1. TypeOK /\ FitsAll(r) /\ t \in Tokens /\ p \in Parties /\ grant[p].prev = t
  BY DEF IInv, RInv, Sound, ReusedGrants
<1>2. grant[p] # NoGrant /\ t # NoToken
  BY <1>1, GrantTypes, Nulls
<1>3. sessions[t] = NoParty
  BY <1>1, <1>2 DEF IInv, PreviousIsSpent
<1>4. \A q \in Successors(grant, t) : q = p
  BY <1>1, <1>2 DEF RInv, Lineage, Successors
<1>5. Moved(r, "dropGrant", Remembered(p), req[r].locks)
  BY <1>1, <1>2, RememberedIs, FindMoves DEF Statements
<1>6. Remembered(p).party = p /\ Remembered(p).id = grant[p].id
  BY DEF Remembered
<1>7. FitsAll(r)'
  BY <1>1, <1>3, <1>4, <1>5, <1>6, RememberedMatches DEF FitsAll, KindFits, Fits, Replays, Moved, tables
<1> QED
  BY <1>5, <1>7, QuietFits DEF Moved

LEMMA DropGrantFits ==
    ASSUME IInv, RInv, NEW r \in Requests, DropGrant(r)
    PROVE  RInv'
<1> DEFINE f == req[r].found
           t == req[r].token
           g == grant[f.party]
           there == g.id = f.id /\ (req[r].kind = "refresh" => g.prev = t)
<1>1. /\ req[r].pc = "dropGrant" /\ UNCHANGED <<tables, expired, issued, job>>
      /\ FitsAll(r) /\ TypeOK /\ f \in Found /\ f.party \in Parties
  BY FoundTypes DEF DropGrant, IInv, RInv, Sound
<1>2. CASE LockAndGoto(r, GrantRow(f.party), "dropSession")
  <2>1. Moved(r, "dropSession", f, req[r].locks \cup {GrantRow(f.party)})
    BY <1>1, <1>2, LockMoves, RowsAre DEF Statements
  <2>2. FitsAll(r)'
    BY <1>1, <2>1, RowsDiffer DEF FitsAll, KindFits, Fits, Replays, Moved, tables
  <2> QED
    BY <1>1, <2>1, <2>2, QuietFits DEF Moved
<1>3. CASE ~there /\ Goto(r, "dropSession")
  <2>1. Moved(r, "dropSession", f, req[r].locks)
    BY <1>1, <1>3, GotoMoves DEF Statements
  <2>2. g.session # f.session
    BY <1>1, <1>3 DEF FitsAll, Fits, Matches
  <2>3. req[r].kind = "refresh" => Successors(grant, t) = {}
    BY <1>1, <1>3 DEF FitsAll, Replays, Successors
  <2>4. FitsAll(r)'
    BY <1>1, <2>1, <2>2, <2>3 DEF FitsAll, KindFits, Fits, Replays, Moved, tables
  <2> QED
    BY <1>1, <2>1, <2>4, QuietFits DEF Moved
<1> QED
  BY <1>2, <1>3 DEF DropGrant

LEMMA VictimFits ==
    ASSUME IInv, RInv, NEW r \in Requests, Victim(r)
    PROVE  RInv'
<1>1. /\ UNCHANGED <<tables, expired, issued, job>> /\ Sound(r) /\ TypeOK /\ FitsAll(r)
      /\ req[r].pc # "idle"
  BY DEF Victim, IInv, RInv, Deadlocked, WaitsFor, Wanted
<1>2. CASE Finish(r)
  BY <1>1, <1>2, GivesUpFits
<1>3. CASE /\ req[r].tries < MaxAttempts
           /\ req' = [req EXCEPT ![r].pc = req[r].start, ![r].locks = {}, ![r].tries = @ + 1]
  <2>1. Moved(r, req[r].start, req[r].found, {})
    BY <1>1, <1>3, RestartMoves
  <2>2. req[r].start \in {"burn", "consume", "reuse", "dropGrant"}
    BY <1>1, RequestTypes DEF Sound, Request
  <2>3. FitsAll(r)'
    BY <1>1, <2>1, <2>2 DEF FitsAll, KindFits, Fits, Replays, Moved, tables
  <2> QED
    BY <1>1, <2>1, <2>3, QuietFits DEF Moved
<1> QED
  BY <1>2, <1>3 DEF Victim

-----------------------------------------------------------------------------
(* The end of a transaction                                                *)

LEMMA LineageShrinks ==
    ASSUME TypeOK, Lineage, Shrinks,
           \A p \in Parties : grant'[p] # NoGrant => ClientOf[p] \in clients \cap clients'
    PROVE  Lineage'
<1> SUFFICES ASSUME NEW p \in Parties, NEW q \in Parties, grant'[p].prev # NoToken
             PROVE  /\ grant'[p].prev # grant'[q].session
                    /\ grant'[p].prev = grant'[q].prev => p = q
  BY DEF Lineage
<1>1. grant'[p] = grant[p] /\ grant'[q] \in {grant[q], NoGrant}
  BY Nulls DEF Shrinks
<1> QED
  BY <1>1, Nulls DEF Lineage

\* Rows go.
LEMMA CommitFits ==
    ASSUME IInv, RInv, NEW r \in Requests, NEW rows, Commit(r, rows), UNCHANGED <<expired, issued, job>>
    PROVE  RInv'
<1>1. /\ TypeOK /\ Shrinks /\ Finish(r) /\ issued' \in Nat /\ clients' = clients
      /\ grant' = GrantsAfter(rows) /\ sessions' = SessionsAfter(rows)
  BY CommitShrinks DEF IInv, Commit, TypeOK
<1>2. \A q \in Requests : FitsAll(q)'
  <2>1. FitsAll(r)'
    BY <1>1, IdleFits
  <2>2. ASSUME NEW q \in Requests, q # r PROVE FitsAll(q)'
    <3>1. FitsAll(q) /\ req'[q] = req[q]
      BY <1>1, <2>2, FinishMoves DEF RInv, Alone
    <3> QED
      BY <1>1, <3>1, ShrinkingMoves, FitsStays
  <2> QED
    BY <2>1, <2>2
<1>3. Lineage'
  <2>1. \A p \in Parties : grant'[p] # NoGrant => ClientOf[p] \in clients
    BY <1>1, RowsAfter DEF RInv, Lineage
  <2> QED
    BY <1>1, <2>1, LineageShrinks DEF RInv
<1> QED
  BY <1>2, <1>3 DEF RInv

LEMMA DropOrphanFits ==
    ASSUME IInv, RInv, NEW r \in Requests, DropOrphan(r)
    PROVE  RInv'
BY CommitFits DEF DropOrphan

\* The locks of a refresh that is refused hold no session of a grant.
LEMMA LocksFit ==
    ASSUME IInv, RInv, NEW r \in Requests, req[r].pc \in {"reuse", "dropSession"}, NEW p \in Parties
    PROVE  SessionRow(grant[p].session) \notin req[r].locks
<1>1. req[r].locks \subseteq Row
  BY RequestTypes DEF IInv
<1>2. SUFFICES ASSUME SessionRow(grant[p].session) \in req[r].locks PROVE FALSE
  OBVIOUS
<1>3. grant[p].session \in Tokens
  BY <1>1, <1>2 DEF Row, SessionRow
<1> QED
  BY <1>2, <1>3 DEF RInv, FitsAll, Fits

LEMMA FindReusedFits ==
    ASSUME IInv, RInv, NEW r \in Requests, FindReused(r)
    PROVE  RInv'
<1>1. CASE Commit(r, req[r].locks)
  BY <1>1, CommitFits DEF FindReused
<1>2. CASE \E p \in ReusedGrants(r) :
              /\ req' = [req EXCEPT ![r].pc = "dropGrant", ![r].found = Remembered(p)]
              /\ UNCHANGED tables
  BY <1>2, FindsReusedFits DEF FindReused
<1> QED
  BY <1>1, <1>2 DEF FindReused

LEMMA DropSessionFits ==
    ASSUME IInv, RInv, NEW r \in Requests, DropSession(r)
    PROVE  RInv'
BY CommitFits DEF DropSession

\* No session goes without its grant.
LEMMA DropSessionTakes ==
    ASSUME IInv, RInv, NEW r \in Requests, req[r].pc = "dropSession", NEW p \in Parties,
           SessionRow(grant[p].session) \in req[r].locks \cup {SessionRow(req[r].found.session)}
    PROVE  GrantRow(p) \in req[r].locks
<1> DEFINE f == req[r].found
<1>1. f \in Found /\ f.party \in Parties /\ f.session \in Tokens
  BY FoundTypes DEF IInv, Sound
<1>2. grant[p].session = f.session
  BY LocksFit, RowsDiffer
<1>3. Known(p, f.session) /\ Known(f.party, f.session)
  BY <1>1, <1>2 DEF Known, Remembers
<1>4. p = f.party
  BY <1>1, <1>3 DEF IInv, Owned
<1> QED
  BY <1>2, <1>4 DEF RInv, FitsAll, Fits

\* A grant gets a new token.
LEMMA TokenFits ==
    ASSUME IInv, RInv, NEW r \in Requests, NEW p \in Parties, NEW g \in Grant,
           CommitToken(r, req[r].locks, p, g), UNCHANGED <<expired, job>>,
           g.session = issued + 1, ClientOf[p] \in clients,
           g.prev # NoToken => sessions[g.prev] # NoParty /\ grant[p].session = g.prev
    PROVE  RInv'
<1> DEFINE rows == req[r].locks
           new == issued + 1
<1>1. /\ TypeOK /\ Finish(r) /\ new \in Tokens /\ issued' = new /\ issued \in Nat
      /\ grant' = [GrantsAfter(rows) EXCEPT ![p] = g]
      /\ sessions' = [SessionsAfter(rows) EXCEPT ![new] = p] /\ clients' = clients
  BY DEF IInv, CommitToken, TypeOK, Tokens
<1>2. /\ \A q \in Parties : q # p => grant'[q] \in {grant[q], NoGrant}
      /\ grant'[p] = g
      /\ \A t \in Tokens : t # new => sessions'[t] = IF SessionRow(t) \in rows THEN NoParty ELSE sessions[t]
      /\ sessions'[new] = p
  BY <1>1, RowsAfter
<1>3. g.prev \in Tokens \cup {NoToken}
  BY DEF Grant
<1>4. Moves
  <2>1. issued <= issued'
    BY <1>1
  <2>2. \A q \in Parties :
           \/ grant'[q] \in {grant[q], NoGrant}
           \/ /\ grant'[q].session = issued + 1
              /\ grant'[q].prev # NoToken => sessions[grant'[q].prev] # NoParty
    BY <1>2
  <2>3. \A t \in Tokens : t <= issued => sessions'[t] \in {sessions[t], NoParty}
    BY <1>1, <1>2
  <2> QED
    BY <2>1, <2>2, <2>3 DEF Moves
<1>5. \A q \in Requests : FitsAll(q)'
  <2>1. FitsAll(r)'
    BY <1>1, IdleFits
  <2>2. ASSUME NEW q \in Requests, q # r PROVE FitsAll(q)'
    <3>1. FitsAll(q) /\ req'[q] = req[q] /\ issued' \in Nat
      BY <1>1, <2>2, FinishMoves DEF RInv, Alone
    <3> QED
      BY <1>4, <3>1, FitsStays
  <2> QED
    BY <2>1, <2>2
<1>6. Lineage'
  <2>1. ASSUME NEW q \in Parties, q # p, grant'[q].prev # NoToken
        PROVE  /\ grant'[q] = grant[q] /\ grant[q].prev # NoToken /\ grant[q].prev # g.session
               /\ grant[q].prev # g.prev /\ sessions[grant[q].prev] = NoParty
    <3>1. grant'[q] = grant[q] /\ grant[q].prev \in Tokens /\ grant[q].prev # NoToken
      BY <1>1, <1>2, <2>1, Nulls, GrantTypes
    <3>2. grant[q].prev # new
      BY <1>1, <3>1, Nulls DEF IInv, PreviousIsIssued
    <3>3. sessions[grant[q].prev] = NoParty
      BY <3>1 DEF IInv, PreviousIsSpent
    <3> QED
      BY <3>1, <3>2, <3>3
  <2>2. ASSUME NEW q \in Parties, NEW s \in Parties, grant'[q].prev # NoToken
        PROVE  grant'[q].prev # grant'[s].session
    <3>1. CASE q # p /\ s # p
      BY <1>2, <2>1, <2>2, <3>1, Nulls DEF RInv, Lineage
    <3>2. CASE q # p /\ s = p
      BY <1>2, <2>1, <2>2, <3>2
    <3>3. CASE q = p /\ s = p
      <4>1. g.prev \in Tokens /\ Known(p, g.prev)
        BY <1>2, <1>3, <2>2, <3>3 DEF Known
      <4>2. g.prev <= issued
        BY <4>1 DEF IInv, Owned
      <4> QED
        BY <1>1, <1>2, <3>3, <4>1, <4>2, Nulls
    <3>4. CASE q = p /\ s # p
      <4>1. g.prev \in Tokens /\ Known(p, g.prev)
        BY <1>2, <1>3, <2>2, <3>4 DEF Known
      <4>2. grant[s].session # g.prev
        BY <3>4, <4>1 DEF IInv, Owned, Known
      <4> QED
        BY <1>2, <2>2, <3>4, <4>2, Nulls
    <3> QED
      BY <3>1, <3>2, <3>3, <3>4
  <2>3. ASSUME NEW q \in Parties, NEW s \in Parties, grant'[q].prev # NoToken,
               grant'[q].prev = grant'[s].prev
        PROVE  q = s
    <3>1. CASE q # p /\ s # p
      BY <2>1, <2>3, <3>1 DEF RInv, Lineage
    <3>2. CASE q = p \/ s = p
      BY <1>2, <2>1, <2>3, <3>2
    <3> QED
      BY <3>1, <3>2
  <2>4. \A q \in Parties : grant'[q] # NoGrant => ClientOf[q] \in clients'
    BY <1>1, <1>2 DEF RInv, Lineage
  <2> QED
    BY <2>2, <2>3, <2>4 DEF Lineage
<1> QED
  BY <1>5, <1>6 DEF RInv

LEMMA InsertGrantFits ==
    ASSUME IInv, RInv, NEW r \in Requests, InsertGrant(r)
    PROVE  RInv'
<1> DEFINE c == req[r].code
           p == PartyOf[c]
           t == issued + 1
           g == [id |-> t, session |-> t, prev |-> NoToken, code |-> c]
           rows == req[r].locks
<1>1. c \in Codes /\ p \in Parties
  BY DEF InsertGrant, IInv, Sound, Exchanging
<1>2. CASE RollBack(r) /\ UNCHANGED issued
  BY <1>2, GivesUpFits DEF RollBack, InsertGrant
<1>3. CASE ClientOf[p] \in clients /\ CommitToken(r, rows, p, g)
  <2>1. t \in Tokens
    BY <1>3 DEF CommitToken, IInv, TypeOK, Tokens
  <2>2. g \in Grant
    BY <1>1, <2>1 DEF Grant
  <2> QED
    BY <1>1, <1>3, <2>2, TokenFits DEF InsertGrant
<1> QED
  BY <1>2, <1>3 DEF InsertGrant

LEMMA RotateGrantFits ==
    ASSUME IInv, RInv, NEW r \in Requests, RotateGrant(r)
    PROVE  RInv'
<1> DEFINE p == req[r].seen.party
           t == req[r].token
           g == [grant[p] EXCEPT !.session = issued + 1, !.prev = t]
<1>1. /\ req[r].pc = "rotate" /\ TypeOK /\ p \in Parties /\ t \in Tokens
      /\ req[r].locks = {SessionRow(t)} /\ sessions[t] = p
  BY FoundTypes DEF RotateGrant, IInv, Sound, Holds
<1>2. CASE RollBack(r) /\ UNCHANGED issued
  BY <1>2, GivesUpFits DEF RollBack, RotateGrant
<1>3. CASE ~StillCurrent(r) /\ Goto(r, "reuse") /\ UNCHANGED <<tables, issued>>
  BY <1>1, <1>3, GoesToReuseFits DEF RotateGrant
<1>4. CASE StillCurrent(r) /\ ClientOf[p] \in clients /\ CommitToken(r, req[r].locks, p, g)
  <2>1. issued + 1 \in Tokens
    BY <1>4 DEF CommitToken, IInv, TypeOK, Tokens
  <2>2. grant[p].session = t /\ grant[p] \in Grant
    BY <1>1, <1>4, GrantTypes DEF StillCurrent
  <2>3. g \in Grant /\ g.session = issued + 1 /\ g.prev = t
    BY <1>1, <2>1, <2>2 DEF Grant
  <2> QED
    BY <1>1, <1>4, <2>2, <2>3, TokenFits DEF RotateGrant
<1> QED
  BY <1>2, <1>3, <1>4 DEF RotateGrant

-----------------------------------------------------------------------------
(* The job, time and the user                                              *)

LEMMA BackgroundFits ==
    ASSUME IInv, RInv, UNCHANGED req, Shrinks,
           \A p \in Parties : grant'[p] # NoGrant => ClientOf[p] \in clients'
    PROVE  RInv'
<1>1. TypeOK /\ issued' \in Nat /\ Moves
  BY ShrinkingMoves DEF IInv, TypeOK, Shrinks
<1>2. \A r \in Requests : FitsAll(r)'
  BY <1>1, FitsStays DEF RInv
<1>3. Lineage'
  <2>1. \A p \in Parties : grant'[p] # NoGrant => ClientOf[p] \in clients
    BY DEF RInv, Lineage, Shrinks
  <2> QED
    BY <1>1, <2>1, LineageShrinks DEF RInv
<1> QED
  BY <1>2, <1>3 DEF RInv

\* The clients stay.
LEMMA ClientsStay ==
    ASSUME IInv, RInv, Shrinks, UNCHANGED <<clients, req>>
    PROVE  RInv'
<1>1. \A p \in Parties : grant'[p] # NoGrant => ClientOf[p] \in clients'
  BY DEF RInv, Lineage, Shrinks
<1> QED
  BY <1>1, BackgroundFits

LEMMA DeleteClientsFits ==
    ASSUME IInv, RInv, DeleteClients
    PROVE  RInv'
<1> DEFINE gone(p) == ClientOf[p] \in job.clients
<1>1. /\ Shrinks /\ UNCHANGED req
      /\ clients' = clients \ job.clients
      /\ grant' = [p \in Parties |-> IF gone(p) THEN NoGrant ELSE grant[p]]
  BY DeleteClientsKeeps DEF DeleteClients
<1>2. \A p \in Parties : grant'[p] # NoGrant => ClientOf[p] \in clients'
  BY <1>1 DEF RInv, Lineage
<1> QED
  BY <1>1, <1>2, BackgroundFits

LEMMA CleanupFits ==
    ASSUME IInv, RInv, Cleanup
    PROVE  RInv'
<1>1. Shrinks
  BY CleanupKeeps
<1>2. CASE ~DeleteClients
  <2>1. UNCHANGED <<clients, req>>
    BY <1>2 DEF Cleanup, CleanCodes, SelectExpired, DeleteExpiredSessions, DeleteExpiredGrants,
       SelectOrphans, DeleteOrphans, DeleteGrants, SelectClients, tables
  <2> QED
    BY <1>1, <2>1, ClientsStay
<1> QED
  BY <1>2, DeleteClientsFits

-----------------------------------------------------------------------------
(* The invariant                                                           *)

LEMMA NextFits ==
    ASSUME IInv, RInv, [Next]_vars
    PROVE  RInv'
<1>1. CASE UNCHANGED vars
  <2>1. Shrinks /\ UNCHANGED <<clients, req>>
    BY <1>1, NothingChanged DEF vars, tables
  <2> QED
    BY <2>1, ClientsStay
<1>2. ASSUME NEW r \in Requests, Call(r) PROVE RInv'
  BY <1>2, ExchangeCodeFits, RefreshTokenFits, RevokeTokenFits DEF Call
<1>3. ASSUME NEW r \in Requests, Step(r) PROVE RInv'
  BY <1>3, ExchangingFits, FindByCodeFits, InsertGrantFits, ConsumeSessionFits, FindOrphanFits,
     DropOrphanFits, RotateGrantFits, FindReusedFits, DropGrantFits, DropSessionFits
     DEF Step
<1>4. ASSUME NEW c \in Codes, Decide(c) PROVE RInv'
  BY <1>4, DecideKeeps, ClientsStay DEF Decide
<1>5. ASSUME NEW x \in Tokens \cup Codes, Expire(x) PROVE RInv'
  BY <1>5, ExpireKeeps, ClientsStay DEF Expire, tables
<1>6. CASE PurgeSessions
  BY <1>6, PurgeSessionsKeeps, ClientsStay DEF PurgeSessions
<1>7. ASSUME NEW u, NEW keep, ClearUserSessions(u, keep) PROVE RInv'
  BY <1>7, ClearUserSessionsKeeps, ClientsStay DEF ClearUserSessions
<1> QED
  BY <1>1, <1>2, <1>3, <1>4, <1>5, <1>6, <1>7, VictimFits, CleanupFits DEF Next

LEMMA BeginsFit ==
    ASSUME Init
    PROVE  RInv
<1>1. \A r \in Requests : FitsAll(r)
  BY Nulls DEF Init, Idle, FitsAll, KindFits, Fits, Replays, Matches
<1>2. Lineage
  BY Nulls DEF Init, Lineage
<1> QED
  BY <1>1, <1>2 DEF RInv

\* What requests remember still fits the grants when they act on it.
THEOREM ReuseInvariant == Spec => []RInv
<1>1. Init => RInv
  BY BeginsFit
<1>2. IInv /\ RInv /\ [Next]_vars => RInv'
  BY NextFits
<1> QED
  BY <1>1, <1>2, Invariant, PTL DEF Spec

-----------------------------------------------------------------------------
(* The end of a refresh without a token                                    *)

Ends(r) == req[r].kind = "refresh" /\ req'[r] = Idle
Refused(r) == \A p \in Parties : ClientOf[p] = req[r].client => grant'[p].prev # req[r].token

LEMMA RefreshIs ==
    ASSUME IInv, RInv, NEW r \in Requests, req[r].kind = "refresh"
    PROVE  /\ TypeOK /\ FitsAll(r) /\ Sound(r)
           /\ req[r].start \in {"consume", "reuse"} /\ req[r].token \in Tokens /\ req[r] # Idle
<1>1. TypeOK /\ FitsAll(r) /\ Sound(r)
  BY DEF IInv, RInv
<1>2. req[r].start \in {"none", "burn", "consume", "reuse", "dropGrant"}
  BY <1>1 DEF TypeOK, Request
<1>3. req[r].start \in {"consume", "reuse"}
  BY <1>1, <1>2 DEF FitsAll, KindFits
<1> QED
  BY <1>1, <1>3 DEF Sound, Idle

\* A statement that is followed by another one.
LEMMA NotYetIdle ==
    ASSUME TypeOK, NEW r \in Requests, NEW pc \in Statements, pc # "idle",
           \/ Goto(r, pc)
           \/ \E row \in Row : LockAndGoto(r, row, pc)
           \/ \E f \in Found : req' = [req EXCEPT ![r].pc = pc, ![r].found = f]
    PROVE  req'[r] # Idle
<1>1. req'[r].pc = pc
  BY GotoMoves, LockMoves, FindMoves DEF Moved
<1> QED
  BY <1>1 DEF Idle

LEMMA CommitKeepsOut ==
    ASSUME IInv, NEW r \in Requests, NEW rows, Commit(r, rows), NEW p \in Parties, NEW t \in Tokens,
           grant'[p].prev = t
    PROVE  p \in Successors(grant, t) /\ GrantRow(p) \notin rows
BY RowsAfter, Nulls DEF Commit, IInv, Successors

LEMMA StepRefuses ==
    ASSUME IInv, RInv, NEW r \in Requests, Step(r), Ends(r), issued' = issued
    PROVE  Refused(r)
<1> DEFINE t == req[r].token
<1>1. /\ TypeOK /\ FitsAll(r) /\ Sound(r) /\ req[r].start \in {"consume", "reuse"} /\ t \in Tokens
      /\ req[r].kind = "refresh" /\ req'[r] = Idle
  BY RefreshIs DEF Ends
<1>2. CASE BurnCode(r) \/ FindByCode(r) \/ FindExisting(r) \/ ReplaceGrant(r) \/ ReplaceSession(r)
           \/ InsertGrant(r)
  BY <1>1, <1>2 DEF BurnCode, FindByCode, FindExisting, ReplaceGrant, ReplaceSession, InsertGrant,
     Sound, Exchanging
<1>3. CASE ConsumeSession(r)
  BY <1>1, <1>3, NotYetIdle, RowsAre DEF ConsumeSession, Statements
<1>4. CASE FindOrphan(r)
  BY <1>1, <1>4, NotYetIdle DEF FindOrphan, Statements
<1>5. CASE DropGrant(r)
  <2>1. req[r].found.party \in Parties
    BY <1>1, <1>5, FoundTypes DEF DropGrant, Sound
  <2> QED
    BY <1>1, <1>5, <2>1, NotYetIdle, RowsAre DEF DropGrant, Statements
<1>6. CASE DropOrphan(r)
  <2>1. Successors(grant, t) = {}
    BY <1>1, <1>6 DEF DropOrphan, FitsAll, Replays
  <2> QED
    BY <1>1, <1>6, <2>1, CommitKeepsOut DEF DropOrphan, Refused
<1>7. CASE RotateGrant(r)
  <2> DEFINE p == req[r].seen.party
  <2>1. req[r].start = "consume" /\ p \in Parties
    BY <1>1, <1>7, FoundTypes DEF RotateGrant, Sound
  <2>2. StillCurrent(r) => ClientOf[p] \in clients
    BY <1>1, <2>1, GrantTypes DEF StillCurrent, RInv, Lineage
  <2>3. ~Goto(r, "reuse")
    BY <1>1, NotYetIdle DEF Statements
  <2>4. ASSUME NEW g PROVE ~CommitToken(r, req[r].locks, p, g)
    BY <1>1 DEF CommitToken, TypeOK
  <2> QED
    BY <1>7, <2>2, <2>3, <2>4 DEF RotateGrant
<1>8. CASE FindReused(r)
  <2>1. CASE ReusedGrants(r) = {} /\ Commit(r, req[r].locks)
    BY <1>1, <2>1, CommitKeepsOut DEF Refused, Successors, ReusedGrants
  <2>2. ASSUME NEW p \in ReusedGrants(r),
               req' = [req EXCEPT ![r].pc = "dropGrant", ![r].found = Remembered(p)]
        PROVE  FALSE
    <3>1. p \in Parties /\ Remembered(p) \in Found
      BY <1>1, GrantTypes, RememberedIs DEF ReusedGrants
    <3> QED
      BY <1>1, <2>2, <3>1, NotYetIdle DEF Statements
  <2> QED
    BY <1>8, <2>1, <2>2 DEF FindReused
<1>9. CASE DropSession(r)
  <2> DEFINE f == req[r].found
  <2> SUFFICES ASSUME NEW p \in Parties, grant'[p].prev = t PROVE FALSE
    BY DEF Refused
  <2>1. p \in Successors(grant, t) /\ GrantRow(p) \notin req[r].locks
    BY <1>1, <1>9, CommitKeepsOut DEF DropSession
  <2> QED
    BY <1>1, <1>9, <2>1 DEF DropSession, FitsAll, Replays
<1> QED
  BY <1>2, <1>3, <1>4, <1>5, <1>6, <1>7, <1>8, <1>9 DEF Step

\* Nobody else ends a request.
LEMMA OnlyItself ==
    ASSUME TypeOK, NEW q \in Requests, Call(q) \/ Step(q) \/ Victim(q), NEW r \in Requests, r # q
    PROVE  req'[r] = req[r]
<1>1. CASE Call(q)
  BY <1>1 DEF TypeOK, Call, ExchangeCode, RefreshToken, RevokeToken
<1>2. CASE Victim(q)
  BY <1>2 DEF TypeOK, Victim, Finish
<1>3. CASE BurnCode(q) \/ FindByCode(q) \/ FindExisting(q) \/ ReplaceGrant(q) \/ ReplaceSession(q)
           \/ InsertGrant(q)
  BY <1>3 DEF TypeOK, BurnCode, FindByCode, FindExisting, ReplaceGrant, ReplaceSession, InsertGrant,
     Finish, Goto, LockAndGoto, RollBack, CommitToken
<1>4. CASE ConsumeSession(q) \/ FindOrphan(q) \/ DropOrphan(q) \/ RotateGrant(q) \/ FindReused(q)
           \/ DropGrant(q) \/ DropSession(q)
  BY <1>4 DEF TypeOK, ConsumeSession, FindOrphan, DropOrphan, RotateGrant, FindReused, DropGrant,
     DropSession, Finish, Goto, LockAndGoto, RollBack, CommitToken, Commit
<1> QED
  BY <1>1, <1>2, <1>3, <1>4 DEF Step

LEMMA NextRefuses ==
    ASSUME IInv, RInv, [Next]_vars, NEW r \in Requests, Ends(r), issued' = issued
    PROVE  Deadlocked(r) \/ Refused(r)
<1>1. TypeOK /\ req[r] # Idle /\ req'[r] = Idle
  BY RefreshIs DEF Ends
<1>2. CASE UNCHANGED req
  BY <1>1, <1>2
<1>3. ASSUME NEW q \in Requests, Call(q) \/ Step(q) \/ Victim(q) PROVE Deadlocked(r) \/ Refused(r)
  <2>1. q = r
    BY <1>1, <1>3, OnlyItself
  <2>2. ~Call(r)
    BY <1>1 DEF Call, ExchangeCode, RefreshToken, RevokeToken
  <2> QED
    BY <1>3, <2>1, <2>2, StepRefuses DEF Victim
<1>4. CASE \/ Cleanup \/ PurgeSessions \/ \E c \in Codes : Decide(c)
           \/ \E x \in Tokens \cup Codes : Expire(x)
           \/ \E u \in Users, keep \in Tokens \cup {NoToken} : ClearUserSessions(u, keep)
  <2>1. UNCHANGED req
    BY <1>4 DEF Cleanup, CleanCodes, SelectExpired, DeleteExpiredSessions, DeleteExpiredGrants,
       SelectOrphans, DeleteOrphans, DeleteGrants, SelectClients, DeleteClients, PurgeSessions,
       ClearUserSessions, Decide, Expire
  <2> QED
    BY <1>2, <2>1
<1> QED
  BY <1>2, <1>3, <1>4 DEF Next, vars

\* Reuse detection: when a refresh request ends without a new token, no grant of
\* its client has been rotated from the token it presented; only the victim of a
\* deadlock may end without this (refreshToken, detectReuse).
THEOREM ReplayIsDetected == Spec => ReplayEndsSuccessor
<1>1. IInv /\ RInv /\ [Next]_vars =>
         [\A r \in Requests :
             req[r].kind = "refresh" /\ req'[r] = Idle /\ issued' = issued =>
                 \/ Deadlocked(r)
                 \/ \A p \in Parties : ClientOf[p] = req[r].client => grant'[p].prev # req[r].token]_vars
  BY NextRefuses DEF Ends, Refused
<1> QED
  BY <1>1, Invariant, ReuseInvariant, PTL DEF Spec, ReplayEndsSuccessor
-----------------------------------------------------------------------------
(* A valid grant lasts: what deletes a grant, or its session, has seen a   *)
(* reason.  The ids of grants and what deletions remember of them:         *)

IdsAreIssued ==
    /\ \A p \in Parties : grant[p].id <= issued
    /\ \A t \in expired \cap Tokens : t <= issued

\* A grant that is about to be deleted is of the client that asks; when it was
\* found by a code or a token, it still has these.
NoGrantLocked(r) == \A p \in Parties : GrantRow(p) \notin req[r].locks
Aims(r) ==
    LET f == req[r].found
    IN  /\ req[r].pc \in {"reuse", "dropGrant"} => NoGrantLocked(r)
        /\ req[r].pc \in {"dropGrant", "dropSession"} \/ req[r].start = "dropGrant" =>
              /\ ClientOf[f.party] = req[r].client
              /\ f.id <= issued
              /\ req[r].kind = "exchange" /\ grant[f.party].id = f.id =>
                    grant[f.party].code = req[r].code
        /\ req[r].pc = "dropSession" =>
              /\ \A p \in Parties : GrantRow(p) \in req[r].locks => p = f.party
              /\ GrantRow(f.party) \in req[r].locks =>
                    /\ grant[f.party].id = f.id
                    /\ req[r].kind = "refresh" => grant[f.party].prev = req[r].token

\* What the job has selected has expired, or has no session and cannot get one.
JobAims ==
    /\ job.pc \in {"sessions", "grants"} => \A f \in job.grants : f.session \in expired
    /\ job.pc = "dropOrphans" =>
          \A f \in job.grants :
             /\ f.id <= issued /\ f.session <= issued
             /\ sessions[f.session] = NoParty
             /\ grant[f.party].id = f.id => grant[f.party].session = f.session

VInv == IdsAreIssued /\ JobAims /\ \A r \in Requests : Aims(r)

\* A grant stays, goes, is made anew, or is moved to another token while its
\* session is there.
Evolves ==
    /\ issued' \in {issued, issued + 1}
    /\ \A p \in Parties :
          \/ grant'[p] \in {grant[p], NoGrant}
          \/ grant'[p].id = issued + 1 /\ issued' = issued + 1
          \/ /\ grant'[p].id = grant[p].id /\ grant'[p].code = grant[p].code
             /\ grant[p].session \in Tokens /\ sessions[grant[p].session] # NoParty
    /\ \A t \in Tokens : t <= issued => sessions'[t] \in {sessions[t], NoParty}

LEMMA Numbers ==
    ASSUME TypeOK PROVE issued \in Nat /\ \A t \in Tokens : t \in Nat
BY DEF TypeOK, Tokens

LEMMA ShrinkingEvolves == ASSUME Shrinks PROVE Evolves
BY DEF Shrinks, Evolves

LEMMA AimsStay ==
    ASSUME IInv, NEW r \in Requests, Aims(r), Evolves, req'[r] = req[r],
           req[r].pc = "dropSession" /\ GrantRow(req[r].found.party) \in req[r].locks =>
              grant'[req[r].found.party] = grant[req[r].found.party]
    PROVE  Aims(r)'
<1> DEFINE f == req[r].found
<1> SUFFICES ASSUME req[r].pc \in {"dropGrant", "dropSession"} \/ req[r].start = "dropGrant"
             PROVE  /\ f.id <= issued'
                    /\ req[r].kind = "exchange" /\ grant'[f.party].id = f.id =>
                          grant'[f.party].code = req[r].code
  BY DEF Aims, NoGrantLocked
<1>1. f \in Found /\ f.party \in Parties /\ f.id \in Tokens /\ f.id \in Nat /\ issued \in Nat
  <2>1. f \in Found
    BY DEF IInv, Sound
  <2> QED
    BY <2>1, FoundTypes, Numbers DEF IInv
<1>2. f.id <= issued /\ f.id # issued + 1 /\ f.id # NoGrant.id
  BY <1>1, Nulls DEF Aims
<1>3. grant'[f.party].id = f.id =>
         grant[f.party].id = f.id /\ grant'[f.party].code = grant[f.party].code
  BY <1>1, <1>2 DEF Evolves
<1> QED
  BY <1>1, <1>2, <1>3 DEF Aims, Evolves

LEMMA IdsStay ==
    ASSUME IInv, VInv, Evolves, \A t \in expired' \cap Tokens : t \in expired \/ t <= issued
    PROVE  IdsAreIssued'
<1>1. issued \in Nat /\ issued <= issued' /\ issued' \in Nat
  BY DEF IInv, TypeOK, Evolves
<1>2. \A p \in Parties : grant[p].id \in Nat /\ grant[p].id <= issued
  BY GrantTypes, Nulls DEF IInv, VInv, IdsAreIssued
<1>3. \A p \in Parties : grant'[p].id <= issued'
  <2> SUFFICES ASSUME NEW p \in Parties PROVE grant'[p].id <= issued'
    OBVIOUS
  <2>1. grant'[p].id = grant[p].id \/ grant'[p].id = 0 \/ grant'[p].id = issued'
    BY Nulls DEF Evolves, NoToken
  <2> QED
    BY <1>1, <1>2, <2>1
<1>4. \A t \in Tokens : t \in expired' => t <= issued'
  <2> SUFFICES ASSUME NEW t \in Tokens, t \in expired' PROVE t <= issued'
    OBVIOUS
  <2>1. t \in Nat /\ t <= issued
    BY Numbers DEF IInv, VInv, IdsAreIssued
  <2> QED
    BY <1>1, <2>1
<1> QED
  BY <1>3, <1>4 DEF IdsAreIssued

LEMMA JobAimsStay ==
    ASSUME IInv, VInv, Evolves, expired \subseteq expired', job' = job
    PROVE  JobAims'
<1> SUFFICES ASSUME job.pc = "dropOrphans", NEW f \in job.grants
             PROVE  /\ f.id <= issued' /\ f.session <= issued'
                    /\ sessions'[f.session] = NoParty
                    /\ grant'[f.party].id = f.id => grant'[f.party].session = f.session
  BY DEF VInv, JobAims
<1>1. f \in Found /\ f.party \in Parties /\ f.id \in Tokens /\ f.session \in Tokens
  BY FoundTypes DEF IInv, TypeOK, Job
<1>2. /\ f.id <= issued /\ f.session <= issued /\ sessions[f.session] = NoParty
      /\ grant[f.party].id = f.id => grant[f.party].session = f.session
  BY DEF VInv, JobAims
<1>3. f.id \in Nat /\ f.session \in Nat /\ issued \in Nat /\ issued <= issued' /\ issued' \in Nat
  BY <1>1, Numbers DEF IInv, Evolves
<1>4. f.id # issued + 1 /\ f.id # NoGrant.id
  BY <1>1, <1>2, <1>3, Nulls
<1>5. sessions'[f.session] = NoParty
  BY <1>1, <1>2 DEF Evolves
<1>6. grant'[f.party].id = f.id => grant'[f.party].session = f.session
  BY <1>1, <1>2, <1>4 DEF Evolves
<1> QED
  BY <1>2, <1>3, <1>5, <1>6
\* One request moves; the grants that others have locked stay.
LEMMA OneAims ==
    ASSUME IInv, VInv, NEW r \in Requests, Alone(r), Evolves, Aims(r)', UNCHANGED <<expired, job>>,
           \A q \in Requests, p \in Parties : q # r /\ GrantRow(p) \in req[q].locks => grant'[p] = grant[p]
    PROVE  VInv'
<1>1. \A q \in Requests : Aims(q)'
  <2> SUFFICES ASSUME NEW q \in Requests, q # r PROVE Aims(q)'
    OBVIOUS
  <2>1. req'[q] = req[q] /\ Aims(q)
    BY DEF Alone, VInv
  <2>2. GrantRow(req[q].found.party) \in req[q].locks =>
           grant'[req[q].found.party] = grant[req[q].found.party]
    <3>1. GrantRow(req[q].found.party) \in req[q].locks => req[q].found.party \in Parties
      BY RequestTypes DEF IInv, Row, GrantRow
    <3> QED
      BY <3>1
  <2> QED
    BY <2>1, <2>2, AimsStay
<1>2. JobAims'
  BY JobAimsStay
<1>3. IdsAreIssued'
  BY IdsStay
<1> QED
  BY <1>1, <1>2, <1>3 DEF VInv

LEMMA QuietAims ==
    ASSUME IInv, VInv, UNCHANGED <<tables, expired, issued, job>>, NEW r \in Requests, Alone(r), Aims(r)'
    PROVE  VInv'
BY NothingChanged, ShrinkingEvolves, OneAims DEF tables

LEMMA IdleAims ==
    ASSUME TypeOK, NEW r \in Requests, Finish(r) PROVE Alone(r) /\ Aims(r)'
BY FinishMoves DEF Idle, Aims

LEMMA GivesUpAims ==
    ASSUME IInv, VInv, UNCHANGED <<tables, expired, issued, job>>, NEW r \in Requests, Finish(r)
    PROVE  VInv'
BY IdleAims, QuietAims DEF IInv

\* Before the last deletions.
LEMMA GoesOnAims ==
    ASSUME IInv, VInv, UNCHANGED <<tables, expired, issued, job>>, NEW r \in Requests,
           NEW pc, NEW found, NEW locks, Moved(r, pc, found, locks),
           pc \notin {"dropGrant", "dropSession"}, req[r].start # "dropGrant",
           pc = "reuse" => \A p \in Parties : GrantRow(p) \notin locks
    PROVE  VInv'
<1>1. Aims(r)'
  BY DEF Aims, Moved, NoGrantLocked
<1> QED
  BY <1>1, QuietAims DEF Moved

\* A grant has been found that is to be deleted.
LEMMA FindsAims ==
    ASSUME IInv, VInv, UNCHANGED <<tables, expired, issued, job>>, NEW r \in Requests, NEW p \in Parties,
           Alone(r), req'[r].pc = "dropGrant", req'[r].found = Remembered(p),
           ClientOf[p] = req'[r].client, req'[r].kind = "exchange" => grant[p].code = req'[r].code,
           \A q \in Parties : GrantRow(q) \notin req'[r].locks
    PROVE  VInv'
<1>1. Remembered(p).party = p /\ Remembered(p).id = grant[p].id
  BY DEF Remembered
<1>2. grant[p].id <= issued /\ issued' = issued /\ grant' = grant
  BY DEF VInv, IdsAreIssued, tables
<1>3. Aims(r)'
  BY <1>1, <1>2 DEF Aims, NoGrantLocked
<1> QED
  BY <1>3, QuietAims

LEMMA CallAims ==
    ASSUME IInv, VInv, NEW r \in Requests, Call(r)
    PROVE  VInv'
<1>1. UNCHANGED <<tables, expired, issued, job>> /\ TypeOK
  BY Zenon DEF Call, ExchangeCode, RefreshToken, RevokeToken, IInv
<1>2. ASSUME NEW cl \in Clients, NEW c \in Codes, ExchangeCode(r, cl, c) PROVE VInv'
  <2> DEFINE new == [Idle EXCEPT !.pc = "burn", !.kind = "exchange", !.start = "burn",
                                 !.client = cl, !.code = c]
  <2>1. new \in Request
    BY IdleIsRequest DEF Request
  <2>2. Alone(r) /\ req'[r] = new
    BY <1>1, <1>2, <2>1, CallBegins DEF ExchangeCode
  <2>3. Aims(r)'
    BY <2>2 DEF Aims, Idle
  <2> QED
    BY <1>1, <2>2, <2>3, QuietAims
<1>3. ASSUME NEW cl \in Clients, NEW t \in Tokens, RefreshToken(r, cl, t) PROVE VInv'
  <2> DEFINE New(pc, seen) == [Idle EXCEPT !.pc = pc, !.kind = "refresh", !.start = pc,
                                           !.client = cl, !.token = t, !.seen = seen]
  <2>1. ASSUME NEW pc \in {"reuse", "consume"}, NEW seen \in Found \cup {Nothing},
               req' = [req EXCEPT ![r] = New(pc, seen)]
        PROVE  VInv'
    <3>1. New(pc, seen) \in Request
      BY <2>1, IdleIsRequest DEF Request
    <3>2. Alone(r) /\ req'[r] = New(pc, seen)
      BY <1>1, <2>1, <3>1, CallBegins
    <3>3. Aims(r)'
      BY <3>2 DEF Aims, Idle, NoGrantLocked
    <3> QED
      BY <1>1, <3>2, <3>3, QuietAims
  <2>2. CASE req' = [req EXCEPT ![r] = New("reuse", Nothing)]
    BY <2>1, <2>2
  <2>3. ASSUME NEW p \in Parties, grant[p].session = t,
               req' = [req EXCEPT ![r] = New("consume", Remembered(p))]
        PROVE  VInv'
    <3>1. Remembered(p) \in Found
      BY <1>1, <2>3, GrantTypes, RememberedIs
    <3> QED
      BY <2>1, <2>3, <3>1
  <2> QED
    BY <1>3, <2>2, <2>3 DEF RefreshToken
<1>4. ASSUME NEW cl \in Clients, NEW t \in Tokens, RevokeToken(r, cl, t) PROVE VInv'
  <2>1. PICK p \in Parties :
           /\ grant[p].session = t /\ ClientOf[p] = cl
           /\ req' = [req EXCEPT ![r] = Revocation(cl, t, Remembered(p))]
    BY <1>4 DEF RevokeToken, Revocation
  <2> DEFINE new == Revocation(cl, t, Remembered(p))
  <2>2. new \in Request /\ new.client = cl
    BY <1>1, <2>1, GrantTypes, RememberedIs, RevocationIs DEF Revocation, Idle
  <2>3. Alone(r) /\ req'[r] = new
    BY <1>1, <2>1, <2>2, CallBegins
  <2>4. /\ req'[r].pc = "dropGrant" /\ req'[r].kind = "revoke" /\ req'[r].found = Remembered(p)
        /\ req'[r].client = cl /\ req'[r].locks = {}
    BY <2>2, <2>3, RevocationIs
  <2> QED
    BY <1>1, <2>1, <2>3, <2>4, FindsAims
<1> QED
  BY <1>2, <1>3, <1>4 DEF Call
-----------------------------------------------------------------------------
(* The statements                                                          *)

LEMMA EarlyAims ==
    ASSUME IInv, VInv, NEW r \in Requests,
           \/ BurnCode(r) \/ FindExisting(r) \/ ReplaceGrant(r) \/ ReplaceSession(r)
           \/ ConsumeSession(r) \/ FindOrphan(r)
    PROVE  VInv'
<1>1. /\ UNCHANGED <<tables, expired, issued, job>> /\ TypeOK /\ req[r].start \in {"burn", "consume"}
      /\ req[r].start = "burn" => req[r].code \in Codes /\ PartyOf[req[r].code] \in Parties
      /\ req[r].start = "consume" => req[r].token \in Tokens
  BY DEF BurnCode, FindExisting, ReplaceGrant, ReplaceSession, ConsumeSession, FindOrphan, IInv, Sound,
     Exchanging
<1>2. CASE Finish(r)
  BY <1>1, <1>2, GivesUpAims
<1>3. ASSUME NEW pc \in Statements \ {"dropGrant", "dropSession"}, Goto(r, pc),
             pc = "reuse" => req[r].locks = {}
      PROVE  VInv'
  BY <1>1, <1>3, GotoMoves, GoesOnAims
<1>4. ASSUME NEW pc \in Statements \ {"dropGrant", "dropSession", "reuse"}, NEW row \in Row,
             LockAndGoto(r, row, pc)
      PROVE  VInv'
  BY <1>1, <1>4, LockMoves, GoesOnAims
<1>5. ASSUME NEW p \in Parties, grant[p] # NoGrant,
             req' = [req EXCEPT ![r].pc = "replaceGrant", ![r].found = Remembered(p)]
      PROVE  VInv'
  <2>1. Moved(r, "replaceGrant", Remembered(p), req[r].locks)
    BY <1>1, <1>5, RememberedIs, FindMoves DEF Statements
  <2> QED
    BY <1>1, <2>1, GoesOnAims
<1>6. {"codeReplay", "existing", "insert", "replaceGrant", "replaceSession", "rotate", "orphan",
       "dropOrphan", "reuse"} \subseteq Statements \ {"dropGrant", "dropSession"}
  BY DEF Statements
<1>7. CASE BurnCode(r)
  <2>1. req[r].start = "burn"
    BY <1>7 DEF BurnCode, IInv, Sound
  <2> QED
    BY <1>1, <1>2, <1>3, <1>4, <1>6, <1>7, <2>1, RowsAre DEF BurnCode
<1>8. CASE FindExisting(r)
  <2>1. req[r].start = "burn"
    BY <1>8 DEF FindExisting, IInv, Sound, Exchanging
  <2> QED
    BY <1>1, <1>2, <1>3, <1>5, <1>6, <1>8, <2>1 DEF FindExisting
<1>9. CASE ReplaceGrant(r)
  <2>1. req[r].start = "burn"
    BY <1>9 DEF ReplaceGrant, IInv, Sound, Exchanging
  <2> QED
    BY <1>1, <1>3, <1>4, <1>6, <1>9, <2>1, RowsAre DEF ReplaceGrant
<1>10. CASE ReplaceSession(r)
  <2>1. req[r].found.session \in Tokens
    <3>1. req[r].start = "burn" /\ req[r].found.party = PartyOf[req[r].code]
      BY <1>10 DEF ReplaceSession, IInv, Sound, Holds, Exchanging
    <3> QED
      BY <1>1, <3>1, RequestTypes, FoundTypes
  <2> QED
    BY <1>3, <1>4, <1>6, <1>10, <2>1, RowsAre DEF ReplaceSession
<1>11. CASE ConsumeSession(r)
  <2>1. req[r].token \in Tokens
    BY <1>11 DEF ConsumeSession, IInv, Sound
  <2> QED
    BY <1>3, <1>4, <1>6, <1>11, <2>1, RowsAre DEF ConsumeSession
<1>12. CASE FindOrphan(r)
  <2>1. req[r].locks = {}
    BY <1>12 DEF FindOrphan, IInv, Holds
  <2> QED
    BY <1>3, <1>6, <1>12, <2>1 DEF FindOrphan
<1> QED
  BY <1>7, <1>8, <1>9, <1>10, <1>11, <1>12

LEMMA FindByCodeAims ==
    ASSUME IInv, VInv, NEW r \in Requests, FindByCode(r)
    PROVE  VInv'
<1>1. /\ UNCHANGED <<tables, expired, issued, job>> /\ TypeOK /\ req[r].code \in Codes /\ req[r].locks = {}
  BY DEF FindByCode, IInv, Sound, Holds
<1>2. CASE Finish(r)
  BY <1>1, <1>2, GivesUpAims
<1>3. ASSUME NEW p \in Parties, grant[p].code = req[r].code, ClientOf[p] = req[r].client,
             req' = [req EXCEPT ![r].pc = "dropGrant", ![r].found = Remembered(p)]
      PROVE  VInv'
  <2>1. grant[p] # NoGrant
    BY <1>1, <1>3, GrantTypes
  <2>2. Moved(r, "dropGrant", Remembered(p), req[r].locks)
    BY <1>1, <1>3, <2>1, RememberedIs, FindMoves DEF Statements
  <2> QED
    BY <1>1, <1>3, <2>2, FindsAims DEF Moved
<1> QED
  BY <1>2, <1>3 DEF FindByCode

LEMMA DropGrantAims ==
    ASSUME IInv, VInv, NEW r \in Requests, DropGrant(r)
    PROVE  VInv'
<1> DEFINE f == req[r].found
           g == grant[f.party]
<1>1. /\ UNCHANGED <<tables, expired, issued, job>> /\ TypeOK /\ req[r].pc = "dropGrant"
      /\ f \in Found /\ f.party \in Parties /\ Aims(r)
  BY FoundTypes DEF DropGrant, IInv, Sound, VInv
<1>2. CASE /\ g.id = f.id /\ (req[r].kind = "refresh" => g.prev = req[r].token)
           /\ LockAndGoto(r, GrantRow(f.party), "dropSession")
  <2>1. Moved(r, "dropSession", f, req[r].locks \cup {GrantRow(f.party)})
    BY <1>1, <1>2, LockMoves, RowsAre DEF Statements
  <2>2. Aims(r)'
    <3>1. \A p \in Parties : GrantRow(p) \in req[r].locks \cup {GrantRow(f.party)} => p = f.party
      BY <1>1, RowsDiffer DEF Aims, NoGrantLocked
    <3> QED
      BY <1>1, <1>2, <2>1, <3>1 DEF Aims, Moved, tables
  <2> QED
    BY <1>1, <2>1, <2>2, QuietAims DEF Moved
<1>3. CASE Goto(r, "dropSession")
  <2>1. Moved(r, "dropSession", f, req[r].locks)
    BY <1>1, <1>3, GotoMoves DEF Statements
  <2>2. \A p \in Parties : GrantRow(p) \notin req[r].locks
    BY <1>1 DEF Aims, NoGrantLocked
  <2>3. Aims(r)'
    BY <1>1, <2>1, <2>2 DEF Aims, Moved, tables
  <2> QED
    BY <1>1, <2>1, <2>3, QuietAims DEF Moved
<1> QED
  BY <1>1, <1>2, <1>3 DEF DropGrant
\* A transaction ends: the rows of the others stay.
LEMMA CommitAims ==
    ASSUME IInv, VInv, NEW r \in Requests, NEW rows, Commit(r, rows), UNCHANGED <<expired, issued, job>>,
           Free(r, rows)
    PROVE  VInv'
<1>1. TypeOK /\ Finish(r) /\ grant' = GrantsAfter(rows)
  BY DEF IInv, Commit
<1>2. Evolves
  BY CommitShrinks, ShrinkingEvolves
<1>3. \A q \in Requests, p \in Parties : q # r /\ GrantRow(p) \in req[q].locks => grant'[p] = grant[p]
  BY <1>1, RowsAfter DEF Free
<1> QED
  BY <1>1, <1>2, <1>3, IdleAims, OneAims

LEMMA CommitTokenAims ==
    ASSUME IInv, VInv, NEW r \in Requests, NEW p \in Parties, NEW g \in Grant, ~Waits(r),
           GrantRow(p) \in Wanted(r), CommitToken(r, req[r].locks, p, g), UNCHANGED <<expired, job>>,
           \/ g.id = issued + 1
           \/ /\ g.id = grant[p].id /\ g.code = grant[p].code
              /\ grant[p].session \in Tokens /\ sessions[grant[p].session] # NoParty
    PROVE  VInv'
<1> DEFINE rows == req[r].locks
           new == issued + 1
<1>1. /\ TypeOK /\ Finish(r) /\ issued' = new /\ issued \in Nat
      /\ grant' = [GrantsAfter(rows) EXCEPT ![p] = g]
      /\ sessions' = [SessionsAfter(rows) EXCEPT ![new] = p]
  BY Numbers DEF IInv, CommitToken
<1>2. /\ \A q \in Parties : q # p => grant'[q] = IF GrantRow(q) \in rows THEN NoGrant ELSE grant[q]
      /\ grant'[p] = g
      /\ \A t \in Tokens : t # new => sessions'[t] \in {sessions[t], NoParty}
  BY <1>1, RowsAfter
<1>3. Evolves
  <2>1. \A t \in Tokens : t <= issued => sessions'[t] \in {sessions[t], NoParty}
    BY <1>1, <1>2
  <2> QED
    BY <1>1, <1>2, <2>1 DEF Evolves
<1>4. \A q \in Requests, s \in Parties : q # r /\ GrantRow(s) \in req[q].locks => grant'[s] = grant[s]
  <2> SUFFICES ASSUME NEW q \in Requests, NEW s \in Parties, q # r, GrantRow(s) \in req[q].locks
               PROVE  grant'[s] = grant[s]
    OBVIOUS
  <2>1. GrantRow(s) \notin rows /\ GrantRow(s) \notin Wanted(r)
    BY LocksAreFree, WantedIsFree DEF Free
  <2> QED
    BY <1>2, <2>1
<1> QED
  BY <1>1, <1>3, <1>4, IdleAims, OneAims

LEMMA InsertGrantAims ==
    ASSUME IInv, VInv, NEW r \in Requests, InsertGrant(r)
    PROVE  VInv'
<1> DEFINE c == req[r].code
           p == PartyOf[c]
           t == issued + 1
           g == [id |-> t, session |-> t, prev |-> NoToken, code |-> c]
<1>1. c \in Codes /\ p \in Parties /\ ~Waits(r) /\ GrantRow(p) \in Wanted(r)
  BY DEF InsertGrant, IInv, Sound, Exchanging, Wanted
<1>2. CASE RollBack(r) /\ UNCHANGED issued
  BY <1>2, GivesUpAims DEF RollBack, InsertGrant
<1>3. CASE CommitToken(r, req[r].locks, p, g)
  <2>1. t \in Tokens
    BY <1>3 DEF CommitToken, IInv, TypeOK, Tokens
  <2>2. g \in Grant /\ g.id = issued + 1
    BY <1>1, <2>1 DEF Grant
  <2> QED
    BY <1>1, <1>3, <2>2, CommitTokenAims DEF InsertGrant
<1> QED
  BY <1>2, <1>3 DEF InsertGrant

LEMMA RotateGrantAims ==
    ASSUME IInv, VInv, NEW r \in Requests, RotateGrant(r)
    PROVE  VInv'
<1> DEFINE p == req[r].seen.party
           t == req[r].token
           g == [grant[p] EXCEPT !.session = issued + 1, !.prev = t]
<1>1. /\ req[r].pc = "rotate" /\ TypeOK /\ p \in Parties /\ t \in Tokens /\ ~Waits(r)
      /\ req[r].locks = {SessionRow(t)} /\ sessions[t] = p /\ GrantRow(p) \in Wanted(r)
      /\ req[r].start = "consume"
  BY FoundTypes DEF RotateGrant, IInv, Sound, Holds, Wanted
<1>2. CASE RollBack(r) /\ UNCHANGED issued
  BY <1>2, GivesUpAims DEF RollBack, RotateGrant
<1>3. CASE Goto(r, "reuse") /\ UNCHANGED <<tables, issued>>
  <2>1. Moved(r, "reuse", req[r].found, req[r].locks)
    BY <1>1, <1>3, GotoMoves DEF Statements
  <2>2. \A q \in Parties : GrantRow(q) \notin req[r].locks
    BY <1>1, RowsDiffer
  <2> QED
    BY <1>1, <1>3, <2>1, <2>2, GoesOnAims DEF RotateGrant
<1>4. CASE StillCurrent(r) /\ CommitToken(r, req[r].locks, p, g)
  <2>1. issued + 1 \in Tokens
    BY <1>4 DEF CommitToken, IInv, TypeOK, Tokens
  <2>2. grant[p].session = t /\ grant[p] \in Grant
    BY <1>1, <1>4, GrantTypes DEF StillCurrent
  <2>3. g \in Grant /\ g.id = grant[p].id /\ g.code = grant[p].code
    BY <1>1, <2>1, <2>2 DEF Grant
  <2>4. sessions[grant[p].session] # NoParty
    BY <1>1, <2>2
  <2> QED
    BY <1>1, <1>4, <2>2, <2>3, <2>4, CommitTokenAims DEF RotateGrant
<1> QED
  BY <1>2, <1>3, <1>4 DEF RotateGrant

LEMMA LateAims ==
    ASSUME IInv, RInv, VInv, NEW r \in Requests, DropOrphan(r) \/ FindReused(r) \/ DropSession(r)
    PROVE  VInv'
<1>1. CASE DropOrphan(r)
  <2> DEFINE rows == IF StillCurrent(r) THEN {GrantRow(req[r].seen.party)} ELSE {}
  <2>1. Commit(r, rows) /\ UNCHANGED <<expired, issued, job>> /\ ~Waits(r) /\ req[r].pc = "dropOrphan"
    BY <1>1 DEF DropOrphan
  <2>2. Free(r, rows)
    BY <2>1, WantedIsFree DEF Wanted, Free
  <2> QED
    BY <2>1, <2>2, CommitAims
<1>2. CASE DropSession(r)
  <2> DEFINE rows == req[r].locks \cup {SessionRow(req[r].found.session)}
  <2>1. Commit(r, rows) /\ UNCHANGED <<expired, issued, job>> /\ ~Waits(r) /\ req[r].pc = "dropSession"
    BY <1>2 DEF DropSession
  <2>2. Free(r, rows)
    BY <2>1, WantedIsFree, LocksAreFree DEF Wanted, Free
  <2> QED
    BY <2>1, <2>2, CommitAims
<1>3. CASE FindReused(r)
  <2>1. /\ req[r].pc = "reuse" /\ UNCHANGED <<expired, issued, job>> /\ TypeOK /\ Sound(r) /\ Aims(r)
        /\ req[r].token \in Tokens /\ req[r].kind # "exchange"
    BY <1>3 DEF FindReused, IInv, Sound, VInv, RInv, FitsAll, KindFits
  <2>2. CASE Commit(r, req[r].locks)
    BY <2>1, <2>2, LocksAreFree, CommitAims
  <2>3. ASSUME NEW p \in ReusedGrants(r), UNCHANGED tables,
               req' = [req EXCEPT ![r].pc = "dropGrant", ![r].found = Remembered(p)]
        PROVE  VInv'
    <3>1. p \in Parties /\ grant[p] # NoGrant /\ ClientOf[p] = req[r].client
      BY <2>1, GrantTypes DEF ReusedGrants
    <3>2. Moved(r, "dropGrant", Remembered(p), req[r].locks)
      BY <2>1, <2>3, <3>1, RememberedIs, FindMoves DEF Statements
    <3>3. Alone(r) /\ req'[r].pc = "dropGrant" /\ req'[r].found = Remembered(p)
          /\ req'[r].client = req[r].client /\ req'[r].kind # "exchange"
          /\ \A q \in Parties : GrantRow(q) \notin req'[r].locks
      BY <2>1, <3>2 DEF Moved, Aims, NoGrantLocked
    <3> QED
      BY <2>1, <2>3, <3>1, <3>3, FindsAims
  <2> QED
    BY <1>3, <2>2, <2>3 DEF FindReused
<1> QED
  BY <1>1, <1>2, <1>3
LEMMA VictimAims ==
    ASSUME IInv, VInv, NEW r \in Requests, Victim(r)
    PROVE  VInv'
<1>1. UNCHANGED <<tables, expired, issued, job>> /\ Sound(r) /\ TypeOK /\ Aims(r)
  BY DEF Victim, IInv, VInv
<1>2. req[r].pc # "idle"
  BY DEF Victim, Deadlocked, WaitsFor, Wanted
<1>3. CASE Finish(r)
  BY <1>1, <1>3, GivesUpAims
<1>4. CASE /\ req[r].tries < MaxAttempts
           /\ req' = [req EXCEPT ![r].pc = req[r].start, ![r].locks = {}, ![r].tries = @ + 1]
  <2>1. Moved(r, req[r].start, req[r].found, {})
    BY <1>1, <1>2, <1>4, RestartMoves
  <2>2. req[r].start \in {"burn", "consume", "reuse", "dropGrant"}
    BY <1>1, <1>2, RequestTypes DEF Sound, Request
  <2>3. Aims(r)'
    BY <1>1, <2>1, <2>2 DEF Moved, Aims, NoGrantLocked, tables
  <2> QED
    BY <1>1, <2>1, <2>3, QuietAims DEF Moved
<1> QED
  BY <1>3, <1>4 DEF Victim

-----------------------------------------------------------------------------
(* The job, time and the user                                              *)

LEMMA BackgroundAims ==
    ASSUME IInv, VInv, UNCHANGED req, Shrinks, JobAims',
           \A t \in expired' \cap Tokens : t \in expired \/ t <= issued,
           \A r \in Requests, p \in Parties :
              req[r].pc = "dropSession" /\ req[r].found.party = p /\ GrantRow(p) \in req[r].locks =>
                 grant'[p] = grant[p]
    PROVE  VInv'
<1>1. Evolves
  BY ShrinkingEvolves
<1>2. \A r \in Requests : Aims(r)'
  <2> SUFFICES ASSUME NEW r \in Requests PROVE Aims(r)'
    OBVIOUS
  <2>1. Aims(r) /\ req'[r] = req[r]
    BY DEF VInv
  <2>2. req[r].pc = "dropSession" => req[r].found.party \in Parties
    BY FoundTypes DEF IInv, Sound
  <2> QED
    BY <1>1, <2>1, <2>2, AimsStay
<1>3. IdsAreIssued'
  BY <1>1, IdsStay
<1> QED
  BY <1>2, <1>3 DEF VInv

\* The grants stay.
LEMMA GrantsStay ==
    ASSUME IInv, VInv, UNCHANGED <<grant, expired, req>>, Shrinks, job' = job \/ JobAims'
    PROVE  VInv'
BY ShrinkingEvolves, JobAimsStay, BackgroundAims

LEMMA DeleteGrantsAims ==
    ASSUME IInv, VInv, NEW from, NEW to \in {"orphans", "clients"}, DeleteGrants(from, to)
    PROVE  VInv'
<1> DEFINE doomed == {g.party : g \in {h \in job.grants : grant[h.party].id = h.id}}
<1>1. /\ TypeOK /\ UNCHANGED <<clients, code, sessions, expired, issued, req>> /\ Shrinks
      /\ job'.pc = to /\ \A p \in doomed : ~Locked(GrantRow(p))
      /\ \A p \in Parties : grant'[p] = IF p \in doomed THEN NoGrant ELSE grant[p]
  BY DeleteGrantsKeeps DEF IInv, TypeOK, DeleteGrants, Job
<1>2. JobAims'
  BY <1>1 DEF JobAims
<1> QED
  BY <1>1, <1>2, BackgroundAims DEF Locked

LEMMA DeleteClientsAims ==
    ASSUME IInv, VInv, DeleteClients
    PROVE  VInv'
<1>1. /\ Shrinks /\ UNCHANGED <<req, expired>> /\ job' = NoJob
      /\ \A r \in Requests : req[r].locks # {} => req[r].client \notin job.clients
      /\ grant' = [p \in Parties |-> IF ClientOf[p] \in job.clients THEN NoGrant ELSE grant[p]]
  BY DeleteClientsKeeps DEF DeleteClients
<1>2. JobAims'
  BY <1>1 DEF JobAims, NoJob
<1>3. ASSUME NEW r \in Requests, NEW p \in Parties, req[r].pc = "dropSession",
             req[r].found.party = p, GrantRow(p) \in req[r].locks
      PROVE  grant'[p] = grant[p]
  <2>1. ClientOf[p] = req[r].client
    BY <1>3 DEF VInv, Aims
  <2> QED
    BY <1>1, <1>3, <2>1
<1> QED
  BY <1>1, <1>2, <1>3, BackgroundAims

LEMMA SelectOrphansAims ==
    ASSUME IInv, VInv, SelectOrphans
    PROVE  VInv'
<1>1. TypeOK /\ Shrinks /\ UNCHANGED <<tables, grant, sessions, expired, issued, req>>
      /\ job' = [job EXCEPT !.pc = "dropOrphans",
                            !.grants = Remember({p \in Parties : grant[p] # NoGrant
                                                   /\ sessions[grant[p].session] = NoParty})]
  BY SelectOrphansKeeps DEF SelectOrphans, IInv, tables
<1>2. job'.pc = "dropOrphans"
      /\ job'.grants = Remember({p \in Parties : grant[p] # NoGrant /\ sessions[grant[p].session] = NoParty})
  BY <1>1 DEF TypeOK, Job
<1>3. ASSUME NEW f \in job'.grants
      PROVE  /\ f.id <= issued /\ f.session <= issued
             /\ sessions[f.session] = NoParty
             /\ grant[f.party].id = f.id => grant[f.party].session = f.session
  <2>1. PICK p \in Parties : grant[p] # NoGrant /\ sessions[grant[p].session] = NoParty /\ f = Remembered(p)
    BY <1>2, <1>3 DEF Remember
  <2>2. f.party = p /\ f.id = grant[p].id /\ f.session = grant[p].session
    BY <2>1 DEF Remembered
  <2>3. grant[p].session \in Tokens /\ Known(p, grant[p].session)
    BY <1>1, <2>1, GrantTypes DEF Known
  <2> QED
    BY <2>1, <2>2, <2>3 DEF VInv, IdsAreIssued, IInv, Owned
<1>4. JobAims'
  BY <1>1, <1>2, <1>3 DEF JobAims
<1> QED
  BY <1>1, <1>4, GrantsStay

LEMMA CleanupAims ==
    ASSUME IInv, VInv, Cleanup
    PROVE  VInv'
<1>1. TypeOK /\ job \in Job
  BY DEF IInv, TypeOK
<1>2. CASE CleanCodes
  <2>1. job'.pc = "expired" /\ UNCHANGED <<grant, expired, req>>
    BY <1>1, <1>2 DEF CleanCodes, JobStep, Job
  <2> QED
    BY <1>2, <2>1, CleanCodesKeeps, GrantsStay DEF JobAims
<1>3. CASE SelectExpired
  <2>1. job'.pc = "sessions" /\ job'.grants = Remember({p \in Parties : grant[p].session \in expired})
        /\ UNCHANGED <<grant, expired, req>>
    BY <1>1, <1>3 DEF SelectExpired, Job, tables
  <2>2. JobAims'
    BY <2>1 DEF JobAims, Remember, Remembered
  <2> QED
    BY <1>3, <2>1, <2>2, SelectExpiredKeeps, GrantsStay
<1>4. CASE DeleteExpiredSessions
  <2>1. job.pc = "sessions" /\ job'.pc = "grants" /\ job'.grants = job.grants
        /\ UNCHANGED <<grant, expired, req>>
    BY <1>1, <1>4 DEF DeleteExpiredSessions, JobStep, Job
  <2>2. JobAims'
    BY <2>1 DEF JobAims, VInv
  <2> QED
    BY <1>4, <2>1, <2>2, DeleteExpiredSessionsKeeps, GrantsStay
<1>5. CASE SelectClients
  <2>1. job'.pc = "dropClients" /\ UNCHANGED <<grant, expired, req>>
    BY <1>1, <1>5 DEF SelectClients, Job, tables
  <2> QED
    BY <1>5, <2>1, SelectClientsKeeps, GrantsStay DEF JobAims
<1> QED
  BY <1>2, <1>3, <1>4, <1>5, DeleteGrantsAims, SelectOrphansAims, DeleteClientsAims
     DEF Cleanup, DeleteExpiredGrants, DeleteOrphans

LEMMA ExpireAims ==
    ASSUME IInv, VInv, NEW x \in Tokens \cup Codes, Expire(x)
    PROVE  VInv'
<1>1. /\ Shrinks /\ UNCHANGED <<grant, req, job>> /\ expired' = expired \cup {x}
      /\ x \in Codes \/ x \in 1 .. issued
  BY ExpireKeeps DEF Expire, tables
<1>2. JobAims'
  BY <1>1, ShrinkingEvolves, JobAimsStay
<1>3. \A c \in Codes : c \notin Tokens
  BY DEF Tokens
<1>4. \A t \in expired' \cap Tokens : t \in expired \/ t <= issued
  BY <1>1, <1>3 DEF IInv, TypeOK
<1> QED
  BY <1>1, <1>2, <1>4, BackgroundAims

-----------------------------------------------------------------------------
(* The invariant                                                           *)

LEMMA StepAims ==
    ASSUME IInv, RInv, VInv, NEW r \in Requests, Step(r)
    PROVE  VInv'
BY EarlyAims, FindByCodeAims, InsertGrantAims, RotateGrantAims, DropGrantAims, LateAims DEF Step

LEMMA StutterAims ==
    ASSUME IInv, VInv, UNCHANGED vars
    PROVE  VInv'
BY NothingChanged, GrantsStay DEF vars, tables

LEMMA NextAims ==
    ASSUME IInv, RInv, VInv, [Next]_vars
    PROVE  VInv'
<1>1. ASSUME NEW c \in Codes, Decide(c) PROVE VInv'
  BY <1>1, DecideKeeps, GrantsStay DEF Decide
<1>2. CASE PurgeSessions
  BY <1>2, PurgeSessionsKeeps, GrantsStay DEF PurgeSessions
<1>3. ASSUME NEW u, NEW keep, ClearUserSessions(u, keep) PROVE VInv'
  BY <1>3, ClearUserSessionsKeeps, GrantsStay DEF ClearUserSessions
<1> QED
  BY <1>1, <1>2, <1>3, StutterAims, CallAims, StepAims, VictimAims, CleanupAims, ExpireAims DEF Next

LEMMA BeginsAims ==
    ASSUME Init
    PROVE  VInv
<1>1. \A r \in Requests : Aims(r)
  BY DEF Init, Idle, Aims
<1>2. IdsAreIssued
  BY Nulls DEF Init, IdsAreIssued, NoToken
<1>3. JobAims
  BY DEF Init, NoJob, JobAims
<1> QED
  BY <1>1, <1>2, <1>3 DEF VInv

\* What is about to be deleted, by a request or by the job, has been selected for a
\* reason that still holds.
THEOREM DeletionInvariant == Spec => []VInv
<1>1. Init => VInv
  BY BeginsAims
<1>2. IInv /\ RInv /\ VInv /\ [Next]_vars => VInv'
  BY NextAims
<1> QED
  BY <1>1, <1>2, Invariant, ReuseInvariant, PTL DEF Spec
-----------------------------------------------------------------------------
(* Step by step                                                            *)

Lasts(p) ==
    Valid(p) =>
      \/ Valid(p)'
      \/ grant[p].session \in expired'
      \/ grant'[p] = NoGrant /\ (Ended(p) \/ TakenForExpired(p))
      \/ Cleared(p)
      \/ ClientOf[p] \notin clients'

\* Grant and session stay.
LEMMA SameLasts ==
    ASSUME NEW p \in Parties,
           Valid(p) => grant'[p] = grant[p] /\ sessions'[grant[p].session] = sessions[grant[p].session]
    PROVE  Lasts(p)
BY DEF Lasts, Valid

LEMMA ValidIs ==
    ASSUME IInv, NEW p \in Parties, Valid(p)
    PROVE  /\ grant[p] \in Grant /\ grant[p].session \in Tokens /\ grant[p].session <= issued
           /\ grant[p].session \notin expired /\ sessions[grant[p].session] = p
<1>1. grant[p] \in Grant /\ grant[p].session \in Tokens
  BY GrantTypes DEF IInv, Valid
<1>2. Known(p, grant[p].session)
  BY DEF Known
<1> QED
  BY <1>1, <1>2 DEF IInv, Owned, Valid

\* Neither the grant nor its session is among the rows that change.
LEMMA OthersLast ==
    ASSUME IInv, NEW p \in Parties, NEW r \in Requests, NEW rows, Commit(r, rows),
           Valid(p) => GrantRow(p) \notin rows /\ SessionRow(grant[p].session) \notin rows
    PROVE  Lasts(p)
<1> SUFFICES ASSUME Valid(p)
             PROVE  grant'[p] = grant[p] /\ sessions'[grant[p].session] = sessions[grant[p].session]
  BY SameLasts
<1> QED
  BY ValidIs, RowsAfter DEF Commit, IInv

LEMMA DropOrphanLasts ==
    ASSUME IInv, RInv, NEW p \in Parties, NEW r \in Requests, DropOrphan(r)
    PROVE  Lasts(p)
<1> DEFINE rows == IF StillCurrent(r) THEN {GrantRow(req[r].seen.party)} ELSE {}
<1>1. Commit(r, rows) /\ req[r].pc = "dropOrphan"
  BY DEF DropOrphan
<1>2. sessions[req[r].token] = NoParty
  BY <1>1 DEF RInv, FitsAll, Replays
<1>3. Valid(p) => GrantRow(p) \notin rows
  BY <1>2, RowsDiffer DEF StillCurrent, Valid
<1>4. SessionRow(grant[p].session) \notin rows
  BY RowsDiffer
<1> QED
  BY <1>1, <1>3, <1>4, OthersLast

LEMMA FindReusedLasts ==
    ASSUME IInv, RInv, VInv, NEW p \in Parties, NEW r \in Requests, FindReused(r)
    PROVE  Lasts(p)
<1>1. req[r].pc = "reuse" /\ GrantRow(p) \notin req[r].locks
  BY DEF FindReused, VInv, Aims, NoGrantLocked
<1>2. CASE Commit(r, req[r].locks)
  BY <1>1, <1>2, LocksFit, OthersLast
<1>3. CASE UNCHANGED tables
  BY <1>3, SameLasts DEF tables
<1> QED
  BY <1>2, <1>3 DEF FindReused

\* A grant that is deleted has been given up by its client.
LEMMA DropSessionLasts ==
    ASSUME IInv, RInv, VInv, NEW p \in Parties, NEW r \in Requests, DropSession(r)
    PROVE  Lasts(p)
<1> DEFINE f == req[r].found
           rows == req[r].locks \cup {SessionRow(f.session)}
<1>1. /\ Commit(r, rows) /\ req[r].pc = "dropSession" /\ TypeOK /\ Finish(r)
      /\ Sound(r) /\ KindFits(r) /\ Aims(r)
  BY DEF DropSession, Commit, IInv, RInv, FitsAll, VInv
<1>2. CASE GrantRow(p) \in req[r].locks
  <2>1. p = f.party /\ ClientOf[p] = req[r].client /\ grant[p].id = f.id
    BY <1>1, <1>2 DEF Aims
  <2>2. req[r].start \in {"burn", "consume", "reuse", "dropGrant"}
    BY <1>1, RequestTypes DEF Sound, Request
  <2>3. req[r].kind = "revoke" \/ req[r].code = grant[p].code \/ req[r].token = grant[p].prev
    BY <1>1, <1>2, <2>1, <2>2 DEF Aims, KindFits
  <2>4. req[r] # Idle /\ req'[r] = Idle
    <3>1. Idle.pc = "idle"
      BY DEF Idle
    <3> QED
      BY <1>1, <3>1, FinishMoves
  <2>5. Ended(p)
    BY <2>1, <2>3, <2>4 DEF Ended
  <2>6. grant'[p] = NoGrant
    BY <1>1, <1>2, RowsAfter DEF Commit
  <2> QED
    BY <2>5, <2>6 DEF Lasts
<1>3. CASE GrantRow(p) \notin req[r].locks
  <2>1. SessionRow(grant[p].session) \notin rows /\ GrantRow(p) \notin rows
    BY <1>1, <1>3, DropSessionTakes, RowsDiffer
  <2> QED
    BY <1>1, <2>1, OthersLast
<1> QED
  BY <1>2, <1>3

\* The grant with a new token is valid, the others stay.
LEMMA CommitTokenLasts ==
    ASSUME IInv, VInv, NEW p \in Parties, NEW r \in Requests, NEW q \in Parties, NEW g \in Grant,
           CommitToken(r, req[r].locks, q, g), expired' = expired, g.session = issued + 1,
           q # p => GrantRow(p) \notin req[r].locks,
           \A t \in Tokens : SessionRow(t) \in req[r].locks => Known(q, t)
    PROVE  Lasts(p)
<1> DEFINE rows == req[r].locks
           new == issued + 1
<1>1. /\ TypeOK /\ new \in Tokens /\ issued \in Nat
      /\ grant' = [GrantsAfter(rows) EXCEPT ![q] = g]
      /\ sessions' = [SessionsAfter(rows) EXCEPT ![new] = q]
  BY Numbers DEF IInv, CommitToken, Tokens, TypeOK
<1>2. /\ grant'[q] = g /\ sessions'[new] = q
      /\ p # q => grant'[p] = IF GrantRow(p) \in rows THEN NoGrant ELSE grant[p]
      /\ \A t \in Tokens : t # new => sessions'[t] = IF SessionRow(t) \in rows THEN NoParty ELSE sessions[t]
  BY <1>1, RowsAfter
<1>3. CASE p = q
  <2>1. new \notin expired
    BY <1>1 DEF VInv, IdsAreIssued
  <2>2. Valid(p)'
    BY <1>2, <1>3, <2>1, Nulls DEF Valid
  <2> QED
    BY <2>2 DEF Lasts
<1>4. CASE p # q
  <2>1. ASSUME Valid(p)
        PROVE  grant'[p] = grant[p] /\ sessions'[grant[p].session] = sessions[grant[p].session]
    <3>1. grant[p].session \in Tokens /\ grant[p].session <= issued /\ Known(p, grant[p].session)
      BY <2>1, ValidIs DEF Known
    <3>2. SessionRow(grant[p].session) \notin rows
      BY <1>4, <3>1 DEF IInv, Owned
    <3> QED
      BY <1>1, <1>2, <1>4, <3>1, <3>2
  <2> QED
    BY <2>1, SameLasts
<1> QED
  BY <1>3, <1>4

LEMMA InsertGrantLasts ==
    ASSUME IInv, VInv, NEW p \in Parties, NEW r \in Requests, InsertGrant(r)
    PROVE  Lasts(p)
<1> DEFINE c == req[r].code
           q == PartyOf[c]
           t == issued + 1
           g == [id |-> t, session |-> t, prev |-> NoToken, code |-> c]
<1>1. c \in Codes /\ q \in Parties /\ expired' = expired /\ req[r].pc = "insert"
  BY DEF InsertGrant, IInv, Sound, Exchanging
<1>2. CASE RollBack(r)
  BY <1>2, SameLasts DEF RollBack, tables
<1>3. CASE CommitToken(r, req[r].locks, q, g)
  <2>1. t \in Tokens
    BY <1>3 DEF CommitToken, IInv, TypeOK, Tokens
  <2>2. g \in Grant /\ g.session = issued + 1
    BY <1>1, <2>1 DEF Grant
  <2>3. \A row \in req[r].locks :
           \/ row \in {CodeRow(c), GrantRow(q)}
           \/ row = SessionRow(req[r].found.session) /\ req[r].found.party = q
    BY <1>1 DEF IInv, Holds
  <2>4. q # p => GrantRow(p) \notin req[r].locks
    BY <2>3, RowsDiffer
  <2>5. \A s \in Tokens : SessionRow(s) \in req[r].locks => Known(q, s)
    BY <2>3, RowsDiffer DEF Known, Remembers
  <2> QED
    BY <1>1, <1>3, <2>2, <2>4, <2>5, CommitTokenLasts
<1> QED
  BY <1>2, <1>3 DEF InsertGrant

LEMMA RotateGrantLasts ==
    ASSUME IInv, VInv, NEW p \in Parties, NEW r \in Requests, RotateGrant(r)
    PROVE  Lasts(p)
<1> DEFINE q == req[r].seen.party
           t == req[r].token
           g == [grant[q] EXCEPT !.session = issued + 1, !.prev = t]
<1>1. /\ req[r].pc = "rotate" /\ TypeOK /\ q \in Parties /\ t \in Tokens /\ expired' = expired
      /\ req[r].locks = {SessionRow(t)} /\ sessions[t] = q
  BY FoundTypes DEF RotateGrant, IInv, Sound, Holds
<1>2. CASE UNCHANGED tables
  BY <1>2, SameLasts DEF tables
<1>3. CASE StillCurrent(r) /\ CommitToken(r, req[r].locks, q, g)
  <2>1. issued + 1 \in Tokens
    BY <1>3 DEF CommitToken, IInv, TypeOK, Tokens
  <2>2. grant[q].session = t /\ grant[q] \in Grant
    BY <1>1, <1>3, GrantTypes DEF StillCurrent
  <2>3. g \in Grant /\ g.session = issued + 1
    BY <1>1, <2>1, <2>2 DEF Grant
  <2>4. /\ GrantRow(p) \notin req[r].locks
        /\ \A s \in Tokens : SessionRow(s) \in req[r].locks => Known(q, s)
    BY <1>1, RowsDiffer DEF Known
  <2> QED
    BY <1>1, <1>3, <2>3, <2>4, CommitTokenLasts
<1> QED
  BY <1>2, <1>3 DEF RotateGrant, RollBack

LEMMA RequestsLast ==
    ASSUME IInv, RInv, VInv, NEW p \in Parties, NEW r \in Requests, Call(r) \/ Step(r) \/ Victim(r)
    PROVE  Lasts(p)
<1>1. CASE UNCHANGED tables
  BY <1>1, SameLasts DEF tables
<1>2. Call(r) \/ Victim(r) => UNCHANGED tables
  BY Zenon DEF Call, ExchangeCode, RefreshToken, RevokeToken, Victim
<1>3. \/ BurnCode(r) \/ FindByCode(r) \/ FindExisting(r) \/ ReplaceGrant(r) \/ ReplaceSession(r)
      \/ ConsumeSession(r) \/ FindOrphan(r) \/ DropGrant(r)
      => UNCHANGED tables
  BY Zenon DEF BurnCode, FindByCode, FindExisting, ReplaceGrant, ReplaceSession, ConsumeSession,
     FindOrphan, DropGrant
<1> QED
  BY <1>1, <1>2, <1>3, InsertGrantLasts, DropOrphanLasts, RotateGrantLasts, FindReusedLasts,
     DropSessionLasts DEF Step

\* Sessions are deleted beside the requests.
LEMMA SessionsLast ==
    ASSUME IInv, NEW p \in Parties, NEW doomed,
           sessions' = [t \in Tokens |-> IF t \in doomed THEN NoParty ELSE sessions[t]], grant' = grant,
           Valid(p) => grant[p].session \notin doomed
    PROVE  Lasts(p)
BY ValidIs, SameLasts

\* The job has seen that a grant has expired, and takes it if it has its id still.
LEMMA DeleteGrantsLasts ==
    ASSUME IInv, VInv, NEW p \in Parties, DeleteExpiredGrants \/ DeleteOrphans
    PROVE  Lasts(p)
<1> DEFINE doomed == {g.party : g \in {h \in job.grants : grant[h.party].id = h.id}}
<1>1. /\ grant' = [q \in Parties |-> IF q \in doomed THEN NoGrant ELSE grant[q]] /\ sessions' = sessions
      /\ job.pc \in {"grants", "dropOrphans"}
  BY DEF DeleteExpiredGrants, DeleteOrphans, DeleteGrants
<1>2. CASE p \notin doomed
  BY <1>1, <1>2, SameLasts
<1>3. CASE p \in doomed
  <2>1. PICK f \in job.grants : f.party = p /\ grant[p].id = f.id
    BY <1>3
  <2>2. grant'[p] = NoGrant
    BY <1>1, <1>3
  <2>3. CASE job.pc = "grants" /\ f.session # grant[p].session
    BY <2>1, <2>2, <2>3 DEF Lasts, TakenForExpired
  <2>4. CASE job.pc = "grants" /\ f.session = grant[p].session
    BY <2>1, <2>4 DEF VInv, JobAims, Lasts, Valid
  <2>5. CASE job.pc = "dropOrphans"
    BY <2>1, <2>5 DEF VInv, JobAims, Lasts, Valid
  <2> QED
    BY <1>1, <2>3, <2>4, <2>5
<1> QED
  BY <1>2, <1>3

LEMMA DeleteClientsLasts ==
    ASSUME IInv, NEW p \in Parties, DeleteClients
    PROVE  Lasts(p)
<1> DEFINE gone(q) == ClientOf[q] \in job.clients
<1>1. /\ clients' = clients \ job.clients
      /\ grant' = [q \in Parties |-> IF gone(q) THEN NoGrant ELSE grant[q]]
      /\ sessions' = [t \in Tokens |->
                         IF sessions[t] # NoParty /\ gone(sessions[t]) THEN NoParty ELSE sessions[t]]
  BY DEF DeleteClients
<1>2. CASE gone(p)
  BY <1>1, <1>2 DEF Lasts
<1>3. CASE ~gone(p)
  BY <1>1, <1>3, ValidIs, SameLasts
<1> QED
  BY <1>2, <1>3

LEMMA CleanupLasts ==
    ASSUME IInv, VInv, NEW p \in Parties, Cleanup
    PROVE  Lasts(p)
<1>1. CASE CleanCodes \/ SelectExpired \/ SelectOrphans \/ SelectClients
  <2>1. grant' = grant /\ sessions' = sessions
    BY <1>1, Zenon DEF CleanCodes, SelectExpired, SelectOrphans, SelectClients, tables
  <2> QED
    BY <2>1, SameLasts
<1>2. CASE DeleteExpiredSessions
  <2>1. Valid(p) => grant[p].session \notin {g.session : g \in job.grants}
    BY <1>2 DEF DeleteExpiredSessions, JobStep, VInv, JobAims, Valid
  <2> QED
    BY <1>2, <2>1, SessionsLast DEF DeleteExpiredSessions
<1> QED
  BY <1>1, <1>2, DeleteGrantsLasts, DeleteClientsLasts DEF Cleanup

LEMMA ClearUserSessionsLasts ==
    ASSUME IInv, NEW p \in Parties, NEW u \in Users, NEW keep \in Tokens \cup {NoToken},
           ClearUserSessions(u, keep)
    PROVE  Lasts(p)
<1> DEFINE doomed == {t \in Tokens \ {keep} : sessions[t] # NoParty /\ UserOf[sessions[t]] = u}
<1>1. CASE Valid(p) /\ grant[p].session \in doomed
  <2>1. keep # grant[p].session /\ UserOf[p] = u
    BY <1>1, ValidIs
  <2>2. Cleared(p)
    BY <2>1 DEF Cleared
  <2> QED
    BY <2>2 DEF Lasts
<1>2. CASE Valid(p) => grant[p].session \notin doomed
  BY <1>2, SessionsLast DEF ClearUserSessions
<1> QED
  BY <1>1, <1>2

LEMMA NextLasts ==
    ASSUME IInv, RInv, VInv, NEW p \in Parties, [Next]_vars
    PROVE  Lasts(p)
<1>1. ASSUME NEW c \in Codes, Decide(c) PROVE Lasts(p)
  BY <1>1, SameLasts DEF Decide
<1>2. ASSUME NEW x, Expire(x) PROVE Lasts(p)
  BY <1>2, SameLasts DEF Expire, tables
<1>3. CASE UNCHANGED vars
  BY <1>3, SameLasts DEF vars, tables
<1>4. CASE PurgeSessions
  <2> DEFINE doomed == {t \in expired \cap Tokens : sessions[t] # NoParty}
  <2>1. Valid(p) => grant[p].session \notin doomed
    BY DEF Valid
  <2> QED
    BY <1>4, <2>1, SessionsLast DEF PurgeSessions
<1> QED
  BY <1>1, <1>2, <1>3, <1>4, RequestsLast, CleanupLasts, ClearUserSessionsLasts DEF Next

\* A grant that can be refreshed and whose session gives access keeps both until its
\* token expires, its own client ends it, its user's sessions are cleared or its
\* client is removed: no exchange, refresh or revocation of another grant, and no
\* statement of the job, takes either, but for the deletion of a grant that was
\* expired when the job selected it (exchangeCode, refreshToken, revokeToken, cleanup,
\* UsersService.clearUserSessions).
THEOREM ValidGrantsLast == Spec => ValidGrantLasts
<1>1. ASSUME IInv, RInv, VInv, [Next]_vars
      PROVE  \A p \in Parties : Lasts(p)
  BY <1>1, NextLasts
<1>2. IInv /\ RInv /\ VInv /\ [Next]_vars =>
        [\A p \in Parties : Valid(p) =>
          \/ Valid(p)'
          \/ grant[p].session \in expired'
          \/ grant'[p] = NoGrant /\ (Ended(p) \/ TakenForExpired(p))
          \/ Cleared(p)
          \/ ClientOf[p] \notin clients']_vars
  BY <1>1 DEF Lasts
<1> QED
  BY <1>2, Invariant, ReuseInvariant, DeletionInvariant, PTL DEF Spec, ValidGrantLasts
=============================================================================
