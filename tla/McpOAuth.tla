------------------------------ MODULE McpOAuth ------------------------------
(***************************************************************************)
(* The OAuth server for MCP clients: codes, grants and sessions in the     *)
(* database, the three requests of the token endpoints and the cleanup     *)
(* job.  api/src/services/mcp-oauth/index.ts.  Sessions are also deleted   *)
(* by AuthenticationService and UsersService, which know of no grants.     *)
(*                                                                         *)
(* A database transaction is a sequence of statements, one action each.    *)
(* A statement sees what is committed and what its own transaction did,    *)
(* locks the rows it changes until the end of the transaction, and waits   *)
(* for rows that another one has locked (READ COMMITTED).  All writes of   *)
(* a transaction but the last are a burned code or a deleted row, so that  *)
(* the set of its locked rows says what it has done.  The last statement   *)
(* and the commit are one action.                                          *)
(***************************************************************************)
EXTENDS Naturals, FiniteSets

CONSTANTS
    Clients,        \* registered OAuth clients
    Confidential,   \* the ones that authenticate with a secret
    Parties,        \* pairs of a client and a user
    ClientOf,       \* the client of a party
    Users, UserOf,  \* users, and the user of a party
    Codes,          \* authorization codes
    PartyOf,        \* the client and user a code is issued for
    Requests,       \* requests in progress
    Operations,     \* bound: what clients ask for
    MaxTokens,      \* bound: number of refresh tokens issued
    MaxAttempts,    \* transaction.ts: restarts of a deadlocked transaction
    Events,         \* bound: what else happens
    RemoveIdle,     \* MCP_OAUTH_CLIENT_IDLE_TTL > 0
    NoCode, NoParty

ASSUME PartyAssumption ==
    /\ Confidential \subseteq Clients
    /\ ClientOf \in [Parties -> Clients]
    /\ UserOf \in [Parties -> Users]
    /\ PartyOf \in [Codes -> Parties]
ASSUME BoundAssumption == MaxTokens \in Nat /\ MaxAttempts \in Nat /\ RemoveIdle \in BOOLEAN
ASSUME NullAssumption ==
    NoCode \notin Codes /\ NoParty \notin Parties /\ Codes \cap (0 .. MaxTokens) = {}

VARIABLES
    clients,    \* rows of directus_oauth_clients
    code,       \* per code: no row yet, a row without used_at, with used_at, deleted
    grant,      \* directus_oauth_tokens; (client, user) is unique
    sessions,   \* directus_sessions of OAuth clients: the party of each token's row
    expired,    \* tokens and codes whose expires_at has passed
    issued,     \* number of tokens committed so far: they are 1 .. issued
    req,        \* per request: where its handler is
    job         \* the cleanup job

tables == <<clients, code, grant, sessions>>
vars == <<tables, expired, issued, req, job>>

-----------------------------------------------------------------------------
(* Rows, requests and the job                                              *)

Tokens == 1 .. MaxTokens
NoToken == 0

\* The id of a grant is the token it was created with.
Grant == [id : Tokens, session : Tokens, prev : Tokens \cup {NoToken}, code : Codes]
NoGrant == [id |-> NoToken, session |-> NoToken, prev |-> NoToken, code |-> NoCode]

\* A grant as a handler remembers it.
Found == [party : Parties, id : Tokens, session : Tokens]
Nothing == [party |-> NoParty, id |-> NoToken, session |-> NoToken]
Remembered(p) == [party |-> p, id |-> grant[p].id, session |-> grant[p].session]

Row == ({"code"} \X Codes) \cup ({"grant"} \X Parties) \cup ({"session"} \X Tokens)

Request ==
    [pc : {"idle", "burn", "codeReplay", "existing", "replaceGrant", "replaceSession", "insert",
           "consume", "orphan", "dropOrphan", "rotate", "reuse", "dropGrant", "dropSession"},
     kind : {"none", "exchange", "refresh", "revoke"},
     start : {"none", "burn", "consume", "reuse", "dropGrant"},   \* first statement
     client : Clients \cup {NoParty}, code : Codes \cup {NoCode}, token : Tokens \cup {NoToken},
     seen : Found \cup {Nothing},     \* the grant read before the transaction
     found : Found \cup {Nothing},    \* the grant read in the transaction
     locks : SUBSET Row, tries : 0 .. MaxAttempts]
Idle == [pc |-> "idle", kind |-> "none", start |-> "none", client |-> NoParty, code |-> NoCode,
         token |-> NoToken, seen |-> Nothing, found |-> Nothing, locks |-> {}, tries |-> 0]

Job == [pc : {"idle", "expired", "sessions", "grants", "orphans", "dropOrphans", "clients", "dropClients"},
        grants : SUBSET Found, clients : SUBSET Clients]
NoJob == [pc |-> "idle", grants |-> {}, clients |-> {}]

TypeOK ==
    /\ clients \subseteq Clients
    /\ code \in [Codes -> {"none", "fresh", "used", "gone"}]
    /\ grant \in [Parties -> Grant \cup {NoGrant}]
    /\ sessions \in [Tokens -> Parties \cup {NoParty}]
    /\ expired \subseteq Tokens \cup Codes
    /\ issued \in 0 .. MaxTokens
    /\ req \in [Requests -> Request]
    /\ job \in Job

Init ==
    /\ clients = Clients
    /\ code = [c \in Codes |-> "none"]
    /\ grant = [p \in Parties |-> NoGrant]
    /\ sessions = [t \in Tokens |-> NoParty]
    /\ expired = {}
    /\ issued = 0
    /\ req = [r \in Requests |-> Idle]
    /\ job = NoJob

-----------------------------------------------------------------------------
(* Locks and transactions                                                  *)

CodeRow(c) == <<"code", c>>
GrantRow(p) == <<"grant", p>>
SessionRow(t) == <<"session", t>>

Locked(row) == \E q \in Requests : row \in req[q].locks

\* The row the next statement of r changes, or inserts.
Wanted(r) ==
    LET rq == req[r]
    IN  CASE rq.pc = "burn" -> {CodeRow(rq.code)}
          [] rq.pc \in {"replaceGrant", "insert"} -> {GrantRow(PartyOf[rq.code])}
          [] rq.pc \in {"rotate", "dropOrphan"} -> {GrantRow(rq.seen.party)}
          [] rq.pc = "dropGrant" -> {GrantRow(rq.found.party)}
          [] rq.pc = "consume" -> {SessionRow(rq.token)}
          [] rq.pc \in {"replaceSession", "dropSession"} -> {SessionRow(rq.found.session)}
          [] OTHER -> {}

WaitsFor(r, q) == q # r /\ Wanted(r) \cap req[q].locks # {}
Waits(r) == \E q \in Requests : WaitsFor(r, q)

\* Requests that wait for one another in a circle.
Deadlocked(r) ==
    \E Circle \in SUBSET Requests :
        /\ r \in Circle
        /\ \A q \in Circle : \E s \in Circle : WaitsFor(q, s)

\* Bound: whoever is under way can still be given a token.
TokensLeft == issued + Cardinality({q \in Requests : req[q] # Idle}) < MaxTokens

\* The next statement, with the row it has locked if there was one.
Goto(r, pc) == req' = [req EXCEPT ![r].pc = pc]
LockAndGoto(r, row, pc) ==
    req' = [req EXCEPT ![r].pc = pc, ![r].locks = @ \cup {row}]
Finish(r) == req' = [req EXCEPT ![r] = Idle]
RollBack(r) == Finish(r) /\ UNCHANGED tables

\* What the tables are when r commits and has changed these rows.
CodesAfter(rows) == [c \in Codes |-> IF CodeRow(c) \in rows THEN "used" ELSE code[c]]
GrantsAfter(rows) == [p \in Parties |-> IF GrantRow(p) \in rows THEN NoGrant ELSE grant[p]]
SessionsAfter(rows) == [t \in Tokens |-> IF SessionRow(t) \in rows THEN NoParty ELSE sessions[t]]

Commit(r, rows) ==
    /\ code' = CodesAfter(rows)
    /\ grant' = GrantsAfter(rows)
    /\ sessions' = SessionsAfter(rows)
    /\ Finish(r)
    /\ UNCHANGED clients

\* The same with a new token for party p.
CommitToken(r, rows, p, g) ==
    /\ issued < MaxTokens
    /\ issued' = issued + 1
    /\ code' = CodesAfter(rows)
    /\ grant' = [GrantsAfter(rows) EXCEPT ![p] = g]
    /\ sessions' = [SessionsAfter(rows) EXCEPT ![issued + 1] = p]
    /\ Finish(r)
    /\ UNCHANGED clients

-----------------------------------------------------------------------------
(* processDecision: the user agrees, a code is stored                      *)

Decide(c) ==
    /\ code[c] = "none"
    /\ ClientOf[PartyOf[c]] \in clients
    /\ code' = [code EXCEPT ![c] = "fresh"]
    /\ UNCHANGED <<clients, grant, sessions, expired, issued, req, job>>

-----------------------------------------------------------------------------
(* exchangeCode                                                            *)

\* The code is looked up first; one that has no row is refused.
ExchangeCode(r, cl, c) ==
    /\ "exchange" \in Operations
    /\ req[r] = Idle
    /\ TokensLeft
    /\ cl \in clients
    /\ code[c] \in {"fresh", "used"}
    /\ req' = [req EXCEPT ![r] = [Idle EXCEPT !.pc = "burn", !.kind = "exchange", !.start = "burn",
                                              !.client = cl, !.code = c]]
    /\ UNCHANGED <<tables, expired, issued, job>>

\* Mutant: used codes are not told from others.
BurnCodeAgain(r) ==
    LET c == req[r].code
    IN  /\ req[r].pc = "burn"
        /\ ~Waits(r)
        /\ \/ /\ code[c] # "gone" /\ c \notin expired /\ ClientOf[PartyOf[c]] = req[r].client
              /\ LockAndGoto(r, CodeRow(c), "existing")
           \/ /\ code[c] = "gone" \/ c \in expired \/ ClientOf[PartyOf[c]] # req[r].client
              /\ Finish(r)
        /\ UNCHANGED <<tables, expired, issued, job>>

\* UPDATE ... WHERE used_at IS NULL, then the checks: a code that has expired
\* or belongs to another client rolls the transaction back.
BurnCode(r) ==
    LET c == req[r].code
        mine == ClientOf[PartyOf[c]] = req[r].client
    IN  /\ req[r].pc = "burn"
        /\ ~Waits(r)
        /\ \/ /\ code[c] = "fresh" /\ mine /\ c \notin expired
              /\ LockAndGoto(r, CodeRow(c), "existing")
           \/ /\ code[c] = "fresh" /\ (~mine \/ c \in expired)
              /\ Finish(r)
           \/ /\ code[c] # "fresh" /\ req[r].client \in Confidential
              /\ Goto(r, "codeReplay")
           \/ /\ code[c] # "fresh" /\ req[r].client \notin Confidential
              /\ Finish(r)
        /\ UNCHANGED <<tables, expired, issued, job>>

\* revokeGrantByCodeHash: the grant that the code was exchanged for.
FindByCode(r) ==
    /\ req[r].pc = "codeReplay"
    /\ LET By == {p \in Parties : grant[p].code = req[r].code /\ ClientOf[p] = req[r].client}
       IN  \/ By = {} /\ Finish(r)
           \/ \E p \in By : req' = [req EXCEPT ![r].pc = "dropGrant", ![r].found = Remembered(p)]
    /\ UNCHANGED <<tables, expired, issued, job>>

\* Client and user are looked up: without them the transaction is rolled back.
FindExisting(r) ==
    LET p == PartyOf[req[r].code]
    IN  /\ req[r].pc = "existing"
        /\ \/ /\ ClientOf[p] \notin clients \/ "inactive" \in Events
              /\ Finish(r)
           \/ /\ ClientOf[p] \in clients /\ grant[p] = NoGrant
              /\ Goto(r, "insert")
           \/ /\ ClientOf[p] \in clients /\ grant[p] # NoGrant
              /\ req' = [req EXCEPT ![r].pc = "replaceGrant", ![r].found = Remembered(p)]
        /\ UNCHANGED <<tables, expired, issued, job>>

ReplaceGrant(r) ==
    LET p == PartyOf[req[r].code]
    IN  /\ req[r].pc = "replaceGrant"
        /\ ~Waits(r)
        /\ \/ grant[p] # NoGrant /\ LockAndGoto(r, GrantRow(p), "replaceSession")
           \/ grant[p] = NoGrant /\ Goto(r, "replaceSession")
        /\ UNCHANGED <<tables, expired, issued, job>>

ReplaceSession(r) ==
    LET t == req[r].found.session
    IN  /\ req[r].pc = "replaceSession"
        /\ ~Waits(r)
        /\ \/ sessions[t] # NoParty /\ LockAndGoto(r, SessionRow(t), "insert")
           \/ sessions[t] = NoParty /\ Goto(r, "insert")
        /\ UNCHANGED <<tables, expired, issued, job>>

\* Another grant of the same client and user, or a client that was deleted,
\* violates a constraint.
InsertGrant(r) ==
    LET p == PartyOf[req[r].code]
        rows == req[r].locks
        t == issued + 1
    IN  /\ req[r].pc = "insert"
        /\ ~Waits(r)
        /\ \/ /\ GrantsAfter(rows)[p] # NoGrant \/ ClientOf[p] \notin clients
              /\ RollBack(r)
              /\ UNCHANGED issued
           \/ /\ GrantsAfter(rows)[p] = NoGrant /\ ClientOf[p] \in clients
              /\ CommitToken(r, rows, p,
                     [id |-> t, session |-> t, prev |-> NoToken, code |-> req[r].code])
        /\ UNCHANGED <<expired, job>>

-----------------------------------------------------------------------------
(* refreshToken                                                            *)

\* The grant of the token is read before the transaction.  A token without
\* a grant may be one that was used before.
RefreshToken(r, cl, t) ==
    LET Of == {p \in Parties : grant[p].session = t}
        Start(pc, seen) == [Idle EXCEPT !.pc = pc, !.kind = "refresh", !.start = pc,
                                        !.client = cl, !.token = t, !.seen = seen]
    IN  /\ "refresh" \in Operations
        /\ req[r] = Idle
        /\ TokensLeft
        /\ cl \in clients
        /\ t \in 1 .. issued
        /\ \/ /\ Of = {}
              /\ req' = [req EXCEPT ![r] = Start("reuse", Nothing)]
           \/ /\ t \notin expired
              /\ \E p \in Of :
                     /\ ClientOf[p] = cl
                     /\ req' = [req EXCEPT ![r] = Start("consume", Remembered(p))]
        /\ UNCHANGED <<tables, expired, issued, job>>

\* Mutants: the session is only looked up; nobody looks whether it was there.
ConsumeByReading(r) ==
    LET t == req[r].token
    IN  /\ req[r].pc = "consume"
        /\ ~Waits(r)
        /\ \/ sessions[t] = req[r].seen.party /\ Goto(r, "rotate")
           \/ sessions[t] # req[r].seen.party /\ Goto(r, "orphan")
        /\ UNCHANGED <<tables, expired, issued, job>>

ConsumeUnchecked(r) ==
    /\ req[r].pc = "consume"
    /\ ~Waits(r)
    /\ LockAndGoto(r, SessionRow(req[r].token), "rotate")
    /\ UNCHANGED <<tables, expired, issued, job>>

\* Deleting the session makes the token single-use.
ConsumeSession(r) ==
    LET t == req[r].token
    IN  /\ req[r].pc = "consume"
        /\ ~Waits(r)
        /\ \/ sessions[t] = req[r].seen.party /\ LockAndGoto(r, SessionRow(t), "rotate")
           \/ sessions[t] # req[r].seen.party /\ Goto(r, "orphan")
        /\ UNCHANGED <<tables, expired, issued, job>>

\* Does the grant still point at the token?
StillCurrent(r) ==
    LET g == grant[req[r].seen.party]
    IN  g.id = req[r].seen.id /\ g.session = req[r].token

\* Mutant: an old token without a session is refused and that is all.
FindOrphanOnly(r) ==
    /\ req[r].pc = "orphan"
    /\ \/ StillCurrent(r) /\ Goto(r, "dropOrphan")
       \/ ~StillCurrent(r) /\ Finish(r)
    /\ UNCHANGED <<tables, expired, issued, job>>

FindOrphan(r) ==
    /\ req[r].pc = "orphan"
    /\ \/ StillCurrent(r) /\ Goto(r, "dropOrphan")
       \/ ~StillCurrent(r) /\ Goto(r, "reuse")
    /\ UNCHANGED <<tables, expired, issued, job>>

DropOrphan(r) ==
    /\ req[r].pc = "dropOrphan"
    /\ ~Waits(r)
    /\ Commit(r, IF StillCurrent(r) THEN {GrantRow(req[r].seen.party)} ELSE {})
    /\ UNCHANGED <<expired, issued, job>>

\* The grant is moved to the new token, if no other request was faster.
RotateGrant(r) ==
    LET p == req[r].seen.party
        g == [grant[p] EXCEPT !.session = issued + 1, !.prev = req[r].token]
    IN  /\ req[r].pc = "rotate"
        /\ ~Waits(r)
        /\ \/ /\ StillCurrent(r) /\ ClientOf[p] \in clients
              /\ CommitToken(r, req[r].locks, p, g)
           \/ /\ StillCurrent(r) /\ ClientOf[p] \notin clients
              /\ RollBack(r) /\ UNCHANGED issued
           \/ /\ ~StillCurrent(r)
              /\ Goto(r, "reuse") /\ UNCHANGED <<tables, issued>>
        /\ UNCHANGED <<expired, job>>

\* detectReuse: the grant that the token was the last one of.
ReusedGrants(r) ==
    {p \in Parties : grant[p].prev = req[r].token /\ ClientOf[p] = req[r].client}

FindReused(r) ==
    /\ req[r].pc = "reuse"
    /\ \/ /\ ReusedGrants(r) = {}
          /\ Commit(r, req[r].locks)
       \/ \E p \in ReusedGrants(r) :
              /\ req' = [req EXCEPT ![r].pc = "dropGrant", ![r].found = Remembered(p)]
              /\ UNCHANGED tables
    /\ UNCHANGED <<expired, issued, job>>

-----------------------------------------------------------------------------
(* revokeToken, and the two deletions that it shares with detectReuse and  *)
(* revokeGrantByCodeHash                                                   *)

RevokeToken(r, cl, t) ==
    /\ "revoke" \in Operations
    /\ req[r] = Idle
    /\ TokensLeft
    /\ cl \in clients
    /\ \E p \in Parties :
          /\ grant[p].session = t
          /\ ClientOf[p] = cl
          /\ req' = [req EXCEPT ![r] = [Idle EXCEPT !.pc = "dropGrant", !.kind = "revoke",
                         !.start = "dropGrant", !.client = cl, !.token = t, !.found = Remembered(p)]]
    /\ UNCHANGED <<tables, expired, issued, job>>

\* DELETE by id; detectReuse also asks for the previous session again.
DropGrant(r) ==
    LET g == grant[req[r].found.party]
        there == /\ g.id = req[r].found.id
                 /\ req[r].kind = "refresh" => g.prev = req[r].token
    IN  /\ req[r].pc = "dropGrant"
        /\ ~Waits(r)
        /\ \/ there /\ LockAndGoto(r, GrantRow(req[r].found.party), "dropSession")
           \/ ~there /\ Goto(r, "dropSession")
        /\ UNCHANGED <<tables, expired, issued, job>>

DropSession(r) ==
    /\ req[r].pc = "dropSession"
    /\ ~Waits(r)
    /\ Commit(r, req[r].locks \cup {SessionRow(req[r].found.session)})
    /\ UNCHANGED <<expired, issued, job>>

-----------------------------------------------------------------------------
(* transaction.ts: the database ends one of the transactions that wait for *)
(* each other; it is started again, MaxAttempts times at most              *)

\* Mutants: one restart too many; no limit.
VictimOnceMore(r) ==
    /\ Deadlocked(r)
    /\ \/ /\ req[r].tries <= MaxAttempts
          /\ req' = [req EXCEPT ![r].pc = req[r].start, ![r].locks = {}, ![r].tries = @ + 1]
       \/ /\ req[r].tries > MaxAttempts
          /\ Finish(r)
    /\ UNCHANGED <<tables, expired, issued, job>>

VictimForever(r) ==
    /\ Deadlocked(r)
    /\ req' = [req EXCEPT ![r].pc = req[r].start, ![r].locks = {}]
    /\ UNCHANGED <<tables, expired, issued, job>>

Victim(r) ==
    /\ Deadlocked(r)
    /\ \/ /\ req[r].tries < MaxAttempts
          /\ req' = [req EXCEPT ![r].pc = req[r].start, ![r].locks = {}, ![r].tries = @ + 1]
       \/ /\ req[r].tries = MaxAttempts
          /\ Finish(r)
    /\ UNCHANGED <<tables, expired, issued, job>>

-----------------------------------------------------------------------------
(* cleanup: statements without a transaction                               *)

JobStep(from, to) == job.pc = from /\ job' = [job EXCEPT !.pc = to]

\* Codes that have expired unused, and used ones that are an hour old.
CleanCodes ==
    /\ "cleanup" \in Events
    /\ JobStep("idle", "expired")
    /\ \E old \in SUBSET {c \in Codes : code[c] = "used"} :
          LET doomed == old \cup {c \in expired \cap Codes : code[c] = "fresh"}
          IN  /\ \A c \in doomed : ~Locked(CodeRow(c))
              /\ code' = [c \in Codes |-> IF c \in doomed THEN "gone" ELSE code[c]]
    /\ UNCHANGED <<clients, grant, sessions, expired, issued, req>>

Remember(P) == {Remembered(p) : p \in P}

SelectExpired ==
    /\ job.pc = "expired"
    /\ job' = [job EXCEPT !.pc = "sessions",
                          !.grants = Remember({p \in Parties : grant[p].session \in expired})]
    /\ UNCHANGED <<tables, expired, issued, req>>

\* Mutant: all sessions of the client and the user.
DeleteSessionsOfParty ==
    LET doomed == {t \in Tokens : sessions[t] \in {g.party : g \in job.grants}}
    IN  /\ JobStep("sessions", "grants")
        /\ \A t \in doomed : ~Locked(SessionRow(t))
        /\ sessions' = [t \in Tokens |-> IF t \in doomed THEN NoParty ELSE sessions[t]]
        /\ UNCHANGED <<clients, code, grant, expired, issued, req>>

DeleteExpiredSessions ==
    LET doomed == {g.session : g \in job.grants}
    IN  /\ JobStep("sessions", "grants")
        /\ \A t \in doomed : ~Locked(SessionRow(t))
        /\ sessions' = [t \in Tokens |-> IF t \in doomed THEN NoParty ELSE sessions[t]]
        /\ UNCHANGED <<clients, code, grant, expired, issued, req>>

\* DELETE ... WHERE id IN (...)
DeleteGrants(from, to) ==
    LET doomed == {g.party : g \in {h \in job.grants : grant[h.party].id = h.id}}
    IN  /\ job.pc = from
        /\ job' = [job EXCEPT !.pc = to, !.grants = {}]
        /\ \A p \in doomed : ~Locked(GrantRow(p))
        /\ grant' = [p \in Parties |-> IF p \in doomed THEN NoGrant ELSE grant[p]]
        /\ UNCHANGED <<clients, code, sessions, expired, issued, req>>

DeleteExpiredGrants == DeleteGrants("grants", "orphans")

SelectOrphans ==
    LET IsOrphan(p) == grant[p] # NoGrant /\ sessions[grant[p].session] = NoParty
    IN  /\ job.pc = "orphans"
        /\ job' = [job EXCEPT !.pc = "dropOrphans", !.grants = Remember({p \in Parties : IsOrphan(p)})]
        /\ UNCHANGED <<tables, expired, issued, req>>

DeleteOrphans == DeleteGrants("dropOrphans", "clients")

\* Old clients without grants and sessions, and without consents unless idle
\* ones are removed as well.
Consented(cl) == \E c \in Codes : ClientOf[PartyOf[c]] = cl /\ code[c] # "none"
Unused(cl) ==
    /\ \A p \in Parties : ClientOf[p] = cl =>
          grant[p] = NoGrant /\ \A t \in Tokens : sessions[t] # p
    /\ ~RemoveIdle => ~Consented(cl)

SelectClients ==
    /\ job.pc = "clients"
    /\ \E old \in SUBSET {cl \in clients : Unused(cl)} :
          job' = [job EXCEPT !.pc = "dropClients", !.clients = old]
    /\ UNCHANGED <<tables, expired, issued, req>>

\* The rows of a client go with it.
DeleteClients ==
    LET gone(p) == ClientOf[p] \in job.clients
    IN  /\ job.pc = "dropClients"
        /\ \A r \in Requests : req[r].locks # {} => req[r].client \notin job.clients
        /\ job' = NoJob
        /\ clients' = clients \ job.clients
        /\ code' = [c \in Codes |-> IF gone(PartyOf[c]) THEN "gone" ELSE code[c]]
        /\ grant' = [p \in Parties |-> IF gone(p) THEN NoGrant ELSE grant[p]]
        /\ sessions' = [t \in Tokens |->
                           IF sessions[t] # NoParty /\ gone(sessions[t]) THEN NoParty ELSE sessions[t]]
        /\ UNCHANGED <<expired, issued, req>>

Cleanup ==
    \/ CleanCodes \/ SelectExpired \/ DeleteExpiredSessions \/ DeleteExpiredGrants
    \/ SelectOrphans \/ DeleteOrphans \/ SelectClients \/ DeleteClients

-----------------------------------------------------------------------------
(* Time, AuthenticationService, which deletes expired sessions, and        *)
(* UsersService, which deletes those of a user                             *)

\* A grant and its session have the same expires_at.
Expire(x) ==
    /\ "expire" \in Events
    /\ x \notin expired
    /\ \/ x \in Codes /\ code[x] = "fresh"
       \/ x \in 1 .. issued /\ sessions[x] # NoParty
    /\ expired' = expired \cup {x}
    /\ UNCHANGED <<tables, issued, req, job>>

PurgeSessions ==
    LET doomed == {t \in expired \cap Tokens : sessions[t] # NoParty}
    IN  /\ "expire" \in Events
        /\ doomed # {}
        /\ \A t \in doomed : ~Locked(SessionRow(t))
        /\ sessions' = [t \in Tokens |-> IF t \in doomed THEN NoParty ELSE sessions[t]]
        /\ UNCHANGED <<clients, code, grant, expired, issued, req, job>>

\* The user has a new status, password or email: all its sessions are deleted, but
\* for the one (keep) the change was asked for with.
ClearUserSessions(u, keep) ==
    LET doomed == {t \in Tokens \ {keep} : sessions[t] # NoParty /\ UserOf[sessions[t]] = u}
    IN  /\ "clear" \in Events
        /\ doomed # {}
        /\ \A t \in doomed : ~Locked(SessionRow(t))
        /\ sessions' = [t \in Tokens |-> IF t \in doomed THEN NoParty ELSE sessions[t]]
        /\ UNCHANGED <<clients, code, grant, expired, issued, req, job>>

-----------------------------------------------------------------------------

Call(r) ==
    \/ \E cl \in Clients, c \in Codes : ExchangeCode(r, cl, c)
    \/ \E cl \in Clients, t \in Tokens : RefreshToken(r, cl, t) \/ RevokeToken(r, cl, t)

Step(r) ==
    \/ BurnCode(r) \/ FindByCode(r) \/ FindExisting(r) \/ ReplaceGrant(r) \/ ReplaceSession(r)
    \/ InsertGrant(r)
    \/ ConsumeSession(r) \/ FindOrphan(r) \/ DropOrphan(r) \/ RotateGrant(r) \/ FindReused(r)
    \/ DropGrant(r) \/ DropSession(r)

Next ==
    \/ \E c \in Codes : Decide(c)
    \/ \E r \in Requests : Call(r) \/ Step(r) \/ Victim(r)
    \/ Cleanup
    \/ \E x \in Tokens \cup Codes : Expire(x)
    \/ PurgeSessions
    \/ \E u \in Users, keep \in Tokens \cup {NoToken} : ClearUserSessions(u, keep)

\* The database works on every statement and ends every deadlock.  Strong
\* fairness: a row is given to those who wait for it in turn.
Fairness == \A r \in Requests : SF_vars(Step(r)) /\ WF_vars(Victim(r))

Spec == Init /\ [][Next]_vars /\ Fairness

-----------------------------------------------------------------------------
(* Properties                                                              *)

\* A grant that can be refreshed, and whose session gives access, stays so until
\* its token expires, its own client ends it (by revoking it, or by presenting its
\* code or its previous token again), its user's sessions are cleared or its client
\* is removed.  Or until the job takes it for the expired grant it was when the job
\* looked, although a refresh that began before has moved it to a new token since.
Valid(p) == grant[p] # NoGrant /\ grant[p].session \notin expired /\ sessions[grant[p].session] = p
Ended(p) ==
    \E r \in Requests :
        /\ req[r] # Idle /\ req'[r] = Idle /\ req[r].client = ClientOf[p]
        /\ req[r].kind = "revoke" \/ req[r].code = grant[p].code \/ req[r].token = grant[p].prev
Cleared(p) ==
    \E keep \in Tokens \cup {NoToken} :
        keep # grant[p].session /\ ClearUserSessions(UserOf[p], keep)
TakenForExpired(p) ==
    job.pc = "grants" /\ \E f \in job.grants : f.id = grant[p].id /\ f.session # grant[p].session
ValidGrantLasts ==
    [][\A p \in Parties : Valid(p) =>
          \/ Valid(p)'
          \/ grant[p].session \in expired'
          \/ grant'[p] = NoGrant /\ (Ended(p) \/ TakenForExpired(p))
          \/ Cleared(p)
          \/ ClientOf[p] \notin clients']_vars

\* Rotation makes a token single-use: the one before the current one has no
\* session row any more (refreshToken, "makes the old refresh token single-use").
PreviousIsSpent ==
    \A p \in Parties : grant[p].prev # NoToken => sessions[grant[p].prev] = NoParty

\* Reuse detection: when a refresh ends without a new token, no grant of this
\* client is the direct successor of the token it presented, however many
\* requests present the token at the same time.
ReplayEndsSuccessor ==
    [][\A r \in Requests :
          req[r].kind = "refresh" /\ req'[r] = Idle /\ issued' = issued =>
              \/ Deadlocked(r)
              \/ \A p \in Parties : ClientOf[p] = req[r].client => grant'[p].prev # req[r].token]_vars

\* Whatever waits for whatever, each request is answered.
Answered == \A r \in Requests : req[r] # Idle ~> req[r] = Idle

\* The promise: OAuthGrant, where a token is valid as long as grant and session
\* are there.
Promise == INSTANCE OAuthGrant WITH
    spent <- {c \in Codes : code[c] \in {"used", "gone"}},
    issued <- 1 .. issued,
    valid <- [p \in Parties |->
                 {t \in Tokens : grant[p].session = t /\ sessions[t] = p}]

IsPromise == Promise!Spec
=============================================================================
