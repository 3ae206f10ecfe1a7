--------------------------- MODULE SessionRefresh ---------------------------
(***************************************************************************)
(* Sessions with refresh tokens, for one login.                            *)
(* api/src/services/authentication.ts (refresh, updateStatefulSession,     *)
(* logout), its controller auth.ts and the middleware authenticate.ts.     *)
(*                                                                         *)
(* In mode "session" the cookie names a row of directus_sessions; a        *)
(* refresh makes a new row and leaves the old one for a grace period, so   *)
(* that the other tabs of a browser can still use it.  In the other modes  *)
(* ("stateless" here) the token of the row is replaced.  Every statement   *)
(* is a step of its own: there is no transaction.                          *)
(***************************************************************************)
EXTENDS Naturals, FiniteSets

CONSTANTS
    Requests,      \* requests in progress
    Modes,         \* bound: modes the login may be made in
    Operations,    \* bound: kinds of requests
    Overlapping,   \* modes whose clients have several requests under way
    Timely,        \* the grace period is longer than a request
    Paced,         \* a token is refreshed, or its session ended, only when
                   \* no request with another token is under way
    Returning,     \* the database returns the rows an UPDATE changed (MySQL: their number)
    Faults,        \* bound: "lost" answers, "crash" of a process
    MaxTokens      \* bound: number of tokens

ASSUME KindAssumption ==
    /\ Modes \subseteq {"session", "stateless"}
    /\ Overlapping \subseteq Modes
    /\ Operations \subseteq {"use", "refresh", "logout"}
    /\ Faults \subseteq {"lost", "crash"}
    /\ {Timely, Paced, Returning} \subseteq BOOLEAN
ASSUME BoundAssumption == MaxTokens \in Nat \ {0}

VARIABLES
    mode,      \* how the login was made
    row,       \* directus_sessions
    issued,    \* number of tokens generated: they are 1 .. issued
    req,       \* per request: where its handler is
    jar,       \* the token of the client
    past       \* what has happened so far of what may cost the client its token

vars == <<mode, row, issued, req, jar, past>>

-----------------------------------------------------------------------------
(* Rows and requests                                                       *)

Tokens == 1 .. MaxTokens
NoToken == 0

\* expires lies far ahead, within the grace period, or in the past.
Row == [next : Tokens \cup {NoToken}, life : {"long", "grace", "over"}]
NewRow == [next |-> NoToken, life |-> "long"]
NoRow == [next |-> NoToken, life |-> "none"]

Request ==
    [pc : {"idle", "authenticate", "read", "extend", "link", "lookup", "insert", "rotate", "purge",
           "drop", "answer", "refused", "clear"},
     kind : {"none", "use", "refresh", "logout"},
     token : Tokens \cup {NoToken}, new : Tokens \cup {NoToken}]
\* An answer is lost, a process ends, the session of a logout is deleted, a token
\* is used before its row is there.
Incident == {"lost", "crash", "logout", "early"}

Idle == [pc |-> "idle", kind |-> "none", token |-> NoToken, new |-> NoToken]

TypeOK ==
    /\ mode \in Modes
    /\ row \in [Tokens -> Row \cup {NoRow}]
    /\ issued \in Tokens
    /\ req \in [Requests -> Request]
    /\ \A r \in Requests :
          req[r].pc \in {"extend", "insert", "purge", "answer"} => req[r].new \in 1 .. issued
    /\ jar \in 0 .. issued
    /\ past \subseteq Incident

\* Right after a login.
Init ==
    /\ mode \in Modes
    /\ row = [t \in Tokens |-> IF t = 1 THEN NewRow ELSE NoRow]
    /\ issued = 1
    /\ req = [r \in Requests |-> Idle]
    /\ jar = 1
    /\ past = {}

Exists(t) == row[t] # NoRow
Live(t) == row[t].life \in {"long", "grace"}
Pending(t) == \E r \in Requests : req[r].pc = "insert" /\ req[r].new = t
Token(r) == req[r].token

Goto(r, pc) == req' = [req EXCEPT ![r].pc = pc]
GotoWith(r, pc, t) == req' = [req EXCEPT ![r].pc = pc, ![r].new = t]

\* Bound: every request under way can still generate a token.
TokensLeft == issued + Cardinality({r \in Requests : req[r].kind = "refresh"}) < MaxTokens

-----------------------------------------------------------------------------
(* A request and its authentication                                        *)

Send(r, kind) ==
    /\ req[r] = Idle
    /\ kind \in Operations
    /\ kind = "use" => mode = "session"
    /\ jar # NoToken
    /\ mode \notin Overlapping => \A q \in Requests : req[q] = Idle
    /\ Paced /\ kind # "use" => \A q \in Requests : req[q].token \in {NoToken, jar}
    /\ kind = "refresh" => TokensLeft
    /\ req' = [req EXCEPT ![r] = [pc |-> IF mode = "session" THEN "authenticate"
                                         ELSE IF kind = "refresh" THEN "read" ELSE "drop",
                                  kind |-> kind, token |-> jar, new |-> NoToken]]
    /\ UNCHANGED <<mode, row, issued, jar, past>>

\* verifySessionJWT: a session that is not there makes the browser drop its cookie.
Authenticate(r) ==
    /\ req[r].pc = "authenticate"
    /\ \/ ~Live(Token(r)) /\ Goto(r, "clear")
       \/ Live(Token(r)) /\ req[r].kind = "use" /\ req' = [req EXCEPT ![r] = Idle]
       \/ Live(Token(r)) /\ req[r].kind = "refresh" /\ Goto(r, "read")
       \/ Live(Token(r)) /\ req[r].kind = "logout" /\ Goto(r, "drop")
    /\ past' = past \cup IF ~Live(Token(r)) /\ Pending(Token(r)) THEN {"early"} ELSE {}
    /\ UNCHANGED <<mode, row, issued, jar>>

-----------------------------------------------------------------------------
(* refresh                                                                 *)

\* Mutant: next_token is taken to be set.
ReadNext(r) ==
    /\ req[r].pc = "read"
    /\ \/ ~Live(Token(r)) /\ Goto(r, "refused")
       \/ Live(Token(r)) /\ mode = "stateless" /\ Goto(r, "rotate")
       \/ Live(Token(r)) /\ mode = "session" /\ GotoWith(r, "extend", row[Token(r)].next)
    /\ UNCHANGED <<mode, row, issued, jar, past>>

\* The session with its next_token.
Read(r) ==
    LET s == row[Token(r)]
    IN  /\ req[r].pc = "read"
        /\ \/ ~Live(Token(r)) /\ Goto(r, "refused")
           \/ Live(Token(r)) /\ mode = "stateless" /\ Goto(r, "rotate")
           \/ Live(Token(r)) /\ mode = "session" /\ s.next = NoToken /\ Goto(r, "link")
           \/ Live(Token(r)) /\ mode = "session" /\ s.next # NoToken /\ GotoWith(r, "extend", s.next)
        /\ UNCHANGED <<mode, row, issued, jar, past>>

\* It was refreshed before: UPDATE of the expiry of the next session, if it is there.
Extend(r) ==
    LET t == req[r].new
    IN  /\ req[r].pc = "extend"
        /\ row' = IF Exists(t) THEN [row EXCEPT ![t].life = "long"] ELSE row
        /\ Goto(r, "purge")
        /\ UNCHANGED <<mode, issued, jar, past>>

\* UPDATE ... SET next_token, expires WHERE next_token IS NULL.  That it changed no row
\* is seen by the length of what it returns, which a number does not have: then the
\* request goes on as if it had linked its token.
LinkAs(r, life, free) ==
    LET t == Token(r)
        n == issued + 1
    IN  /\ req[r].pc = "link"
        /\ \/ /\ Exists(t) /\ t \in free
              /\ issued < MaxTokens
              /\ row' = [row EXCEPT ![t] = [next |-> n, life |-> life]]
              /\ issued' = n
              /\ GotoWith(r, "insert", n)
           \/ /\ ~(Exists(t) /\ t \in free) /\ Returning
              /\ Goto(r, "lookup")
              /\ UNCHANGED <<row, issued>>
           \/ /\ ~(Exists(t) /\ t \in free) /\ ~Returning
              /\ issued < MaxTokens
              /\ issued' = n
              /\ GotoWith(r, "insert", n)
              /\ UNCHANGED row
        /\ UNCHANGED <<mode, jar, past>>

Unlinked == {t \in Tokens : row[t].next = NoToken}

\* Mutants: without WHERE; without or with a full period for the old session.
LinkBlindly(r) == LinkAs(r, "grace", Tokens)
LinkWithoutGrace(r) == LinkAs(r, "over", Unlinked)
LinkWithoutExpiry(r) == LinkAs(r, "long", Unlinked)

Link(r) == LinkAs(r, "grace", Unlinked)

\* Mutant: the token generated by this request is handed out.
LookupNothing(r) ==
    /\ req[r].pc = "lookup"
    /\ issued < MaxTokens
    /\ issued' = issued + 1
    /\ GotoWith(r, "purge", issued + 1)
    /\ UNCHANGED <<mode, row, jar, past>>

\* Another request was faster: its token is handed out.  Without the row
\* this fails.
Lookup(r) ==
    /\ req[r].pc = "lookup"
    /\ \/ Exists(Token(r)) /\ GotoWith(r, "purge", row[Token(r)].next)
       \/ ~Exists(Token(r)) /\ Goto(r, "refused")
    /\ UNCHANGED <<mode, row, issued, jar, past>>

Insert(r) ==
    /\ req[r].pc = "insert"
    /\ row' = [row EXCEPT ![req[r].new] = NewRow]
    /\ Goto(r, "purge")
    /\ UNCHANGED <<mode, issued, jar, past>>

\* UPDATE ... SET token; how many rows that changed is not asked.
Rotate(r) ==
    LET t == Token(r)
        n == issued + 1
    IN  /\ req[r].pc = "rotate"
        /\ issued < MaxTokens
        /\ issued' = n
        /\ row' = IF Exists(t) THEN [row EXCEPT ![n] = NewRow, ![t] = NoRow] ELSE row
        /\ GotoWith(r, "purge", n)
        /\ UNCHANGED <<mode, jar, past>>

\* "Clear expired sessions for the current user"
Purge(r) ==
    /\ req[r].pc = "purge"
    /\ row' = [t \in Tokens |-> IF row[t].life = "over" THEN NoRow ELSE row[t]]
    /\ Goto(r, "answer")
    /\ UNCHANGED <<mode, issued, jar, past>>

-----------------------------------------------------------------------------
(* logout                                                                  *)

Drop(r) ==
    /\ req[r].pc = "drop"
    /\ row' = [row EXCEPT ![Token(r)] = NoRow]
    /\ Goto(r, "clear")
    /\ past' = past \cup {"logout"}
    /\ UNCHANGED <<mode, issued, jar>>

-----------------------------------------------------------------------------
(* The client: an answer sets or clears its token                          *)

Arrive(r) ==
    /\ req[r].pc \in {"answer", "refused", "clear"}
    /\ jar' = CASE req[r].pc = "answer" -> req[r].new
                [] req[r].pc = "clear" -> NoToken
                [] OTHER -> jar
    /\ req' = [req EXCEPT ![r] = Idle]
    /\ UNCHANGED <<mode, row, issued, past>>

-----------------------------------------------------------------------------
(* Faults and time                                                         *)

Lose(r) ==
    /\ "lost" \in Faults
    /\ req[r].pc \in {"answer", "refused", "clear"}
    /\ req' = [req EXCEPT ![r] = Idle]
    /\ past' = past \cup {"lost"}
    /\ UNCHANGED <<mode, row, issued, jar>>

Crash(r) ==
    /\ "crash" \in Faults
    /\ req[r] # Idle
    /\ req' = [req EXCEPT ![r] = Idle]
    /\ past' = past \cup {"crash"}
    /\ UNCHANGED <<mode, row, issued, jar>>

EndGrace(t) ==
    /\ row[t].life = "grace"
    /\ Timely => \A r \in Requests : Token(r) # t
    /\ row' = [row EXCEPT ![t].life = "over"]
    /\ UNCHANGED <<mode, issued, req, jar, past>>

-----------------------------------------------------------------------------

Step(r) ==
    \/ \E kind \in {"use", "refresh", "logout"} : Send(r, kind)
    \/ Authenticate(r)
    \/ Read(r) \/ Extend(r) \/ Link(r) \/ Lookup(r) \/ Insert(r) \/ Rotate(r) \/ Purge(r)
    \/ Drop(r)
    \/ Arrive(r) \/ Lose(r) \/ Crash(r)

Next ==
    \/ \E r \in Requests : Step(r)
    \/ \E t \in Tokens : EndGrace(t)

Spec == Init /\ [][Next]_vars

-----------------------------------------------------------------------------
(* Properties                                                              *)

\* As long as nothing is lost, the token a browser or SDK ends up with, after
\* answers of several tabs in any order, is that of a session which works or is
\* about to be inserted.  A client without a token has logged out, or has used a
\* token it got from one request before another one inserted its row, which
\* verifySessionJWT answers by clearing the cookie.
LoggingOut == \E r \in Requests : req[r].kind = "logout" /\ Token(r) = jar
Replaced == \E r \in Requests : req[r].pc \in {"purge", "answer"} /\ Token(r) = jar /\ Live(req[r].new)
JarLives ==
    {"lost", "crash"} \cap past = {} =>
        IF jar # NoToken THEN Live(jar) \/ Pending(jar) \/ Replaced \/ LoggingOut
        ELSE {"logout", "early"} \cap past # {}

\* A token that is handed out has its session, even after answers were lost, or a
\* request that is about to insert it; what loses it is a process that ends between
\* the two statements of updateStatefulSession.
AnswerLives ==
    "crash" \notin past =>
        \A r \in Requests : req[r].pc = "answer" => Exists(req[r].new) \/ Pending(req[r].new)

\* A session has one successor: "we already have a next_token reference"
\* (authentication.ts:533).  Whoever refreshes with the same token gets the same one.
SameAnswer ==
    \A q, r \in Requests :
        {req[q].pc, req[r].pc} \subseteq {"insert", "purge", "answer"} /\ Token(q) = Token(r)
            => req[q].new = req[r].new

\* A login does not multiply: one session at most that is not superseded, or is
\* about to be inserted.
Head(t) == Exists(t) /\ row[t].next = NoToken
OneHead == \A s, t \in Tokens : (Head(s) \/ Pending(s)) /\ (Head(t) \/ Pending(t)) => s = t

\* "Keep the old session active for a short period of time" (authentication.ts:517):
\* a session that has a successor does not get its full life back.
SupersededIsShort == \A t \in Tokens : row[t].next # NoToken => row[t].life # "long"
=============================================================================
