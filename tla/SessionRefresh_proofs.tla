----------------------- MODULE SessionRefresh_proofs -----------------------
(* Proofs about the refresh of a session.                                  *)
EXTENDS SessionRefresh, TLAPS

USE KindAssumption, BoundAssumption

-----------------------------------------------------------------------------
(* The inductive invariant                                                 *)

\* What was generated is all there is.
Issued ==
    /\ \A t \in Tokens : Exists(t) => t <= issued
    /\ \A t \in Tokens : row[t].next <= issued
    /\ \A r \in Requests : Token(r) <= issued /\ (req[r].pc # "idle" => Token(r) # NoToken)

\* Each mode has its own steps; only sessions have successors.
ModeSteps ==
    /\ \A r \in Requests : req[r].pc \in {"link", "lookup", "extend", "insert"} => mode = "session"
    /\ \A r \in Requests : req[r].pc = "rotate" => mode = "stateless"
    /\ mode = "stateless" => \A t \in Tokens : row[t].next = NoToken

\* One session at most is about to be inserted, and its row is not there yet.
Inserting(r) == req[r].pc = "insert"
OneInsert ==
    /\ \A q, r \in Requests : Inserting(q) /\ Inserting(r) => q = r
    /\ \A r \in Requests : Inserting(r) => ~Exists(req[r].new)

\* Requests with a token that has been accepted; those that have a successor for it.
Having(r) == req[r].pc \in {"extend", "insert", "purge", "answer"}
Accepted(r) == Having(r) \/ req[r].pc \in {"read", "link", "lookup"}

\* An accepted token is one whose session was there: it is not about to be inserted.
AcceptedIsInserted == \A r \in Requests : Accepted(r) => ~Pending(Token(r))

\* Whoever lost the race finds the successor.
LookupFinds ==
    \A r \in Requests : req[r].pc = "lookup" /\ Exists(Token(r)) => row[Token(r)].next # NoToken

\* For the answers: the successor a request has is that of its session, and the
\* requests of a token agree.  A client without overlapping requests has just one.
OneByOne == mode \notin Overlapping => \A q, r \in Requests : req[q] # Idle /\ req[r] # Idle => q = r
NewIsNext ==
    \A r \in Requests :
        mode = "session" /\ Having(r) /\ Exists(Token(r)) => row[Token(r)].next = req[r].new
Agree ==
    mode = "session" =>
        \A q, r \in Requests : Having(q) /\ Having(r) /\ Token(q) = Token(r) => req[q].new = req[r].new

\* This needs a database that returns the rows an UPDATE changed.
IInv ==
    /\ Returning
    /\ TypeOK /\ Issued /\ ModeSteps /\ OneInsert
    /\ AcceptedIsInserted /\ LookupFinds /\ OneHead
    /\ OneByOne /\ NewIsNext /\ Agree

-----------------------------------------------------------------------------
(* Steps that add no row and no insert                                     *)

\* Rows may go or change their expiry.
Shrink ==
    /\ issued' = issued /\ mode' = mode
    /\ \A t \in Tokens :
          row'[t] = NoRow \/ (Exists(t) /\ row'[t] \in Row /\ row'[t].next = row[t].next)
NoNewInsert ==
    \A r \in Requests : Inserting(r)' => Inserting(r) /\ req'[r].new = req[r].new

LEMMA RowNext ==
    ASSUME TypeOK, NEW t \in Tokens
    PROVE  /\ row[t] \in Row \cup {NoRow}
           /\ row[t].next \in Tokens \cup {NoToken}
           /\ Exists(t) => row[t] \in Row
           /\ ~Exists(t) => row[t].next = NoToken /\ ~Live(t)
BY DEF TypeOK, Row, NoRow, Exists, Live

LEMMA RowIsNotNoRow == \A s \in Row : s # NoRow
BY DEF Row, NoRow

LEMMA Shrinking ==
    ASSUME TypeOK, OneInsert, OneHead, Shrink, NoNewInsert
    PROVE  /\ \A t \in Tokens : Exists(t)' => Exists(t) /\ row'[t].next = row[t].next
           /\ \A t \in Tokens : row'[t].next \in {row[t].next, NoToken}
           /\ \A t : Pending(t)' => Pending(t)
           /\ OneInsert' /\ OneHead'
<1>1. \A t \in Tokens : Exists(t)' => Exists(t) /\ row'[t].next = row[t].next
  BY DEF Shrink, Exists
<1>2. \A t \in Tokens : row'[t].next \in {row[t].next, NoToken}
  BY DEF Shrink, NoRow
<1>3. \A t : Pending(t)' => Pending(t)
  BY DEF NoNewInsert, Pending, Inserting
<1>4. \A t \in Tokens : Head(t)' => Head(t)
  BY <1>1 DEF Head
<1>5. OneHead'
  BY <1>3, <1>4 DEF OneHead
<1>6. OneInsert'
  <2>1. \A r \in Requests : Inserting(r) => req[r].new \in Tokens
    BY DEF Inserting, TypeOK, Tokens
  <2> QED
    BY <1>1, <2>1 DEF OneInsert, NoNewInsert
<1> QED
  BY <1>1, <1>2, <1>3, <1>5, <1>6

\* One request moves on, not to an insert, or none.
LEMMA Moving ==
    ASSUME IInv, Shrink, row' \in [Tokens -> Row \cup {NoRow}],
           jar' \in 0 .. issued, past' \subseteq Incident,
           NEW r \in Requests, NEW x \in Request, req' = [req EXCEPT ![r] = x],
           x.token <= issued, x.pc # "idle" => x.token # NoToken,
           x.pc # "insert",
           x.pc \in {"extend", "purge", "answer"} => x.new \in 1 .. issued,
           x.pc \in {"link", "lookup", "extend"} => mode = "session",
           x.pc = "rotate" => mode = "stateless",
           x.pc \in {"extend", "purge", "answer", "read", "link", "lookup"} => ~Pending(x.token),
           x.pc = "lookup" => (Exists(x.token) => row[x.token].next # NoToken),
           req[r] # Idle \/ x = Idle \/ mode \in Overlapping \/ \A q \in Requests : req[q] = Idle,
           mode = "session" /\ x.pc \in {"extend", "purge", "answer"} =>
               /\ Exists(x.token) => row[x.token].next = x.new
               /\ \A q \in Requests : Having(q) /\ Token(q) = x.token => req[q].new = x.new
    PROVE  IInv'
<1> USE DEF IInv
<1>1. \A q \in Requests : req'[q] = IF q = r THEN x ELSE req[q]
  BY DEF TypeOK
<1>2. NoNewInsert
  BY <1>1 DEF NoNewInsert, Inserting
<1>3. /\ \A t \in Tokens : Exists(t)' => Exists(t) /\ row'[t].next = row[t].next
      /\ \A t \in Tokens : row'[t].next \in {row[t].next, NoToken}
      /\ \A t : Pending(t)' => Pending(t)
      /\ OneInsert' /\ OneHead'
  BY <1>2, Shrinking
<1>4. issued' = issued /\ mode' = mode
  BY DEF Shrink
<1>5. TypeOK'
  <2>1. req' \in [Requests -> Request]
    BY DEF TypeOK
  <2>2. \A q \in Requests :
           req'[q].pc \in {"extend", "insert", "purge", "answer"} => req'[q].new \in 1 .. issued
    BY <1>1 DEF TypeOK
  <2> QED
    BY <1>4, <2>1, <2>2 DEF TypeOK
<1>6. Issued'
  <2>1. \A t \in Tokens : Exists(t)' => t <= issued'
    BY <1>3, <1>4 DEF Issued
  <2>2. \A t \in Tokens : row'[t].next <= issued'
    BY <1>3, <1>4 DEF Issued, TypeOK, NoToken, Tokens
  <2>3. \A q \in Requests : Token(q)' <= issued' /\ (req'[q].pc # "idle" => Token(q)' # NoToken)
    BY <1>1, <1>4 DEF Issued, Token
  <2> QED
    BY <2>1, <2>2, <2>3 DEF Issued
<1>7. ModeSteps'
  BY <1>1, <1>3, <1>4 DEF ModeSteps
<1>8. AcceptedIsInserted'
  BY <1>1, <1>3 DEF AcceptedIsInserted, Accepted, Having, Token
<1>9. LookupFinds'
  <2> SUFFICES ASSUME NEW q \in Requests, req'[q].pc = "lookup", Exists(Token(q))'
               PROVE  row'[Token(q)'].next # NoToken
    BY DEF LookupFinds
  <2>1. Token(q)' \in Tokens
    BY <1>5, <1>6 DEF TypeOK, Issued, Token, Request
  <2>2. row[Token(q)'].next # NoToken
    BY <1>1, <1>3, <2>1 DEF LookupFinds, Token, Exists
  <2> QED
    BY <1>3, <2>1, <2>2 DEF Exists
<1>10. OneByOne'
  BY <1>1, <1>4 DEF OneByOne
<1>11. NewIsNext'
  <2> SUFFICES ASSUME NEW q \in Requests, mode = "session", Having(q)', Exists(Token(q))'
               PROVE  row'[Token(q)'].next = req'[q].new
    BY <1>4 DEF NewIsNext
  <2>1. Token(q)' \in Tokens
    BY <1>5, <1>6 DEF TypeOK, Issued, Token, Request, Having
  <2>2. Exists(Token(q)') /\ row'[Token(q)'].next = row[Token(q)'].next
    BY <1>3, <2>1 DEF Exists
  <2>3. row[Token(q)'].next = req'[q].new
    BY <1>1, <2>2 DEF NewIsNext, Having, Token
  <2> QED
    BY <2>2, <2>3
<1>12. Agree'
  BY <1>1, <1>4 DEF Agree, Having, Token
<1> QED
  BY <1>3, <1>5, <1>6, <1>7, <1>8, <1>9, <1>10, <1>11, <1>12

LEMMA SameRows ==
    ASSUME TypeOK, row' = row, issued' = issued, mode' = mode
    PROVE  Shrink /\ row' \in [Tokens -> Row \cup {NoRow}]
<1>1. row \in [Tokens -> Row \cup {NoRow}]
  BY DEF TypeOK
<1>2. \A t \in Tokens : row[t] = NoRow \/ (Exists(t) /\ row[t] \in Row)
  BY <1>1 DEF Exists
<1>3. Shrink
  BY <1>2, Zenon DEF Shrink
<1> QED
  BY <1>1, <1>3

\* What is known of a request that has not got its answer.
LEMMA RequestKnown ==
    ASSUME IInv, NEW r \in Requests
    PROVE  /\ req[r] \in Request
           /\ req[r].pc # "idle" => Token(r) \in Tokens /\ Token(r) <= issued
           /\ Token(r) <= issued
           /\ issued \in Tokens /\ issued <= MaxTokens
BY DEF IInv, TypeOK, Issued, Request, Token, Tokens

-----------------------------------------------------------------------------
(* Steps of one request                                                    *)

LEMMA SendStep ==
    ASSUME IInv, NEW r \in Requests, NEW kind \in {"use", "refresh", "logout"}, Send(r, kind)
    PROVE  IInv'
<1> DEFINE x == [pc |-> IF mode = "session" THEN "authenticate"
                        ELSE IF kind = "refresh" THEN "read" ELSE "drop",
                 kind |-> kind, token |-> jar, new |-> NoToken]
<1>1. req' = [req EXCEPT ![r] = x] /\ jar # NoToken
  BY DEF Send
<1>2. jar \in Tokens /\ jar <= issued /\ jar \in 0 .. issued
  BY <1>1 DEF IInv, TypeOK, Tokens, NoToken
<1>3. x \in Request
  BY <1>2 DEF Request
<1>4. Shrink /\ row' \in [Tokens -> Row \cup {NoRow}]
  BY SameRows DEF Send, IInv
<1>5. jar' \in 0 .. issued /\ past' \subseteq Incident
  BY DEF Send, IInv, TypeOK
<1>6. mode \in Overlapping \/ \A q \in Requests : req[q] = Idle
  BY DEF Send
<1>7. x.pc = "read" => ~Pending(jar)
  BY DEF IInv, ModeSteps, Pending
<1>8. x.pc \in {"authenticate", "read", "drop"} /\ x.token = jar
  OBVIOUS
<1> HIDE DEF x
<1> QED
  BY <1>1, <1>2, <1>3, <1>4, <1>5, <1>6, <1>7, <1>8, Moving

Moved(r, pc, new) ==
    req' = [req EXCEPT ![r] = [pc |-> pc, kind |-> req[r].kind, token |-> Token(r), new |-> new]]

LEMMA GotoMoves ==
    ASSUME TypeOK, NEW r \in Requests, NEW pc
    PROVE  /\ Goto(r, pc) => Moved(r, pc, req[r].new) /\ req[r].new \in Tokens \cup {NoToken}
           /\ \A new : GotoWith(r, pc, new) => Moved(r, pc, new)
<1>1. req[r] \in Request
  BY DEF TypeOK
<1>2. /\ [req[r] EXCEPT !.pc = pc]
            = [pc |-> pc, kind |-> req[r].kind, token |-> Token(r), new |-> req[r].new]
      /\ req[r].new \in Tokens \cup {NoToken}
  BY <1>1 DEF Request, Token
<1>3. Goto(r, pc) => Moved(r, pc, req[r].new)
  BY <1>2 DEF Goto, Moved
<1>4. ASSUME NEW new, GotoWith(r, pc, new) PROVE Moved(r, pc, new)
  <2>1. [req[r] EXCEPT !.pc = pc, !.new = new]
            = [pc |-> pc, kind |-> req[r].kind, token |-> Token(r), new |-> new]
    <3> DEFINE g == [req[r] EXCEPT !.pc = pc]
    <3>1. g = [pc |-> pc, kind |-> req[r].kind, token |-> Token(r), new |-> req[r].new]
      BY <1>2
    <3> HIDE DEF g
    <3>2. [g EXCEPT !.new = new] = [pc |-> pc, kind |-> req[r].kind, token |-> Token(r), new |-> new]
      BY <3>1
    <3> QED
      BY <3>2 DEF g
  <2>2. req' = [req EXCEPT ![r] = [req[r] EXCEPT !.pc = pc, !.new = new]]
    <3> DEFINE f == [req EXCEPT ![r] = [req[r] EXCEPT !.pc = pc]]
    <3>1. req' = [f EXCEPT ![r] = [f[r] EXCEPT !.new = new]]
      BY <1>4 DEF GotoWith
    <3>2. f[r] = [req[r] EXCEPT !.pc = pc] /\ DOMAIN f = Requests /\ DOMAIN req = Requests
      BY DEF TypeOK
    <3>3. \A q \in Requests : q # r => f[q] = req[q]
      BY DEF TypeOK
    <3> HIDE DEF f
    <3>4. req' = [f EXCEPT ![r] = [req[r] EXCEPT !.pc = pc, !.new = new]]
      BY <3>1, <3>2
    <3> QED
      BY <3>2, <3>3, <3>4
  <2> QED
    BY <2>1, <2>2 DEF Moved
<1> QED
  BY <1>2, <1>3, <1>4

\* Steps that move one request and change no row, no token and not the client.
LEMMA QuietStep ==
    ASSUME IInv, NEW r \in Requests, NEW pc, NEW new \in Tokens \cup {NoToken},
           UNCHANGED <<mode, row, issued, jar>>, past' = past \/ past' \subseteq Incident,
           req[r].pc # "idle",
           Moved(r, pc, new),
           pc \in {"read", "extend", "link", "lookup", "rotate", "purge", "drop", "answer", "refused",
                   "clear"},
           pc \in {"extend", "purge", "answer"} => new \in 1 .. issued,
           pc \in {"link", "lookup", "extend"} => mode = "session",
           pc = "rotate" => mode = "stateless",
           pc \in {"extend", "purge", "answer", "read", "link", "lookup"} => ~Pending(Token(r)),
           pc = "lookup" => (Exists(Token(r)) => row[Token(r)].next # NoToken),
           mode = "session" /\ pc \in {"extend", "purge", "answer"} =>
               /\ Exists(Token(r)) => row[Token(r)].next = new
               /\ \A q \in Requests : Having(q) /\ Token(q) = Token(r) => req[q].new = new
    PROVE  IInv'
<1> DEFINE x == [pc |-> pc, kind |-> req[r].kind, token |-> Token(r), new |-> new]
<1>1. req[r] \in Request /\ Token(r) \in Tokens /\ Token(r) <= issued
  BY RequestKnown
<1>2. x \in Request /\ x.pc = pc /\ x.new = new /\ x.token = Token(r)
  BY <1>1 DEF Request, Token
<1>3. req' = [req EXCEPT ![r] = x]
  BY DEF Moved
<1>4. Shrink /\ row' \in [Tokens -> Row \cup {NoRow}]
  BY SameRows DEF IInv
<1>5. jar' \in 0 .. issued /\ past' \subseteq Incident
  BY DEF IInv, TypeOK
<1>6. req[r] # Idle
  BY DEF Idle
<1>7. Token(r) # NoToken
  BY <1>1 DEF Tokens, NoToken
<1>8. mode = "session" /\ x.pc \in {"extend", "purge", "answer"} =>
         /\ Exists(x.token) => row[x.token].next = x.new
         /\ \A q \in Requests : Having(q) /\ Token(q) = x.token => req[q].new = x.new
  BY <1>2
<1>9. x.pc \in {"extend", "purge", "answer", "read", "link", "lookup"} => ~Pending(x.token)
  BY <1>2
<1>10. x.pc = "lookup" => (Exists(x.token) => row[x.token].next # NoToken)
  BY <1>2
<1>11. /\ x.token <= issued /\ x.token # NoToken /\ x.pc # "insert"
       /\ x.pc \in {"extend", "purge", "answer"} => x.new \in 1 .. issued
       /\ x.pc \in {"link", "lookup", "extend"} => mode = "session"
       /\ x.pc = "rotate" => mode = "stateless"
  BY <1>1, <1>2, <1>7
<1> HIDE DEF x
<1> QED
  BY <1>2, <1>3, <1>4, <1>5, <1>6, <1>8, <1>9, <1>10, <1>11, Moving

\* A live session is not about to be inserted.
LEMMA LiveIsInserted ==
    ASSUME IInv, NEW t \in Tokens, Exists(t) \/ Live(t)
    PROVE  Exists(t) /\ ~Pending(t)
<1>1. Exists(t)
  BY RowNext DEF IInv
<1> QED
  BY <1>1 DEF IInv, OneInsert, Pending, Inserting

LEMMA AuthenticateStep ==
    ASSUME IInv, NEW r \in Requests, Authenticate(r) PROVE IInv'
<1>1. /\ req[r].pc = "authenticate" /\ UNCHANGED <<mode, row, issued, jar>>
      /\ past' \subseteq Incident
  BY DEF Authenticate, IInv, TypeOK, Incident
<1>2. req[r] \in Request /\ Token(r) \in Tokens
  BY <1>1, RequestKnown
<1>3. CASE req' = [req EXCEPT ![r] = Idle]
  <2>1. Idle \in Request /\ 0 <= issued
    BY DEF Idle, Request, IInv, TypeOK, Tokens
  <2>2. jar' \in 0 .. issued /\ past' \subseteq Incident
    BY <1>1 DEF IInv, TypeOK
  <2> QED
    BY <1>1, <1>3, <2>1, <2>2, SameRows, Moving DEF IInv, Idle, NoToken
<1>4. ASSUME NEW pc \in {"clear", "read", "drop"}, Goto(r, pc), pc = "read" => Live(Token(r))
      PROVE  IInv'
  <2>1. Moved(r, pc, req[r].new)
    BY <1>4, GotoMoves DEF IInv
  <2>2. req[r].new \in Tokens \cup {NoToken}
    BY <1>2 DEF Request
  <2>3. pc = "read" => ~Pending(Token(r))
    BY <1>2, <1>4, LiveIsInserted
  <2> QED
    BY <1>1, <1>4, <2>1, <2>2, <2>3, QuietStep
<1> QED
  BY <1>3, <1>4 DEF Authenticate

LEMMA ReadStep ==
    ASSUME IInv, NEW r \in Requests, Read(r) PROVE IInv'
<1> DEFINE t == Token(r)
<1>1. req[r].pc = "read" /\ UNCHANGED <<mode, row, issued, jar, past>>
  BY DEF Read
<1>2. req[r] \in Request /\ t \in Tokens /\ t <= issued
  BY <1>1, RequestKnown
<1>3. ~Pending(t)
  BY <1>1 DEF IInv, AcceptedIsInserted, Accepted
<1>4. req[r].new \in Tokens \cup {NoToken}
  BY <1>2 DEF Request
<1>5. ASSUME NEW pc \in {"refused", "rotate", "link"}, Goto(r, pc),
             pc = "rotate" => mode = "stateless", pc = "link" => mode = "session"
      PROVE  IInv'
  <2>1. Moved(r, pc, req[r].new)
    BY <1>5, GotoMoves DEF IInv
  <2> QED
    BY <1>1, <1>3, <1>4, <1>5, <2>1, QuietStep
<1>6. ASSUME NEW pc, pc = "extend", Live(t), mode = "session", row[t].next # NoToken,
             GotoWith(r, pc, row[t].next)
      PROVE  IInv'
  <2> DEFINE n == row[t].next
  <2>1. n \in Tokens \cup {NoToken} /\ n \in 1 .. issued
    BY <1>2, <1>6, RowNext, RequestKnown DEF IInv, Issued, Tokens, NoToken
  <2>2. Moved(r, pc, n)
    BY <1>6, GotoMoves DEF IInv
  <2>3. Exists(t)
    BY <1>2, <1>6, LiveIsInserted
  <2>4. \A q \in Requests : Having(q) /\ Token(q) = t => req[q].new = n
    BY <1>6, <2>3 DEF IInv, NewIsNext
  <2> HIDE DEF n
  <2>5. Exists(t) => row[t].next = n
    BY DEF n
  <2> QED
    BY <1>1, <1>3, <1>6, <2>1, <2>2, <2>4, <2>5, QuietStep
<1> QED
  BY <1>5, <1>6 DEF Read, t

LEMMA LookupStep ==
    ASSUME IInv, NEW r \in Requests, Lookup(r) PROVE IInv'
<1> DEFINE t == Token(r)
<1>1. req[r].pc = "lookup" /\ UNCHANGED <<mode, row, issued, jar, past>>
  BY DEF Lookup
<1>2. req[r] \in Request /\ t \in Tokens /\ t <= issued
  BY <1>1, RequestKnown
<1>3. ~Pending(t)
  BY <1>1 DEF IInv, AcceptedIsInserted, Accepted
<1>4. ASSUME NEW pc, pc = "purge", Exists(t), GotoWith(r, pc, row[t].next) PROVE IInv'
  <2> DEFINE n == row[t].next
  <2>1. n # NoToken
    BY <1>1, <1>4 DEF IInv, LookupFinds
  <2>2. n \in Tokens \cup {NoToken} /\ n \in 1 .. issued
    BY <1>2, <2>1, RowNext, RequestKnown DEF IInv, Issued, Tokens, NoToken
  <2>3. Moved(r, pc, n)
    BY <1>4, GotoMoves DEF IInv
  <2>4. \A q \in Requests : mode = "session" /\ Having(q) /\ Token(q) = t => req[q].new = n
    BY <1>4 DEF IInv, NewIsNext
  <2> HIDE DEF n
  <2>5. Exists(t) => row[t].next = n
    BY DEF n
  <2> QED
    BY <1>1, <1>3, <1>4, <2>2, <2>3, <2>4, <2>5, QuietStep
<1>5. ASSUME NEW pc, pc = "refused", Goto(r, pc) PROVE IInv'
  <2>1. Moved(r, pc, req[r].new)
    BY <1>5, GotoMoves DEF IInv
  <2>2. req[r].new \in Tokens \cup {NoToken}
    BY <1>2 DEF Request
  <2> QED
    BY <1>1, <1>5, <2>1, <2>2, QuietStep
<1> QED
  BY <1>4, <1>5 DEF Lookup

\* An answer, a lost answer or a crash leaves nothing of the request.
LEMMA EndStep ==
    ASSUME IInv, NEW r \in Requests, Arrive(r) \/ Lose(r) \/ Crash(r) PROVE IInv'
<1>1. req' = [req EXCEPT ![r] = Idle] /\ UNCHANGED <<mode, row, issued>>
  BY DEF Arrive, Lose, Crash
<1>2. jar' \in 0 .. issued
  <2>1. jar \in 0 .. issued /\ issued \in Tokens
    BY DEF IInv, TypeOK
  <2>2. req[r].pc = "answer" => req[r].new \in 1 .. issued
    BY DEF IInv, TypeOK
  <2> QED
    BY <2>1, <2>2 DEF Arrive, Lose, Crash, Tokens, NoToken
<1>3. past' \subseteq Incident
  BY DEF Arrive, Lose, Crash, IInv, TypeOK, Incident
<1>4. Idle \in Request /\ 0 <= issued
  BY DEF Idle, Request, IInv, TypeOK, Tokens
<1> QED
  BY <1>1, <1>2, <1>3, <1>4, SameRows, Moving DEF IInv, Idle, NoToken

-----------------------------------------------------------------------------
(* Steps that change or delete rows                                        *)

\* The same as QuietStep, where rows go or change their expiry.
LEMMA RowStep ==
    ASSUME IInv, NEW r \in Requests, NEW pc, Shrink, row' \in [Tokens -> Row \cup {NoRow}],
           jar' = jar, past' = past \/ past' \subseteq Incident,
           req[r].pc # "idle",
           Moved(r, pc, req[r].new),
           pc = "clear" \/ (pc \in {"purge", "answer"} /\ Having(r))
    PROVE  IInv'
<1> DEFINE x == [pc |-> pc, kind |-> req[r].kind, token |-> Token(r), new |-> req[r].new]
<1>1. req[r] \in Request /\ Token(r) \in Tokens /\ Token(r) <= issued
  BY RequestKnown
<1>2. x \in Request /\ x.pc = pc /\ x.new = req[r].new /\ x.token = Token(r)
  BY <1>1 DEF Request, Token
<1>3. req' = [req EXCEPT ![r] = x]
  BY DEF Moved
<1>4. jar' \in 0 .. issued /\ past' \subseteq Incident
  BY DEF IInv, TypeOK
<1>5. req[r] # Idle /\ Token(r) # NoToken
  BY <1>1 DEF Idle, Tokens, NoToken
<1>6. Having(r) => req[r].new \in 1 .. issued
  BY DEF Having, IInv, TypeOK
<1>7. Having(r) => ~Pending(Token(r))
  BY DEF Accepted, AcceptedIsInserted, IInv
<1>8. mode = "session" /\ Having(r) =>
         /\ Exists(Token(r)) => row[Token(r)].next = req[r].new
         /\ \A q \in Requests : Having(q) /\ Token(q) = Token(r) => req[q].new = req[r].new
  BY DEF IInv, NewIsNext, Agree
<1> HIDE DEF x
<1>9. mode = "session" /\ x.pc \in {"extend", "purge", "answer"} =>
         /\ Exists(x.token) => row[x.token].next = x.new
         /\ \A q \in Requests : Having(q) /\ Token(q) = x.token => req[q].new = x.new
  BY <1>2, <1>8
<1> QED
  BY <1>1, <1>2, <1>3, <1>4, <1>5, <1>6, <1>7, <1>9, Moving

LEMMA ExtendStep ==
    ASSUME IInv, NEW r \in Requests, Extend(r) PROVE IInv'
<1> DEFINE t == req[r].new
<1>1. t \in Tokens
  BY DEF Extend, IInv, TypeOK, Tokens
<1>2. row \in [Tokens -> Row \cup {NoRow}]
  BY DEF IInv, TypeOK
<1>3. Exists(t) => [row[t] EXCEPT !.life = "long"] \in Row
                   /\ [row[t] EXCEPT !.life = "long"].next = row[t].next
  BY <1>1, <1>2 DEF Exists, Row
<1>4. \A s \in Tokens : row'[s] = row[s] \/ (s = t /\ Exists(t) /\ row'[s] = [row[t] EXCEPT !.life = "long"])
  BY <1>1, <1>2 DEF Extend
<1>5. row' \in [Tokens -> Row \cup {NoRow}]
  BY <1>1, <1>2, <1>3 DEF Extend
<1>6. \A s \in Tokens : row[s] = NoRow \/ (Exists(s) /\ row[s] \in Row)
  BY <1>2 DEF Exists
<1>7. \A s \in Tokens : row'[s] = NoRow \/ (Exists(s) /\ row'[s] \in Row /\ row'[s].next = row[s].next)
  BY <1>3, <1>4, <1>6
<1>8. Shrink
  BY <1>7 DEF Shrink, Extend
<1>9. req[r].pc = "extend" /\ Goto(r, "purge") /\ UNCHANGED <<jar, past>>
  BY DEF Extend
<1>10. Moved(r, "purge", req[r].new)
  BY <1>9, GotoMoves DEF IInv
<1> QED
  BY <1>5, <1>8, <1>9, <1>10, RowStep DEF Having

LEMMA PurgeStep ==
    ASSUME IInv, NEW r \in Requests, Purge(r) PROVE IInv'
<1>1. row \in [Tokens -> Row \cup {NoRow}]
  BY DEF IInv, TypeOK
<1>2. \A s \in Tokens : row'[s] \in {row[s], NoRow}
  BY DEF Purge
<1>3. row' \in [Tokens -> Row \cup {NoRow}]
  BY <1>1 DEF Purge
<1>4. Shrink
  BY <1>1, <1>2 DEF Shrink, Purge, Exists
<1>5. req[r].pc = "purge" /\ Goto(r, "answer") /\ UNCHANGED <<jar, past>>
  BY DEF Purge
<1>6. Moved(r, "answer", req[r].new)
  BY <1>5, GotoMoves DEF IInv
<1> QED
  BY <1>3, <1>4, <1>5, <1>6, RowStep DEF Having

LEMMA DropStep ==
    ASSUME IInv, NEW r \in Requests, Drop(r) PROVE IInv'
<1>1. row \in [Tokens -> Row \cup {NoRow}]
  BY DEF IInv, TypeOK
<1>2. req[r].pc = "drop" /\ Goto(r, "clear") /\ jar' = jar /\ past' \subseteq Incident
  BY DEF Drop, IInv, TypeOK, Incident
<1>3. Token(r) \in Tokens
  BY <1>2, RequestKnown
<1>4. \A s \in Tokens : row'[s] \in {row[s], NoRow}
  BY <1>1, <1>3 DEF Drop
<1>5. row' \in [Tokens -> Row \cup {NoRow}]
  BY <1>1, <1>3 DEF Drop
<1>6. Shrink
  BY <1>1, <1>4 DEF Shrink, Drop, Exists
<1>7. Moved(r, "clear", req[r].new)
  BY <1>2, GotoMoves DEF IInv
<1> QED
  BY <1>2, <1>5, <1>6, <1>7, RowStep

LEMMA EndGraceStep ==
    ASSUME IInv, NEW t \in Tokens, EndGrace(t) PROVE IInv'
<1>1. row \in [Tokens -> Row \cup {NoRow}]
  BY DEF IInv, TypeOK
<1>2. Exists(t) /\ row[t] \in Row
  BY <1>1 DEF EndGrace, Exists, NoRow
<1>3. [row[t] EXCEPT !.life = "over"] \in Row /\ [row[t] EXCEPT !.life = "over"].next = row[t].next
  BY <1>2 DEF Row
<1>4. row' = [row EXCEPT ![t] = [row[t] EXCEPT !.life = "over"]]
  BY DEF EndGrace
<1>5. row' \in [Tokens -> Row \cup {NoRow}]
  BY <1>1, <1>3, <1>4
<1>6. \A s \in Tokens : row'[s] = NoRow \/ (Exists(s) /\ row'[s] \in Row /\ row'[s].next = row[s].next)
  BY <1>1, <1>2, <1>3, <1>4 DEF Exists
<1>7. Shrink
  BY <1>6 DEF Shrink, EndGrace
<1>8. UNCHANGED <<req, jar, past, issued, mode>>
  BY DEF EndGrace
<1>9. NoNewInsert
  BY <1>8 DEF NoNewInsert, Inserting
<1>10. /\ \A s \in Tokens : Exists(s)' => Exists(s) /\ row'[s].next = row[s].next
       /\ \A s \in Tokens : row'[s].next \in {row[s].next, NoToken}
       /\ OneInsert' /\ OneHead'
  BY <1>7, <1>9, Shrinking DEF IInv
<1>11. TypeOK'
  BY <1>5, <1>8 DEF IInv, TypeOK
<1>12. \A r \in Requests : Accepted(r) => Token(r) \in Tokens
  BY RequestKnown DEF Accepted, Having
<1>13. Issued' /\ ModeSteps'
  BY <1>8, <1>10 DEF IInv, Issued, ModeSteps, Token, TypeOK, NoToken, Tokens
<1>14. AcceptedIsInserted' /\ LookupFinds'
  BY <1>8, <1>10, <1>12 DEF IInv, AcceptedIsInserted, LookupFinds, Accepted, Having, Token, Pending
<1>15. OneByOne' /\ NewIsNext' /\ Agree'
  BY <1>8, <1>10, <1>12 DEF IInv, OneByOne, NewIsNext, Agree, Accepted, Having, Token
<1> QED
  BY <1>10, <1>11, <1>13, <1>14, <1>15 DEF IInv

-----------------------------------------------------------------------------
(* Steps that make a session                                               *)

\* While a session without a successor is there, none is about to be inserted.
LEMMA HeadAlone ==
    ASSUME IInv, NEW t \in Tokens, Head(t)
    PROVE  /\ \A q \in Requests : ~Inserting(q)
           /\ \A s \in Tokens : Head(s) => s = t
<1>1. ASSUME NEW q \in Requests, Inserting(q) PROVE FALSE
  <2>1. req[q].new \in Tokens /\ Pending(req[q].new) /\ ~Exists(req[q].new)
    BY <1>1 DEF IInv, TypeOK, OneInsert, Inserting, Pending, Tokens
  <2>2. req[q].new = t
    BY <2>1 DEF IInv, OneHead
  <2> QED
    BY <2>1, <2>2 DEF Head
<1> QED
  BY <1>1 DEF IInv, OneHead

LEMMA MovedIs ==
    ASSUME TypeOK, NEW r \in Requests, NEW pc, NEW new, Moved(r, pc, new)
    PROVE  /\ \A q \in Requests : q # r => req'[q] = req[q]
           /\ req'[r] = [pc |-> pc, kind |-> req[r].kind, token |-> Token(r), new |-> new]
           /\ pc \in {"insert", "purge"} /\ new \in Tokens => req' \in [Requests -> Request]
<1> DEFINE x == [pc |-> pc, kind |-> req[r].kind, token |-> Token(r), new |-> new]
<1>1. req' = [req EXCEPT ![r] = x] /\ req \in [Requests -> Request]
  BY DEF Moved, TypeOK
<1>2. pc \in {"insert", "purge"} /\ new \in Tokens => x \in Request
  <2>1. req[r] \in Request
    BY <1>1
  <2> QED
    BY <2>1 DEF Request, Token
<1> HIDE DEF x
<1>3. req'[r] = x /\ \A q \in Requests : q # r => req'[q] = req[q]
  BY <1>1
<1>4. x \in Request => req' \in [Requests -> Request]
  BY <1>1
<1> QED
  BY <1>2, <1>3, <1>4 DEF x

LEMMA LinkStep ==
    ASSUME IInv, NEW r \in Requests, Link(r) PROVE IInv'
<1> DEFINE t == Token(r)
<1>1. req[r].pc = "link" /\ UNCHANGED <<mode, jar, past>> /\ mode = "session"
  BY DEF Link, LinkAs, IInv, ModeSteps
<1>2. t \in Tokens /\ t <= issued /\ issued \in Tokens
  BY <1>1, RequestKnown
<1>3. ~Pending(t)
  BY <1>1 DEF IInv, AcceptedIsInserted, Accepted
<1>4. ASSUME NEW pc, pc = "lookup", ~(Exists(t) /\ row[t].next = NoToken), Goto(r, pc), UNCHANGED <<row, issued>>
      PROVE  IInv'
  <2>1. Moved(r, pc, req[r].new) /\ req[r].new \in Tokens \cup {NoToken}
    BY <1>4, GotoMoves DEF IInv
  <2> QED
    BY <1>1, <1>3, <1>4, <2>1, QuietStep
<1>5. ASSUME NEW n, n = issued + 1, Exists(t), row[t].next = NoToken, issued < MaxTokens,
             row' = [row EXCEPT ![t] = [next |-> n, life |-> "grace"]], issued' = n,
             GotoWith(r, "insert", n)
      PROVE  IInv'
  <2>1. n \in Tokens /\ n \in 1 .. n /\ issued < n
    BY <1>2, <1>5 DEF Tokens
  <2>2. Moved(r, "insert", n)
    BY <1>5, GotoMoves DEF IInv
  <2>3. /\ \A q \in Requests : q # r => req'[q] = req[q]
        /\ req'[r].pc = "insert" /\ req'[r].token = t /\ req'[r].new = n
        /\ req'[r] # Idle
        /\ req' \in [Requests -> Request]
    <3>1. TypeOK
      BY DEF IInv
    <3>2. /\ \A q \in Requests : q # r => req'[q] = req[q]
          /\ req'[r] = [pc |-> "insert", kind |-> req[r].kind, token |-> t, new |-> n]
          /\ req' \in [Requests -> Request]
      BY <2>1, <2>2, <3>1, MovedIs
    <3> QED
      BY <3>2 DEF Idle
  <2>4. row \in [Tokens -> Row \cup {NoRow}] /\ [next |-> n, life |-> "grace"] \in Row
    BY <2>1 DEF IInv, TypeOK, Row
  <2>5. /\ row' \in [Tokens -> Row \cup {NoRow}]
        /\ \A s \in Tokens : s # t => row'[s] = row[s]
        /\ row'[t].next = n
    BY <1>2, <1>5, <2>4
  <2>6. /\ \A q \in Requests : ~Inserting(q)
        /\ \A s \in Tokens : Head(s) => s = t
    BY <1>2, <1>5, HeadAlone DEF Head
  <2>7. \A s \in Tokens : s # t => (Exists(s)' <=> Exists(s)) /\ row'[s].next = row[s].next
    BY <2>5 DEF Exists
  <2>8. \A q \in Requests : Inserting(q)' => q = r
    BY <2>3, <2>6 DEF Inserting
  <2>9. ~Exists(n) /\ t # n /\ ~Exists(n)'
    <3>1. ~Exists(n)
      BY <1>2, <2>1 DEF IInv, Issued, Tokens
    <3>2. t # n
      BY <1>2, <2>1 DEF Tokens
    <3> QED
      BY <2>1, <2>7, <3>1, <3>2
  <2>10. \A s : Pending(s)' => s = n
    BY <2>3, <2>8 DEF Pending, Inserting
  <2>11. TypeOK'
    <3>1. \A q \in Requests :
             req'[q].pc \in {"extend", "insert", "purge", "answer"} => req'[q].new \in 1 .. issued'
      BY <1>2, <1>5, <2>1, <2>3 DEF IInv, TypeOK, Tokens
    <3>2. jar \in 0 .. n
      BY <1>2, <2>1 DEF IInv, TypeOK, Tokens
    <3> QED
      BY <1>1, <1>5, <2>1, <2>3, <2>5, <3>1, <3>2 DEF IInv, TypeOK
  <2>12. Issued'
    <3>1. \A s \in Tokens : Exists(s)' => s <= n
      BY <1>2, <2>1, <2>7 DEF IInv, Issued, Tokens
    <3>2. \A s \in Tokens : row'[s].next <= n
      <4>1. \A s \in Tokens : row[s].next \in Tokens \cup {NoToken} /\ row[s].next <= issued
        BY RowNext DEF IInv, Issued
      <4> QED
        BY <1>2, <2>1, <2>5, <4>1 DEF Tokens, NoToken
    <3>3. \A q \in Requests : Token(q)' <= n /\ (req'[q].pc # "idle" => Token(q)' # NoToken)
      <4>1. \A q \in Requests : Token(q) \in Tokens \cup {NoToken} /\ Token(q) <= issued
        BY RequestKnown DEF Request, Token
      <4> QED
        BY <1>2, <2>1, <2>3, <4>1 DEF IInv, Issued, Token, Tokens, NoToken
    <3> QED
      BY <1>5, <3>1, <3>2, <3>3 DEF Issued
  <2>13. ModeSteps'
    BY <1>1, <2>3 DEF IInv, ModeSteps
  <2>14. OneInsert'
    BY <2>3, <2>8, <2>9 DEF OneInsert
  <2>15. AcceptedIsInserted'
    <3>1. \A q \in Requests : Token(q)' # n
      <4>1. \A q \in Requests : Token(q)' = Token(q)
        BY <2>3 DEF Token
      <4>2. \A q \in Requests : Token(q) \in Tokens \cup {NoToken} /\ Token(q) <= issued
        BY RequestKnown DEF Request, Token
      <4> QED
        BY <1>2, <2>1, <4>1, <4>2 DEF Tokens, NoToken
    <3> QED
      BY <2>10, <3>1 DEF AcceptedIsInserted
  <2>16. LookupFinds'
    <3>1. \A q \in Requests : req'[q].pc = "lookup" => q # r /\ Token(q) \in Tokens
      BY <2>3, RequestKnown
    <3>2. n # NoToken
      BY <2>1 DEF Tokens, NoToken
    <3>3. ASSUME NEW q \in Requests, req'[q].pc = "lookup", Exists(Token(q))'
          PROVE  row'[Token(q)'].next # NoToken
      <4>1. q # r /\ Token(q) \in Tokens /\ Token(q)' = Token(q) /\ req[q].pc = "lookup"
        BY <2>3, <3>1, <3>3 DEF Token
      <4>2. CASE Token(q) = t
        BY <2>5, <3>2, <4>1, <4>2
      <4>3. CASE Token(q) # t
        BY <2>7, <3>3, <4>1, <4>3 DEF IInv, LookupFinds
      <4> QED
        BY <4>2, <4>3
    <3> QED
      BY <3>3 DEF LookupFinds
  <2>17. OneHead'
    <3>1. \A s \in Tokens : ~Head(s)'
      <4>1. n # NoToken
        BY <2>1 DEF Tokens, NoToken
      <4> QED
        BY <2>5, <2>6, <2>7, <4>1 DEF Head
    <3> QED
      BY <2>10, <3>1 DEF OneHead
  <2>18. OneByOne'
    BY <1>1, <2>3 DEF IInv, OneByOne, Idle
  <2>19. \A q \in Requests : q # r /\ Having(q) => Token(q) # t
    <3>1. \A q \in Requests : Having(q) => req[q].new # NoToken
      BY DEF Having, IInv, TypeOK, NoToken
    <3> QED
      BY <1>1, <1>5, <3>1 DEF IInv, NewIsNext
  <2>20. NewIsNext'
    <3> SUFFICES ASSUME NEW q \in Requests, Having(q)', Exists(Token(q))'
                 PROVE  row'[Token(q)'].next = req'[q].new
      BY DEF NewIsNext
    <3>1. CASE q = r
      BY <2>3, <2>5, <3>1 DEF Token
    <3>2. CASE q # r
      <4>1. Having(q) /\ Token(q)' = Token(q) /\ Token(q) # t /\ req'[q].new = req[q].new
        BY <2>3, <2>19, <3>2 DEF Having, Token
      <4>2. Token(q) \in Tokens
        BY <4>1, RequestKnown DEF Having
      <4> QED
        BY <1>1, <2>7, <4>1, <4>2 DEF IInv, NewIsNext
    <3> QED
      BY <3>1, <3>2
  <2>21. Agree'
    BY <1>1, <2>3, <2>19 DEF IInv, Agree, Having, Token
  <2> QED
    BY <2>11, <2>12, <2>13, <2>14, <2>15, <2>16, <2>17, <2>18, <2>20, <2>21 DEF IInv
<1>6. \/ Exists(t) /\ row[t].next = NoToken /\ issued < MaxTokens
         /\ row' = [row EXCEPT ![t] = [next |-> issued + 1, life |-> "grace"]] /\ issued' = issued + 1
         /\ GotoWith(r, "insert", issued + 1)
      \/ ~(Exists(t) /\ row[t].next = NoToken) /\ Goto(r, "lookup") /\ UNCHANGED <<row, issued>>
  BY <1>2 DEF Link, LinkAs, Unlinked, IInv
<1> QED
  BY <1>4, <1>5, <1>6

LEMMA InsertStep ==
    ASSUME IInv, NEW r \in Requests, Insert(r) PROVE IInv'
<1>1. SUFFICES ASSUME NEW n, n = req[r].new PROVE IInv'
  OBVIOUS
<1> DEFINE t == Token(r)
<1>2. /\ req[r].pc = "insert" /\ UNCHANGED <<mode, issued, jar, past>> /\ mode = "session"
      /\ row' = [row EXCEPT ![n] = NewRow]
  BY <1>1 DEF Insert, IInv, ModeSteps
<1>3. n \in Tokens /\ n \in 1 .. issued /\ n <= issued /\ Pending(n) /\ ~Exists(n)
  BY <1>1, <1>2 DEF IInv, TypeOK, OneInsert, Inserting, Pending, Tokens
<1>4. Moved(r, "purge", n)
  BY <1>1, GotoMoves DEF IInv, Insert
<1>5. /\ \A q \in Requests : q # r => req'[q] = req[q]
      /\ req'[r].pc = "purge" /\ req'[r].token = t /\ req'[r].new = n
      /\ req'[r] # Idle
      /\ req' \in [Requests -> Request]
  <2>1. TypeOK
    BY DEF IInv
  <2>2. /\ \A q \in Requests : q # r => req'[q] = req[q]
        /\ req'[r] = [pc |-> "purge", kind |-> req[r].kind, token |-> t, new |-> n]
        /\ req' \in [Requests -> Request]
    BY <1>3, <1>4, <2>1, MovedIs
  <2> QED
    BY <2>2 DEF Idle
<1>6. row \in [Tokens -> Row \cup {NoRow}] /\ NewRow \in Row
  BY DEF IInv, TypeOK, NewRow, Row
<1>7. /\ row' \in [Tokens -> Row \cup {NoRow}]
      /\ \A s \in Tokens : s # n => row'[s] = row[s]
      /\ row'[n].next = NoToken
  BY <1>2, <1>3, <1>6 DEF NewRow
<1>8. \A q \in Requests : Inserting(q) => q = r
  BY <1>2 DEF IInv, OneInsert, Inserting
<1>9. \A q \in Requests : ~Inserting(q)'
  BY <1>5, <1>8 DEF Inserting
<1>10. \A s : ~Pending(s)'
  BY <1>9 DEF Pending, Inserting
<1>11. \A q \in Requests : Accepted(q) => Token(q) # n /\ Token(q) \in Tokens
  <2>1. \A q \in Requests : Accepted(q) => Token(q) \in Tokens
    BY RequestKnown DEF Accepted, Having
  <2> QED
    BY <1>3, <2>1 DEF IInv, AcceptedIsInserted
<1>12. \A s \in Tokens : ~Head(s)
  BY <1>3 DEF IInv, OneHead, Head
<1>13. TypeOK'
  <2>1. \A q \in Requests :
           req'[q].pc \in {"extend", "insert", "purge", "answer"} => req'[q].new \in 1 .. issued'
    BY <1>2, <1>3, <1>5 DEF IInv, TypeOK
  <2> QED
    BY <1>2, <1>5, <1>7, <2>1 DEF IInv, TypeOK
<1>14. Issued'
  <2>1. \A s \in Tokens : Exists(s)' => s <= issued
    BY <1>3, <1>7 DEF IInv, Issued, Exists
  <2>2. \A s \in Tokens : row'[s].next <= issued
    BY <1>3, <1>7 DEF IInv, Issued, TypeOK, Tokens, NoToken
  <2>3. \A q \in Requests : Token(q)' = Token(q) /\ (req'[q].pc # "idle" => req[q].pc # "idle")
    BY <1>2, <1>5 DEF Token
  <2> QED
    BY <1>2, <2>1, <2>2, <2>3 DEF IInv, Issued
<1>15. ModeSteps' /\ OneInsert' /\ AcceptedIsInserted'
  BY <1>2, <1>5, <1>9, <1>10 DEF IInv, ModeSteps, OneInsert, AcceptedIsInserted
<1>16. LookupFinds'
  <2> SUFFICES ASSUME NEW q \in Requests, req'[q].pc = "lookup", Exists(Token(q))'
               PROVE  row'[Token(q)'].next # NoToken
    BY DEF LookupFinds
  <2>1. q # r /\ req[q].pc = "lookup" /\ Token(q)' = Token(q)
    BY <1>5 DEF Token
  <2> QED
    BY <1>7, <1>11, <2>1 DEF IInv, LookupFinds, Accepted, Exists
<1>17. OneHead'
  BY <1>7, <1>10, <1>12 DEF OneHead, Head, Exists
<1>18. \A q \in Requests :
          Token(q)' = Token(q) /\ req'[q].new = req[q].new /\ (Having(q)' => Having(q))
  BY <1>1, <1>2, <1>5 DEF Having, Token
<1>19. NewIsNext'
  <2> SUFFICES ASSUME NEW q \in Requests, Having(q)', Exists(Token(q))'
               PROVE  row'[Token(q)'].next = req'[q].new
    BY DEF NewIsNext
  <2>1. Having(q) /\ Token(q)' = Token(q) /\ req'[q].new = req[q].new
    BY <1>18
  <2>2. Token(q) # n /\ Token(q) \in Tokens
    BY <1>11, <2>1 DEF Accepted
  <2>3. row'[Token(q)] = row[Token(q)] /\ Exists(Token(q))
    BY <1>7, <2>1, <2>2 DEF Exists
  <2> QED
    BY <1>2, <2>1, <2>3 DEF IInv, NewIsNext
<1>20. Agree'
  <2> SUFFICES ASSUME NEW q \in Requests, NEW u \in Requests,
                      Having(q)', Having(u)', Token(q)' = Token(u)'
               PROVE  req'[q].new = req'[u].new
    BY DEF Agree
  <2>1. Having(q) /\ Having(u) /\ Token(q) = Token(u)
    BY <1>18
  <2>2. req[q].new = req[u].new
    BY <1>2, <2>1 DEF IInv, Agree
  <2> QED
    BY <1>18, <2>2
<1>21. OneByOne'
  BY <1>2, <1>5 DEF IInv, OneByOne, Idle
<1> QED
  BY <1>13, <1>14, <1>15, <1>16, <1>17, <1>19, <1>20, <1>21 DEF IInv

LEMMA RotateStep ==
    ASSUME IInv, NEW r \in Requests, Rotate(r) PROVE IInv'
<1>1. SUFFICES ASSUME NEW n, n = issued + 1 PROVE IInv'
  OBVIOUS
<1> DEFINE t == Token(r)
<1>2. /\ req[r].pc = "rotate" /\ UNCHANGED <<mode, jar, past>> /\ mode = "stateless"
      /\ issued' = n /\ issued < MaxTokens
  BY <1>1 DEF Rotate, IInv, ModeSteps
<1>3. /\ t \in Tokens /\ t <= issued /\ issued \in Tokens
      /\ n \in Tokens /\ n \in 1 .. n /\ issued < n /\ t # n
  BY <1>1, <1>2, RequestKnown DEF Tokens
<1>4. Moved(r, "purge", n)
  BY <1>1, GotoMoves DEF IInv, Rotate
<1>5. /\ \A q \in Requests : q # r => req'[q] = req[q]
      /\ req'[r].pc = "purge" /\ req'[r].token = t /\ req'[r].new = n
      /\ req'[r] # Idle
      /\ req' \in [Requests -> Request]
  <2>1. TypeOK
    BY DEF IInv
  <2>2. /\ \A q \in Requests : q # r => req'[q] = req[q]
        /\ req'[r] = [pc |-> "purge", kind |-> req[r].kind, token |-> t, new |-> n]
        /\ req' \in [Requests -> Request]
    BY <1>3, <1>4, <2>1, MovedIs
  <2> QED
    BY <2>2 DEF Idle
<1>6. row \in [Tokens -> Row \cup {NoRow}] /\ NewRow \in Row /\ NewRow.next = NoToken /\ NoRow.next = NoToken
  BY DEF IInv, TypeOK, NewRow, NoRow, Row
<1>7. \A s \in Tokens : row[s].next = NoToken
  BY <1>2 DEF IInv, ModeSteps
<1>8. /\ row' \in [Tokens -> Row \cup {NoRow}]
      /\ \A s \in Tokens : row'[s].next = NoToken
      /\ \A s \in Tokens : Exists(s)' => s <= n
      /\ \A s, u \in Tokens : Exists(s)' /\ Exists(u)' => s = u
  <2>1. \A s \in Tokens : Exists(s) => s <= issued
    BY DEF IInv, Issued
  <2>2. \A s, u \in Tokens : Exists(s) /\ Exists(u) => s = u
    BY <1>7 DEF IInv, OneHead, Head
  <2>3. CASE ~Exists(t)
    <3>1. row' = row
      BY <2>3 DEF Rotate
    <3>2. \A s \in Tokens : Exists(s)' <=> Exists(s)
      BY <3>1 DEF Exists
    <3> QED
      BY <1>3, <1>6, <1>7, <2>1, <2>2, <3>1, <3>2 DEF Tokens
  <2>4. CASE Exists(t)
    <3>1. row' = [row EXCEPT ![n] = NewRow, ![t] = NoRow]
      BY <1>1, <2>4 DEF Rotate
    <3>2. /\ row' \in [Tokens -> Row \cup {NoRow}]
          /\ row'[n] = NewRow /\ row'[t] = NoRow
          /\ \A s \in Tokens : s # n /\ s # t => row'[s] = row[s]
      BY <1>3, <1>6, <3>1
    <3>3. \A s \in Tokens : s # t => ~Exists(s)
      BY <1>3, <2>2, <2>4
    <3>4. \A s \in Tokens : Exists(s)' => s = n
      BY <3>2, <3>3 DEF Exists
    <3>5. n <= n
      BY <1>3 DEF Tokens
    <3> QED
      BY <1>6, <1>7, <3>2, <3>4, <3>5
  <2> QED
    BY <2>3, <2>4
<1>9. \A q \in Requests : ~Inserting(q)'
  BY <1>2, <1>5 DEF IInv, ModeSteps, Inserting
<1>10. \A s : ~Pending(s)'
  BY <1>9 DEF Pending, Inserting
<1>11. TypeOK'
  <2>1. \A q \in Requests :
           req'[q].pc \in {"extend", "insert", "purge", "answer"} => req'[q].new \in 1 .. issued'
    BY <1>2, <1>3, <1>5 DEF IInv, TypeOK, Tokens
  <2>2. jar \in 0 .. n
    BY <1>3 DEF IInv, TypeOK, Tokens
  <2> QED
    BY <1>2, <1>3, <1>5, <1>8, <2>1, <2>2 DEF IInv, TypeOK
<1>12. Issued'
  <2>1. \A s \in Tokens : row'[s].next <= n
    BY <1>3, <1>8 DEF Tokens, NoToken
  <2>2. \A q \in Requests : Token(q)' <= n /\ (req'[q].pc # "idle" => Token(q)' # NoToken)
    <3>1. \A q \in Requests : Token(q) \in Tokens \cup {NoToken} /\ Token(q) <= issued
      BY RequestKnown DEF Request, Token
    <3> QED
      BY <1>2, <1>3, <1>5, <3>1 DEF IInv, Issued, Token, Tokens, NoToken
  <2> QED
    BY <1>2, <1>8, <2>1, <2>2 DEF Issued
<1>13. ModeSteps'
  <2>1. \A q \in Requests : req'[q].pc \notin {"link", "lookup", "extend", "insert"}
    BY <1>2, <1>5 DEF IInv, ModeSteps
  <2> QED
    BY <1>2, <1>8, <2>1 DEF ModeSteps
<1>14. OneInsert' /\ AcceptedIsInserted'
  BY <1>9, <1>10 DEF OneInsert, AcceptedIsInserted
<1>15. LookupFinds'
  <2>1. \A q \in Requests : req'[q].pc # "lookup"
    BY <1>2, <1>5 DEF IInv, ModeSteps
  <2> QED
    BY <2>1 DEF LookupFinds
<1>16. NewIsNext' /\ Agree'
  BY <1>2 DEF NewIsNext, Agree
<1>17. OneHead'
  BY <1>8, <1>10 DEF OneHead, Head
<1>18. OneByOne'
  BY <1>2, <1>5 DEF IInv, OneByOne, Idle
<1> QED
  BY <1>11, <1>12, <1>13, <1>14, <1>15, <1>16, <1>17, <1>18 DEF IInv

-----------------------------------------------------------------------------
(* The invariant                                                           *)

LEMMA InitIInv == Returning /\ Init => IInv
<1> SUFFICES ASSUME Returning, Init PROVE IInv
  OBVIOUS
<1>1. issued = 1 /\ 1 \in Tokens /\ jar = 1 /\ past = {}
  BY DEF Init, Tokens
<1>2. \A r \in Requests : req[r] = Idle /\ req[r].pc = "idle" /\ Token(r) = NoToken
  BY DEF Init, Idle, Token
<1>3. NewRow \in Row /\ NewRow.next = NoToken /\ NoRow.next = NoToken /\ Idle \in Request
  BY DEF NewRow, NoRow, Row, Idle, Request, NoToken
<1>4. /\ row \in [Tokens -> Row \cup {NoRow}]
      /\ \A t \in Tokens : row[t].next = NoToken
      /\ \A t \in Tokens : Exists(t) => t = 1
  BY <1>3 DEF Init, Exists
<1>5. TypeOK
  <2>1. mode \in Modes /\ req \in [Requests -> Request]
    BY <1>3 DEF Init
  <2> QED
    BY <1>1, <1>2, <1>4, <2>1 DEF TypeOK
<1>6. Issued /\ ModeSteps
  BY <1>1, <1>2, <1>4 DEF Issued, ModeSteps, NoToken
<1>7. OneInsert /\ AcceptedIsInserted /\ LookupFinds /\ OneByOne /\ NewIsNext /\ Agree
  BY <1>2 DEF OneInsert, AcceptedIsInserted, LookupFinds, OneByOne, NewIsNext, Agree,
              Accepted, Having, Inserting
<1>8. OneHead
  BY <1>2, <1>4 DEF OneHead, Head, Pending
<1> QED
  BY <1>5, <1>6, <1>7, <1>8 DEF IInv

LEMMA StutterIInv == IInv /\ UNCHANGED vars => IInv'
BY DEF IInv, vars, TypeOK, Issued, ModeSteps, OneInsert, AcceptedIsInserted, LookupFinds, OneHead,
       OneByOne, NewIsNext, Agree, Accepted, Having, Inserting, Exists, Head, Pending, Token

LEMMA StepIInv == IInv /\ [Next]_vars => IInv'
<1> SUFFICES ASSUME IInv, [Next]_vars PROVE IInv'
  OBVIOUS
<1>1. ASSUME NEW r \in Requests, Step(r) PROVE IInv'
  BY <1>1, SendStep, AuthenticateStep, ReadStep, ExtendStep, LinkStep, LookupStep, InsertStep,
     RotateStep, PurgeStep, DropStep, EndStep DEF Step
<1>2. ASSUME NEW t \in Tokens, EndGrace(t) PROVE IInv'
  BY <1>2, EndGraceStep
<1> QED
  BY <1>1, <1>2, StutterIInv DEF Next

\* The inductive invariant holds of every behaviour.
LEMMA Invariance == ASSUME Returning PROVE Spec => []IInv
  BY InitIInv, StepIInv, PTL DEF Spec

-----------------------------------------------------------------------------
(* Theorems                                                                *)

\* On a database that does not return rows nothing is ever looked up.
TInv == ~Returning /\ TypeOK /\ Issued /\ \A r \in Requests : req[r].pc # "lookup"
RowsIssued == \A t \in Tokens : (Exists(t) => t <= issued) /\ row[t].next <= issued

LEMMA TypesGoOn ==
    ASSUME TInv, NEW r \in Requests, NEW x \in Request, req' = [req EXCEPT ![r] = x],
           issued' \in Tokens, issued <= issued', x.pc # "lookup", mode' = mode,
           x.token <= issued, x.pc # "idle" => x.token # NoToken,
           x.pc \in {"extend", "insert", "purge", "answer"} => x.new \in 1 .. issued',
           row' \in [Tokens -> Row \cup {NoRow}],
           RowsIssued',
           jar' \in 0 .. issued, past' \subseteq Incident
    PROVE  TInv'
<1>1. \A q \in Requests : req'[q] = IF q = r THEN x ELSE req[q]
  BY DEF TInv, TypeOK
<1>2. issued \in Nat /\ issued' \in Nat /\ \A q \in Requests : Token(q) \in Nat
  BY DEF TInv, TypeOK, Tokens, Token, Request, NoToken
<1>3. TypeOK'
  <2>1. req' \in [Requests -> Request] /\ jar' \in 0 .. issued'
    BY <1>2 DEF TInv, TypeOK
  <2>2. \A q \in Requests :
           req'[q].pc \in {"extend", "insert", "purge", "answer"} => req'[q].new \in 1 .. issued'
    BY <1>1, <1>2 DEF TInv, TypeOK
  <2> QED BY <2>1, <2>2 DEF TInv, TypeOK
<1>4. Issued'
  <2>1. x.token \in Nat
    BY DEF Request, Tokens, NoToken
  <2>2. \A q \in Requests : Token(q)' <= issued' /\ (req'[q].pc # "idle" => Token(q)' # NoToken)
    BY <1>1, <1>2, <2>1 DEF TInv, Issued, Token
  <2> QED BY <2>2 DEF Issued, RowsIssued
<1> QED
  BY <1>1, <1>3, <1>4 DEF TInv

LEMMA TypeStep == ASSUME TInv, NEW r \in Requests, Step(r) PROVE TInv'
<1>1. /\ req[r] \in Request /\ Token(r) \in Tokens \cup {NoToken} /\ Token(r) <= issued
      /\ req[r].pc # "idle" => Token(r) \in Tokens /\ Token(r) # NoToken
      /\ issued \in Tokens /\ issued \in Nat /\ Tokens \subseteq Nat /\ 1 <= issued
      /\ row \in [Tokens -> Row \cup {NoRow}] /\ jar \in 0 .. issued
      /\ \A t \in Tokens : (Exists(t) => t <= issued) /\ row[t].next <= issued
      /\ \A t \in Tokens : row[t].next \in Nat
  BY DEF TInv, TypeOK, Issued, Token, Request, Tokens, NoToken, Row, NoRow
<1>2. mode' = mode /\ past' \subseteq Incident
  BY DEF Step, Send, Authenticate, Read, Extend, Link, LinkAs, Lookup, Insert, Rotate, Purge, Drop,
         Arrive, Lose, Crash, TInv, TypeOK, Incident
<1>3. /\ NewRow \in Row /\ NewRow.next = NoToken /\ NoRow.next = NoToken /\ NoToken = 0
      /\ \A s \in Row : s # NoRow /\ s.next \in Tokens \cup {NoToken}
  BY DEF NewRow, NoRow, Row, NoToken
<1>4. ASSUME req' = [req EXCEPT ![r] = Idle], row' = row, issued' = issued, jar' \in 0 .. issued
      PROVE  TInv'
  <2> DEFINE x == Idle
  <2>1. /\ x \in Request /\ x.pc = "idle" /\ x.token <= issued
        /\ x.pc \notin {"lookup", "extend", "insert", "purge", "answer"}
    BY <1>1, <1>3 DEF Idle, Request
  <2>2. /\ req' = [req EXCEPT ![r] = x] /\ issued' \in Tokens /\ issued <= issued'
        /\ row' \in [Tokens -> Row \cup {NoRow}] /\ jar' \in 0 .. issued
    BY <1>1, <1>4
  <2>3. RowsIssued'
    BY <1>1, <1>4 DEF RowsIssued, Exists
  <2> HIDE DEF x
  <2> QED BY <1>2, <2>1, <2>2, <2>3, TypesGoOn
<1>5. ASSUME NEW pc, NEW new \in Tokens \cup {NoToken}, Moved(r, pc, new), req[r].pc # "idle",
             pc \in {"read", "extend", "link", "insert", "rotate", "purge", "drop", "answer", "refused",
                    "clear"},
             issued' \in Tokens, issued <= issued', jar' = jar,
             pc \in {"extend", "insert", "purge", "answer"} => new \in 1 .. issued',
             row' \in [Tokens -> Row \cup {NoRow}], RowsIssued'
      PROVE  TInv'
  <2> DEFINE x == [pc |-> pc, kind |-> req[r].kind, token |-> Token(r), new |-> new]
  <2>1. /\ x \in Request /\ x.pc # "lookup" /\ x.token <= issued /\ x.token # NoToken
        /\ x.pc \in {"extend", "insert", "purge", "answer"} => x.new \in 1 .. issued'
    BY <1>1, <1>5 DEF Request, Token
  <2>2. req' = [req EXCEPT ![r] = x]
    BY <1>5 DEF Moved
  <2>3. jar' \in 0 .. issued
    BY <1>1, <1>5
  <2> HIDE DEF x
  <2> QED BY <1>2, <1>5, <2>1, <2>2, <2>3, TypesGoOn
<1>6. ASSUME NEW pc, Goto(r, pc), req[r].pc # "idle",
             pc \in {"read", "link", "rotate", "purge", "drop", "answer", "refused", "clear"},
             issued' = issued, jar' = jar,
             pc \in {"purge", "answer"} => req[r].new \in 1 .. issued,
             row' \in [Tokens -> Row \cup {NoRow}], RowsIssued'
      PROVE  TInv'
  <2>1. Moved(r, pc, req[r].new) /\ req[r].new \in Tokens \cup {NoToken}
    BY <1>6, GotoMoves DEF TInv
  <2>2. /\ issued' \in Tokens /\ issued <= issued'
        /\ pc \in {"extend", "insert", "purge", "answer"} => req[r].new \in 1 .. issued'
        /\ pc \in {"read", "extend", "link", "insert", "rotate", "purge", "drop", "answer", "refused",
                    "clear"}
    BY <1>1, <1>6
  <2> QED BY <1>5, <1>6, <2>1, <2>2
<1>7. row' = row /\ issued' = issued => RowsIssued'
  BY <1>1 DEF Exists, RowsIssued
<1>8. ASSUME NEW kind \in {"use", "refresh", "logout"}, Send(r, kind) PROVE TInv'
  <2> DEFINE x == [pc |-> IF mode = "session" THEN "authenticate"
                          ELSE IF kind = "refresh" THEN "read" ELSE "drop",
                   kind |-> kind, token |-> jar, new |-> NoToken]
  <2>1. /\ x \in Request /\ x.token <= issued /\ x.token # NoToken
        /\ x.pc \notin {"lookup", "extend", "insert", "purge", "answer"}
    BY <1>1, <1>8 DEF Send, Request, Tokens, NoToken
  <2>2. req' = [req EXCEPT ![r] = x] /\ UNCHANGED <<row, issued, jar>>
    BY <1>8 DEF Send
  <2>3. /\ issued' \in Tokens /\ issued <= issued' /\ RowsIssued'
        /\ row' \in [Tokens -> Row \cup {NoRow}] /\ jar' \in 0 .. issued
    BY <1>1, <1>7, <2>2
  <2> HIDE DEF x
  <2> QED BY <1>2, <2>1, <2>2, <2>3, TypesGoOn
<1>9. CASE Authenticate(r)
  <2>1. UNCHANGED <<row, issued, jar>> /\ req[r].pc # "idle"
    BY <1>9 DEF Authenticate
  <2>2. \/ Goto(r, "clear") \/ Goto(r, "read") \/ Goto(r, "drop")
        \/ req' = [req EXCEPT ![r] = Idle]
    BY <1>9 DEF Authenticate
  <2> QED BY <1>1, <1>4, <1>6, <1>7, <2>1, <2>2
<1>10. CASE Read(r)
  <2>1. UNCHANGED <<row, issued, jar>> /\ req[r].pc # "idle"
    BY <1>10 DEF Read
  <2>2. CASE Goto(r, "refused") \/ Goto(r, "rotate") \/ Goto(r, "link")
    BY <1>1, <1>6, <1>7, <2>1, <2>2
  <2>3. ASSUME NEW n, n = row[Token(r)].next, n # NoToken, GotoWith(r, "extend", n) PROVE TInv'
    <3>1. Token(r) \in Tokens /\ n <= issued /\ n \in Tokens \cup {NoToken}
      BY <1>1, <1>3, <2>1, <2>3
    <3>2. n \in 1 .. issued
      BY <1>1, <1>3, <2>3, <3>1
    <3>3. Moved(r, "extend", n)
      BY <2>3, GotoMoves DEF TInv
    <3>4. issued' \in Tokens /\ issued <= issued' /\ row' \in [Tokens -> Row \cup {NoRow}]
      BY <1>1, <2>1
    <3> HIDE DEF Moved
    <3> QED BY <1>5, <1>7, <2>1, <3>1, <3>2, <3>3, <3>4
  <2> QED BY <1>10, <2>2, <2>3 DEF Read
<1>11. CASE Extend(r)
  <2> DEFINE t == req[r].new
  <2>1. t \in 1 .. issued /\ t \in Tokens
    BY <1>1, <1>11 DEF Extend, TInv, TypeOK, Tokens
  <2>2. Exists(t) => [row[t] EXCEPT !.life = "long"] \in Row
                     /\ [row[t] EXCEPT !.life = "long"].next = row[t].next
    BY <1>1, <2>1 DEF Exists, Row
  <2>3. \A u \in Tokens : row'[u] = row[u]
                           \/ (u = t /\ Exists(t) /\ row'[u] = [row[t] EXCEPT !.life = "long"])
    BY <1>1, <1>11, <2>1 DEF Extend
  <2>4. row' \in [Tokens -> Row \cup {NoRow}]
    BY <1>1, <1>11, <2>1, <2>2 DEF Extend
  <2>5. RowsIssued'
    <3>1. issued' = issued
      BY <1>11 DEF Extend
    <3> QED BY <1>1, <2>2, <2>3, <3>1 DEF Exists, RowsIssued
  <2> QED BY <1>6, <1>11, <2>1, <2>4, <2>5 DEF Extend
<1>12. CASE Link(r)
  <2> DEFINE n == issued + 1
  <2>1. /\ GotoWith(r, "insert", n) /\ issued' = n /\ issued < MaxTokens /\ jar' = jar
        /\ req[r].pc # "idle"
        /\ row' = row \/ row' = [row EXCEPT ![Token(r)] = [next |-> n, life |-> "grace"]]
        /\ row' = row \/ Exists(Token(r))
    BY <1>12 DEF Link, LinkAs, TInv
  <2>2. n \in Tokens /\ issued <= n /\ n \in 1 .. n
    BY <1>1, <2>1 DEF Tokens
  <2>3. Moved(r, "insert", n)
    BY <2>1, GotoMoves DEF TInv
  <2>4. [next |-> n, life |-> "grace"] \in Row
    BY <2>2 DEF Row
  <2>5. row' \in [Tokens -> Row \cup {NoRow}]
    BY <1>1, <2>1, <2>4
  <2>6. RowsIssued'
    <3> SUFFICES ASSUME NEW t \in Tokens PROVE (Exists(t)' => t <= n) /\ row'[t].next <= n
      BY <2>1 DEF RowsIssued
    <3>0. t \in Nat /\ row[t].next \in Nat /\ (Exists(t) => t <= issued) /\ row[t].next <= issued
      BY <1>1
    <3>1. (Exists(t) => t <= n) /\ row[t].next <= n
      BY <1>1, <3>0
    <3>2. CASE row'[t] = row[t]
      BY <3>1, <3>2 DEF Exists
    <3>3. CASE row'[t] # row[t]
      <4>1. t = Token(r) /\ row'[t] = [next |-> n, life |-> "grace"] /\ Exists(t)
        BY <1>1, <2>1, <3>3
      <4> QED BY <2>2, <3>1, <4>1
    <3> QED BY <3>2, <3>3
  <2> QED BY <1>5, <2>1, <2>2, <2>3, <2>5, <2>6
<1>13. CASE Insert(r)
  <2>1. req[r].new \in 1 .. issued /\ req[r].new \in Tokens
    BY <1>1, <1>13 DEF Insert, TInv, TypeOK, Tokens
  <2>2. row' = [row EXCEPT ![req[r].new] = NewRow]
    BY <1>13 DEF Insert
  <2>3. row' \in [Tokens -> Row \cup {NoRow}]
    BY <1>1, <1>3, <2>1, <2>2
  <2>4. RowsIssued'
    <3>1. issued' = issued
      BY <1>13 DEF Insert
    <3>2. \A u \in Tokens : row'[u] = row[u] \/ (u \in 1 .. issued /\ row'[u] = NewRow)
      BY <1>1, <2>1, <2>2
    <3>3. \A u \in Tokens : Exists(u)' => u <= issued
      BY <1>1, <3>2 DEF Exists
    <3>4. \A u \in Tokens : row'[u].next <= issued
      BY <1>1, <1>3, <3>2
    <3> QED BY <3>1, <3>3, <3>4 DEF RowsIssued
  <2> QED BY <1>6, <1>13, <2>1, <2>3, <2>4 DEF Insert
<1>14. CASE Rotate(r)
  <2> DEFINE n == issued + 1
             t == Token(r)
  <2>1. /\ GotoWith(r, "purge", n) /\ issued' = n /\ issued < MaxTokens /\ jar' = jar
        /\ req[r].pc # "idle"
        /\ row' = row \/ row' = [row EXCEPT ![n] = NewRow, ![t] = NoRow]
    BY <1>14 DEF Rotate
  <2>2. n \in Tokens /\ issued <= n /\ n \in 1 .. n
    BY <1>1, <2>1 DEF Tokens
  <2>3. Moved(r, "purge", n)
    BY <2>1, GotoMoves DEF TInv
  <2>4. \A u \in Tokens : row'[u] \in {row[u], NoRow} \/ (u = n /\ row'[u] = NewRow)
    BY <1>1, <2>1, <2>2
  <2>5. row' \in [Tokens -> Row \cup {NoRow}]
    BY <1>1, <1>3, <2>1, <2>2
  <2>6. RowsIssued'
    <3> SUFFICES ASSUME NEW u \in Tokens PROVE (Exists(u)' => u <= n) /\ row'[u].next <= n
      BY <2>1 DEF RowsIssued
    <3>0. u \in Nat /\ row[u].next \in Nat /\ (Exists(u) => u <= issued) /\ row[u].next <= issued
      BY <1>1
    <3>1. (Exists(u) => u <= n) /\ row[u].next <= n /\ n \in Nat
      BY <1>1, <3>0
    <3>2. CASE row'[u] = row[u]
      BY <3>1, <3>2 DEF Exists
    <3>3. CASE row'[u] = NoRow
      BY <1>1, <1>3, <3>3 DEF Exists
    <3>4. CASE u = n /\ row'[u] = NewRow
      BY <1>3, <3>1, <3>4
    <3> QED BY <2>4, <3>2, <3>3, <3>4
  <2> QED BY <1>5, <2>1, <2>2, <2>3, <2>5, <2>6
<1>15. CASE Purge(r) \/ Drop(r)
  <2>1. \A t \in Tokens : row'[t] \in {row[t], NoRow}
    BY <1>1, <1>15 DEF Purge, Drop
  <2>2. row' \in [Tokens -> Row \cup {NoRow}]
    BY <1>1, <1>15 DEF Purge, Drop
  <2>3. RowsIssued'
    <3>1. issued' = issued
      BY <1>15 DEF Purge, Drop
    <3> QED BY <1>1, <1>3, <2>1, <3>1 DEF Exists, RowsIssued
  <2>4. Purge(r) => req[r].new \in 1 .. issued
    BY DEF Purge, TInv, TypeOK
  <2> QED BY <1>6, <1>15, <2>2, <2>3, <2>4 DEF Purge, Drop
<1>16. CASE Arrive(r) \/ Lose(r) \/ Crash(r)
  <2>1. req' = [req EXCEPT ![r] = Idle] /\ UNCHANGED <<row, issued>>
    BY <1>16 DEF Arrive, Lose, Crash
  <2>2. req[r].pc = "answer" => req[r].new \in 1 .. issued
    BY DEF TInv, TypeOK
  <2>3. jar' \in 0 .. issued
    BY <1>1, <1>16, <2>2 DEF Arrive, Lose, Crash, NoToken
  <2> QED BY <1>4, <2>1, <2>3
<1>17. ~Lookup(r)
  BY DEF Lookup, TInv
<1> QED
  BY <1>8, <1>9, <1>10, <1>11, <1>12, <1>13, <1>14, <1>15, <1>16, <1>17 DEF Step

\* The types hold, for any number of requests and tokens, on every database.
THEOREM TypeCorrect == Spec => []TypeOK
<1>1. CASE Returning
  <2>1. IInv => TypeOK
    BY DEF IInv
  <2> QED BY <1>1, <2>1, Invariance, PTL
<1>2. CASE ~Returning
  <2>1. Init => TInv
    <3> SUFFICES ASSUME Init PROVE TInv
      OBVIOUS
    <3>1. issued = 1 /\ 1 \in Tokens /\ jar = 1 /\ past = {}
      BY DEF Init, Tokens
    <3>2. \A r \in Requests : req[r] = Idle /\ req[r].pc = "idle" /\ Token(r) = NoToken
      BY DEF Init, Idle, Token
    <3>3. NewRow \in Row /\ NewRow.next = NoToken /\ NoRow.next = NoToken /\ Idle \in Request
      BY DEF NewRow, NoRow, Row, Idle, Request, NoToken
    <3>4. /\ row \in [Tokens -> Row \cup {NoRow}]
          /\ \A t \in Tokens : row[t].next = NoToken /\ (Exists(t) => t = 1)
      BY <3>3 DEF Init, Exists
    <3>5. mode \in Modes /\ req \in [Requests -> Request]
      BY <3>3 DEF Init
    <3>6. TypeOK
      BY <3>1, <3>2, <3>4, <3>5 DEF TypeOK
    <3>7. Issued
      BY <3>1, <3>2, <3>4 DEF Issued, NoToken
    <3> QED BY <1>2, <3>2, <3>6, <3>7 DEF TInv
  <2>2. TInv /\ [Next]_vars => TInv'
    <3> SUFFICES ASSUME TInv, [Next]_vars PROVE TInv'
      OBVIOUS
    <3>1. ASSUME NEW t \in Tokens, EndGrace(t) PROVE TInv'
      <4>1. /\ row \in [Tokens -> Row \cup {NoRow}] /\ row[t].life = "grace"
            /\ row' = [row EXCEPT ![t].life = "over"] /\ UNCHANGED <<mode, issued, req, jar, past>>
        BY <3>1 DEF EndGrace, TInv, TypeOK
      <4>2. row[t] \in Row /\ Exists(t)
        BY <4>1 DEF NoRow, Exists
      <4>3. /\ [row[t] EXCEPT !.life = "over"] \in Row
            /\ [row[t] EXCEPT !.life = "over"].next = row[t].next
        BY <4>2 DEF Row
      <4>4. \A s \in Tokens : row'[s] = row[s] \/ (s = t /\ row'[s] = [row[t] EXCEPT !.life = "over"])
        BY <4>1
      <4>5. row' \in [Tokens -> Row \cup {NoRow}]
        BY <4>1, <4>3
      <4>6. TypeOK'
        BY <4>1, <4>5 DEF TInv, TypeOK
      <4>7. Issued'
        BY <4>1, <4>2, <4>3, <4>4 DEF TInv, Issued, Exists, Token
      <4> QED BY <4>1, <4>6, <4>7 DEF TInv
    <3>2. CASE UNCHANGED vars
      BY <3>2 DEF vars, TInv, TypeOK, Issued, Exists, Token
    <3> QED BY <3>1, <3>2, TypeStep DEF Next
  <2>3. TInv => TypeOK
    BY DEF TInv
  <2> QED BY <2>1, <2>2, <2>3, PTL DEF Spec
<1> QED
  BY <1>1, <1>2

\* A login never has two sessions without a successor, however many refreshes race,
\* and whatever crashes between the statements of updateStatefulSession.
THEOREM LoginDoesNotMultiply ==
    ASSUME Returning
    PROVE  Spec => []OneHead
<1>1. IInv => OneHead
  BY DEF IInv
<1> QED
  BY <1>1, Invariance, PTL

\* All refreshes with one token hand out one successor, provided that clients without
\* sessions have one request at a time.
THEOREM RefreshesAgree ==
    ASSUME Returning, "stateless" \notin Overlapping
    PROVE  Spec => []SameAnswer
<1>1. IInv => SameAnswer
  <2> SUFFICES ASSUME IInv, NEW q \in Requests, NEW r \in Requests,
                      {req[q].pc, req[r].pc} \subseteq {"insert", "purge", "answer"}, Token(q) = Token(r)
               PROVE  req[q].new = req[r].new
    BY DEF SameAnswer
  <2>1. Having(q) /\ Having(r) /\ req[q] # Idle /\ req[r] # Idle
    BY DEF Having, Idle
  <2>2. CASE mode = "session"
    BY <2>1, <2>2 DEF IInv, Agree
  <2>3. CASE mode = "stateless"
    BY <2>1, <2>3 DEF IInv, OneByOne
  <2>4. mode \in {"session", "stateless"}
    BY DEF IInv, TypeOK
  <2> QED
    BY <2>2, <2>3, <2>4
<1> QED
  BY <1>1, Invariance, PTL
-----------------------------------------------------------------------------
(* Rounds: requests that refresh or end a session take turns by token.     *)
(*                                                                         *)
(* All of them have the token of the current round.  A successor is made   *)
(* in this round for the next one, so that it is larger than the token and *)
(* has no successor itself, and nothing but a refresh or a logout of the   *)
(* next round can do it any harm.                                          *)

InTurn == Paced \/ Overlapping = {}

Acting(r) == req[r].kind \in {"refresh", "logout"}

KindFits(r) ==
    LET q == req[r]
    IN  /\ q.kind = "none" <=> q.pc = "idle"
        /\ q.kind = "use" => q.pc \in {"authenticate", "clear"}
        /\ q.kind = "logout" => q.pc \in {"authenticate", "drop", "clear"}
        /\ q.pc = "drop" => q.kind = "logout"

\* A session has its full life as long as it has no successor.
RowFits(t) ==
    Exists(t) => IF row[t].next = NoToken THEN row[t].life = "long"
                 ELSE t < row[t].next /\ row[t].life # "long"

OneRound == \A q, r \in Requests : Acting(q) /\ Acting(r) => Token(q) = Token(r)
JarAhead == \A r \in Requests : Acting(r) /\ jar # NoToken => Token(r) <= jar
NewAhead == \A r \in Requests : Having(r) => Token(r) < req[r].new
LinksBehind ==
    \A t \in Tokens : row[t].next # NoToken =>
        /\ jar # NoToken => t <= jar
        /\ \A r \in Requests : Acting(r) => t <= Token(r)

InRounds ==
    /\ \A r \in Requests : KindFits(r)
    /\ \A t \in Tokens : RowFits(t)
    /\ OneRound /\ JarAhead /\ NewAhead /\ LinksBehind

\* How a request goes on, and what this leaves of the others.
OthersStay(r) == \A q \in Requests \ {r} : req'[q] = req[q]
Goes(r, pc) == req'[r].pc = pc /\ req'[r].kind = req[r].kind /\ Token(r)' = Token(r)

LEMMA GotoGoes ==
    ASSUME TypeOK, NEW r \in Requests, NEW pc, NEW new
    PROVE  /\ Goto(r, pc) => OthersStay(r) /\ Goes(r, pc) /\ req'[r].new = req[r].new
           /\ GotoWith(r, pc, new) => OthersStay(r) /\ Goes(r, pc) /\ req'[r].new = new
<1>1. DOMAIN req = Requests /\ req[r] \in Request
  BY DEF TypeOK
<1>2. ASSUME NEW n, Moved(r, pc, n) PROVE OthersStay(r) /\ Goes(r, pc) /\ req'[r].new = n
  BY <1>1, <1>2 DEF Moved, OthersStay, Goes, Token
<1> QED
  BY <1>2, GotoMoves

\* What a step of a request does to the rounds.
TakesTurn(r) ==
    /\ OthersStay(r)
    /\ \/ req'[r].kind = req[r].kind /\ Token(r)' = Token(r)
       \/ ~Acting(r)'
       \/ Token(r)' = jar /\ jar # NoToken /\ \A q \in Requests : Acting(q) => Token(q) = jar
    /\ jar' \in {jar, NoToken} \/ (Acting(r) /\ Token(r) < jar')
    /\ KindFits(r)'
    /\ Having(r)' => Token(r)' < req'[r].new

RowsGoOn(r) ==
    /\ \A t \in Tokens : row'[t].next # NoToken =>
           row[t].next # NoToken \/ (Acting(r) /\ t = Token(r))
    /\ \A t \in Tokens : RowFits(t)'

LEMMA Numbers ==
    ASSUME IInv
    PROVE  /\ jar \in Nat /\ issued \in Nat /\ Tokens \subseteq Nat
           /\ \A r \in Requests : Token(r) \in Nat /\ req[r].new \in Nat
BY DEF IInv, TypeOK, Tokens, Request, Token, NoToken

LEMMA RoundsGoOn ==
    ASSUME IInv, IInv', InRounds, NEW r \in Requests, TakesTurn(r), RowsGoOn(r)
    PROVE  InRounds'
<1> USE DEF TakesTurn, RowsGoOn
<1>1. /\ jar \in Nat /\ jar' \in Nat /\ Tokens \subseteq Nat /\ NoToken = 0
      /\ \A q \in Requests : Token(q) \in Nat /\ Token(q)' \in Nat
  <2>1. jar' \in Nat /\ \A q \in Requests : Token(q)' \in Nat
    BY DEF IInv, TypeOK, Tokens, Request, Token, NoToken
  <2> QED BY <2>1, Numbers DEF NoToken
<1>2. /\ \A q \in Requests : q # r => (Acting(q)' <=> Acting(q)) /\ Token(q)' = Token(q)
                                      /\ (Having(q)' <=> Having(q)) /\ req'[q].new = req[q].new
                                      /\ (KindFits(q)' <=> KindFits(q))
  BY DEF OthersStay, Acting, Token, Having, KindFits
<1>3. Acting(r)' => \/ Acting(r) /\ Token(r)' = Token(r)
                    \/ Token(r)' = jar /\ jar # NoToken /\ \A q \in Requests : Acting(q) => Token(q) = jar
  BY DEF Acting
<1>4. OneRound'
  BY <1>2, <1>3 DEF InRounds, OneRound
<1>5. JarAhead'
  <2> SUFFICES ASSUME NEW q \in Requests, Acting(q)', jar' # NoToken PROVE Token(q)' <= jar'
    BY DEF JarAhead
  <2>1. \/ Acting(q) /\ Token(q)' = Token(q)
        \/ Token(q)' = jar /\ jar # NoToken /\ \A u \in Requests : Acting(u) => Token(u) = jar
    BY <1>2, <1>3
  <2>2. CASE jar' = jar
    BY <1>1, <2>1, <2>2 DEF InRounds, JarAhead
  <2>3. CASE Acting(r) /\ Token(r) < jar'
    <3>1. Token(q)' = Token(r)
      BY <2>1, <2>3 DEF InRounds, OneRound
    <3> QED BY <1>1, <2>3, <3>1
  <2> QED BY <2>2, <2>3
<1>6. NewAhead'
  BY <1>2 DEF InRounds, NewAhead
<1>7. LinksBehind'
  <2> SUFFICES ASSUME NEW t \in Tokens, row'[t].next # NoToken
               PROVE  /\ jar' # NoToken => t <= jar'
                      /\ \A q \in Requests : Acting(q)' => t <= Token(q)'
    BY DEF LinksBehind
  <2>1. /\ jar # NoToken => t <= jar
        /\ \A q \in Requests : Acting(q) => t <= Token(q)
    <3>1. CASE row[t].next # NoToken
      BY <3>1 DEF InRounds, LinksBehind
    <3>2. CASE Acting(r) /\ t = Token(r)
      <4>1. jar # NoToken => t <= jar
        BY <3>2 DEF InRounds, JarAhead
      <4>2. \A q \in Requests : Acting(q) => Token(q) = t
        BY <3>2 DEF InRounds, OneRound
      <4> QED BY <1>1, <4>1, <4>2
    <3> QED BY <3>1, <3>2
  <2>2. jar' # NoToken => t <= jar'
    BY <1>1, <2>1
  <2>3. \A q \in Requests : Acting(q)' => t <= Token(q)'
    BY <1>1, <1>2, <1>3, <2>1
  <2> QED BY <2>2, <2>3
<1> QED
  BY <1>2, <1>4, <1>5, <1>6, <1>7 DEF InRounds

\* Rows that stay, go or become older; those that are new have their full life.
LEMMA ShrunkRowFits ==
    ASSUME IInv, InRounds, NEW t \in Tokens, row'[t] \in {row[t], NoRow}
    PROVE  RowFits(t)' /\ (row'[t].next # NoToken => row[t].next # NoToken)
BY DEF InRounds, RowFits, Exists, NoRow

LEMMA NewRowFits ==
    ASSUME NEW t \in Tokens, row'[t] = NewRow
    PROVE  RowFits(t)' /\ row'[t].next = NoToken /\ Exists(t)' /\ Live(t)'
BY DEF RowFits, NewRow, NoRow, Exists, Live

LEMMA SameRowsGoOn ==
    ASSUME IInv, InRounds, NEW r \in Requests, row' = row
    PROVE  RowsGoOn(r)
BY ShrunkRowFits DEF RowsGoOn

\* In a round, the next session has its full life already.
LEMMA SuccessorIsFresh ==
    ASSUME IInv, InRounds, NEW r \in Requests, Acting(r), NEW n \in Tokens, Token(r) < n
    PROVE  row[n].next = NoToken /\ (Exists(n) => row[n].life = "long")
<1>1. row[n].next = NoToken
  BY Numbers DEF InRounds, LinksBehind
<1> QED
  BY <1>1 DEF InRounds, RowFits

LEMMA Kinds ==
    ASSUME IInv, InRounds, NEW r \in Requests
    PROVE  /\ req[r].kind \in {"none", "use", "refresh", "logout"}
           /\ Having(r) => Acting(r) /\ req[r].kind = "refresh"
           /\ req[r].pc \in {"read", "link", "lookup", "rotate", "refused"} => req[r].kind = "refresh"
           /\ req[r].pc = "drop" => req[r].kind = "logout"
           /\ req[r].kind = "none" <=> req[r].pc = "idle"
           /\ req[r].pc # "idle" => Token(r) \in Tokens
<1>1. req[r] \in Request /\ KindFits(r) /\ (req[r].pc # "idle" => Token(r) \in Tokens)
  BY RequestKnown DEF InRounds
<1> QED
  BY <1>1 DEF Request, KindFits, Having, Acting

\* A request goes on with the same token.
LEMMA GoingOn ==
    ASSUME IInv, InRounds, NEW r \in Requests, NEW pc, OthersStay(r), Goes(r, pc), jar' = jar,
           pc # "idle",
           \/ req[r].kind = "refresh" /\ pc # "drop"
           \/ req[r].kind = "logout" /\ pc \in {"drop", "clear"}
           \/ req[r].kind = "use" /\ pc = "clear",
           pc \in {"extend", "insert", "purge", "answer"} => Token(r) < req'[r].new
    PROVE  TakesTurn(r)
<1>1. req'[r].pc = pc /\ req'[r].kind = req[r].kind /\ Token(r)' = Token(r)
  BY DEF Goes
<1>2. KindFits(r)'
  BY <1>1 DEF KindFits
<1>3. Having(r)' => Token(r)' < req'[r].new
  BY <1>1 DEF Having
<1> QED
  BY <1>1, <1>2, <1>3 DEF TakesTurn

LEMMA EndingTakesTurn ==
    ASSUME IInv, InRounds, NEW r \in Requests, req' = [req EXCEPT ![r] = Idle],
           jar' \in {jar, NoToken} \/ (Acting(r) /\ Token(r) < jar')
    PROVE  TakesTurn(r)
<1>1. req'[r] = Idle /\ OthersStay(r)
  BY DEF IInv, TypeOK, OthersStay
<1>2. KindFits(r)' /\ ~Acting(r)' /\ ~Having(r)'
  BY <1>1 DEF Idle, KindFits, Acting, Having
<1> QED
  BY <1>1, <1>2 DEF TakesTurn

LEMMA SendTurn ==
    ASSUME IInv, InRounds, InTurn, NEW r \in Requests, NEW kind \in {"use", "refresh", "logout"},
           Send(r, kind)
    PROVE  TakesTurn(r)
<1> DEFINE pc == IF mode = "session" THEN "authenticate"
                 ELSE IF kind = "refresh" THEN "read" ELSE "drop"
<1>1. /\ req' = [req EXCEPT ![r] = [pc |-> pc, kind |-> kind, token |-> jar, new |-> NoToken]]
      /\ jar' = jar /\ jar # NoToken /\ (kind = "use" => mode = "session")
  BY DEF Send
<1>2. /\ OthersStay(r)
      /\ req'[r].pc = pc /\ req'[r].kind = kind /\ Token(r)' = jar
  BY <1>1 DEF IInv, TypeOK, OthersStay, Token
<1>3. kind # "use" => \A q \in Requests : Acting(q) => Token(q) = jar
  <2> SUFFICES ASSUME kind # "use", NEW q \in Requests, Acting(q) PROVE Token(q) = jar
    OBVIOUS
  <2>1. req[q] # Idle /\ Token(q) # NoToken
    BY Kinds DEF Acting, Idle, IInv, Issued, KindFits
  <2>2. Paced => Token(q) = jar
    BY <2>1 DEF Send, Token
  <2>3. Overlapping = {} => FALSE
    BY <2>1 DEF Send
  <2> QED BY <2>2, <2>3 DEF InTurn
<1>4. KindFits(r)' /\ ~Having(r)'
  BY <1>1, <1>2 DEF KindFits, Having
<1>5. kind = "use" => ~Acting(r)'
  BY <1>2 DEF Acting
<1> QED
  BY <1>1, <1>2, <1>3, <1>4, <1>5 DEF TakesTurn

LEMMA RequestTurn ==
    ASSUME IInv, InRounds, NEW r \in Requests,
           \/ Authenticate(r) \/ Read(r) \/ Extend(r) \/ Lookup(r) \/ Insert(r)
           \/ Purge(r) \/ Drop(r) \/ Arrive(r) \/ Lose(r) \/ Crash(r)
    PROVE  TakesTurn(r)
<1> USE Kinds, Numbers
<1>0. TypeOK /\ (Having(r) => Token(r) < req[r].new) /\ Token(r) \in Nat
  BY DEF IInv, InRounds, NewAhead
<1>1. CASE Authenticate(r)
  <2>1. CASE req' = [req EXCEPT ![r] = Idle]
    BY <1>1, <2>1, EndingTakesTurn DEF Authenticate
  <2>2. ASSUME NEW pc \in {"clear", "read", "drop"}, Goto(r, pc),
               pc = "read" => req[r].kind = "refresh", pc = "drop" => req[r].kind = "logout"
        PROVE  TakesTurn(r)
    <3>1. OthersStay(r) /\ Goes(r, pc) /\ jar' = jar /\ req[r].pc = "authenticate"
      BY <1>0, <1>1, <2>2, GotoGoes DEF Authenticate
    <3> QED BY <2>2, <3>1, GoingOn
  <2> QED BY <1>1, <2>1, <2>2 DEF Authenticate
<1>2. CASE Read(r)
  <2>1. req[r].pc = "read" /\ jar' = jar /\ req[r].kind = "refresh" /\ Token(r) \in Tokens
    BY <1>2 DEF Read
  <2>2. ASSUME NEW pc \in {"refused", "rotate", "link"}, Goto(r, pc) PROVE TakesTurn(r)
    BY <1>0, <2>1, <2>2, GotoGoes, GoingOn
  <2>3. ASSUME NEW n, n = row[Token(r)].next, n # NoToken, NEW pc, pc = "extend", GotoWith(r, pc, n)
        PROVE  TakesTurn(r)
    <3>1. Exists(Token(r))
      BY <2>1, <2>3, RowNext DEF IInv
    <3>2. Token(r) < n
      BY <2>1, <2>3, <3>1 DEF InRounds, RowFits
    <3> QED BY <1>0, <2>1, <2>3, <3>2, GotoGoes, GoingOn
  <2> QED BY <1>2, <2>2, <2>3 DEF Read
<1>3. CASE Extend(r) \/ Insert(r) \/ Purge(r)
  <2>1. Having(r) /\ jar' = jar /\ req[r].kind = "refresh"
    BY <1>3 DEF Extend, Insert, Purge, Having
  <2>2. PICK pc \in {"purge", "answer"} : Goto(r, pc)
    BY <1>3 DEF Extend, Insert, Purge
  <2> QED BY <1>0, <2>1, <2>2, GotoGoes, GoingOn
<1>4. CASE Lookup(r)
  <2>1. req[r].pc = "lookup" /\ jar' = jar /\ req[r].kind = "refresh" /\ Token(r) \in Tokens
    BY <1>4 DEF Lookup
  <2>2. ASSUME NEW pc, pc = "refused", Goto(r, pc) PROVE TakesTurn(r)
    BY <1>0, <2>1, <2>2, GotoGoes, GoingOn
  <2>3. ASSUME NEW n, n = row[Token(r)].next, Exists(Token(r)), NEW pc, pc = "purge", GotoWith(r, pc, n)
        PROVE  TakesTurn(r)
    <3>1. Token(r) < n
      BY <2>1, <2>3 DEF InRounds, RowFits, IInv, LookupFinds
    <3> QED BY <1>0, <2>1, <2>3, <3>1, GotoGoes, GoingOn
  <2> QED BY <1>4, <2>2, <2>3 DEF Lookup
<1>5. CASE Drop(r)
  <2>1. /\ req[r].pc = "drop" /\ jar' = jar /\ req[r].kind = "logout"
        /\ OthersStay(r) /\ Goes(r, "clear")
    BY <1>0, <1>5, GotoGoes DEF Drop
  <2> QED BY <2>1, GoingOn
<1>6. CASE Arrive(r) \/ Lose(r) \/ Crash(r)
  <2>1. req' = [req EXCEPT ![r] = Idle]
    BY <1>6 DEF Arrive, Lose, Crash
  <2>2. jar' \in {jar, NoToken} \/ (Having(r) /\ jar' = req[r].new)
    BY <1>6 DEF Arrive, Lose, Crash, Having
  <2> QED BY <1>0, <2>1, <2>2, EndingTakesTurn
<1> QED
  BY <1>1, <1>2, <1>3, <1>4, <1>5, <1>6

\* Link and Rotate make the token of the next round.
LEMMA LinkTurn ==
    ASSUME IInv, IInv', InRounds, NEW r \in Requests, Link(r)
    PROVE  TakesTurn(r) /\ RowsGoOn(r)
<1> USE Kinds, Numbers
<1>0. TypeOK /\ req[r].pc = "link" /\ req[r].kind = "refresh" /\ Acting(r) /\ Token(r) \in Tokens
      /\ Token(r) <= issued /\ Token(r) \in Nat /\ issued \in Nat /\ jar' = jar
  BY RequestKnown DEF Link, LinkAs, IInv, Acting
<1>1. CASE Goto(r, "lookup") /\ row' = row
  BY <1>0, <1>1, GotoGoes, GoingOn, SameRowsGoOn
<1>2. ASSUME NEW t, t = Token(r), NEW n, n = issued + 1, Exists(t), GotoWith(r, "insert", n),
             row' = [row EXCEPT ![t] = [next |-> n, life |-> "grace"]]
      PROVE  TakesTurn(r) /\ RowsGoOn(r)
  <2>1. TakesTurn(r)
    <3>1. OthersStay(r) /\ Goes(r, "insert") /\ req'[r].new = n
      BY <1>0, <1>2, GotoGoes
    <3>2. Token(r) < n
      BY <1>0, <1>2
    <3> QED BY <1>0, <3>1, <3>2, GoingOn
  <2>2. row'[t] = [next |-> n, life |-> "grace"] /\ \A s \in Tokens : s # t => row'[s] = row[s]
    BY <1>0, <1>2 DEF TypeOK
  <2>3. RowFits(t)'
    BY <1>0, <1>2, <2>2 DEF RowFits, NoToken
  <2>4. \A s \in Tokens : s # t => RowFits(s)' /\ (row'[s].next # NoToken => row[s].next # NoToken)
    BY <2>2, ShrunkRowFits
  <2> QED BY <1>0, <1>2, <2>1, <2>3, <2>4 DEF RowsGoOn
<1> QED
  BY <1>1, <1>2 DEF Link, LinkAs, IInv

LEMMA RotateTurn ==
    ASSUME IInv, IInv', InRounds, NEW r \in Requests, Rotate(r)
    PROVE  TakesTurn(r) /\ RowsGoOn(r)
<1> USE Kinds, Numbers
<1>0. PICK t \in Tokens, n \in Tokens : t = Token(r) /\ n = issued + 1
  <2>1. Token(r) \in Tokens /\ issued < MaxTokens /\ issued \in Nat
    BY DEF Rotate
  <2> QED BY <2>1 DEF Tokens
<1>1. TypeOK /\ req[r].pc = "rotate" /\ req[r].kind = "refresh" /\ jar' = jar /\ t < n
      /\ GotoWith(r, "purge", n)
  BY <1>0, RequestKnown DEF Rotate, IInv
<1>2. TakesTurn(r)
  <2>1. OthersStay(r) /\ Goes(r, "purge") /\ req'[r].new = n
    BY <1>1, GotoGoes
  <2> QED BY <1>0, <1>1, <2>1, GoingOn
<1>3. RowsGoOn(r)
  <2>1. CASE row' = row
    BY <2>1, SameRowsGoOn
  <2>2. CASE row' = [row EXCEPT ![n] = NewRow, ![t] = NoRow]
    <3>1. /\ row'[n] = NewRow
          /\ \A s \in Tokens : s # n => row'[s] \in {row[s], NoRow}
      BY <1>0, <1>1, <2>2 DEF TypeOK
    <3> QED BY <3>1, ShrunkRowFits, NewRowFits DEF RowsGoOn
  <2> QED BY <1>0, <2>1, <2>2 DEF Rotate
<1> QED
  BY <1>2, <1>3

\* Extend finds a session that has its full life, and changes nothing.
LEMMA RowsTurn ==
    ASSUME IInv, InRounds, NEW r \in Requests,
           Extend(r) \/ Insert(r) \/ Purge(r) \/ Drop(r)
    PROVE  RowsGoOn(r)
<1> USE Kinds, Numbers
<1>1. row \in [Tokens -> Row \cup {NoRow}]
  BY DEF IInv, TypeOK
<1>2. CASE Extend(r)
  <2>0. PICK n \in Tokens : n = req[r].new
    BY <1>2 DEF Extend, IInv, TypeOK, Tokens
  <2>1. Having(r) /\ Token(r) < n
    BY <1>2, <2>0 DEF Extend, InRounds, NewAhead, Having
  <2>2. row[n].next = NoToken
    BY <2>1, SuccessorIsFresh
  <2>3. CASE Exists(n)
    <3>1. row' = [row EXCEPT ![n].life = "long"]
      BY <1>2, <2>0, <2>3 DEF Extend
    <3>2. row[n] \in Row
      BY <1>1, <2>1, <2>3 DEF Exists
    <3>3. row'[n] = [row[n] EXCEPT !.life = "long"] /\ \A s \in Tokens : s # n => row'[s] = row[s]
      BY <1>1, <2>1, <3>1
    <3>4. row'[n].next = NoToken /\ row'[n].life = "long"
      BY <2>2, <3>2, <3>3 DEF Row
    <3>5. RowFits(n)' /\ row'[n].next = NoToken
      BY <3>4 DEF RowFits
    <3> QED BY <3>3, <3>5, ShrunkRowFits DEF RowsGoOn
  <2>4. CASE ~Exists(n)
    BY <1>2, <2>0, <2>4, SameRowsGoOn DEF Extend
  <2> QED BY <2>3, <2>4
<1>3. CASE Insert(r)
  <2>1. PICK n \in Tokens : n = req[r].new
    BY <1>3 DEF Insert, IInv, TypeOK, Tokens
  <2>2. row'[n] = NewRow /\ \A s \in Tokens : s # n => row'[s] = row[s]
    BY <1>1, <1>3, <2>1 DEF Insert
  <2> QED BY <2>2, ShrunkRowFits, NewRowFits DEF RowsGoOn
<1>4. CASE Purge(r) \/ Drop(r)
  <2>1. \A s \in Tokens : row'[s] \in {row[s], NoRow}
    BY <1>1, <1>4 DEF Purge, Drop
  <2> QED BY <2>1, ShrunkRowFits DEF RowsGoOn
<1> QED
  BY <1>2, <1>3, <1>4

LEMMA StepTurn ==
    ASSUME IInv, IInv', InRounds, InTurn, NEW r \in Requests, Step(r)
    PROVE  TakesTurn(r) /\ RowsGoOn(r)
<1>1. ASSUME NEW kind \in {"use", "refresh", "logout"}, Send(r, kind)
      PROVE  TakesTurn(r) /\ RowsGoOn(r)
  BY <1>1, SendTurn, SameRowsGoOn DEF Send
<1>2. CASE Authenticate(r) \/ Read(r) \/ Lookup(r) \/ Arrive(r) \/ Lose(r) \/ Crash(r)
  <2>1. row' = row
    BY <1>2 DEF Authenticate, Read, Lookup, Arrive, Lose, Crash
  <2> QED BY <1>2, <2>1, RequestTurn, SameRowsGoOn
<1>3. CASE Extend(r) \/ Insert(r) \/ Purge(r) \/ Drop(r)
  BY <1>3, RequestTurn, RowsTurn
<1> QED
  BY <1>1, <1>2, <1>3, LinkTurn, RotateTurn DEF Step

LEMMA EndGraceRows ==
    ASSUME IInv, InRounds, NEW t \in Tokens, EndGrace(t)
    PROVE  /\ \A s \in Tokens : row'[s].next = row[s].next /\ RowFits(s)' /\ (Exists(s)' <=> Exists(s))
           /\ \A s \in Tokens : s # t => row'[s] = row[s]
           /\ row[t].next # NoToken
<1>1. row \in [Tokens -> Row \cup {NoRow}]
  BY DEF IInv, TypeOK
<1>2. row[t] \in Row /\ Exists(t) /\ row[t].next # NoToken /\ t < row[t].next
  BY <1>1 DEF EndGrace, Exists, NoRow, InRounds, RowFits
<1>3. row'[t] = [row[t] EXCEPT !.life = "over"] /\ \A s \in Tokens : s # t => row'[s] = row[s]
  BY <1>1 DEF EndGrace
<1>4. row'[t].next = row[t].next /\ row'[t].life = "over"
  BY <1>2, <1>3 DEF Row
<1>5. RowFits(t)' /\ Exists(t)'
  BY <1>2, <1>4 DEF RowFits, Exists, NoRow
<1>6. \A s \in Tokens : s # t => RowFits(s)' /\ (Exists(s)' <=> Exists(s))
  BY <1>3 DEF InRounds, RowFits, Exists
<1> QED
  BY <1>2, <1>3, <1>4, <1>5, <1>6

LEMMA RoundsInit == Init => InRounds
<1> SUFFICES ASSUME Init PROVE InRounds
  OBVIOUS
<1>1. \A r \in Requests : req[r] = Idle
  BY DEF Init
<1>2. \A r \in Requests : KindFits(r) /\ ~Acting(r) /\ ~Having(r)
  BY <1>1 DEF Idle, KindFits, Acting, Having
<1>3. \A t \in Tokens : row[t] \in {NewRow, NoRow}
  BY DEF Init
<1>4. \A t \in Tokens : RowFits(t) /\ row[t].next = NoToken
  BY <1>3 DEF RowFits, NewRow, NoRow, Exists
<1> QED
  BY <1>2, <1>4 DEF InRounds, OneRound, JarAhead, NewAhead, LinksBehind

LEMMA RoundsNext ==
    ASSUME IInv, IInv', InRounds, InTurn, [Next]_vars
    PROVE  InRounds'
<1>1. CASE UNCHANGED vars
  BY <1>1 DEF vars, InRounds, KindFits, RowFits, Exists, OneRound, JarAhead, NewAhead, LinksBehind,
              Acting, Having, Token
<1>2. ASSUME NEW r \in Requests, Step(r) PROVE InRounds'
  BY <1>2, StepTurn, RoundsGoOn
<1>3. ASSUME NEW t \in Tokens, EndGrace(t) PROVE InRounds'
  <2>1. \A s \in Tokens : row'[s].next = row[s].next /\ RowFits(s)'
    BY <1>3, EndGraceRows
  <2>2. req' = req /\ jar' = jar
    BY <1>3 DEF EndGrace
  <2> QED BY <2>1, <2>2 DEF InRounds, KindFits, OneRound, JarAhead, NewAhead, LinksBehind,
                            Acting, Having, Token
<1> QED
  BY <1>1, <1>2, <1>3 DEF Next

LEMMA RoundsInvariant ==
    ASSUME Returning, InTurn
    PROVE  Spec => []InRounds
<1>1. IInv /\ InRounds /\ [Next]_vars => InRounds'
  BY StepIInv, RoundsNext
<1> QED
  BY <1>1, RoundsInit, Invariance, PTL DEF Spec

-----------------------------------------------------------------------------
(* The tokens that are ahead of the client, or of a request, have their    *)
(* sessions, unless a process ended between the two statements of          *)
(* updateStatefulSession.                                                  *)

Ahead(n) ==
    \/ jar # NoToken /\ jar < n
    \/ \E r \in Requests : Acting(r) /\ Token(r) < n

There(n) == Exists(n) \/ Pending(n)

\* A client without overlapping requests rotates a token that it has.
RotateFinds == \A r \in Requests : req[r].pc = "rotate" => Exists(Token(r))

SuccessorsThere ==
    /\ RotateFinds
    /\ "crash" \notin past => \A n \in 1 .. issued : Ahead(n) => There(n)

LEMMA AheadBefore ==
    ASSUME IInv, IInv', InRounds, NEW r \in Requests, TakesTurn(r), NEW n \in Nat, Ahead(n)'
    PROVE  Ahead(n)
<1>1. /\ jar \in Nat /\ jar' \in Nat /\ NoToken = 0
      /\ \A q \in Requests : Token(q) \in Nat
  <2>1. jar' \in Nat
    BY DEF IInv, TypeOK, Tokens
  <2> QED BY <2>1, Numbers DEF NoToken
<1>2. CASE jar' # NoToken /\ jar' < n
  BY <1>1, <1>2 DEF TakesTurn, Ahead
<1>3. ASSUME NEW q \in Requests, Acting(q)', Token(q)' < n PROVE Ahead(n)
  <2>1. CASE q # r
    BY <1>3, <2>1 DEF TakesTurn, OthersStay, Acting, Token, Ahead
  <2>2. CASE q = r
    BY <1>1, <1>3, <2>2 DEF TakesTurn, Acting, Ahead
  <2> QED BY <2>1, <2>2
<1> QED
  BY <1>2, <1>3 DEF Ahead

\* A token that is ahead has no successor, and no request can end its session.
LEMMA AheadIsFree ==
    ASSUME IInv, InRounds, NEW n \in Tokens, Ahead(n)
    PROVE  /\ row[n].next = NoToken
           /\ Exists(n) => row[n].life = "long"
           /\ \A r \in Requests : Acting(r) => Token(r) # n
<1>1. row[n].next = NoToken
  BY Numbers DEF Ahead, InRounds, LinksBehind
<1>2. ASSUME NEW r \in Requests, Acting(r) PROVE Token(r) # n
  BY <1>2, Numbers DEF Ahead, InRounds, OneRound, JarAhead
<1> QED
  BY <1>1, <1>2 DEF InRounds, RowFits

\* A request that does not insert a session leaves those that are about to be.
LEMMA PendingStays ==
    ASSUME NEW r \in Requests, OthersStay(r), req[r].pc # "insert", NEW n, Pending(n)
    PROVE  Pending(n)'
BY DEF Pending, OthersStay

LEMMA StaysThere ==
    ASSUME IInv, IInv', InRounds, NEW r \in Requests, Step(r), TakesTurn(r), ~Crash(r),
           NEW n \in Tokens, Ahead(n), There(n)
    PROVE  There(n)'
<1> USE Kinds, Numbers
<1>0. row \in [Tokens -> Row \cup {NoRow}] /\ OthersStay(r)
  BY DEF IInv, TypeOK, TakesTurn
<1>1. CASE row' = row /\ req[r].pc # "insert"
  BY <1>0, <1>1, PendingStays DEF There, Exists
<1>2. ASSUME req[r].pc # "insert", Exists(n) => Exists(n)'
      PROVE  There(n)'
  BY <1>0, <1>2, PendingStays DEF There
<1>3. CASE Extend(r) \/ Link(r)
  <2>1. \A s \in Tokens : Exists(s) => Exists(s)'
    <3>1. CASE row' = row
      BY <3>1 DEF Exists
    <3>2. CASE Extend(r) /\ row' # row
      <4>1. /\ Exists(req[r].new) /\ row' = [row EXCEPT ![req[r].new].life = "long"]
            /\ req[r].new \in Tokens
        BY <3>2 DEF Extend, IInv, TypeOK, Tokens
      <4>2. row[req[r].new] \in Row
        BY <1>0, <4>1 DEF Exists
      <4>3. [row[req[r].new] EXCEPT !.life = "long"] # NoRow
        BY <4>2 DEF Row, NoRow
      <4> QED BY <1>0, <4>1, <4>3 DEF Exists
    <3>3. ASSUME NEW t, NEW m, row' = [row EXCEPT ![t] = [next |-> m, life |-> "grace"]]
          PROVE  \A s \in Tokens : Exists(s) => Exists(s)'
      BY <1>0, <3>3 DEF Exists, NoRow
    <3> QED BY <1>3, <3>1, <3>2, <3>3 DEF Link, LinkAs
  <2>2. req[r].pc # "insert"
    BY <1>3 DEF Extend, Link, LinkAs
  <2> QED BY <1>2, <2>1, <2>2
<1>4. CASE Insert(r)
  <2>1. PICK m \in Tokens : m = req[r].new
    BY <1>4 DEF Insert, IInv, TypeOK, Tokens
  <2>2. row'[m] = NewRow /\ \A s \in Tokens : s # m => row'[s] = row[s]
    BY <1>0, <1>4, <2>1 DEF Insert
  <2>3. CASE n = m
    BY <2>2, <2>3, NewRowFits DEF There
  <2>4. CASE n # m
    <3>1. Pending(n) => Pending(n)'
      BY <1>0, <2>1, <2>4 DEF Pending, OthersStay
    <3>2. Exists(n) => Exists(n)'
      BY <2>2, <2>4 DEF Exists
    <3> QED BY <3>1, <3>2 DEF There
  <2> QED BY <2>3, <2>4
<1>5. CASE Rotate(r)
  <2>1. PICK t \in Tokens, m \in Tokens : t = Token(r) /\ m = issued + 1
    <3>1. Token(r) \in Tokens /\ issued < MaxTokens /\ issued \in Nat
      BY <1>5 DEF Rotate
    <3> QED BY <3>1 DEF Tokens
  <2>2. n # t /\ req[r].pc = "rotate"
    BY <1>5, <2>1, AheadIsFree DEF Rotate, Acting
  <2>3. \/ row' = row
        \/ row' = [row EXCEPT ![m] = NewRow, ![t] = NoRow]
    BY <1>5, <2>1 DEF Rotate
  <2>4. Exists(n) => Exists(n)'
    BY <1>0, <2>1, <2>2, <2>3 DEF Exists, NewRow, NoRow
  <2> QED BY <1>2, <2>2, <2>4
<1>6. CASE Purge(r) \/ Drop(r)
  <2>1. /\ req[r].pc # "insert"
        /\ Drop(r) => n # Token(r)
        /\ Exists(n) => row[n].life # "over"
    BY <1>6, AheadIsFree DEF Purge, Drop, Acting
  <2>2. row'[n] = row[n] \/ ~Exists(n)
    BY <1>0, <1>6, <2>1 DEF Purge, Drop, Exists
  <2>3. Exists(n) => Exists(n)'
    BY <2>2 DEF Exists
  <2> QED BY <1>2, <2>1, <2>3
<1>7. CASE \/ \E kind \in {"use", "refresh", "logout"} : Send(r, kind)
           \/ Authenticate(r) \/ Read(r) \/ Lookup(r) \/ Arrive(r) \/ Lose(r)
  <2>1. row' = row /\ req[r].pc # "insert"
    BY <1>7 DEF Send, Idle, Authenticate, Read, Lookup, Arrive, Lose
  <2> QED BY <1>1, <2>1
<1> QED
  BY <1>3, <1>4, <1>5, <1>6, <1>7 DEF Step

\* The token a step generates is that of a session, or of one about to be inserted.
LEMMA NewIsThere ==
    ASSUME IInv, IInv', RotateFinds, NEW r \in Requests, Step(r), issued' # issued
    PROVE  \E n \in Tokens : n = issued + 1 /\ n = issued' /\ There(n)'
<1>1. CASE Link(r)
  <2>1. PICK n \in Tokens : n = issued + 1
    BY <1>1, Numbers DEF Link, LinkAs, Tokens
  <2>2. issued' = n /\ GotoWith(r, "insert", n)
    BY <1>1, <2>1 DEF Link, LinkAs
  <2>3. req'[r].pc = "insert" /\ req'[r].new = n
    BY <2>2, GotoGoes DEF IInv, Goes
  <2> QED BY <2>1, <2>2, <2>3 DEF There, Pending
<1>2. CASE Rotate(r)
  <2>1. PICK n \in Tokens : n = issued + 1
    BY <1>2, Numbers DEF Rotate, Tokens
  <2>2. Token(r) \in Tokens /\ Token(r) # n /\ Exists(Token(r)) /\ issued' = n
    BY <1>2, <2>1, RequestKnown, Numbers DEF Rotate, RotateFinds
  <2>3. row' = [row EXCEPT ![n] = NewRow, ![Token(r)] = NoRow]
    BY <1>2, <2>1, <2>2 DEF Rotate
  <2>4. row'[n] = NewRow
    BY <2>1, <2>2, <2>3 DEF IInv, TypeOK
  <2> QED BY <2>1, <2>2, <2>4, NewRowFits DEF There
<1> QED
  BY <1>1, <1>2 DEF Step, Send, Authenticate, Read, Extend, Lookup, Insert, Purge, Drop, Arrive, Lose, Crash

\* A client of the other mode is alone: its session waits for it.
LEMMA RotateFindsNext ==
    ASSUME IInv, IInv', InRounds, "stateless" \notin Overlapping, RotateFinds,
           NEW r \in Requests, Step(r)
    PROVE  RotateFinds'
<1> SUFFICES ASSUME NEW q \in Requests, req'[q].pc = "rotate" PROVE Exists(Token(q))'
  BY DEF RotateFinds
<1>1. mode = "stateless" /\ mode' = mode /\ mode \notin Overlapping
  BY DEF IInv, ModeSteps, Step, Send, Authenticate, Read, Extend, Link, LinkAs, Lookup, Insert,
         Rotate, Purge, Drop, Arrive, Lose, Crash
<1>2. CASE q # r
  <2>1. OthersStay(r) => req[q].pc = "rotate"
    BY <1>2 DEF OthersStay
  <2>2. req[q] # Idle /\ req[r] # Idle => q = r
    BY <1>1 DEF IInv, OneByOne
  <2>3. OthersStay(r)
    <3>1. TypeOK
      BY DEF IInv
    <3>2. ASSUME NEW x, req' = [req EXCEPT ![r] = x] PROVE OthersStay(r)
      BY <3>1, <3>2 DEF TypeOK, OthersStay
    <3>3. ASSUME NEW pc, Goto(r, pc) PROVE OthersStay(r)
      BY <3>1, <3>3, GotoGoes
    <3>4. ASSUME NEW pc, NEW n, GotoWith(r, pc, n) PROVE OthersStay(r)
      BY <3>1, <3>4, GotoGoes
    <3>5. CASE \E kind \in {"use", "refresh", "logout"} : Send(r, kind)
      BY <3>2, <3>5 DEF Send
    <3>6. CASE Authenticate(r) \/ Arrive(r) \/ Lose(r) \/ Crash(r)
      BY <3>2, <3>3, <3>6 DEF Authenticate, Arrive, Lose, Crash
    <3>7. CASE Read(r) \/ Extend(r) \/ Link(r) \/ Lookup(r) \/ Insert(r) \/ Rotate(r) \/ Purge(r) \/ Drop(r)
      BY <3>3, <3>4, <3>7 DEF Read, Extend, Link, LinkAs, Lookup, Insert, Rotate, Purge, Drop
    <3> QED BY <3>5, <3>6, <3>7 DEF Step
  <2>4. req[q] # Idle
    BY <2>1, <2>3 DEF Idle
  <2>5. req[r] = Idle /\ req[r].pc = "idle"
    BY <1>2, <2>2, <2>4 DEF Idle
  <2>6. ~\E kind \in {"use", "refresh", "logout"} : Send(r, kind)
    BY <1>1, <2>4 DEF Send
  <2> QED BY <2>5, <2>6 DEF Step, Authenticate, Read, Extend, Link, LinkAs, Lookup, Insert, Rotate,
             Purge, Drop, Arrive, Lose, Crash
<1>3. CASE q = r
  <2>1. TypeOK /\ DOMAIN req = Requests
    BY DEF IInv, TypeOK
  <2>2. Read(r) \/ \E kind \in {"use", "refresh", "logout"} : Send(r, kind)
             \/ Authenticate(r) \/ Arrive(r) \/ Lose(r) \/ Crash(r) \/ Extend(r) \/ Link(r)
             \/ Lookup(r) \/ Insert(r) \/ Rotate(r) \/ Purge(r) \/ Drop(r)
    BY DEF Step
  <2>3. ASSUME NEW x, req' = [req EXCEPT ![r] = x] PROVE x.pc = "rotate"
    BY <1>3, <2>1, <2>3
  <2>4. ASSUME NEW pc, Goto(r, pc) PROVE pc = "rotate"
    BY <1>3, <2>1, <2>4, GotoGoes DEF Goes
  <2>5. ASSUME NEW pc, NEW n, GotoWith(r, pc, n) PROVE pc = "rotate"
    BY <1>3, <2>1, <2>5, GotoGoes DEF Goes
  <2>6. ~(\E kind \in {"use", "refresh", "logout"} : Send(r, kind))
    <3> SUFFICES ASSUME NEW kind \in {"use", "refresh", "logout"}, Send(r, kind) PROVE FALSE
      OBVIOUS
    <3> DEFINE x == [pc |-> IF mode = "session" THEN "authenticate"
                            ELSE IF kind = "refresh" THEN "read" ELSE "drop",
                     kind |-> kind, token |-> jar, new |-> NoToken]
    <3>1. req' = [req EXCEPT ![r] = x]
      BY DEF Send
    <3>2. x.pc # "rotate"
      OBVIOUS
    <3> HIDE DEF x
    <3> QED BY <2>3, <3>1, <3>2
  <2>7. ~(Arrive(r) \/ Lose(r) \/ Crash(r)) /\ ~Authenticate(r)
    <3>1. Idle.pc # "rotate"
      BY DEF Idle
    <3>2. req' # [req EXCEPT ![r] = Idle]
      BY <2>3, <3>1
    <3> QED BY <2>4, <3>2 DEF Arrive, Lose, Crash, Authenticate
  <2>8. ~(Extend(r) \/ Link(r) \/ Lookup(r) \/ Insert(r) \/ Rotate(r) \/ Purge(r) \/ Drop(r))
    BY <2>4, <2>5 DEF Extend, Link, LinkAs, Lookup, Insert, Rotate, Purge, Drop
  <2>9. Read(r)
    BY <2>2, <2>6, <2>7, <2>8
  <2>10. Live(Token(r)) /\ row' = row /\ req[r].pc = "read"
    BY <2>4, <2>5, <2>9 DEF Read
  <2>11. Token(r) \in Tokens /\ Exists(Token(r))
    BY <2>10, RequestKnown, RowNext DEF IInv
  <2>12. Token(r)' = Token(r)
    BY <2>1, <2>9, GotoGoes DEF Read, Goes
  <2> QED BY <1>3, <2>10, <2>11, <2>12 DEF Exists
<1> QED
  BY <1>2, <1>3

LEMMA SuccessorsNext ==
    ASSUME IInv, IInv', InRounds, InTurn, SuccessorsThere, "stateless" \notin Overlapping, [Next]_vars
    PROVE  SuccessorsThere'
<1>1. CASE UNCHANGED vars
  BY <1>1 DEF vars, SuccessorsThere, RotateFinds, Ahead, There, Exists, Pending, Acting, Token
<1>2. ASSUME NEW r \in Requests, Step(r) PROVE SuccessorsThere'
  <2>1. TakesTurn(r)
    BY <1>2, StepTurn
  <2>2. RotateFinds'
    BY <1>2, RotateFindsNext DEF SuccessorsThere
  <2>3. ASSUME "crash" \notin past', NEW n \in 1 .. issued', Ahead(n)' PROVE There(n)'
    <3>1. "crash" \notin past /\ ~Crash(r)
      BY <1>2, <2>3 DEF Step, Send, Authenticate, Read, Extend, Link, LinkAs, Lookup, Insert, Rotate,
                    Purge, Drop, Arrive, Lose, Crash
    <3>2. n \in Nat /\ issued \in Nat /\ issued \in Tokens /\ Ahead(n)
      BY <2>1, <2>3, AheadBefore, Numbers, RequestKnown DEF IInv, TypeOK
    <3>3. CASE n \in 1 .. issued
      <4>1. n \in Tokens /\ There(n)
        BY <3>1, <3>2, <3>3 DEF SuccessorsThere, Tokens
      <4> QED BY <1>2, <2>1, <3>1, <3>2, <4>1, StaysThere
    <3>4. CASE n \notin 1 .. issued
      <4>1. issued' # issued
        BY <3>4
      <4>2. PICK m \in Tokens : m = issued + 1 /\ m = issued' /\ There(m)'
        BY <1>2, <4>1, NewIsThere DEF SuccessorsThere
      <4>3. n = m
        BY <3>2, <3>4, <4>2
      <4> QED BY <4>2, <4>3
    <3> QED BY <3>3, <3>4
  <2> QED BY <2>2, <2>3 DEF SuccessorsThere
<1>3. ASSUME NEW t \in Tokens, EndGrace(t) PROVE SuccessorsThere'
  <2>1. \A s \in Tokens : Exists(s)' <=> Exists(s)
    BY <1>3, EndGraceRows
  <2>2. UNCHANGED <<req, jar, issued, past>>
    BY <1>3 DEF EndGrace
  <2>3. 1 .. issued \subseteq Tokens
    BY DEF IInv, TypeOK, Tokens
  <2>4. \A q \in Requests : req[q].pc = "rotate" => Token(q) \in Tokens
    BY RequestKnown
  <2> QED BY <2>1, <2>2, <2>3, <2>4 DEF SuccessorsThere, RotateFinds, Ahead, There, Pending, Acting, Token
<1> QED
  BY <1>1, <1>2, <1>3 DEF Next

LEMMA SuccessorsInvariant ==
    ASSUME Returning, InTurn, "stateless" \notin Overlapping
    PROVE  Spec => []SuccessorsThere
<1>1. Init => SuccessorsThere
  <2> SUFFICES ASSUME Init PROVE SuccessorsThere
    OBVIOUS
  <2>1. issued = 1 /\ jar = 1 /\ \A r \in Requests : req[r].pc = "idle" /\ ~Acting(r)
    BY DEF Init, Idle, Acting
  <2>2. \A n \in 1 .. issued : ~Ahead(n)
    BY <2>1 DEF Ahead
  <2> QED BY <2>1, <2>2 DEF SuccessorsThere, RotateFinds
<1>2. IInv /\ InRounds /\ SuccessorsThere /\ [Next]_vars => SuccessorsThere'
  BY StepIInv, SuccessorsNext
<1> QED
  BY <1>1, <1>2, Invariance, RoundsInvariant, PTL DEF Spec

-----------------------------------------------------------------------------
(* The token of the client.  A session that ends for want of time has a    *)
(* successor, and as long as nothing is lost a request of the client is    *)
(* about to bring it.                                                      *)

Kept == {"lost", "crash"} \cap past = {}
Works(t) == Live(t) \/ Pending(t)

LinkedIsAnswered ==
    Kept /\ jar # NoToken /\ row[jar].next # NoToken =>
        \E r \in Requests : Having(r) /\ Token(r) = jar

LEMMA NewLink ==
    ASSUME IInv, IInv', InRounds, NEW r \in Requests, Step(r), NEW t \in Tokens,
           row[t].next = NoToken, row'[t].next # NoToken
    PROVE  Having(r)' /\ Token(r)' = t
<1>1. row \in [Tokens -> Row \cup {NoRow}]
  BY DEF IInv, TypeOK
<1>2. row'[t] # row[t] /\ row'[t] # NoRow /\ row'[t] # NewRow
  BY DEF NoRow, NewRow
<1>3. CASE Link(r)
  <2>1. /\ row' = [row EXCEPT ![Token(r)] = [next |-> issued + 1, life |-> "grace"]]
        /\ GotoWith(r, "insert", issued + 1)
    BY <1>2, <1>3 DEF Link, LinkAs
  <2>2. t = Token(r)
    BY <1>1, <1>2, <2>1
  <2>3. Goes(r, "insert")
    BY <2>1, GotoGoes DEF IInv
  <2> QED BY <2>2, <2>3 DEF Goes, Having
<1>4. CASE Extend(r)
  <2>1. row' = [row EXCEPT ![req[r].new].life = "long"] /\ req[r].new \in Tokens /\ Exists(req[r].new)
    BY <1>2, <1>4 DEF Extend, IInv, TypeOK, Tokens
  <2>2. row[req[r].new] \in Row
    BY <1>1, <2>1 DEF Exists
  <2>3. [row[req[r].new] EXCEPT !.life = "long"].next = row[req[r].new].next
    BY <2>2 DEF Row
  <2> QED BY <1>1, <2>1, <2>3
<1>5. CASE Insert(r)
  BY <1>1, <1>2, <1>5 DEF Insert
<1>6. CASE Rotate(r)
  BY <1>1, <1>2, <1>6 DEF Rotate
<1>7. CASE Purge(r) \/ Drop(r)
  BY <1>1, <1>2, <1>7 DEF Purge, Drop
<1> QED
  BY <1>2, <1>3, <1>4, <1>5, <1>6, <1>7 DEF Step, Send, Authenticate, Read, Lookup, Arrive, Lose, Crash

\* What a request takes the session of, other than to let it go at the end of its time.
LEMMA LiveStays ==
    ASSUME IInv, IInv', InRounds, NEW r \in Requests, Step(r), NEW t \in Tokens, Live(t)
    PROVE  Live(t)' \/ ((Drop(r) \/ Rotate(r)) /\ t = Token(r))
<1>1. row \in [Tokens -> Row \cup {NoRow}]
  BY DEF IInv, TypeOK
<1>2. CASE row'[t] \in {row[t], NewRow}
  BY <1>2 DEF Live, NewRow
<1>3. CASE Link(r)
  <2>1. CASE row' = [row EXCEPT ![Token(r)] = [next |-> issued + 1, life |-> "grace"]]
    BY <1>1, <1>2, <2>1 DEF Live
  <2> QED BY <1>2, <1>3, <2>1 DEF Link, LinkAs
<1>4. CASE Extend(r)
  <2>1. CASE row' = [row EXCEPT ![req[r].new].life = "long"] /\ req[r].new \in Tokens /\ Exists(req[r].new)
    <3>1. row[req[r].new] \in Row
      BY <1>1, <2>1 DEF Exists
    <3>2. [row[req[r].new] EXCEPT !.life = "long"].life = "long"
      BY <3>1 DEF Row
    <3> QED BY <1>1, <1>2, <2>1, <3>2 DEF Live
  <2>2. req[r].new \in Tokens
    BY <1>4 DEF Extend, IInv, TypeOK, Tokens
  <2> QED BY <1>2, <1>4, <2>1, <2>2 DEF Extend
<1>5. CASE Insert(r)
  BY <1>1, <1>2, <1>5 DEF Insert
<1>6. CASE Rotate(r)
  BY <1>1, <1>2, <1>6 DEF Rotate
<1>7. CASE Purge(r)
  BY <1>2, <1>7 DEF Purge, Live
<1>8. CASE Drop(r)
  BY <1>1, <1>2, <1>8 DEF Drop
<1> QED
  BY <1>2, <1>3, <1>4, <1>5, <1>6, <1>7, <1>8
     DEF Step, Send, Authenticate, Read, Lookup, Arrive, Lose, Crash

\* A request that has a next token keeps it and its own until its answer arrives.
LEMMA HavingStays ==
    ASSUME IInv, IInv', InRounds, InTurn, NEW r \in Requests, Step(r), ~Lose(r), ~Crash(r),
           NEW q \in Requests, Having(q)
    PROVE  \/ /\ Having(q)' /\ Token(q)' = Token(q) /\ req'[q].new = req[q].new
              /\ req[q].pc \in {"purge", "answer"} => req'[q].pc \in {"purge", "answer"}
           \/ q = r /\ Arrive(r) /\ req[r].pc = "answer"
<1>1. CASE q # r
  BY <1>1, StepTurn DEF TakesTurn, OthersStay, Having, Token
<1>2. CASE q = r
  <2>1. Extend(r) \/ Insert(r) \/ Purge(r) \/ Arrive(r)
    BY <1>2 DEF Having, Step, Send, Idle, Authenticate, Read, Link, LinkAs, Lookup, Rotate, Drop
  <2>2. CASE Arrive(r)
    BY <1>2, <2>2 DEF Having, Arrive
  <2>3. CASE Extend(r) \/ Insert(r) \/ Purge(r)
    <3>1. PICK pc \in {"purge", "answer"} : Goto(r, pc)
      BY <2>3 DEF Extend, Insert, Purge
    <3>2. Goes(r, pc) /\ req'[r].new = req[r].new
      BY <3>1, GotoGoes DEF IInv
    <3> QED BY <1>2, <3>2 DEF Goes, Having
  <2> QED BY <2>1, <2>2, <2>3
<1> QED
  BY <1>1, <1>2

\* A logout goes on until it makes the client forget its token.
LEMMA LogoutStays ==
    ASSUME IInv, IInv', InRounds, InTurn, NEW r \in Requests, Step(r), ~Lose(r), ~Crash(r),
           NEW q \in Requests, req[q].kind = "logout"
    PROVE  \/ req'[q].kind = "logout" /\ Token(q)' = Token(q)
           \/ q = r /\ jar' = NoToken
<1>1. CASE q # r
  BY <1>1, StepTurn DEF TakesTurn, OthersStay, Token
<1>2. CASE q = r
  <2>1. req[r].pc \in {"authenticate", "drop", "clear"}
    BY <1>2 DEF InRounds, KindFits
  <2>2. Authenticate(r) \/ Drop(r) \/ Arrive(r)
    BY <2>1 DEF Step, Send, Idle, Read, Extend, Link, LinkAs, Lookup, Insert, Rotate, Purge
  <2>3. CASE Arrive(r)
    BY <1>2, <2>1, <2>3 DEF Arrive
  <2>4. CASE Authenticate(r) \/ Drop(r)
    <3>1. PICK pc \in {"clear", "read", "drop"} : Goto(r, pc)
      BY <1>2, <2>4 DEF Authenticate, Drop
    <3>2. Goes(r, pc)
      BY <3>1, GotoGoes DEF IInv
    <3> QED BY <1>2, <3>2 DEF Goes
  <2> QED BY <2>2, <2>3, <2>4
<1> QED
  BY <1>1, <1>2

JarWorks == Kept /\ jar # NoToken => Works(jar) \/ Replaced \/ LoggingOut
JarInv == LinkedIsAnswered /\ JarWorks

\* The token of an answer has no successor yet, and works.
LEMMA AnswerWorks ==
    ASSUME IInv, InRounds, SuccessorsThere, Kept, NEW r \in Requests, TakesTurn(r), Arrive(r),
           req[r].pc = "answer"
    PROVE  \E n \in Tokens : n = jar' /\ Works(n)' /\ row'[n].next = NoToken
<1>1. PICK n \in Tokens : n = req[r].new /\ n \in 1 .. issued /\ n = jar'
  <2>1. req[r].new \in 1 .. issued /\ issued \in Tokens /\ jar' = req[r].new
    BY DEF Arrive, IInv, TypeOK
  <2> QED BY <2>1 DEF Tokens
<1>2. Ahead(n)
  <2>1. Having(r) /\ Acting(r) /\ Token(r) < n
    BY <1>1, Kinds DEF Having, InRounds, NewAhead
  <2> QED BY <2>1 DEF Ahead
<1>3. There(n) /\ row[n].next = NoToken /\ (Exists(n) => row[n].life = "long")
  BY <1>1, <1>2, AheadIsFree DEF SuccessorsThere, Kept
<1>4. row' = row
  BY DEF Arrive
<1>5. Pending(n) => Pending(n)'
  BY PendingStays DEF TakesTurn
<1>6. Works(n)'
  BY <1>3, <1>4, <1>5 DEF There, Live, Works
<1> QED
  BY <1>1, <1>3, <1>4, <1>6

LEMMA JarStep ==
    ASSUME IInv, IInv', InRounds, InTurn, SuccessorsThere, JarInv, NEW r \in Requests, Step(r)
    PROVE  JarInv'
<1> SUFFICES ASSUME Kept', jar' # NoToken PROVE JarInv'
  BY DEF JarInv, LinkedIsAnswered, JarWorks, Works
<1>1. Kept /\ ~Lose(r) /\ ~Crash(r)
  BY DEF Step, Send, Authenticate, Read, Extend, Link, LinkAs, Lookup, Insert, Rotate, Purge, Drop,
         Arrive, Lose, Crash, Kept
<1>2. TakesTurn(r) /\ RowsGoOn(r)
  BY StepTurn
<1>3. CASE jar' = jar
  <2>1. PICK j \in Tokens : j = jar
    BY <1>3 DEF IInv, TypeOK, Tokens, NoToken
  <2>2. ~(Arrive(r) /\ req[r].pc = "answer" /\ Token(r) = j)
    <3>1. Having(r) => Token(r) < req[r].new /\ Token(r) \in Nat /\ req[r].new \in Nat
      BY Numbers DEF InRounds, NewAhead
    <3> QED BY <1>3, <2>1, <3>1 DEF Arrive, Having
  <2>3. LinkedIsAnswered'
    <3> SUFFICES ASSUME row'[j].next # NoToken PROVE \E q \in Requests : Having(q)' /\ Token(q)' = j
      BY <1>3, <2>1 DEF LinkedIsAnswered
    <3>1. CASE row[j].next = NoToken
      BY <2>1, <3>1, NewLink
    <3>2. CASE row[j].next # NoToken
      <4>1. PICK q \in Requests : Having(q) /\ Token(q) = j
        BY <1>1, <1>3, <2>1, <3>2 DEF JarInv, LinkedIsAnswered
      <4> QED BY <1>1, <2>2, <4>1, HavingStays
    <3> QED BY <3>1, <3>2
  <2>4. ASSUME Live(j) PROVE JarWorks'
    <3>1. CASE Live(j)'
      BY <1>3, <2>1, <3>1 DEF JarWorks, Works
    <3>2. CASE Drop(r) /\ j = Token(r)
      <4>1. req[r].kind = "logout" /\ Goes(r, "clear")
        BY <3>2, Kinds, GotoGoes DEF Drop, IInv
      <4> QED BY <1>3, <2>1, <3>2, <4>1 DEF Goes, JarWorks, Works, LoggingOut
    <3>3. CASE Rotate(r) /\ j = Token(r)
      <4>1. PICK n \in Tokens : n = issued + 1
        BY <3>3, Numbers DEF Rotate, Tokens
      <4>2. Exists(j) /\ j # n
        BY <2>1, <2>4, <3>3, <4>1, RowNext, RequestKnown, Numbers DEF IInv, Rotate
      <4>3. row' = [row EXCEPT ![n] = NewRow, ![j] = NoRow] /\ GotoWith(r, "purge", n)
        BY <3>3, <4>1, <4>2 DEF Rotate
      <4>4. row'[n] = NewRow
        BY <2>1, <4>1, <4>2, <4>3 DEF IInv, TypeOK
      <4>5. Live(n)'
        BY <4>4, NewRowFits
      <4>6. Goes(r, "purge") /\ req'[r].new = n
        BY <4>3, GotoGoes DEF IInv
      <4>7. req'[r].pc \in {"purge", "answer"} /\ Token(r)' = jar' /\ Live(req[r].new)'
        BY <1>3, <2>1, <3>3, <4>5, <4>6 DEF Goes, Live
      <4> QED BY <4>7 DEF JarWorks, Works, Replaced
    <3> QED BY <2>1, <2>4, <3>1, <3>2, <3>3, LiveStays
  <2>5. ASSUME Pending(j) PROVE JarWorks'
    <3>1. PICK q \in Requests : req[q].pc = "insert" /\ req[q].new = j
      BY <2>5 DEF Pending
    <3>2. CASE Insert(r) /\ q = r
      <4>1. row' = [row EXCEPT ![j] = NewRow]
        BY <3>1, <3>2 DEF Insert
      <4>2. row'[j] = NewRow
        BY <4>1 DEF IInv, TypeOK
      <4> QED BY <1>3, <2>1, <4>2, NewRowFits DEF JarWorks, Works
    <3>3. CASE q # r
      BY <1>2, <1>3, <2>1, <3>1, <3>3 DEF TakesTurn, OthersStay, JarWorks, Works, Pending
    <3>4. CASE q = r
      BY <1>1, <3>1, <3>2, <3>4 DEF Step, Send, Idle, Authenticate, Read, Extend, Link, LinkAs, Lookup,
                                 Rotate, Purge, Drop, Arrive
    <3> QED BY <3>3, <3>4
  <2>6. ASSUME Replaced PROVE JarWorks'
    <3>1. PICK q \in Requests : req[q].pc \in {"purge", "answer"} /\ Token(q) = j /\ Live(req[q].new)
      BY <2>1, <2>6 DEF Replaced
    <3>2. PICK n \in Tokens : n = req[q].new
      BY <3>1 DEF IInv, TypeOK, Tokens
    <3>3. Having(q) /\ j < n /\ j \in Nat /\ n \in Nat
      BY <2>1, <3>1, <3>2, Numbers DEF Having, InRounds, NewAhead
    <3>4. Acting(r) => Token(r) = j
      BY <3>1, <3>3, Kinds DEF InRounds, OneRound
    <3>5. Drop(r) \/ Rotate(r) => Acting(r)
      BY Kinds DEF Drop, Rotate, Acting
    <3>6. Live(n)'
      BY <3>1, <3>2, <3>3, <3>4, <3>5, LiveStays
    <3>7. req'[q].pc \in {"purge", "answer"} /\ Token(q)' = j /\ req'[q].new = n
      BY <1>1, <2>2, <3>1, <3>2, <3>3, HavingStays
    <3> QED BY <1>3, <2>1, <3>6, <3>7 DEF JarWorks, Works, Replaced, Live
  <2>7. ASSUME LoggingOut PROVE JarWorks'
    <3>1. PICK q \in Requests : req[q].kind = "logout" /\ Token(q) = j
      BY <2>1, <2>7 DEF LoggingOut
    <3>2. req'[q].kind = "logout" /\ Token(q)' = j
      BY <1>1, <3>1, LogoutStays
    <3> QED BY <1>3, <2>1, <3>2 DEF JarWorks, Works, LoggingOut
  <2>8. Live(j) \/ Pending(j) \/ Replaced \/ LoggingOut
    BY <1>1, <1>3, <2>1 DEF JarInv, JarWorks, Works
  <2> QED BY <2>3, <2>4, <2>5, <2>6, <2>7, <2>8 DEF JarInv
<1>4. CASE jar' # jar
  <2>1. Arrive(r) /\ req[r].pc = "answer"
    BY <1>1, <1>4 DEF Step, Send, Authenticate, Read, Extend, Link, LinkAs, Lookup, Insert, Rotate, Purge,
                      Drop, Arrive
  <2>2. PICK n \in Tokens : n = jar' /\ Works(n)' /\ row'[n].next = NoToken
    BY <1>1, <1>2, <2>1, AnswerWorks
  <2>3. LinkedIsAnswered'
    BY <2>2 DEF LinkedIsAnswered
  <2> QED BY <2>2, <2>3 DEF JarInv, JarWorks, Works
<1> QED
  BY <1>3, <1>4

\* The grace period of a session does not end while a request with its token is under
\* way: if it is the client's session, there is one.
LEMMA JarEndGrace ==
    ASSUME IInv, InRounds, JarInv, Timely, NEW t \in Tokens, EndGrace(t)
    PROVE  JarInv'
<1>1. UNCHANGED <<mode, issued, req, jar, past>> /\ \A r \in Requests : Token(r) # t
  BY DEF EndGrace
<1>2. /\ \A s \in Tokens : row'[s].next = row[s].next
      /\ \A s \in Tokens : s # t => row'[s] = row[s]
      /\ row[t].next # NoToken
  BY EndGraceRows
<1> SUFFICES ASSUME Kept, jar # NoToken PROVE JarInv'
  BY <1>1 DEF JarInv, LinkedIsAnswered, JarWorks, Kept
<1>3. PICK j \in Tokens : j = jar
  BY DEF IInv, TypeOK, Tokens, NoToken
<1>4. LinkedIsAnswered'
  BY <1>1, <1>2, <1>3 DEF JarInv, LinkedIsAnswered, Having, Token
<1>5. j # t
  BY <1>1, <1>2, <1>3 DEF JarInv, LinkedIsAnswered
<1>6. Live(j) => Live(j)'
  BY <1>2, <1>5 DEF Live
<1>7. Replaced => Replaced'
  <2> SUFFICES ASSUME NEW q \in Requests, req[q].pc \in {"purge", "answer"}, Token(q) = jar,
                      Live(req[q].new)
               PROVE  Replaced'
    BY DEF Replaced
  <2>1. PICK n \in Tokens : n = req[q].new
    BY DEF IInv, TypeOK, Tokens
  <2>2. row[n].next = NoToken
    BY <2>1, Kinds, SuccessorIsFresh DEF Having, InRounds, NewAhead
  <2>3. row'[n] = row[n]
    BY <1>2, <2>2
  <2>4. req'[q] = req[q] /\ Token(q)' = Token(q) /\ Live(req[q].new)'
    BY <1>1, <2>1, <2>3 DEF Live, Token
  <2> QED BY <1>1, <2>4 DEF Replaced
<1>8. Pending(j)' = Pending(j) /\ LoggingOut' = LoggingOut
  BY <1>1 DEF Pending, LoggingOut, Token
<1> QED
  BY <1>1, <1>3, <1>4, <1>6, <1>7, <1>8 DEF JarInv, JarWorks, Works

-----------------------------------------------------------------------------
(* How a client loses its token.  Until a session is logged out, the token *)
(* of the client and of every request works, or is about to; an answer     *)
(* that clears it can only be that to a use before the insert.             *)

NotLoggedOut == mode = "session" /\ Kept /\ "logout" \notin past
TokensWork ==
    NotLoggedOut =>
        /\ jar # NoToken => Works(jar)
        /\ \A r \in Requests : req[r].pc # "idle" => Works(Token(r))
ClearIsEarned ==
    Kept /\ (jar = NoToken \/ \E r \in Requests : req[r].pc = "clear") =>
        {"logout", "early"} \cap past # {}
AskedInSession == \A r \in Requests : req[r].pc = "authenticate" => mode = "session"
LossInv == TokensWork /\ ClearIsEarned /\ AskedInSession

LEMMA WorksStays ==
    ASSUME IInv, IInv', InRounds, InTurn, mode = "session", NEW r \in Requests, Step(r),
           ~Drop(r), ~Crash(r), NEW t \in Tokens, Works(t)
    PROVE  Works(t)'
<1>1. ~Rotate(r)
  BY DEF Rotate, IInv, ModeSteps
<1>2. CASE Live(t)
  BY <1>1, <1>2, LiveStays DEF Works
<1>3. ASSUME NEW q \in Requests, req[q].pc = "insert", req[q].new = t PROVE Works(t)'
  <2>1. CASE Insert(r) /\ q = r
    <3>1. row'[t] = NewRow
      BY <1>3, <2>1 DEF Insert, IInv, TypeOK
    <3> QED BY <3>1, NewRowFits DEF Works
  <2>2. CASE q # r
    BY <1>3, <2>2, StepTurn DEF TakesTurn, OthersStay, Pending, Works
  <2>3. CASE q = r /\ ~Insert(r)
    BY <1>3, <2>3 DEF Step, Send, Idle, Authenticate, Read, Extend, Link, LinkAs, Lookup,
                      Rotate, Purge, Drop, Arrive, Lose
  <2> QED BY <2>1, <2>2, <2>3
<1> QED
  BY <1>2, <1>3 DEF Works, Pending

\* The request that moves keeps its token, ends, or is sent with that of the client.
LEMMA TokenKept ==
    ASSUME IInv, NEW r \in Requests, Step(r), req'[r].pc # "idle"
    PROVE  (Token(r)' = Token(r) /\ req[r].pc # "idle") \/ (Token(r)' = jar /\ jar # NoToken)
<1>1. CASE \E kind \in {"use", "refresh", "logout"} : Send(r, kind)
  BY <1>1 DEF Send, Token, IInv, TypeOK
<1>2. CASE req' = [req EXCEPT ![r] = Idle]
  BY <1>2 DEF IInv, TypeOK, Idle
<1>3. ASSUME NEW pc, NEW new, Goto(r, pc) \/ GotoWith(r, pc, new), req[r].pc # "idle"
      PROVE  Token(r)' = Token(r)
  BY <1>3, GotoGoes DEF Goes, IInv
<1>4. CASE Authenticate(r)
  <2>1. req[r].pc # "idle"
    BY <1>4 DEF Authenticate
  <2>2. Goto(r, "clear") \/ Goto(r, "read") \/ Goto(r, "drop") \/ req' = [req EXCEPT ![r] = Idle]
    BY <1>4 DEF Authenticate
  <2>3. CASE Goto(r, "clear") \/ Goto(r, "read") \/ Goto(r, "drop")
    BY <1>3, <2>1, <2>3
  <2> QED BY <1>2, <2>2, <2>3
<1>5. CASE Read(r) \/ Extend(r) \/ Link(r) \/ Lookup(r) \/ Insert(r) \/ Rotate(r) \/ Purge(r) \/ Drop(r)
  <2>1. req[r].pc # "idle"
    BY <1>5 DEF Read, Extend, Link, LinkAs, Lookup, Insert, Rotate, Purge, Drop
  <2>2. \E pc, new : Goto(r, pc) \/ GotoWith(r, pc, new)
    BY <1>5 DEF Read, Extend, Link, LinkAs, Lookup, Insert, Rotate, Purge, Drop
  <2> QED BY <1>3, <2>1, <2>2
<1>6. CASE Arrive(r) \/ Lose(r) \/ Crash(r)
  BY <1>2, <1>6 DEF Arrive, Lose, Crash
<1> QED
  BY <1>1, <1>2, <1>4, <1>5, <1>6 DEF Step

LEMMA LossStep ==
    ASSUME IInv, IInv', InRounds, InTurn, SuccessorsThere, LossInv, NEW r \in Requests, Step(r)
    PROVE  LossInv'
<1>1. past \subseteq past' /\ mode' = mode
  BY DEF Step, Send, Authenticate, Read, Extend, Link, LinkAs, Lookup, Insert, Rotate, Purge, Drop,
         Arrive, Lose, Crash
<1>2. TakesTurn(r)
  BY StepTurn
<1>3. /\ Kept' => Kept /\ ~Lose(r) /\ ~Crash(r)
      /\ NotLoggedOut' => NotLoggedOut /\ ~Drop(r)
  BY <1>1 DEF Kept, NotLoggedOut, Lose, Crash, Drop
<1>4. jar' = jar \/ Arrive(r) \/ Lose(r) \/ Crash(r)
  BY DEF Step, Send, Authenticate, Read, Extend, Link, LinkAs, Lookup, Insert, Rotate, Purge, Drop
<1>5. jar' = jar \/ (Arrive(r) /\ req[r].pc \in {"answer", "clear"})
  BY <1>4 DEF Arrive, Lose, Crash
<1>6. TokensWork'
  <2> SUFFICES ASSUME NotLoggedOut'
               PROVE  /\ jar' # NoToken => Works(jar)'
                      /\ \A q \in Requests : req'[q].pc # "idle" => Works(Token(q))'
    BY DEF TokensWork
  <2>1. NotLoggedOut /\ Kept /\ mode = "session" /\ ~Drop(r) /\ ~Crash(r)
    BY <1>3 DEF NotLoggedOut
  <2>2. ASSUME NEW t, \/ jar # NoToken /\ t = jar
                      \/ \E q \in Requests : req[q].pc # "idle" /\ t = Token(q)
        PROVE  Works(t)'
    <3>1. t \in Tokens
      BY <2>2, RequestKnown DEF IInv, TypeOK, Tokens, NoToken
    <3>2. Works(t)
      BY <2>1, <2>2 DEF LossInv, TokensWork
    <3> QED BY <2>1, <3>1, <3>2, WorksStays
  <2>3. jar' # NoToken => Works(jar)'
    <3>1. CASE jar' = jar
      <4>1. PICK t : t = jar
        OBVIOUS
      <4>2. jar # NoToken => Works(t)'
        BY <2>2, <4>1
      <4> QED BY <3>1, <4>1, <4>2 DEF Works, Live, Pending
    <3>2. CASE Arrive(r) /\ req[r].pc = "answer"
      BY <1>2, <2>1, <3>2, AnswerWorks
    <3>3. CASE Arrive(r) /\ req[r].pc = "clear"
      BY <3>3 DEF Arrive
    <3> QED BY <1>5, <3>1, <3>2, <3>3
  <2>4. ASSUME NEW q \in Requests, req'[q].pc # "idle" PROVE Works(Token(q))'
    <3>1. CASE q # r
      <4>1. req'[q] = req[q] /\ Token(q)' = Token(q)
        BY <1>2, <3>1 DEF TakesTurn, OthersStay, Token
      <4>2. PICK t : t = Token(q)
        OBVIOUS
      <4>3. Works(t)'
        BY <2>2, <2>4, <4>1, <4>2
      <4> QED BY <4>1, <4>2, <4>3 DEF Works, Live, Pending
    <3>2. CASE q = r
      <4>1. PICK t : t = Token(r)'
        OBVIOUS
      <4>2. Works(t)'
        BY <2>2, <2>4, <3>2, <4>1, TokenKept
      <4> QED BY <3>2, <4>1, <4>2 DEF Works, Live, Pending
    <3> QED BY <3>1, <3>2
  <2> QED BY <2>3, <2>4
<1>7. AskedInSession'
  <2> SUFFICES ASSUME NEW q \in Requests, req'[q].pc = "authenticate" PROVE mode = "session"
    BY <1>1 DEF AskedInSession
  <2>1. CASE q # r
    BY <1>2, <2>1 DEF TakesTurn, OthersStay, LossInv, AskedInSession
  <2>2. CASE q = r
    <3>1. CASE \E kind \in {"use", "refresh", "logout"} : Send(r, kind)
      BY <2>2, <3>1 DEF Send, IInv, TypeOK
    <3>2. CASE req' = [req EXCEPT ![r] = Idle]
      BY <2>2, <3>2 DEF IInv, TypeOK, Idle
    <3>3. ASSUME NEW pc, pc # "authenticate", NEW new, Goto(r, pc) \/ GotoWith(r, pc, new) PROVE FALSE
      BY <2>2, <3>3, GotoGoes DEF Goes, IInv
    <3>4. CASE Authenticate(r)
      BY <3>2, <3>3, <3>4 DEF Authenticate
    <3>5. CASE Read(r) \/ Extend(r) \/ Link(r) \/ Lookup(r) \/ Insert(r) \/ Rotate(r) \/ Purge(r) \/ Drop(r)
      BY <3>3, <3>5 DEF Read, Extend, Link, LinkAs, Lookup, Insert, Rotate, Purge, Drop
    <3>6. CASE Arrive(r) \/ Lose(r) \/ Crash(r)
      BY <3>2, <3>6 DEF Arrive, Lose, Crash
    <3> QED BY <3>1, <3>4, <3>5, <3>6 DEF Step
  <2> QED BY <2>1, <2>2
<1>8. ClearIsEarned'
  <2> SUFFICES ASSUME Kept', {"logout", "early"} \cap past' = {}
               PROVE  jar' # NoToken /\ \A q \in Requests : req'[q].pc # "clear"
    BY DEF ClearIsEarned
  <2>1. /\ Kept /\ "logout" \notin past' /\ "early" \notin past' /\ "logout" \notin past
        /\ jar # NoToken /\ \A q \in Requests : req[q].pc # "clear"
    BY <1>1, <1>3 DEF LossInv, ClearIsEarned
  <2>2. jar' # NoToken
    <3>1. Arrive(r) /\ req[r].pc = "answer" => jar' \in 1 .. issued
      BY DEF Arrive, IInv, TypeOK
    <3> QED BY <1>5, <2>1, <3>1 DEF NoToken
  <2>3. ASSUME NEW q \in Requests, req'[q].pc = "clear" PROVE FALSE
    <3>1. q = r
      BY <1>2, <2>1, <2>3 DEF TakesTurn, OthersStay
    <3>2. ~Drop(r)
      BY <2>1 DEF Drop
    <3>3. ASSUME NEW pc, pc # "clear", NEW new, Goto(r, pc) \/ GotoWith(r, pc, new) PROVE FALSE
      BY <2>3, <3>1, <3>3, GotoGoes DEF Goes, IInv
    <3>4. req' # [req EXCEPT ![r] = Idle]
      BY <2>3, <3>1 DEF IInv, TypeOK, Idle
    <3>5. CASE \E kind \in {"use", "refresh", "logout"} : Send(r, kind)
      BY <2>3, <3>1, <3>5 DEF Send, IInv, TypeOK
    <3>6. CASE Authenticate(r)
      <4>1. ~Live(Token(r)) /\ req[r].pc = "authenticate" /\ ~Pending(Token(r))
        BY <2>1, <3>3, <3>4, <3>6 DEF Authenticate
      <4>2. NotLoggedOut
        BY <2>1, <4>1 DEF NotLoggedOut, LossInv, AskedInSession
      <4> QED BY <4>1, <4>2 DEF LossInv, TokensWork, Works
    <3>7. CASE Read(r) \/ Extend(r) \/ Link(r) \/ Lookup(r) \/ Insert(r) \/ Rotate(r) \/ Purge(r)
      BY <3>3, <3>7 DEF Read, Extend, Link, LinkAs, Lookup, Insert, Rotate, Purge
    <3>8. CASE Arrive(r) \/ Lose(r) \/ Crash(r)
      BY <3>4, <3>8 DEF Arrive, Lose, Crash
    <3> QED BY <3>2, <3>5, <3>6, <3>7, <3>8 DEF Step
  <2> QED BY <2>2, <2>3
<1> QED
  BY <1>6, <1>7, <1>8 DEF LossInv

LEMMA LossEndGrace ==
    ASSUME IInv, InRounds, JarInv, LossInv, Timely, NEW t \in Tokens, EndGrace(t)
    PROVE  LossInv'
<1>1. UNCHANGED <<mode, issued, req, jar, past>> /\ \A r \in Requests : Token(r) # t
  BY DEF EndGrace
<1>2. /\ \A s \in Tokens : s # t => row'[s] = row[s]
      /\ row[t].next # NoToken
  BY EndGraceRows
<1>3. \A s \in Tokens : s # t /\ Works(s) => Works(s)'
  BY <1>1, <1>2 DEF Works, Live, Pending
<1>4. Kept => jar # t \/ jar = NoToken
  BY <1>1, <1>2 DEF JarInv, LinkedIsAnswered
<1>5. TokensWork'
  <2> SUFFICES ASSUME NotLoggedOut'
               PROVE  /\ jar' # NoToken => Works(jar)'
                      /\ \A q \in Requests : req'[q].pc # "idle" => Works(Token(q))'
    BY DEF TokensWork
  <2>1. NotLoggedOut /\ Kept
    BY <1>1 DEF NotLoggedOut, Kept
  <2>2. jar # NoToken => Works(jar)'
    <3> SUFFICES ASSUME jar # NoToken PROVE Works(jar)'
      OBVIOUS
    <3>1. PICK j \in Tokens : j = jar
      BY DEF IInv, TypeOK, Tokens, NoToken
    <3>2. Works(j) /\ j # t
      BY <1>4, <2>1, <3>1 DEF LossInv, TokensWork
    <3>3. Works(j)'
      BY <1>3, <3>2
    <3> QED BY <1>1, <3>1, <3>3
  <2>3. ASSUME NEW q \in Requests, req'[q].pc # "idle" PROVE Works(Token(q))'
    <3>1. PICK j \in Tokens : j = Token(q)
      BY <1>1, <2>3, RequestKnown
    <3>2. Works(j) /\ j # t
      BY <1>1, <2>1, <2>3, <3>1 DEF LossInv, TokensWork
    <3>3. Works(j)' /\ Token(q)' = j
      BY <1>1, <1>3, <3>1, <3>2 DEF Token
    <3> QED BY <3>3 DEF Works, Live, Pending
  <2> QED BY <1>1, <2>2, <2>3
<1>6. ClearIsEarned' /\ AskedInSession'
  BY <1>1 DEF LossInv, ClearIsEarned, AskedInSession, Kept
<1> QED
  BY <1>5, <1>6 DEF LossInv

-----------------------------------------------------------------------------
(* Theorems about rounds                                                   *)

\* A session that has a successor never gets its full life back, if the client lets
\* a round of requests end before it uses the next token for a refresh or a logout.
THEOREM SupersededSessionsEnd ==
    ASSUME Returning, InTurn
    PROVE  Spec => []SupersededIsShort
<1>1. IInv /\ InRounds => SupersededIsShort
  <2> SUFFICES ASSUME IInv, InRounds, NEW t \in Tokens, row[t].next # NoToken
               PROVE  row[t].life # "long"
    BY DEF SupersededIsShort
  <2>1. Exists(t)
    BY RowNext DEF IInv
  <2> QED BY <2>1 DEF InRounds, RowFits
<1> QED
  BY <1>1, Invariance, RoundsInvariant, PTL

\* No answer hands out a token without a session, unless a process has ended between
\* the two statements of updateStatefulSession; late or lost answers do not matter.
THEOREM AnswersHaveSessions ==
    ASSUME Returning, InTurn, "stateless" \notin Overlapping
    PROVE  Spec => []AnswerLives
<1>1. IInv /\ InRounds /\ SuccessorsThere => AnswerLives
  <2> SUFFICES ASSUME IInv, InRounds, SuccessorsThere, "crash" \notin past,
                      NEW r \in Requests, req[r].pc = "answer"
               PROVE  Exists(req[r].new) \/ Pending(req[r].new)
    BY DEF AnswerLives
  <2>1. Having(r) /\ Acting(r) /\ req[r].new \in 1 .. issued /\ Token(r) < req[r].new
    BY Kinds DEF Having, IInv, TypeOK, InRounds, NewAhead
  <2>2. Ahead(req[r].new)
    BY <2>1 DEF Ahead
  <2> QED BY <2>1, <2>2 DEF SuccessorsThere, There
<1> QED
  BY <1>1, Invariance, RoundsInvariant, SuccessorsInvariant, PTL

\* The token that a browser or the SDK has works, or is about to, whatever the order
\* in which the answers of its tabs arrive; a client without a token has logged out,
\* or a use of its token came before the insert of its session.
THEOREM ClientsStayLoggedIn ==
    ASSUME Returning, InTurn, "stateless" \notin Overlapping, Timely
    PROVE  Spec => []JarLives
<1>1. Init => JarInv /\ LossInv
  <2> SUFFICES ASSUME Init PROVE JarInv /\ LossInv
    OBVIOUS
  <2>1. jar = 1 /\ 1 \in Tokens /\ row[1] = NewRow
    BY DEF Init, Tokens
  <2>2. row[1].next = NoToken /\ Live(1)
    BY <2>1 DEF NewRow, Live
  <2>3. JarInv
    BY <2>1, <2>2 DEF JarInv, LinkedIsAnswered, JarWorks, Works
  <2>4. \A r \in Requests : req[r].pc = "idle"
    BY DEF Init, Idle
  <2>5. LossInv
    BY <2>1, <2>2, <2>4 DEF LossInv, TokensWork, ClearIsEarned, AskedInSession, Works, NoToken
  <2> QED BY <2>3, <2>5
<1>2. IInv /\ InRounds /\ SuccessorsThere /\ JarInv /\ LossInv /\ [Next]_vars => JarInv' /\ LossInv'
  <2> SUFFICES ASSUME IInv, InRounds, SuccessorsThere, JarInv, LossInv, [Next]_vars
               PROVE  JarInv' /\ LossInv'
    OBVIOUS
  <2>1. IInv'
    BY StepIInv
  <2>2. CASE UNCHANGED vars
    BY <2>2 DEF vars, JarInv, LinkedIsAnswered, JarWorks, Works, Kept, Live, Pending, Replaced,
                LoggingOut, Having, Token, LossInv, TokensWork, NotLoggedOut, ClearIsEarned,
                AskedInSession
  <2> QED BY <2>1, <2>2, JarStep, JarEndGrace, LossStep, LossEndGrace DEF Next
<1>3. JarInv /\ LossInv => JarLives
  BY DEF JarInv, JarWorks, Works, LossInv, ClearIsEarned, JarLives, Kept
<1> QED
  BY <1>1, <1>2, <1>3, Invariance, RoundsInvariant, SuccessorsInvariant, PTL DEF Spec

=============================================================================
