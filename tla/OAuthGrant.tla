----------------------------- MODULE OAuthGrant -----------------------------
(***************************************************************************)
(* What an authorization server with rotating refresh tokens promises:     *)
(*   - a code is good for one token at most,                               *)
(*   - of all tokens ever given out for a client and user at most one is   *)
(*     valid at a time,                                                    *)
(*   - a token that is no longer valid never is again; a new one comes     *)
(*     from an unspent code or from the valid token it replaces.           *)
(* The introduction of api/src/services/mcp-oauth/index.ts's refreshToken  *)
(* and exchangeCode.  McpOAuth implements it.                              *)
(***************************************************************************)
CONSTANTS
    Parties,     \* pairs of a client and a user
    Codes,       \* authorization codes
    Tokens,      \* refresh tokens
    PartyOf      \* the party a code is issued for

VARIABLES
    spent,       \* codes that give no token any more
    issued,      \* tokens given out so far
    valid        \* per party: the token that can be used, if any

grants == <<spent, issued, valid>>

Init ==
    /\ spent = {}
    /\ issued = {}
    /\ valid = [p \in Parties |-> {}]

\* A code is exchanged; whatever the party had before is replaced.
Exchange(c, t) ==
    /\ c \notin spent
    /\ t \notin issued
    /\ spent' = spent \cup {c}
    /\ issued' = issued \cup {t}
    /\ valid' = [valid EXCEPT ![PartyOf[c]] = {t}]

\* A valid token is replaced by a new one.
Rotate(p, t) ==
    /\ valid[p] # {}
    /\ t \notin issued
    /\ issued' = issued \cup {t}
    /\ valid' = [valid EXCEPT ![p] = {t}]
    /\ UNCHANGED spent

\* Tokens are revoked or run out, and so do codes.
Withdraw(P, C) ==
    /\ spent' = spent \cup C
    /\ valid' = [p \in Parties |-> IF p \in P THEN {} ELSE valid[p]]
    /\ UNCHANGED issued

Next ==
    \/ \E c \in Codes, t \in Tokens : Exchange(c, t)
    \/ \E p \in Parties, t \in Tokens : Rotate(p, t)
    \/ \E P \in SUBSET Parties, C \in SUBSET Codes : Withdraw(P, C)

Spec == Init /\ [][Next]_grants
=============================================================================
