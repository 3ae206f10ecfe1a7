---------------------------- MODULE WsConnection ----------------------------
(***************************************************************************)
(* The login of one WebSocket connection and the end of its token.         *)
(* api/src/websocket/controllers/base.ts (createClient, handleAuthRequest, *)
(* setTokenExpireTimer, checkClientTokens), utils/wait-for-message.ts      *)
(* (waitForMessageType) and authenticate.ts (authenticateConnection).      *)
(*                                                                         *)
(* A timer is set only for a token that ends within the interval of        *)
(* checkClientTokens, which sets it for the others later.  Auth messages   *)
(* are answered after awaits, so that several may be under way when the    *)
(* timer goes off.                                                         *)
(***************************************************************************)
EXTENDS Integers

CONSTANTS
    Requests,     \* auth messages under way
    Interval,     \* TOKEN_CHECK_INTERVAL
    Timeout,      \* authentication.timeout
    Unheard,      \* bound: the rate limiter or the license may drop a message
    MaxTime       \* bound: of the clock

ASSUME TimeAssumption ==
    /\ {Interval, Timeout, MaxTime} \subseteq Nat \ {0}
    /\ Unheard \in BOOLEAN

VARIABLES
    mode,         \* authentication.mode
    now,
    check,        \* when checkClientTokens runs next
    conn,         \* the socket
    login,        \* accountability and expires_at: when its token ends
    timer,        \* auth_timer
    waits,        \* waitForMessageType: when they give up
    auth,         \* per request: handleAuthRequest
    dropped       \* was a message dropped that ended the waiting?

vars == <<mode, now, check, conn, login, timer, waits, auth, dropped>>

-----------------------------------------------------------------------------
(* Tokens and time                                                         *)

Public == 0           \* no login
Never == MaxTime + 1  \* a token without an end

Moments == 1 .. MaxTime
Ends == Moments \cup {Never}

\* A timer that went off stays in auth_timer.
NoTimer == [state |-> "none", at |-> 0]
Timer == {NoTimer} \cup [state : {"set", "fired"}, at : Moments]

TypeOK ==
    /\ mode \in {"public", "handshake", "strict"}
    /\ now \in 0 .. MaxTime
    /\ check \in now .. now + Interval
    /\ conn \in {"open", "closing", "closed"}
    /\ login \in Ends \cup {Public}
    /\ timer \in Timer
    /\ waits \subseteq now .. now + Timeout
    /\ auth \in [Requests -> [pc : {"idle", "verify", "apply", "fail"}, ends : Ends \cup {Public}]]
    /\ dropped \in BOOLEAN

Idle == [pc |-> "idle", ends |-> Public]

\* Mutant: the check is taken to run three times as often.
TimerForSoon(old, e) ==
    IF e \in Moments /\ 3 * (e - now) <= Interval THEN [state |-> "set", at |-> e] ELSE NoTimer

\* Mutant: the old timer is cleared only when there is a new one.
TimerOrOld(old, e) == IF e \in Moments /\ e - now <= Interval THEN [state |-> "set", at |-> e] ELSE old

\* The old timer is cleared.  One for a token that has ended goes off at once.
SetTokenExpireTimer(old, e) ==
    IF e \in Moments /\ e - now <= Interval THEN [state |-> "set", at |-> e] ELSE NoTimer

\* createClient.  Only mode "public" takes a connection without a login.
Init ==
    /\ mode \in {"public", "handshake", "strict"}
    /\ now = 0
    /\ check \in 1 .. Interval
    /\ conn = "open"
    /\ login \in Ends \cup (IF mode = "public" THEN {Public} ELSE {})
    /\ timer = SetTokenExpireTimer(NoTimer, login)
    /\ waits = {}
    /\ auth = [r \in Requests |-> Idle]
    /\ dropped = FALSE

-----------------------------------------------------------------------------
(* Auth messages                                                           *)

CloseUnlessPublic == conn' = IF mode # "public" /\ conn = "open" THEN "closing" ELSE conn

\* Any auth message ends the waiting, also one that nobody handles.
Receive(r, e) ==
    /\ conn # "closed"
    /\ auth[r] = Idle
    /\ waits' = {}
    /\ auth' = [auth EXCEPT ![r] = [pc |-> "verify", ends |-> e]]
    /\ UNCHANGED <<mode, now, check, conn, login, timer, dropped>>

Drop ==
    /\ Unheard
    /\ conn # "closed"
    /\ waits' = {}
    /\ dropped' = TRUE
    /\ UNCHANGED <<mode, now, check, conn, login, timer, auth>>

\* authenticateConnection: a token that has ended, or is none, is refused.
Verify(r) ==
    /\ auth[r].pc = "verify"
    /\ auth' = [auth EXCEPT ![r].pc = IF auth[r].ends > now THEN "apply" ELSE "fail"]
    /\ UNCHANGED <<mode, now, check, conn, login, timer, waits, dropped>>

\* Time may have passed since.
Apply(r) ==
    /\ auth[r].pc = "apply"
    /\ login' = auth[r].ends
    /\ timer' = SetTokenExpireTimer(timer, auth[r].ends)
    /\ auth' = [auth EXCEPT ![r] = Idle]
    /\ UNCHANGED <<mode, now, check, conn, waits, dropped>>

\* Mutant: the connection stays open.
FailOpen(r) ==
    /\ auth[r].pc = "fail"
    /\ login' = Public
    /\ auth' = [auth EXCEPT ![r] = Idle]
    /\ UNCHANGED <<mode, now, check, conn, timer, waits, dropped>>

\* The timer of an earlier login is left.
Fail(r) ==
    /\ auth[r].pc = "fail"
    /\ login' = Public
    /\ CloseUnlessPublic
    /\ auth' = [auth EXCEPT ![r] = Idle]
    /\ UNCHANGED <<mode, now, check, timer, waits, dropped>>

-----------------------------------------------------------------------------
(* The end of a token                                                      *)

Due == timer.state = "set" /\ timer.at <= now

Fire ==
    /\ Due
    /\ timer' = [timer EXCEPT !.state = "fired"]
    /\ login' = Public
    /\ waits' = waits \cup {now + Timeout}
    /\ UNCHANGED <<mode, now, check, conn, auth, dropped>>

\* Mutant: the waiting starts again.
GiveUpNever ==
    /\ now \in waits
    /\ waits' = (waits \ {now}) \cup {now + Timeout + 1}
    /\ UNCHANGED <<mode, now, check, conn, login, timer, auth, dropped>>

GiveUp ==
    /\ now \in waits
    /\ waits' = waits \ {now}
    /\ CloseUnlessPublic
    /\ UNCHANGED <<mode, now, check, login, timer, auth, dropped>>

\* A client that is closed is no longer among the clients.
CheckClientTokens ==
    /\ check = now
    /\ check' = now + Interval
    /\ timer' = IF conn # "closed" /\ login # Public /\ timer = NoTimer
                THEN SetTokenExpireTimer(timer, login) ELSE timer
    /\ UNCHANGED <<mode, now, conn, login, waits, auth, dropped>>

\* From either side.
Close ==
    /\ conn # "closed"
    /\ conn' = "closed"
    /\ timer' = NoTimer
    /\ UNCHANGED <<mode, now, check, login, waits, auth, dropped>>

\* Timers are handled before time goes on.
Tick ==
    /\ now < MaxTime
    /\ ~Due /\ now \notin waits /\ check # now
    /\ now' = now + 1
    /\ UNCHANGED <<mode, check, conn, login, timer, waits, auth, dropped>>

-----------------------------------------------------------------------------

Next ==
    \/ \E r \in Requests :
          \/ \E e \in Ends \cup {Public} : Receive(r, e)
          \/ Verify(r) \/ Apply(r) \/ Fail(r)
    \/ Drop
    \/ Fire \/ GiveUp \/ CheckClientTokens
    \/ Close
    \/ Tick

Spec == Init /\ [][Next]_vars

-----------------------------------------------------------------------------
(* Properties                                                              *)

\* A login does not outlive its token: when that ends, by way of the interval or
\* of messages answered late, the timer of just this login is about to go off
\* ("check the clients and set shorter timeouts if needed").
ExpiryIsCaught ==
    conn # "closed" /\ login \in Moments /\ login < now => timer = [state |-> "set", at |-> login]

\* A connection that needs a login and has none is closing, waits for an auth
\* message or works on one, unless a message was dropped that ended the waiting.
Attended ==
    mode # "public" /\ conn = "open" /\ login = Public
        => waits # {} \/ dropped \/ \E r \in Requests : auth[r] # Idle

\* "clear up old timeouts if needed" (setTokenExpireTimer): a login is taken away
\* only when its own token has ended, or by a message that was refused.
OwnTokenEnded ==
    [][login # Public /\ login' = Public /\ auth' = auth => login \in 1 .. now]_vars
=============================================================================
