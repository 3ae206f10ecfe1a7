------------------------- MODULE WsConnection_proofs -------------------------
(* Proofs about the login of a WebSocket connection.                       *)
EXTENDS WsConnection, TLAPS

USE TimeAssumption

\* A timer belongs to the login, or the login is gone; one that went off has taken
\* the login away.  Without a timer the next check comes before the token ends.
TimerOfLogin ==
    /\ timer.state = "set" => login \in {Public, timer.at}
    /\ timer.state = "fired" => login = Public
    /\ conn # "closed" /\ login \in Moments /\ timer.state = "none" => check < login

\* What verified is a login.
AppliesLogin == \A r \in Requests : auth[r].pc = "apply" => auth[r].ends # Public

IInv == TypeOK /\ TimerOfLogin /\ AppliesLogin /\ Attended

-----------------------------------------------------------------------------
(* The new timer of a login                                                *)

LEMMA TimerSet ==
    ASSUME NEW old, NEW e \in Ends \cup {Public}, now \in 0 .. MaxTime
    PROVE  /\ SetTokenExpireTimer(old, e) \in Timer
           /\ SetTokenExpireTimer(old, e).state \in {"none", "set"}
           /\ SetTokenExpireTimer(old, e).state = "set" =>
                 SetTokenExpireTimer(old, e).at = e /\ e \in Moments
           /\ SetTokenExpireTimer(old, e).state = "none" /\ e \in Moments => now + Interval < e
BY DEF SetTokenExpireTimer, Timer, NoTimer, Ends, Moments, Never, Public

-----------------------------------------------------------------------------
(* The first state                                                         *)

LEMMA InitIInv == Init => IInv
<1> SUFFICES ASSUME Init PROVE IInv
  OBVIOUS
<1>1. login \in Ends \cup {Public} /\ now \in 0 .. MaxTime
  BY DEF Init
<1>2. timer = SetTokenExpireTimer(NoTimer, login)
  BY DEF Init
<1>3. TypeOK
  <2>1. timer \in Timer
    BY <1>1, <1>2, TimerSet
  <2>2. now = 0 /\ check \in 1 .. Interval /\ auth = [r \in Requests |-> Idle]
    BY DEF Init
  <2>3. check \in now .. now + Interval
    BY <2>2
  <2>4. auth \in [Requests -> [pc : {"idle", "verify", "apply", "fail"}, ends : Ends \cup {Public}]]
    BY <2>2 DEF Idle
  <2>5. mode \in {"public", "handshake", "strict"} /\ conn = "open" /\ waits = {} /\ dropped = FALSE
    BY DEF Init
  <2> QED
    BY <1>1, <2>1, <2>3, <2>4, <2>5 DEF TypeOK
<1>4. TimerOfLogin
  <2>1. now = 0 /\ check \in 1 .. Interval
    BY DEF Init
  <2>2. timer.state = "none" /\ login \in Moments => now + Interval < login
    BY <1>1, <1>2, TimerSet
  <2>3. timer.state = "none" /\ login \in Moments => check < login
    BY <2>1, <2>2 DEF Moments
  <2>4. timer.state \in {"none", "set"} /\ (timer.state = "set" => timer.at = login)
    BY <1>1, <1>2, TimerSet
  <2> QED
    BY <2>3, <2>4 DEF TimerOfLogin
<1>5. AppliesLogin /\ Attended
  BY DEF Init, AppliesLogin, Attended, Idle, Ends, Moments, Never, Public
<1> QED
  BY <1>3, <1>4, <1>5 DEF IInv

-----------------------------------------------------------------------------
(* Every step                                                              *)

LEMMA StepIInv == IInv /\ [Next]_vars => IInv'
<1> SUFFICES ASSUME IInv, [Next]_vars PROVE IInv'
  OBVIOUS
<1> USE DEF IInv
<1>1. ASSUME NEW r \in Requests, NEW e \in Ends \cup {Public}, Receive(r, e) PROVE IInv'
  <2>1. TypeOK'
    BY <1>1 DEF Receive, TypeOK
  <2>2. TimerOfLogin' /\ AppliesLogin'
    BY <1>1 DEF Receive, TypeOK, TimerOfLogin, AppliesLogin
  <2>3. Attended'
    BY <1>1 DEF Receive, TypeOK, Attended, Idle
  <2> QED
    BY <2>1, <2>2, <2>3
<1>2. ASSUME NEW r \in Requests, Verify(r) PROVE IInv'
  <2>1. TypeOK'
    BY <1>2 DEF Verify, TypeOK
  <2>2. TimerOfLogin'
    BY <1>2 DEF Verify, TimerOfLogin
  <2>3. AppliesLogin'
    BY <1>2 DEF Verify, TypeOK, AppliesLogin, Public, Ends, Moments, Never
  <2>4. Attended'
    BY <1>2 DEF Verify, TypeOK, Attended, Idle
  <2> QED
    BY <2>1, <2>2, <2>3, <2>4
<1>3. ASSUME NEW r \in Requests, Apply(r) PROVE IInv'
  <2> DEFINE e == auth[r].ends
  <2>1. e \in Ends \cup {Public} /\ e # Public /\ now \in 0 .. MaxTime
    BY <1>3 DEF Apply, TypeOK, AppliesLogin
  <2>2. login' = e /\ timer' = SetTokenExpireTimer(timer, e)
    BY <1>3 DEF Apply
  <2>3. TypeOK'
    BY <1>3, <2>1, <2>2, TimerSet DEF Apply, TypeOK, Idle, Public
  <2>4. TimerOfLogin'
    <3>1. check \in now .. now + Interval /\ check' = check
      BY <1>3 DEF Apply, TypeOK
    <3>2. timer'.state = "none" /\ e \in Moments => check < e
      BY <2>1, <2>2, <3>1, TimerSet DEF Moments
    <3> HIDE DEF e
    <3> QED
      BY <2>1, <2>2, <3>1, <3>2, TimerSet DEF TimerOfLogin
  <2>5. AppliesLogin'
    BY <1>3 DEF Apply, TypeOK, AppliesLogin, Idle
  <2>6. Attended'
    BY <2>1, <2>2 DEF Attended
  <2> QED
    BY <2>3, <2>4, <2>5, <2>6
<1>4. ASSUME NEW r \in Requests, Fail(r) PROVE IInv'
  <2>1. TypeOK'
    BY <1>4 DEF Fail, CloseUnlessPublic, TypeOK, Idle
  <2>2. TimerOfLogin'
    BY <1>4 DEF Fail, CloseUnlessPublic, TimerOfLogin, Public, Moments
  <2>3. AppliesLogin'
    BY <1>4 DEF Fail, TypeOK, AppliesLogin, Idle
  <2>4. Attended'
    BY <1>4 DEF Fail, CloseUnlessPublic, Attended
  <2> QED
    BY <2>1, <2>2, <2>3, <2>4
<1>5. CASE Drop
  BY <1>5 DEF Drop, TypeOK, TimerOfLogin, AppliesLogin, Attended
<1>6. CASE Fire
  <2>1. TypeOK'
    BY <1>6 DEF Fire, Due, TypeOK, Timer, NoTimer
  <2>2. TimerOfLogin'
    BY <1>6 DEF Fire, Due, TypeOK, Timer, NoTimer, TimerOfLogin, Public, Moments
  <2>3. AppliesLogin' /\ Attended'
    BY <1>6 DEF Fire, AppliesLogin, Attended
  <2> QED
    BY <2>1, <2>2, <2>3
<1>7. CASE GiveUp
  BY <1>7 DEF GiveUp, CloseUnlessPublic, TypeOK, TimerOfLogin, AppliesLogin, Attended
<1>8. CASE CheckClientTokens
  <2>1. login \in Ends \cup {Public} /\ now \in 0 .. MaxTime
    BY DEF TypeOK
  <2>2. timer' \in Timer
    BY <1>8, <2>1, TimerSet DEF CheckClientTokens, TypeOK
  <2>3. TypeOK'
    BY <1>8, <2>2 DEF CheckClientTokens, TypeOK
  <2>4. TimerOfLogin'
    <3>1. CASE conn # "closed" /\ login # Public /\ timer = NoTimer
      <4>1. timer' = SetTokenExpireTimer(timer, login) /\ login' = login /\ check' = now + Interval
        BY <1>8, <3>1 DEF CheckClientTokens
      <4> QED
        BY <2>1, <4>1, TimerSet DEF TimerOfLogin
    <3>2. CASE ~(conn # "closed" /\ login # Public /\ timer = NoTimer)
      <4>1. timer' = timer /\ login' = login /\ conn' = conn
        BY <1>8, <3>2 DEF CheckClientTokens
      <4>2. timer.state = "none" => timer = NoTimer
        BY DEF TypeOK, Timer
      <4> QED
        BY <3>2, <4>1, <4>2 DEF TimerOfLogin, Moments, Public
    <3> QED
      BY <3>1, <3>2
  <2>5. AppliesLogin' /\ Attended'
    BY <1>8 DEF CheckClientTokens, AppliesLogin, Attended
  <2> QED
    BY <2>3, <2>4, <2>5
<1>9. CASE Close
  BY <1>9 DEF Close, TypeOK, Timer, NoTimer, TimerOfLogin, AppliesLogin, Attended
<1>10. CASE Tick
  BY <1>10 DEF Tick, TypeOK, TimerOfLogin, AppliesLogin, Attended
<1>11. CASE UNCHANGED vars
  BY <1>11 DEF vars, TypeOK, TimerOfLogin, AppliesLogin, Attended
<1> QED
  BY <1>1, <1>2, <1>3, <1>4, <1>5, <1>6, <1>7, <1>8, <1>9, <1>10, <1>11 DEF Next

\* The inductive invariant holds of every behaviour.
LEMMA Invariance == Spec => []IInv
  BY InitIInv, StepIInv, PTL DEF Spec

-----------------------------------------------------------------------------
(* Theorems                                                                *)

\* The types hold, for every interval, timeout and number of messages under way.
THEOREM TypeCorrect == Spec => []TypeOK
<1>1. IInv => TypeOK
  BY DEF IInv
<1> QED
  BY <1>1, Invariance, PTL

\* A login does not outlive its token, whatever the phase of checkClientTokens and
\* however late a message is answered.
THEOREM LoginEndsWithToken == Spec => []ExpiryIsCaught
<1>1. IInv => ExpiryIsCaught
  <2> SUFFICES ASSUME IInv, conn # "closed", login \in Moments, login < now
               PROVE  timer = [state |-> "set", at |-> login]
    BY DEF ExpiryIsCaught
  <2>1. now <= check /\ login # Public /\ now \in Nat /\ check \in Int
    BY DEF IInv, TypeOK, Moments, Public
  <2>2. ~(check < login)
    BY <2>1 DEF Moments
  <2>3. timer.state = "set" /\ timer.at = login
    BY <2>1, <2>2 DEF IInv, TimerOfLogin, TypeOK, Timer, NoTimer
  <2> QED
    BY <2>3 DEF IInv, TypeOK, Timer, NoTimer
<1> QED
  BY <1>1, Invariance, PTL

\* A connection that needs a login is never left alone without one.
THEOREM NeverUnattended == Spec => []Attended
<1>1. IInv => Attended
  BY DEF IInv
<1> QED
  BY <1>1, Invariance, PTL

\* No timer of an earlier login takes away a later one.
THEOREM LoginIsKept == Spec => OwnTokenEnded
<1> DEFINE Kept == login # Public /\ login' = Public /\ auth' = auth => login \in 1 .. now
<1>1. IInv /\ [Next]_vars => [Kept]_vars
  <2> SUFFICES ASSUME IInv, Next, login # Public, login' = Public, auth' = auth
               PROVE  login \in 1 .. now
    BY DEF vars
  <2>1. ASSUME NEW r \in Requests, Apply(r) \/ Fail(r) PROVE FALSE
    BY <2>1 DEF Apply, Fail, Idle, IInv, TypeOK
  <2>2. CASE Fire
    BY <2>2 DEF Fire, Due, IInv, TypeOK, TimerOfLogin, Timer, NoTimer, Moments
  <2>3. ~Drop /\ ~GiveUp /\ ~CheckClientTokens /\ ~Close /\ ~Tick
    BY DEF Drop, GiveUp, CheckClientTokens, Close, Tick
  <2>4. ASSUME NEW r \in Requests PROVE ~Verify(r) /\ \A e \in Ends \cup {Public} : ~Receive(r, e)
    BY DEF Verify, Receive
  <2> QED
    BY <2>1, <2>2, <2>3, <2>4 DEF Next
<1> QED
  BY <1>1, Invariance, PTL DEF Spec, OwnTokenEnded
=============================================================================
