------------------------------ MODULE LoginProofs ------------------------------
(* Proofs about LoginSessions, for any accounts, requests, clock and faults:   *)
(* its types, that a login session that is over is refused, that every cookie  *)
(* is backed by rows, and that the rows implement Accounts.                    *)
EXTENDS LoginSessions, TLAPS

(* A request that writes to a login session has a stored one at hand.          *)
WritesStored ==
  \A p \in Requests : req[p].pc \in {"revoke", "touch"} =>
    req[p].cookie \in Requests /\ sessions[req[p].cookie] # NoSession

(* What each place of a request says about it.                                 *)
PlacesFit ==
  \A p \in Requests :
    /\ req[p].pc = "hash" =>
         req[p].op = "register" /\ req[p].name \in Names /\ req[p].password \in Passwords
    /\ req[p].pc \in {"lastLogin", "issue"} =>
         req[p].op \in {"register", "login"} /\ \E u \in users : u.userId = req[p].userId
    /\ req[p].pc = "revoke" => req[p].op \in {"logout", "me"}
    /\ req[p].pc \in {"touch", "user"} => req[p].op = "me"
    /\ req[p].answer # "none" => req[p].pc = "done"

(* A login session is stored for an account, by a request that is done; and a  *)
(* registration or login answered ok has stored one.                           *)
SessionsAreBacked ==
  \A p \in Requests :
    /\ sessions[p] # NoSession =>
         req[p].pc = "done" /\ \E u \in users : u.userId = sessions[p].userId
    /\ req[p].op \in {"register", "login"} /\ req[p].answer = "ok" => sessions[p] # NoSession

(* A logout that was answered has revoked its login session for good.          *)
LoggedOutIsRevoked ==
  \A q \in Requests :
    req[q].op = "logout" /\ req[q].answer = "ok" /\ req[q].cookie # None =>
      sessions[req[q].cookie].status = "revoked"

(* A request that came with a login session already over is being refused.     *)
OverIsOnItsWayOut ==
  \A p \in Requests : req[p].op = "me" /\ req[p].over =>
    req[p].pc \in {"revoke", "done"} /\ req[p].answer # "ok"

IInv ==
  /\ TypeOK
  /\ WritesStored
  /\ PlacesFit
  /\ SessionsAreBacked
  /\ LoggedOutIsRevoked
  /\ OverIsOnItsWayOut

-------------------------------------------------------------------------------
(* Initially nothing has happened.                                             *)
LEMMA InitEstablishes == Init => IInv
  BY LoginAssumption
     DEF Init, IInv, TypeOK, User, Session, NoSession, Idle, Request, WritesStored,
     PlacesFit, SessionsAreBacked, LoggedOutIsRevoked, OverIsOnItsWayOut

(* What the actions make of a request is a request.                            *)
LEMMA IdleIsARequest == Idle \in Request
  BY LoginAssumption DEF Idle, Request

(* A request that is answered as it arrives stays one.                         *)
LEMMA AnsweredAtOnce ==
  ASSUME NEW op \in {"register", "login", "logout", "me"},
         NEW answer \in {"ok", "conflict", "unauthorized"}
  PROVE  [Idle EXCEPT !.pc = "done", !.op = op, !.answer = answer] \in Request
<1>1. PICK a : a = [Idle EXCEPT !.pc = "done"]
  OBVIOUS
<1>2. a \in Request
  BY <1>1, IdleIsARequest DEF Request
<1>3. PICK b : b = [a EXCEPT !.op = op]
  OBVIOUS
<1>4. b \in Request
  BY <1>2, <1>3 DEF Request
<1>5. [b EXCEPT !.answer = answer] \in Request
  BY <1>4 DEF Request
<1> QED BY <1>1, <1>3, <1>5

(* A request that only changes its place, answer, user or cookie stays one.    *)
LEMMA RequestMoves ==
  ASSUME NEW r \in Request
  PROVE  /\ \A pc \in {"idle", "hash", "lastLogin", "issue", "revoke", "touch", "user", "done"} :
              [r EXCEPT !.pc = pc] \in Request
         /\ \A answer \in {"none", "ok", "conflict", "unauthorized", "error"} :
              [r EXCEPT !.pc = "done", !.answer = answer] \in Request
         /\ \A p \in Requests : [r EXCEPT !.pc = "lastLogin", !.userId = p] \in Request
         /\ \A now \in 0..MaxClock : [r EXCEPT !.pc = "issue", !.now = now] \in Request
  <1>1. \A pc \in {"idle", "hash", "lastLogin", "issue", "revoke", "touch", "user", "done"} :
          [r EXCEPT !.pc = pc] \in Request
    BY DEF Request
  <1>2. \A answer \in {"none", "ok", "conflict", "unauthorized", "error"} :
          [r EXCEPT !.pc = "done", !.answer = answer] \in Request
    BY DEF Request
  <1>3. \A p \in Requests : [r EXCEPT !.pc = "lastLogin", !.userId = p] \in Request
    BY DEF Request
  <1>4. \A now \in 0..MaxClock : [r EXCEPT !.pc = "issue", !.now = now] \in Request
    BY DEF Request
  <1> QED BY <1>1, <1>2, <1>3, <1>4

(* The requests stay typed when the one that moves does.                       *)
LEMMA RequestTyped ==
  ASSUME req \in [Requests -> Request], NEW p \in Requests, NEW r \in Request,
         req' = [req EXCEPT ![p] = r]
  PROVE  req' \in [Requests -> Request]
  OBVIOUS

(* An answer keeps the requests typed.                                         *)
LEMMA AnswerTyped ==
  ASSUME req \in [Requests -> Request], NEW p \in Requests,
         NEW a \in {"none", "ok", "conflict", "unauthorized", "error"}, Answer(p, a)
  PROVE  req' \in [Requests -> Request]
  BY RequestMoves DEF Answer

(* An action of the service keeps the types.                                   *)
LEMMA TypeStep == IInv /\ Next => TypeOK'
  <1> SUFFICES ASSUME IInv, Next PROVE TypeOK' OBVIOUS
  <1> req \in [Requests -> Request] BY DEF IInv, TypeOK
  <1>1. CASE Tick
    BY <1>1, LoginAssumption DEF Tick, IInv, TypeOK
  <1>2. ASSUME NEW p \in Requests, RequestNext(p) PROVE TypeOK'
    <2>1. ASSUME NEW name \in Names, NEW password \in Passwords, Register(p, name, password)
          PROVE TypeOK'
      <3>1. [Idle EXCEPT !.pc = "done", !.op = "register", !.answer = "conflict"] \in Request
        BY AnsweredAtOnce
      <3>2. clock \in 0..MaxClock BY DEF IInv, TypeOK
      <3>3. [Idle EXCEPT !.pc = "hash", !.op = "register", !.name = name,
                         !.password = password, !.now = clock] \in Request
        BY <3>2, IdleIsARequest DEF Request
      <3>4. req' \in [Requests -> Request]
        BY <2>1, <3>1, <3>3, RequestTyped DEF Register
      <3> QED BY <2>1, <3>4 DEF Register, IInv, TypeOK
    <2>2. ASSUME NEW name \in Names, NEW password \in Passwords, Login(p, name, password)
          PROVE TypeOK'
      <3>1. [Idle EXCEPT !.pc = "done", !.op = "login", !.answer = "unauthorized"] \in Request
        BY AnsweredAtOnce
      <3>2. ASSUME NEW u \in users
            PROVE  [Idle EXCEPT !.pc = "lastLogin", !.op = "login", !.userId = u.userId] \in Request
        <4>1. u.userId \in Requests \cup {Dev, None} BY DEF IInv, TypeOK, User
        <4> QED BY <4>1, IdleIsARequest DEF Request
      <3>3. req' \in [Requests -> Request]
        BY <2>2, <3>1, <3>2, RequestTyped DEF Login
      <3> QED BY <2>2, <3>3 DEF Login, IInv, TypeOK
    <2>3. ASSUME NEW l \in Cookies \cup {None}, Logout(p, l) PROVE TypeOK'
      <3>1. [Idle EXCEPT !.pc = "done", !.op = "logout", !.answer = "ok"] \in Request
        BY AnsweredAtOnce
      <3>2. [Idle EXCEPT !.pc = "revoke", !.op = "logout", !.cookie = l] \in Request
        BY IdleIsARequest DEF Request, Cookies
      <3>3. req' \in [Requests -> Request]
        BY <2>3, <3>1, <3>2, RequestTyped DEF Logout
      <3> QED BY <2>3, <3>3 DEF Logout, IInv, TypeOK
    <2>4. ASSUME NEW l \in Cookies \cup {None}, RequireCurrentUser(p, l) PROVE TypeOK'
      <3>1. [Idle EXCEPT !.pc = "done", !.op = "me", !.answer = "unauthorized"] \in Request
        BY AnsweredAtOnce
      <3>2. ASSUME l # None, sessions[l] # NoSession, NEW pc \in {"revoke", "touch"}
            PROVE  [Idle EXCEPT !.op = "me", !.cookie = l, !.userId = sessions[l].userId,
                                !.over = Over(l), !.pc = pc] \in Request
        <4>1. l \in Requests BY <3>2 DEF Cookies
        <4>2. sessions[l].userId \in Requests \cup {Dev}
          BY <3>2, <4>1 DEF IInv, TypeOK, Session
        <4>3. Over(l) \in BOOLEAN BY DEF Over
        <4> QED BY <4>1, <4>2, <4>3, IdleIsARequest DEF Request
      <3>3. req' \in [Requests -> Request]
        BY <2>4, <3>1, <3>2, RequestTyped DEF RequireCurrentUser
      <3> QED BY <2>4, <3>3 DEF RequireCurrentUser, IInv, TypeOK
    <2>5. CASE CreateUser(p)
      <3>1. req' \in [Requests -> Request]
        <4>1. CASE \E u \in users : u.username = req[p].name
          BY <2>5, <4>1, AnswerTyped DEF CreateUser
        <4>2. CASE ~\E u \in users : u.username = req[p].name
          <5>1. [req[p] EXCEPT !.pc = "lastLogin", !.userId = p] \in Request
            BY RequestMoves
          <5>2. req' = [req EXCEPT ![p] = [req[p] EXCEPT !.pc = "lastLogin", !.userId = p]]
            BY <2>5, <4>2 DEF CreateUser
          <5> QED BY <5>1, <5>2, RequestTyped
        <4> QED BY <4>1, <4>2
      <3>2. req[p].name \in Names /\ req[p].password \in Passwords
        BY <2>5 DEF CreateUser, IInv, PlacesFit
      <3>3. users' \subseteq User
        BY <2>5, <3>2 DEF CreateUser, IInv, TypeOK, User
      <3> QED BY <2>5, <3>1, <3>3 DEF CreateUser, IInv, TypeOK
    <2>6. CASE UpdateLastLogin(p)
      <3>1. clock \in 0..MaxClock /\ req[p].now \in 0..MaxClock BY DEF IInv, TypeOK, Request
      <3>2. req' \in [Requests -> Request]
        BY <2>6, <3>1, RequestMoves DEF UpdateLastLogin
      <3> QED BY <2>6, <3>2 DEF UpdateLastLogin, IInv, TypeOK
    <2>7. CASE IssueLoginSession(p)
      <3>1. req' \in [Requests -> Request]
        BY <2>7, AnswerTyped DEF IssueLoginSession
      <3>2. /\ req[p].now + Ttl \in Nat
            /\ req[p].userId \in Requests \cup {Dev}
        BY <2>7, LoginAssumption DEF IssueLoginSession, IInv, TypeOK, Request, PlacesFit, User
      <3>3. sessions' \in [Requests -> Session \cup {NoSession}]
        BY <2>7, <3>2 DEF IssueLoginSession, IInv, TypeOK, Session
      <3> QED BY <2>7, <3>1, <3>3 DEF IssueLoginSession, IInv, TypeOK
    <2>8. CASE RevokeLoginSession(p)
      <3>1. req' \in [Requests -> Request]
        BY <2>8, AnswerTyped DEF RevokeLoginSession
      <3>2. req[p].cookie \in Requests /\ sessions[req[p].cookie] \in Session
        BY <2>8 DEF RevokeLoginSession, IInv, TypeOK, WritesStored
      <3>3. [sessions[req[p].cookie] EXCEPT !.status = "revoked"] \in Session
        BY <3>2 DEF Session
      <3>4. sessions' \in [Requests -> Session \cup {NoSession}]
        BY <2>8, <3>2, <3>3 DEF RevokeLoginSession, IInv, TypeOK
      <3> QED BY <2>8, <3>1, <3>4 DEF RevokeLoginSession, IInv, TypeOK
    <2>9. CASE TouchLoginSession(p)
      BY <2>9, RequestMoves DEF TouchLoginSession, Goto, IInv, TypeOK
    <2>10. CASE GetUserById(p)
      BY <2>10, AnswerTyped DEF GetUserById, IInv, TypeOK
    <2>11. CASE DatabaseFails(p)
      <3>1. faults' \in 0..MaxFaults
        BY <2>11, LoginAssumption DEF DatabaseFails, IInv, TypeOK
      <3> QED BY <2>11, <3>1, AnswerTyped DEF DatabaseFails, IInv, TypeOK
    <2> QED BY <1>2, <2>1, <2>2, <2>3, <2>4, <2>5, <2>6, <2>7, <2>8, <2>9, <2>10, <2>11
            DEF RequestNext, Step
  <1> QED BY <1>1, <1>2 DEF Next

(* A request that arrives to register or log in keeps the parts.               *)
Arrival(r) ==
  /\ r.op \in {"register", "login"} /\ r.cookie = None /\ r.over = FALSE
  /\ \/ r.pc = "done" /\ r.answer \in {"conflict", "unauthorized"}
     \/ /\ r.pc = "hash" /\ r.answer = "none" /\ r.op = "register"
        /\ r.name \in Names /\ r.password \in Passwords
     \/ /\ r.pc = "lastLogin" /\ r.answer = "none"
        /\ \E u \in users : u.userId = r.userId

(* A request that arrives disturbs no part that is about the others.           *)
LEMMA ArrivalKeepsParts ==
  ASSUME req \in [Requests -> Request], WritesStored, PlacesFit, SessionsAreBacked,
         LoggedOutIsRevoked, OverIsOnItsWayOut, UNCHANGED <<users, sessions>>,
         NEW p \in Requests, req[p].pc = "idle", NEW r, Arrival(r),
         req' = [req EXCEPT ![p] = r]
  PROVE  WritesStored' /\ PlacesFit' /\ SessionsAreBacked' /\ LoggedOutIsRevoked'
           /\ OverIsOnItsWayOut'
  <1>1. req'[p] = r /\ \A q \in Requests \ {p} : req'[q] = req[q] OBVIOUS
  <1>2. WritesStored' BY <1>1 DEF Arrival, WritesStored
  <1>3. PlacesFit' BY <1>1 DEF Arrival, PlacesFit
  <1>4. SessionsAreBacked'
    <2>1. sessions[p] = NoSession BY DEF SessionsAreBacked
    <2> QED BY <1>1, <2>1 DEF Arrival, SessionsAreBacked
  <1>5. LoggedOutIsRevoked' BY <1>1 DEF Arrival, LoggedOutIsRevoked
  <1>6. OverIsOnItsWayOut' BY <1>1 DEF Arrival, OverIsOnItsWayOut
  <1> QED BY <1>2, <1>3, <1>4, <1>5, <1>6

(* An action of the service keeps the other parts of the invariant.            *)
LEMMA PartsStep ==
  IInv /\ Next => WritesStored' /\ PlacesFit' /\ SessionsAreBacked' /\ LoggedOutIsRevoked'
                    /\ OverIsOnItsWayOut'
  <1> DEFINE Parts == WritesStored /\ PlacesFit /\ SessionsAreBacked /\ LoggedOutIsRevoked
                      /\ OverIsOnItsWayOut
  <1> SUFFICES ASSUME IInv, Next PROVE Parts' OBVIOUS
  <1>0. /\ req \in [Requests -> Request] /\ sessions \in [Requests -> Session \cup {NoSession}]
        /\ WritesStored /\ PlacesFit /\ SessionsAreBacked /\ LoggedOutIsRevoked
        /\ OverIsOnItsWayOut /\ None \notin Requests
    BY LoginAssumption DEF IInv, TypeOK
  <1>1. CASE Tick
    BY <1>0, <1>1 DEF Tick, WritesStored, PlacesFit, SessionsAreBacked, LoggedOutIsRevoked,
       OverIsOnItsWayOut
  <1>2. ASSUME NEW p \in Requests, RequestNext(p) PROVE Parts'
    <2>1. ASSUME NEW name \in Names, NEW password \in Passwords, Register(p, name, password)
          PROVE Parts'
      <3> USE DEF Idle
      <3>0. req[p].pc = "idle" /\ UNCHANGED <<users, sessions>> BY <2>1 DEF Register, Arrives
      <3>1. CASE \E u \in users : u.username = name
        <4> DEFINE r == [Idle EXCEPT !.pc = "done", !.op = "register", !.answer = "conflict"]
        <4>1. req' = [req EXCEPT ![p] = r] BY <2>1, <3>1 DEF Register
        <4>2. Arrival(r) BY DEF Arrival
        <4> QED BY <1>0, <3>0, <4>1, <4>2, ArrivalKeepsParts
      <3>2. CASE ~\E u \in users : u.username = name
        <4> DEFINE r == [Idle EXCEPT !.pc = "hash", !.op = "register", !.name = name,
                                     !.password = password, !.now = clock]
        <4>1. req' = [req EXCEPT ![p] = r] BY <2>1, <3>2 DEF Register
        <4>2. Arrival(r) BY DEF Arrival
        <4> QED BY <1>0, <3>0, <4>1, <4>2, ArrivalKeepsParts
      <3> QED BY <3>1, <3>2
    <2>2. ASSUME NEW name \in Names, NEW password \in Passwords, Login(p, name, password)
          PROVE Parts'
      <3> USE DEF Idle
      <3>0. req[p].pc = "idle" /\ UNCHANGED <<users, sessions>> BY <2>2 DEF Login, Arrives
      <3>1. CASE req' = [req EXCEPT ![p] =
                   [Idle EXCEPT !.pc = "done", !.op = "login", !.answer = "unauthorized"]]
        <4> DEFINE r == [Idle EXCEPT !.pc = "done", !.op = "login", !.answer = "unauthorized"]
        <4>1. Arrival(r) BY DEF Arrival
        <4> QED BY <1>0, <3>0, <3>1, <4>1, ArrivalKeepsParts
      <3>2. ASSUME NEW u \in users,
                   req' = [req EXCEPT ![p] =
                     [Idle EXCEPT !.pc = "lastLogin", !.op = "login", !.userId = u.userId]]
            PROVE  Parts'
        <4> DEFINE r == [Idle EXCEPT !.pc = "lastLogin", !.op = "login", !.userId = u.userId]
        <4>1. Arrival(r) BY DEF Arrival
        <4> QED BY <1>0, <3>0, <3>2, <4>1, ArrivalKeepsParts
      <3> QED BY <2>2, <3>1, <3>2 DEF Login
    <2>3. ASSUME NEW l \in Cookies \cup {None}, Logout(p, l) PROVE Parts'
      <3>1. WritesStored'
        BY <1>0, <2>3
           DEF Logout, Idle, Arrives, Cookies, Request, Session, WritesStored,
               SessionsAreBacked, PlacesFit
      <3>2. PlacesFit'
        BY <1>0, <2>3 DEF Logout, Idle, Arrives, Cookies, Request, Session, PlacesFit
      <3>3. SessionsAreBacked'
        BY <1>0, <2>3
           DEF Logout, Idle, Arrives, Cookies, Request, Session, SessionsAreBacked, PlacesFit,
               WritesStored
      <3>4. LoggedOutIsRevoked'
        BY <1>0, <2>3
           DEF Logout, Idle, Arrives, Cookies, Request, Session, WritesStored, PlacesFit,
               SessionsAreBacked, LoggedOutIsRevoked
      <3>5. OverIsOnItsWayOut'
        BY <1>0, <2>3
           DEF Logout, Idle, Arrives, Cookies, Request, Session, OverIsOnItsWayOut,
               LoggedOutIsRevoked, PlacesFit
      <3> QED BY <3>1, <3>2, <3>3, <3>4, <3>5
    <2>4. ASSUME NEW l \in Cookies \cup {None}, RequireCurrentUser(p, l) PROVE Parts'
      <3>1. WritesStored'
        BY <1>0, <2>4
           DEF RequireCurrentUser, Idle, Arrives, Cookies, Over, Request, Session,
               WritesStored, SessionsAreBacked, PlacesFit
      <3>2. PlacesFit'
        BY <1>0, <2>4
           DEF RequireCurrentUser, Idle, Arrives, Cookies, Over, Request, Session, PlacesFit
      <3>3. SessionsAreBacked'
        BY <1>0, <2>4
           DEF RequireCurrentUser, Idle, Arrives, Cookies, Over, Request, Session,
               SessionsAreBacked, PlacesFit, WritesStored
      <3>4. LoggedOutIsRevoked'
        BY <1>0, <2>4
           DEF RequireCurrentUser, Idle, Arrives, Cookies, Over, Request, Session,
               WritesStored, PlacesFit, SessionsAreBacked, LoggedOutIsRevoked
      <3>5. OverIsOnItsWayOut'
        BY <1>0, <2>4
           DEF RequireCurrentUser, Idle, Arrives, Cookies, Over, Request, Session,
               OverIsOnItsWayOut, LoggedOutIsRevoked, PlacesFit
      <3> QED BY <3>1, <3>2, <3>3, <3>4, <3>5
    <2>5. ASSUME CreateUser(p) PROVE Parts'
      <3>0. users \subseteq users'
        BY <2>5 DEF CreateUser
      <3>1. WritesStored'
        BY <1>0, <2>5
           DEF CreateUser, Answer, Request, Session, WritesStored, SessionsAreBacked,
               PlacesFit
      <3>2. PlacesFit'
        <4>1. CASE \E u \in users : u.username = req[p].name
          <5>1. req' = [req EXCEPT ![p] = [req[p] EXCEPT !.pc = "done", !.answer = "error"]]
            BY <2>5, <4>1 DEF CreateUser, Answer
          <5>2. req'[p].pc = "done" /\ \A q \in Requests \ {p} : req'[q] = req[q]
            BY <1>0, <5>1 DEF Request
          <5>3. users' = users BY <2>5, <4>1 DEF CreateUser
          <5> QED BY <1>0, <5>2, <5>3 DEF PlacesFit
        <4>2. CASE ~\E u \in users : u.username = req[p].name
          <5>1. req' = [req EXCEPT ![p] = [req[p] EXCEPT !.pc = "lastLogin", !.userId = p]]
            BY <2>5, <4>2 DEF CreateUser
          <5>2. \E u \in users' : u.userId = p
            <6> DEFINE n == [userId |-> p, username |-> req[p].name, password |-> req[p].password]
            <6>1. n \in users' /\ n.userId = p BY <2>5, <4>2 DEF CreateUser
            <6> QED BY <6>1
          <5>3. req[p] \in Request /\ req[p].op = "register" /\ req[p].answer = "none"
            BY <1>0, <2>5 DEF CreateUser, PlacesFit
          <5>4. /\ req'[p].pc = "lastLogin" /\ req'[p].op = "register"
                /\ req'[p].answer = "none" /\ req'[p].userId = p
            BY <1>0, <5>1, <5>3 DEF Request
          <5>5. \A q \in Requests \ {p} : req'[q] = req[q]
            BY <1>0, <5>1
          <5> QED BY <1>0, <3>0, <5>2, <5>4, <5>5 DEF PlacesFit
        <4> QED BY <4>1, <4>2
      <3>3. SessionsAreBacked'
        BY <1>0, <3>0, <2>5
           DEF CreateUser, Answer, Request, Session, SessionsAreBacked, PlacesFit,
               WritesStored
      <3>4. LoggedOutIsRevoked'
        BY <1>0, <2>5
           DEF CreateUser, Answer, Request, Session, WritesStored, PlacesFit,
               SessionsAreBacked, LoggedOutIsRevoked
      <3>5. OverIsOnItsWayOut'
        BY <1>0, <2>5
           DEF CreateUser, Answer, Request, Session, OverIsOnItsWayOut, LoggedOutIsRevoked,
               PlacesFit
      <3> QED BY <3>1, <3>2, <3>3, <3>4, <3>5
    <2>6. ASSUME UpdateLastLogin(p) PROVE Parts'
      <3>1. WritesStored'
        BY <1>0, <2>6
           DEF UpdateLastLogin, Request, Session, WritesStored, SessionsAreBacked, PlacesFit
      <3>2. PlacesFit'
        BY <1>0, <2>6 DEF UpdateLastLogin, Request, Session, PlacesFit
      <3>3. SessionsAreBacked'
        BY <1>0, <2>6
           DEF UpdateLastLogin, Request, Session, SessionsAreBacked, PlacesFit, WritesStored
      <3>4. LoggedOutIsRevoked'
        BY <1>0, <2>6
           DEF UpdateLastLogin, Request, Session, WritesStored, PlacesFit, SessionsAreBacked,
               LoggedOutIsRevoked
      <3>5. OverIsOnItsWayOut'
        BY <1>0, <2>6
           DEF UpdateLastLogin, Request, Session, OverIsOnItsWayOut, LoggedOutIsRevoked,
               PlacesFit
      <3> QED BY <3>1, <3>2, <3>3, <3>4, <3>5
    <2>7. ASSUME IssueLoginSession(p) PROVE Parts'
      <3>1. WritesStored'
        BY <1>0, <2>7
           DEF IssueLoginSession, Answer, NoSession, Request, Session, WritesStored,
               SessionsAreBacked, PlacesFit
      <3>2. PlacesFit'
        BY <1>0, <2>7 DEF IssueLoginSession, Answer, NoSession, Request, Session, PlacesFit
      <3>3. SessionsAreBacked'
        BY <1>0, <2>7
           DEF IssueLoginSession, Answer, NoSession, Request, Session, SessionsAreBacked,
               PlacesFit, WritesStored
      <3>4. LoggedOutIsRevoked'
        BY <1>0, <2>7
           DEF IssueLoginSession, Answer, NoSession, Request, Session, WritesStored,
               PlacesFit, SessionsAreBacked, LoggedOutIsRevoked
      <3>5. OverIsOnItsWayOut'
        BY <1>0, <2>7
           DEF IssueLoginSession, Answer, NoSession, Request, Session, OverIsOnItsWayOut,
               LoggedOutIsRevoked, PlacesFit
      <3> QED BY <3>1, <3>2, <3>3, <3>4, <3>5
    <2>8. ASSUME RevokeLoginSession(p) PROVE Parts'
      <3>1. WritesStored'
        BY <1>0, <2>8
           DEF RevokeLoginSession, Answer, NoSession, Request, Session, WritesStored,
               SessionsAreBacked, PlacesFit
      <3>2. PlacesFit'
        BY <1>0, <2>8 DEF RevokeLoginSession, Answer, NoSession, Request, Session, PlacesFit
      <3>3. SessionsAreBacked'
        BY <1>0, <2>8
           DEF RevokeLoginSession, Answer, NoSession, Request, Session, SessionsAreBacked,
               PlacesFit, WritesStored
      <3>4. LoggedOutIsRevoked'
        BY <1>0, <2>8
           DEF RevokeLoginSession, Answer, NoSession, Request, Session, WritesStored,
               PlacesFit, SessionsAreBacked, LoggedOutIsRevoked
      <3>5. OverIsOnItsWayOut'
        BY <1>0, <2>8
           DEF RevokeLoginSession, Answer, NoSession, Request, Session, OverIsOnItsWayOut,
               LoggedOutIsRevoked, PlacesFit
      <3> QED BY <3>1, <3>2, <3>3, <3>4, <3>5
    <2>9. ASSUME TouchLoginSession(p) PROVE Parts'
      <3>1. WritesStored'
        BY <1>0, <2>9
           DEF TouchLoginSession, Goto, Request, Session, WritesStored, SessionsAreBacked,
               PlacesFit
      <3>2. PlacesFit'
        BY <1>0, <2>9 DEF TouchLoginSession, Goto, Request, Session, PlacesFit
      <3>3. SessionsAreBacked'
        BY <1>0, <2>9
           DEF TouchLoginSession, Goto, Request, Session, SessionsAreBacked, PlacesFit,
               WritesStored
      <3>4. LoggedOutIsRevoked'
        BY <1>0, <2>9
           DEF TouchLoginSession, Goto, Request, Session, WritesStored, PlacesFit,
               SessionsAreBacked, LoggedOutIsRevoked
      <3>5. OverIsOnItsWayOut'
        BY <1>0, <2>9
           DEF TouchLoginSession, Goto, Request, Session, OverIsOnItsWayOut,
               LoggedOutIsRevoked, PlacesFit
      <3> QED BY <3>1, <3>2, <3>3, <3>4, <3>5
    <2>10. ASSUME GetUserById(p) PROVE Parts'
      <3>1. WritesStored'
        BY <1>0, <2>10
           DEF GetUserById, Answer, Request, Session, WritesStored, SessionsAreBacked,
               PlacesFit
      <3>2. PlacesFit'
        BY <1>0, <2>10 DEF GetUserById, Answer, Request, Session, PlacesFit
      <3>3. SessionsAreBacked'
        BY <1>0, <2>10
           DEF GetUserById, Answer, Request, Session, SessionsAreBacked, PlacesFit,
               WritesStored
      <3>4. LoggedOutIsRevoked'
        BY <1>0, <2>10
           DEF GetUserById, Answer, Request, Session, WritesStored, PlacesFit,
               SessionsAreBacked, LoggedOutIsRevoked
      <3>5. OverIsOnItsWayOut'
        BY <1>0, <2>10
           DEF GetUserById, Answer, Request, Session, OverIsOnItsWayOut, LoggedOutIsRevoked,
               PlacesFit
      <3> QED BY <3>1, <3>2, <3>3, <3>4, <3>5
    <2>11. ASSUME DatabaseFails(p) PROVE Parts'
      <3>1. WritesStored'
        BY <1>0, <2>11
           DEF DatabaseFails, Answer, Request, Session, WritesStored, SessionsAreBacked,
               PlacesFit
      <3>2. PlacesFit'
        BY <1>0, <2>11 DEF DatabaseFails, Answer, Request, Session, PlacesFit
      <3>3. SessionsAreBacked'
        BY <1>0, <2>11
           DEF DatabaseFails, Answer, Request, Session, SessionsAreBacked, PlacesFit,
               WritesStored
      <3>4. LoggedOutIsRevoked'
        BY <1>0, <2>11
           DEF DatabaseFails, Answer, Request, Session, WritesStored, PlacesFit,
               SessionsAreBacked, LoggedOutIsRevoked
      <3>5. OverIsOnItsWayOut'
        BY <1>0, <2>11
           DEF DatabaseFails, Answer, Request, Session, OverIsOnItsWayOut, LoggedOutIsRevoked,
               PlacesFit
      <3> QED BY <3>1, <3>2, <3>3, <3>4, <3>5
    <2> QED BY <1>2, <2>1, <2>2, <2>3, <2>4, <2>5, <2>6, <2>7, <2>8, <2>9, <2>10, <2>11 DEF RequestNext, Step
  <1> QED BY <1>1, <1>2 DEF Next

(* The inductive invariant holds: every request fits the place it is at, and   *)
(* every cookie, account and login session it relies on is stored.             *)
THEOREM Invariance == Spec => []IInv
  <1>1. IInv /\ [Next]_vars => IInv'
    <2>1. IInv /\ Next => IInv' BY TypeStep, PartsStep DEF IInv
    <2>2. IInv /\ UNCHANGED vars => IInv'
      BY DEF vars, IInv, TypeOK, WritesStored, PlacesFit, SessionsAreBacked,
         LoggedOutIsRevoked, OverIsOnItsWayOut
    <2> QED BY <2>1, <2>2
  <1> QED BY <1>1, InitEstablishes, PTL DEF Spec

(* The rows and the requests keep their types: a request that issues or        *)
(* touches a login session has an account or a stored row at hand.             *)
THEOREM TypeCorrect == Spec => []TypeOK
  <1>1. IInv => TypeOK BY DEF IInv
  <1> QED BY <1>1, Invariance, PTL

(* Once a logout was answered or the time ran out, no later request with that  *)
(* cookie is accepted (auth-service.ts:49-67).                                 *)
THEOREM LogoutAndExpiryHold == Spec => []OverIsRefused
  <1>1. IInv => OverIsRefused BY DEF IInv, OverIsOnItsWayOut, OverIsRefused
  <1> QED BY <1>1, Invariance, PTL

(* Every cookie handed out names a stored login session of a stored account    *)
(* (auth-service.ts:87-99 and 115-130).                                        *)
THEOREM CookiesAreBacked == Spec => []CookieIsBacked
  <1>1. IInv => CookieIsBacked
    BY DEF IInv, SessionsAreBacked, CookieIsBacked, Cookies
  <1> QED BY <1>1, Invariance, PTL

-------------------------------------------------------------------------------
(* The rows implement the contract of Accounts.                                *)

(* Without accounts and logins the contract starts as it asks.                 *)
LEMMA ContractInit == Init => contract!Init
  <1> SUFFICES ASSUME Init PROVE contract!Init OBVIOUS
  <1>1. /\ loginState = [l \in Requests |-> "unused"]
        /\ holderOf = [l \in Requests |-> None]
    BY DEF Init, loginState, holderOf, NoSession, StateOf
  <1>2. CASE users = {}
    BY <1>1, <1>2 DEF contract!Init
  <1>3. CASE \E u \in DevelopmentUsers : users = {u}
    <2>1. PICK u \in DevelopmentUsers : users = {u} BY <1>3
    <2>2. <<u.username, u.userId>> \in Names \X (Requests \cup {Dev})
      BY LoginAssumption
    <2>3. {<<v.username, v.userId>> : v \in users} = {<<u.username, u.userId>>}
      BY <2>1
    <2> QED BY <1>1, <2>2, <2>3 DEF contract!Init
  <1> QED BY <1>2, <1>3 DEF Init

(* An insert of a user is the only step that changes the accounts, and it adds *)
(* one of a new name.                                                          *)
LEMMA ContractCreateUser ==
  ASSUME IInv, NEW p \in Requests, CreateUser(p)
  PROVE  contract!Next \/ UNCHANGED <<users, sessions>>
  <1>1. CASE \E u \in users : u.username = req[p].name
    BY <1>1 DEF CreateUser
  <1>2. CASE ~\E u \in users : u.username = req[p].name
    <2>1. /\ users' = users \cup {[userId |-> p, username |-> req[p].name,
                                   password |-> req[p].password]}
          /\ sessions' = sessions
      BY <1>2 DEF CreateUser
    <2>2. req[p].name \in Names BY DEF IInv, PlacesFit, CreateUser
    <2>3. {<<u.username, u.userId>> : u \in users'}
            = {<<u.username, u.userId>> : u \in users} \cup {<<req[p].name, p>>}
      <3> DEFINE n == [userId |-> p, username |-> req[p].name, password |-> req[p].password]
      <3>1. <<n.username, n.userId>> = <<req[p].name, p>> OBVIOUS
      <3>2. users' = users \cup {n} BY <2>1
      <3> HIDE DEF n
      <3> QED BY <3>1, <3>2
    <2>4. \A a \in {<<u.username, u.userId>> : u \in users} : a[1] # req[p].name
      BY <1>2
    <2>5. loginState' = loginState /\ holderOf' = holderOf
      BY <2>1 DEF loginState, holderOf
    <2>6. contract!CreateAccount(req[p].name, p)
      BY <2>3, <2>4, <2>5 DEF contract!CreateAccount
    <2> QED BY <2>2, <2>6 DEF contract!Next
  <1> QED BY <1>1, <1>2

(* Issuing a login session opens it, for an account that exists.               *)
LEMMA ContractIssue ==
  ASSUME IInv, NEW p \in Requests, IssueLoginSession(p)
  PROVE  contract!Next
  <1>1. sessions[p] = NoSession
    BY DEF IInv, SessionsAreBacked, IssueLoginSession
  <1>2. PICK u \in users : u.userId = req[p].userId
    BY DEF IInv, PlacesFit, IssueLoginSession
  <1>3. /\ req[p].userId \in Requests \cup {Dev}
        /\ \E a \in {<<v.username, v.userId>> : v \in users} : a[2] = req[p].userId
    <2>1. u \in User BY DEF IInv, TypeOK
    <2>2. <<u.username, u.userId>> \in {<<v.username, v.userId>> : v \in users}
      OBVIOUS
    <2>3. <<u.username, u.userId>>[2] = req[p].userId BY <1>2
    <2> QED BY <1>2, <2>1, <2>2, <2>3 DEF User
  <1>4. /\ users' = users /\ sessions \in [Requests -> Session \cup {NoSession}]
        /\ sessions' = [sessions EXCEPT ![p] = [userId |-> req[p].userId,
                          status |-> "active", expiresAt |-> req[p].now + Ttl]]
    BY DEF IssueLoginSession, IInv, TypeOK
  <1>5. sessions'[p] # NoSession /\ sessions'[p].status = "active"
    BY <1>4 DEF NoSession
  <1>6. loginState' = [loginState EXCEPT ![p] = "open"]
    BY <1>4, <1>5 DEF loginState, StateOf
  <1>7. loginState[p] = "unused" BY <1>1 DEF loginState, NoSession, StateOf
  <1>8. holderOf' = [holderOf EXCEPT ![p] = req[p].userId]
    <2>1. \A q \in Requests \ {p} : sessions'[q] = sessions[q] BY <1>4
    <2>2. sessions'[p].userId = req[p].userId BY <1>4
    <2> QED BY <2>1, <2>2 DEF holderOf
  <1>9. contract!Open(p, req[p].userId)
    BY <1>4, <1>6, <1>7, <1>3, <1>8 DEF contract!Open
  <1> QED BY <1>9, <1>3 DEF contract!Next

(* Revoking a stored login session closes it, or finds it closed.              *)
LEMMA ContractRevoke ==
  ASSUME IInv, NEW p \in Requests, RevokeLoginSession(p)
  PROVE  contract!Next \/ UNCHANGED <<users, loginState, holderOf>>
  <1> DEFINE l == req[p].cookie
  <1>1. /\ l \in Requests /\ sessions[l] \in Session /\ sessions[l] # NoSession
        /\ sessions \in [Requests -> Session \cup {NoSession}]
        /\ users' = users
        /\ sessions' = [sessions EXCEPT ![l] = [sessions[l] EXCEPT !.status = "revoked"]]
    BY DEF IInv, TypeOK, WritesStored, RevokeLoginSession
  <1> HIDE DEF l
  <1>2. sessions'[l].status = "revoked" /\ sessions'[l] # NoSession
    BY <1>1 DEF Session, NoSession
  <1>3. loginState' = [loginState EXCEPT ![l] = "closed"]
    <2>1. \A q \in Requests \ {l} : sessions'[q] = sessions[q] BY <1>1
    <2>2. StateOf[sessions'[l].status] = "closed" BY <1>2 DEF StateOf
    <2> QED BY <1>1, <2>1, <2>2 DEF loginState
  <1>4. holderOf' = holderOf
    <2>1. \A q \in Requests \ {l} : sessions'[q] = sessions[q] BY <1>1
    <2>2. sessions'[l].userId = sessions[l].userId BY <1>1 DEF Session
    <2> QED BY <1>1, <2>1, <2>2 DEF holderOf
  <1>5. CASE sessions[l].status = "active"
    <2>1. loginState[l] = "open" BY <1>1, <1>5 DEF loginState, StateOf
    <2>2. contract!Close(l) BY <1>1, <1>3, <1>4, <2>1 DEF contract!Close
    <2> QED BY <1>1, <2>2 DEF contract!Next
  <1>6. CASE sessions[l].status # "active"
    <2>1. loginState[l] = "closed" BY <1>1, <1>6 DEF loginState, Session, StateOf
    <2>2. loginState' = loginState BY <1>1, <1>3, <2>1 DEF loginState
    <2> QED BY <1>1, <1>4, <2>2
  <1> QED BY <1>5, <1>6

(* Every step of the service is a step of the contract or changes none of it.  *)
LEMMA ContractStep ==
  IInv /\ [Next]_vars
    => [contract!Next]_<<{<<u.username, u.userId>> : u \in users}, loginState, holderOf>>
  <1> SUFFICES ASSUME IInv, [Next]_vars
               PROVE  contract!Next \/ UNCHANGED <<users, loginState, holderOf>>
    OBVIOUS
  <1>1. CASE UNCHANGED <<users, sessions>>
    BY <1>1 DEF loginState, holderOf
  <1>2. ASSUME NEW p \in Requests, CreateUser(p)
        PROVE  contract!Next \/ UNCHANGED <<users, sessions>>
    BY <1>2, ContractCreateUser
  <1>3. ASSUME NEW p \in Requests, IssueLoginSession(p) PROVE contract!Next
    BY <1>3, ContractIssue
  <1>4. ASSUME NEW p \in Requests, RevokeLoginSession(p)
        PROVE  contract!Next \/ UNCHANGED <<users, loginState, holderOf>>
    BY <1>4, ContractRevoke
  <1>5. ASSUME NEW p \in Requests,
               RequestNext(p), ~CreateUser(p), ~IssueLoginSession(p), ~RevokeLoginSession(p)
        PROVE  UNCHANGED <<users, sessions>>
    BY <1>5 DEF RequestNext, Step, Register, Login, Logout, RequireCurrentUser, UpdateLastLogin,
       TouchLoginSession, GetUserById, DatabaseFails
  <1> QED BY <1>1, <1>2, <1>3, <1>4, <1>5 DEF Next, Tick, vars

(* One account per name however many registrations overlap, each login for one *)
(* stored account, and no login session is revived once revoked.               *)
THEOREM ImplementsAccounts == Spec => AccountsContract
  BY ContractInit, ContractStep, Invariance, PTL
     DEF AccountsContract, contract!Spec, Spec
===============================================================================
