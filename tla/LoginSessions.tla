---------------------------- MODULE LoginSessions -----------------------------
(* auth-service.ts and its repository: registration, login, logout and the     *)
(* check of the cookie that every authenticated route begins with.  A request  *)
(* is split at its database calls; a request that dies with the process is     *)
(* one whose next call fails.  Times that nothing reads (last login, last      *)
(* seen) are left out, their updates are steps that may fail.                  *)
EXTENDS Integers

CONSTANTS Names, Passwords,
          Requests,         \* numbered in the order they arrive
          DevelopmentUsers, \* the account ensureDevelopmentUser makes at start, if any
          Ttl,              \* life of a login session
          MaxClock, MaxFaults,
          Dev,              \* the user id of that account
          None

VARIABLES users,     \* rows of managed_agent_users
          sessions,  \* rows of managed_agent_login_sessions, by the request that issued them
          req,       \* progress of the requests
          clock,
          faults     \* database calls that failed so far

vars == <<users, sessions, req, clock, faults>>

User == [userId : Requests \cup {Dev}, username : Names, password : Passwords]

ASSUME LoginAssumption ==
  /\ Requests \subseteq Nat
  /\ DevelopmentUsers \subseteq [userId : {Dev}, username : Names, password : Passwords]
  /\ Ttl \in Nat \ {0} /\ MaxClock \in Nat /\ MaxFaults \in Nat
  /\ None \notin Requests /\ None \notin Names /\ None \notin Passwords

NoSession == [userId |-> None, status |-> "none", expiresAt |-> 0]
Session == [userId : Requests \cup {Dev}, status : {"active", "revoked"}, expiresAt : Nat]

Request ==
  [pc : {"idle", "hash", "lastLogin", "issue", "revoke", "touch", "user", "done"},
   op : {"none", "register", "login", "logout", "me"},
   name : Names \cup {None}, password : Passwords \cup {None},
   userId : Requests \cup {Dev, None}, cookie : Requests \cup {None},
   now : 0..MaxClock, over : BOOLEAN,
   answer : {"none", "ok", "conflict", "unauthorized", "error"}]

Idle == [pc |-> "idle", op |-> "none", name |-> None, password |-> None, userId |-> None,
         cookie |-> None, now |-> 0, over |-> FALSE, answer |-> "none"]

Init ==
  /\ users \in {{}} \cup {{u} : u \in DevelopmentUsers}
  /\ sessions = [l \in Requests |-> NoSession]
  /\ req = [p \in Requests |-> Idle]
  /\ clock = 0
  /\ faults = 0

-------------------------------------------------------------------------------
(* Helpers.                                                                    *)

Arrives(p) == req[p].pc = "idle" /\ \A q \in Requests : q < p => req[q].pc # "idle"

Goto(p, pc) == req' = [req EXCEPT ![p].pc = pc]
Answer(p, answer) == req' = [req EXCEPT ![p].pc = "done", ![p].answer = answer]

(* Cookies the browsers may hold: those of answered registrations and logins.  *)
Cookies == {l \in Requests : req[l].op \in {"register", "login"} /\ req[l].answer = "ok"}

(* A login session is over once a logout of it was answered, or its time ran   *)
(* out.                                                                        *)
Over(l) ==
  \/ \E q \in Requests : req[q].op = "logout" /\ req[q].answer = "ok" /\ req[q].cookie = l
  \/ sessions[l].expiresAt <= clock

-------------------------------------------------------------------------------
(* Registration and login.  The name is looked up, the password hashed, and    *)
(* only then is the user inserted: the unique index decides.                   *)

Register(p, name, password) ==
  /\ Arrives(p)
  /\ req' = [req EXCEPT ![p] =
       IF \E u \in users : u.username = name
       THEN [Idle EXCEPT !.pc = "done", !.op = "register", !.answer = "conflict"]
       ELSE [Idle EXCEPT !.pc = "hash", !.op = "register", !.name = name,
                         !.password = password, !.now = clock]]
  /\ UNCHANGED <<users, sessions, clock, faults>>

\* Mutant: no unique index on the name.
CreateUserUnchecked(p) ==
  /\ req[p].pc = "hash"
  /\ users' = users \cup {[userId |-> p, username |-> req[p].name, password |-> req[p].password]}
  /\ req' = [req EXCEPT ![p].pc = "lastLogin", ![p].userId = p]
  /\ UNCHANGED <<sessions, clock, faults>>

CreateUser(p) ==
  /\ req[p].pc = "hash"
  /\ IF \E u \in users : u.username = req[p].name
     THEN Answer(p, "error") /\ UNCHANGED users
     ELSE /\ users' = users \cup {[userId |-> p, username |-> req[p].name,
                                   password |-> req[p].password]}
          /\ req' = [req EXCEPT ![p].pc = "lastLogin", ![p].userId = p]
  /\ UNCHANGED <<sessions, clock, faults>>

Login(p, name, password) ==
  /\ Arrives(p)
  /\ \/ /\ \A u \in users : ~(u.username = name /\ u.password = password)
        /\ req' = [req EXCEPT ![p] =
             [Idle EXCEPT !.pc = "done", !.op = "login", !.answer = "unauthorized"]]
     \/ \E u \in users :
          /\ u.username = name /\ u.password = password
          /\ req' = [req EXCEPT ![p] =
               [Idle EXCEPT !.pc = "lastLogin", !.op = "login", !.userId = u.userId]]
  /\ UNCHANGED <<users, sessions, clock, faults>>

\* Mutant: the answer does not wait for the insert of the login session.
UpdateLastLoginUnawaited(p) ==
  /\ req[p].pc = "lastLogin"
  /\ req' = [req EXCEPT ![p].pc = "issue", ![p].answer = "ok",
                        ![p].now = IF req[p].op = "login" THEN clock ELSE @]
  /\ UNCHANGED <<users, sessions, clock, faults>>

(* A registration keeps the time it read before hashing, a login reads it now. *)
UpdateLastLogin(p) ==
  /\ req[p].pc = "lastLogin"
  /\ req' = [req EXCEPT ![p].pc = "issue",
                        ![p].now = IF req[p].op = "login" THEN clock ELSE @]
  /\ UNCHANGED <<users, sessions, clock, faults>>

\* Mutant: the life of the session is counted backwards.
IssueExpiredSession(p) ==
  /\ req[p].pc = "issue"
  /\ sessions' = [sessions EXCEPT ![p] = [userId |-> req[p].userId, status |-> "active",
                                          expiresAt |-> req[p].now - Ttl]]
  /\ Answer(p, "ok")
  /\ UNCHANGED <<users, clock, faults>>

IssueLoginSession(p) ==
  /\ req[p].pc = "issue"
  /\ sessions' = [sessions EXCEPT ![p] = [userId |-> req[p].userId, status |-> "active",
                                          expiresAt |-> req[p].now + Ttl]]
  /\ Answer(p, "ok")
  /\ UNCHANGED <<users, clock, faults>>

-------------------------------------------------------------------------------
(* Logout, and the check of a cookie.                                          *)

\* Mutant: logout answers before the row is revoked.
LogoutUnawaited(p, l) ==
  /\ Arrives(p)
  /\ req' = [req EXCEPT ![p] = [Idle EXCEPT !.pc = "revoke", !.op = "logout", !.cookie = l,
                                            !.answer = "ok"]]
  /\ UNCHANGED <<users, sessions, clock, faults>>

Logout(p, l) ==
  /\ Arrives(p)
  /\ req' = [req EXCEPT ![p] =
       IF l = None THEN [Idle EXCEPT !.pc = "done", !.op = "logout", !.answer = "ok"]
       ELSE [Idle EXCEPT !.pc = "revoke", !.op = "logout", !.cookie = l]]
  /\ UNCHANGED <<users, sessions, clock, faults>>

(* The row and the time are read together; what follows acts on what was read. *)
RequireCurrentUser(p, l) ==
  /\ Arrives(p)
  /\ req' = [req EXCEPT ![p] =
       IF l = None \/ sessions[l] = NoSession
       THEN [Idle EXCEPT !.pc = "done", !.op = "me", !.answer = "unauthorized"]
       ELSE [Idle EXCEPT !.op = "me", !.cookie = l, !.userId = sessions[l].userId,
                         !.over = Over(l),
                         !.pc = IF sessions[l].status # "active" \/ sessions[l].expiresAt <= clock
                                THEN "revoke" ELSE "touch"]]
  /\ UNCHANGED <<users, sessions, clock, faults>>

RevokeLoginSession(p) ==
  /\ req[p].pc = "revoke"
  /\ sessions' = [sessions EXCEPT ![req[p].cookie].status = "revoked"]
  /\ Answer(p, IF req[p].op = "logout" THEN "ok" ELSE "unauthorized")
  /\ UNCHANGED <<users, clock, faults>>

(* UPDATE last_seen_at WHERE status = 'active': no column kept here changes.   *)
TouchLoginSession(p) ==
  /\ req[p].pc = "touch"
  /\ Goto(p, "user")
  /\ UNCHANGED <<users, sessions, clock, faults>>

GetUserById(p) ==
  /\ req[p].pc = "user"
  /\ Answer(p, IF \E u \in users : u.userId = req[p].userId THEN "ok" ELSE "unauthorized")
  /\ UNCHANGED <<users, sessions, clock, faults>>

-------------------------------------------------------------------------------
DatabaseFails(p) ==
  /\ faults < MaxFaults
  /\ req[p].pc \notin {"idle", "done"}
  /\ faults' = faults + 1
  /\ Answer(p, "error")
  /\ UNCHANGED <<users, sessions, clock>>

Tick ==
  /\ clock < MaxClock
  /\ clock' = clock + 1
  /\ UNCHANGED <<users, sessions, req, faults>>

Step(p) ==
  \/ CreateUser(p) \/ UpdateLastLogin(p) \/ IssueLoginSession(p)
  \/ RevokeLoginSession(p) \/ TouchLoginSession(p) \/ GetUserById(p)

RequestNext(p) ==
  \/ \E name \in Names, password \in Passwords :
       Register(p, name, password) \/ Login(p, name, password)
  \/ \E l \in Cookies \cup {None} : Logout(p, l) \/ RequireCurrentUser(p, l)
  \/ Step(p)
  \/ DatabaseFails(p)

Next == Tick \/ \E p \in Requests : RequestNext(p)

Spec == Init /\ [][Next]_vars

-------------------------------------------------------------------------------
(* Properties.                                                                 *)

TypeOK ==
  /\ users \subseteq User
  /\ sessions \in [Requests -> Session \cup {NoSession}]
  /\ req \in [Requests -> Request]
  /\ clock \in 0..MaxClock
  /\ faults \in 0..MaxFaults

(* The rows implement the contract: one account per name however many          *)
(* registrations of it overlap, logins only for stored accounts and never for  *)
(* another one later, and no login that was revoked becomes active again,      *)
(* whatever touch or revoke comes late.                                        *)
StateOf == [none |-> "unused", active |-> "open", revoked |-> "closed"]
loginState == [l \in Requests |-> StateOf[sessions[l].status]]
holderOf == [l \in Requests |-> sessions[l].userId]
contract == INSTANCE Accounts WITH
              UserIds <- Requests \cup {Dev}, Logins <- Requests, Nobody <- None,
              accounts <- {<<u.username, u.userId>> : u \in users},
              login <- loginState, holder <- holderOf
AccountsContract == contract!Spec

(* auth-design.zh-CN.md says a logout ends the current login session: once it  *)
(* was answered, or the session's time ran out, no request that arrives later  *)
(* with its cookie is accepted (auth-service.ts:49-67).                        *)
OverIsRefused ==
  \A p \in Requests : req[p].op = "me" /\ req[p].over => req[p].answer # "ok"

(* A cookie that was handed out names a stored login session of a stored       *)
(* account, though each insert may fail and leave the rest (auth-service.ts:   *)
(* 87-99 and 115-130).                                                         *)
CookieIsBacked ==
  \A l \in Cookies : /\ sessions[l] # NoSession
                     /\ \E u \in users : u.userId = sessions[l].userId
===============================================================================
