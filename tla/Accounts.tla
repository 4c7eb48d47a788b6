------------------------------- MODULE Accounts -------------------------------
(* What the auth service promises, without its requests: a name belongs to one *)
(* account for ever, a login is opened once, for an account that exists, stays *)
(* that account's, and is never opened again when it was closed.               *)
CONSTANTS Names, UserIds, Logins, Nobody

VARIABLES accounts,  \* pairs of a name and a user id
          login,     \* for each login id: unused, open or closed
          holder     \* for each login id: the user it was opened for

CreateAccount(name, user) ==
  /\ \A a \in accounts : a[1] # name
  /\ accounts' = accounts \cup {<<name, user>>}
  /\ UNCHANGED <<login, holder>>

Open(l, user) ==
  /\ login[l] = "unused"
  /\ \E a \in accounts : a[2] = user
  /\ login' = [login EXCEPT ![l] = "open"]
  /\ holder' = [holder EXCEPT ![l] = user]
  /\ UNCHANGED accounts

Close(l) ==
  /\ login[l] = "open"
  /\ login' = [login EXCEPT ![l] = "closed"]
  /\ UNCHANGED <<accounts, holder>>

Init ==
  /\ accounts \in {{}} \cup {{a} : a \in Names \X UserIds}
  /\ login = [l \in Logins |-> "unused"]
  /\ holder = [l \in Logins |-> Nobody]

Next ==
  \/ \E name \in Names, user \in UserIds : CreateAccount(name, user)
  \/ \E l \in Logins, user \in UserIds : Open(l, user)
  \/ \E l \in Logins : Close(l)

Spec == Init /\ [][Next]_<<accounts, login, holder>>
===============================================================================
