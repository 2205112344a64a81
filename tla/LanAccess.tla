---- MODULE LanAccess ----
(***************************************************************************)
(* Accounts, sessions and roles of the LAN console (cms/app/auth.py and the *)
(* account pages of cms/app/routes/web.py).  The session cookie names a     *)
(* user id and is resolved on every request; an account page checks the     *)
(* role first and writes later, after hashing a password or counting the    *)
(* admins, so a request may act for someone who is no longer an admin.      *)
(***************************************************************************)
EXTENDS Integers, FiniteSets

CONSTANTS Workers, Browsers,
          NULL,
          MaxUsers    \* bound: accounts ever created

Roles == {"admin", "viewer"}   \* an editor is to these pages what a viewer is

VARIABLES users,     \* the users table: set of [id, role, no]; `no` tells accounts apart
          nextUser,  \* accounts made, and one: AUTOINCREMENT
          sess,      \* browser -> the user id in its session cookie, or NULL
          who,       \* history: `no` of the account that signed in there
          req,
          raced      \* history: two account requests were under way at once

vars == <<users, nextUser, sess, who, req, raced>>

Idle == [op |-> "idle"]
Ids == {u.id : u \in users}
Admins == {u.id : u \in {x \in users : x.role = "admin"}}
Account(i) == CHOOSE u \in users : u.id = i
RoleOf(i) == Account(i).role
NoUsers == users = {}

TypeOK ==
  /\ users \subseteq [id : 1..MaxUsers, role : Roles, no : 1..MaxUsers] /\ nextUser \in 1..MaxUsers + 1
  /\ sess \in [Browsers -> 1..MaxUsers \cup {NULL}]

\* ensure_admin_user: a start with no accounts makes the first one.
Init ==
  /\ users = {[id |-> 1, role |-> "admin", no |-> 1]} /\ nextUser = 2
  /\ sess = [b \in Browsers |-> NULL] /\ who = [b \in Browsers |-> NULL]
  /\ req = [w \in Workers |-> Idle] /\ raced = FALSE

Restart ==
  /\ req' = [w \in Workers |-> Idle]
  /\ IF NoUsers /\ nextUser <= MaxUsers
     THEN /\ users' = {[id |-> nextUser, role |-> "admin", no |-> nextUser]} /\ nextUser' = nextUser + 1
     ELSE UNCHANGED <<users, nextUser>>
  /\ UNCHANGED <<sess, who, raced>>

\* current_user: a session whose account is gone is nobody's.
User(b) == IF sess[b] \in Ids THEN sess[b] ELSE NULL

Login(b, i) ==
  /\ i \in Ids
  /\ sess' = [sess EXCEPT ![b] = i] /\ who' = [who EXCEPT ![b] = Account(i).no]
  /\ UNCHANGED <<users, nextUser, req, raced>>

Logout(b) ==
  /\ sess' = [sess EXCEPT ![b] = NULL] /\ who' = [who EXCEPT ![b] = NULL]
  /\ UNCHANGED <<users, nextUser, req, raced>>

----------------------------------------------------------------------------
(* The account pages: require_admin, the checks on oneself, the admins       *)
(* counted before a deletion; then the write.                                *)
LastAdmin(t) == RoleOf(t) = "admin" /\ Cardinality(Admins) <= 1

Allowed(me, op, t) ==
  CASE op = "create" -> TRUE
    [] op \in {"promote", "password"} -> TRUE
    [] op = "demote" -> t # me
    [] op = "delete" -> t # me /\ t \in Ids /\ ~LastAdmin(t)

Ask(w, b, op, t) ==
  /\ req[w] = Idle /\ User(b) \in Admins
  /\ Allowed(User(b), op, t)
  /\ req' = [req EXCEPT ![w] = [op |-> op, target |-> t]]
  /\ raced' = (raced \/ \E v \in Workers : req[v] # Idle)
  /\ UNCHANGED <<users, nextUser, sess, who>>

SetRole(i, role) == {IF u.id = i THEN [u EXCEPT !.role = role] ELSE u : u \in users}

LowestFreeId == CHOOSE i \in 1..nextUser : i \notin Ids /\ \A j \in 1..i - 1 : j \in Ids
NewId == nextUser

Write(w) ==
  LET r == req[w] IN
  /\ r # Idle
  /\ CASE r.op = "create" -> /\ nextUser <= MaxUsers /\ nextUser' = nextUser + 1
                             /\ \E role \in Roles : users' = users \cup {[id |-> NewId, role |-> role, no |-> nextUser]}
       [] r.op = "promote" -> users' = SetRole(r.target, "admin") /\ UNCHANGED nextUser
       [] r.op = "demote" -> users' = SetRole(r.target, "viewer") /\ UNCHANGED nextUser
       [] r.op = "delete" -> users' = {u \in users : u.id # r.target} /\ UNCHANGED nextUser
       [] r.op = "password" -> UNCHANGED <<users, nextUser>>   \* sessions stay as they are
  /\ req' = [req EXCEPT ![w] = Idle]
  /\ UNCHANGED <<sess, who, raced>>

Next ==
  \/ Restart
  \/ \E b \in Browsers : Logout(b) \/ \E i \in Ids : Login(b, i)
  \/ \E w \in Workers :
       \/ Write(w)
       \/ \E b \in Browsers, t \in Ids, op \in {"create", "promote", "demote", "delete", "password"} :
            Ask(w, b, op, t)

Spec == Init /\ [][Next]_vars

----------------------------------------------------------------------------
(* Someone can always manage the accounts ("cannot delete the last admin",    *)
(* "cannot demote yourself"), as long as no two account requests were under  *)
(* way at once.                                                              *)
AdminLeft == raced \/ Admins # {}

(* A session that still resolves to an account is the session of whoever      *)
(* signed in: an id is never given to a second account.                      *)
SessionIsOwn == \A b \in Browsers : User(b) # NULL => Account(User(b)).no = who[b]
====
