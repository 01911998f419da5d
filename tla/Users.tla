-------------------------------- MODULE Users --------------------------------
(***************************************************************************)
(* Accounts and tokens of the fleet performance application (api/auth.py). *)
(* A token names its account by key and carries the role the account had   *)
(* at the login; nothing is looked up again while it is valid.  Creating,  *)
(* deleting and changing a password are a SELECT and a later write, and so *)
(* is the default administrator each worker ensures when it starts; the    *)
(* workers interleave between the two.                                     *)
(*                                                                         *)
(* A password is compared by value (hashing is injective here), a token's  *)
(* signature is sound, is_active is never cleared by the code and left     *)
(* out.  Time passes in ticks and only between requests.                   *)
(***************************************************************************)
EXTENDS FleetSchema, Naturals, FiniteSets

CONSTANTS Handlers, Names, Emails, Passwords,   \* Handlers: the workers serving requests
          Admin, AdminEmail, AdminPassword,   \* what seed_admin_user inserts
          Lifetime,                           \* ticks a token lives: 24 hours
          MaxIds, MaxTokens, MaxTime          \* bounds of the exploration

Roles == {"admin", "viewer"}

ASSUME UsersAssumption ==
  /\ Admin \in Names /\ AdminEmail \in Emails /\ AdminPassword \in Passwords
  /\ Lifetime \in Nat /\ MaxIds \in Nat \ {0} /\ MaxTokens \in Nat /\ MaxTime \in Nat

VARIABLES users,      \* rows of the users table
          nextId,     \* the table's key sequence
          tokens,     \* every token issued
          clock,
          request,    \* what each worker is between the two statements of
          removedAt   \* history: when a key was deleted

userVars == <<dialect, users, nextId, tokens, clock, request, removedAt>>

Account == [id : Nat, name : Names, email : Emails, password : Passwords, role : Roles]
Token == [sub : Nat, name : Names, role : Roles, exp : Nat]
Keys == {u.id : u \in users}
Admins == {u \in users : u.role = "admin"}

\* What a worker holds between its two statements: an account to insert, a key
\* to delete, or a key and its new password.
Idle == [op |-> "none"]
NewAccount == [name : Names, email : Emails, password : Passwords, role : Roles]
Pending ==
  {Idle} \cup [op : {"seed"}]
    \cup [op : {"create"}, by : Token, account : NewAccount]
    \cup [op : {"delete"}, by : Token, id : Nat]
    \cup [op : {"change"}, by : Token, password : Passwords]

-----------------------------------------------------------------------------
\* create_token, decode_token and require_admin.
TokenFor(u) == [sub |-> u.id, name |-> u.name, role |-> u.role, exp |-> clock + Lifetime]
Accepted(t) == ~(t.exp < clock)
Privileged(t) == Accepted(t) /\ t.role = "admin"

Hold(w, pending) == request' = [request EXCEPT ![w] = pending]
Answer(w) == Hold(w, Idle)

\* Mutants of InsertUser: a table without its UNIQUE columns; keys that follow the
\* highest one left, so that the key of a deleted account is given out again.
InsertUserUnchecked(a) ==
  /\ nextId < MaxIds
  /\ users' = users \cup {[id |-> nextId, name |-> a.name, email |-> a.email,
                           password |-> a.password, role |-> a.role]}
  /\ nextId' = nextId + 1

InsertUserAfterTheLast(a) ==
  LET key == CHOOSE k \in 1..MaxIds : k \notin Keys /\ \A j \in 1..(k - 1) : j \in Keys
      refused == \E v \in users : v.name = a.name \/ v.email = a.email
  IN /\ \E k \in 1..MaxIds : k \notin Keys
     /\ users' = IF refused THEN users
                 ELSE users \cup {[id |-> key, name |-> a.name, email |-> a.email,
                                   password |-> a.password, role |-> a.role]}
     /\ UNCHANGED nextId

\* INSERT INTO users: a key of the sequence is spent even when a unique column
\* refuses the row; SQLite then raises, PostgreSQL writes nothing.
InsertUser(a) ==
  LET u == [id |-> nextId, name |-> a.name, email |-> a.email,
            password |-> a.password, role |-> a.role]
      refused == \E v \in users : v.name = a.name \/ v.email = a.email
  IN /\ nextId < MaxIds
     /\ users' = IF refused THEN users ELSE users \cup {u}
     /\ nextId' = IF refused /\ dialect = "sqlite" THEN nextId ELSE nextId + 1

-----------------------------------------------------------------------------
\* POST /login
Login(name, password) ==
  /\ \E w \in Handlers : request[w] = Idle
  /\ \E u \in users : /\ u.name = name /\ u.password = password
                     /\ tokens' = tokens \cup {TokenFor(u)}
  /\ Cardinality(tokens') <= MaxTokens
  /\ UNCHANGED <<dialect, users, nextId, clock, request, removedAt>>

\* POST /users: the SELECT on username and email, then the INSERT.
CheckNew(w, t, a) ==
  /\ request[w] = Idle
  /\ Privileged(t)
  /\ \A u \in users : u.name # a.name /\ u.email # a.email
  /\ Hold(w, [op |-> "create", by |-> t, account |-> a])
  /\ UNCHANGED <<dialect, users, nextId, tokens, clock, removedAt>>

CreateUser(w) ==
  /\ request[w].op = "create"
  /\ InsertUser(request[w].account)
  /\ Answer(w)
  /\ UNCHANGED <<dialect, tokens, clock, removedAt>>

\* Mutant of CheckDelete: without "Cannot delete yourself".
CheckDeleteAnyone(w, t, id) ==
  /\ request[w] = Idle
  /\ Privileged(t)
  /\ id \in Keys
  /\ Hold(w, [op |-> "delete", by |-> t, id |-> id])
  /\ UNCHANGED <<dialect, users, nextId, tokens, clock, removedAt>>

\* DELETE /users/{id}: not oneself, and only a row that the SELECT found.
CheckDelete(w, t, id) ==
  /\ request[w] = Idle
  /\ Privileged(t)
  /\ id # t.sub
  /\ id \in Keys
  /\ Hold(w, [op |-> "delete", by |-> t, id |-> id])
  /\ UNCHANGED <<dialect, users, nextId, tokens, clock, removedAt>>

DeleteUser(w) ==
  /\ request[w].op = "delete"
  /\ LET id == request[w].id
     IN /\ users' = {u \in users : u.id # id}
        /\ removedAt' = [removedAt EXCEPT ![id] = IF id \in Keys THEN clock ELSE @]
  /\ Answer(w)
  /\ UNCHANGED <<dialect, nextId, tokens, clock>>

\* POST /change-password: the row is found and the old password compared, then
\* the row is updated if it is still there.
CheckPassword(w, t, old, new) ==
  /\ request[w] = Idle
  /\ Accepted(t)
  /\ \E u \in users : u.id = t.sub /\ u.password = old
  /\ Hold(w, [op |-> "change", by |-> t, password |-> new])
  /\ UNCHANGED <<dialect, users, nextId, tokens, clock, removedAt>>

ChangePassword(w) ==
  /\ request[w].op = "change"
  /\ users' = {IF u.id = request[w].by.sub THEN [u EXCEPT !.password = request[w].password]
                                           ELSE u : u \in users}
  /\ Answer(w)
  /\ UNCHANGED <<dialect, nextId, tokens, clock, removedAt>>

\* seed_admin_user, when a worker starts.
CheckAdmin(w) ==
  /\ request[w] = Idle
  /\ \A u \in users : u.name # Admin
  /\ Hold(w, [op |-> "seed"])
  /\ UNCHANGED <<dialect, users, nextId, tokens, clock, removedAt>>

SeedAdmin(w) ==
  /\ request[w].op = "seed"
  /\ InsertUser([name |-> Admin, email |-> AdminEmail,
                 password |-> AdminPassword, role |-> "admin"])
  /\ Answer(w)
  /\ UNCHANGED <<dialect, tokens, clock, removedAt>>

\* A worker is killed, or its database fails, between the two statements.
AbandonRequest(w) ==
  /\ request[w] # Idle
  /\ Answer(w)
  /\ UNCHANGED <<dialect, users, nextId, tokens, clock, removedAt>>

Tick ==
  /\ \A w \in Handlers : request[w] = Idle
  /\ clock < MaxTime
  /\ clock' = clock + 1
  /\ UNCHANGED <<dialect, users, nextId, tokens, request, removedAt>>

-----------------------------------------------------------------------------
UsersInit ==
  /\ dialect \in Dialects
  /\ users = {} /\ nextId = 1 /\ tokens = {} /\ clock = 0
  /\ request = [w \in Handlers |-> Idle]
  /\ removedAt = [id \in 1..MaxIds |-> 0]

UsersNext ==
  \/ \E name \in Names, password \in Passwords : Login(name, password)
  \/ Tick
  \/ \E w \in Handlers :
       \/ \E t \in tokens :
            \/ \E a \in NewAccount : CheckNew(w, t, a)
            \/ \E id \in 1..MaxIds : CheckDelete(w, t, id)
            \/ \E old, new \in Passwords : CheckPassword(w, t, old, new)
       \/ CreateUser(w) \/ DeleteUser(w) \/ ChangePassword(w)
       \/ CheckAdmin(w) \/ SeedAdmin(w) \/ AbandonRequest(w)

UsersSpec == UsersInit /\ [][UsersNext]_userVars

-----------------------------------------------------------------------------
UsersTypeOK ==
  /\ dialect \in Dialects
  /\ users \subseteq Account
  /\ nextId \in 1..MaxIds
  /\ tokens \subseteq Token
  /\ clock \in 0..MaxTime
  /\ request \in [Handlers -> Pending]
  /\ removedAt \in [1..MaxIds -> 0..MaxTime]

\* No two accounts share a username or an e-mail address, however the SELECTs
\* and INSERTs of two workers interleave (users has UNIQUE on both).
OneAccountPerName ==
  \A u, v \in users : u.name = v.name \/ u.email = v.email => u = v

\* A token never speaks for an account other than the one that logged in: as long
\* as a row has the token's key, it has its name and role.  It rests on keys that
\* are never given out twice, for deleting an account withdraws no token: once the
\* account is gone the token is still accepted, for at most its lifetime.
TokensMatchAccounts ==
  \A t \in tokens :
    /\ \A u \in users : u.id = t.sub => u.name = t.name /\ u.role = t.role
    /\ Accepted(t) => t.sub \in Keys \/ clock <= removedAt[t.sub] + Lifetime

\* The last administrator can be deleted, but only through the token of an
\* account that is itself gone: "Cannot delete yourself" looks at the token, and
\* two administrators may delete each other.
LastAdminFallsToAGhost ==
  [][Admins # {} /\ Admins' = {} =>
       \E w \in Handlers : /\ request[w].op = "delete"
                          /\ request[w].by.sub \notin Keys]_userVars
=============================================================================
