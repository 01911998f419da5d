---------------------------- MODULE FleetAppProofs ----------------------------
(***************************************************************************)
(* Theorems about accounts and certificates, and about all parts of the    *)
(* fleet performance application in one.                                   *)
(*                                                                         *)
(* Users, for every number of workers, names, tokens and ticks.  The       *)
(* inductive invariant adds three things to the properties: keys are       *)
(* handed out in order and once, a token cannot outlive the deletion of    *)
(* its account by more than its lifetime, and what a worker remembers of a *)
(* DELETE request was asked by an administrator's token for another key.   *)
(*                                                                         *)
(* Certificates, for every set of types and dates and every number of      *)
(* workers that add certificates, seed and run demo jobs: keys are handed  *)
(* out in order and once, so the key a worker is about to log is nobody    *)
(* else's, in nobody's log and not among the lost and wiped ones; on       *)
(* PostgreSQL no certificate is ever added.                                *)
(*                                                                         *)
(* The application: the demo jobs work on the tables of all parts, and     *)
(* each part has their statements on its own tables among its actions, to  *)
(* be taken at any time and given up at any statement.  So whatever the    *)
(* parts do together is, seen from one of them, a behaviour of its own     *)
(* specification, and what is proved of the parts holds of the             *)
(* application.                                                            *)
(***************************************************************************)
EXTENDS FleetApp, DemoDataProofs, LedgerProofs

-----------------------------------------------------------------------------
(* Accounts and tokens.                                                    *)

\* Keys come from the sequence, each for one row, and tokens name such keys.
KeysAreSpentOnce ==
  /\ \A u \in users : u.id < nextId /\ u.id > 0
  /\ \A u, v \in users : u.id = v.id => u = v
  /\ \A t \in tokens : t.sub < nextId /\ t.sub > 0

\* While a row has the token's key it is the row that logged in.
TokensNameTheirRow ==
  \A t \in tokens, u \in users : u.id = t.sub => u.name = t.name /\ u.role = t.role

\* A token was issued before its account was deleted.
GhostsExpire ==
  \A t \in tokens : /\ t.exp <= clock + Lifetime
                    /\ t.sub \in Keys \/ t.exp <= removedAt[t.sub] + Lifetime

\* A worker between the two statements of a DELETE.
DeletesAreSomeoneElses ==
  \A w \in Handlers : request[w].op = "delete" =>
    /\ request[w].by \in tokens /\ request[w].by.role = "admin"
    /\ request[w].id # request[w].by.sub
    /\ request[w].id \in 1..MaxIds

UsersInv ==
  /\ UsersTypeOK /\ OneAccountPerName /\ KeysAreSpentOnce
  /\ TokensNameTheirRow /\ GhostsExpire /\ DeletesAreSomeoneElses

-----------------------------------------------------------------------------
\* What a row of users, a token and a pending request are made of.
LEMMA Shapes ==
  ASSUME UsersTypeOK
  PROVE  /\ \A u \in users : /\ u.id \in Nat /\ u.name \in Names /\ u.email \in Emails
                             /\ u.password \in Passwords /\ u.role \in Roles
         /\ \A t \in tokens : /\ t.sub \in Nat /\ t.exp \in Nat
                              /\ t.name \in Names /\ t.role \in Roles
         /\ nextId \in Nat /\ clock \in Nat
         /\ \A k \in 1..MaxIds : removedAt[k] \in Nat
  BY UsersAssumption DEF UsersTypeOK, Account, Token

\* The statement that may add a row: INSERT INTO users, as create_user and
\* seed_admin_user execute it.
LEMMA InsertKeepsInv ==
  ASSUME UsersInv, NEW w \in Handlers, NEW a \in NewAccount, InsertUser(a), Answer(w),
         UNCHANGED <<dialect, tokens, clock, removedAt>>
  PROVE  UsersInv'
<1> DEFINE row == [id |-> nextId, name |-> a.name, email |-> a.email,
                   password |-> a.password, role |-> a.role]
<1>1. /\ a.name \in Names /\ a.email \in Emails /\ a.password \in Passwords /\ a.role \in Roles
      /\ nextId \in Nat /\ nextId > 0 /\ MaxIds \in Nat /\ MaxTime \in Nat /\ nextId < MaxIds
  BY UsersAssumption DEF NewAccount, InsertUser, UsersInv, UsersTypeOK
<1>2. /\ row \in Account /\ row.id = nextId /\ row.name = a.name /\ row.email = a.email
      /\ row.role = a.role
  BY <1>1 DEF Account
<1>3. /\ users' = users \/ (users' = users \cup {row} /\ nextId' = nextId + 1
                            /\ \A v \in users : v.name # a.name /\ v.email # a.email)
      /\ nextId' \in {nextId, nextId + 1}
  BY DEF InsertUser
<1>4. \A v \in Handlers : request'[v].op = "delete" =>
         request[v].op = "delete" /\ request'[v] = request[v]
  BY DEF Answer, Hold, Idle, UsersInv, UsersTypeOK
<1>5. UsersTypeOK'
  <2>1. users' \subseteq Account
    BY <1>2, <1>3 DEF UsersInv, UsersTypeOK
  <2>2. nextId' \in 1..MaxIds
    BY <1>1, <1>3
  <2>3. request' \in [Handlers -> Pending]
    BY DEF Answer, Hold, Pending, UsersInv, UsersTypeOK
  <2> QED  BY <2>1, <2>2, <2>3 DEF UsersInv, UsersTypeOK
<1>6. OneAccountPerName'
  <2> HIDE DEF row
  <2> QED  BY <1>2, <1>3 DEF UsersInv, OneAccountPerName
<1>7. KeysAreSpentOnce'
  <2> HIDE DEF row
  <2>1. \A u \in users : u.id \in Nat /\ u.id < nextId /\ u.id > 0
    BY Shapes DEF UsersInv, KeysAreSpentOnce
  <2>2. \A t \in tokens : t.sub \in Nat /\ t.sub < nextId /\ t.sub > 0
    BY Shapes DEF UsersInv, KeysAreSpentOnce
  <2>3. \A u \in users' : u.id < nextId' /\ u.id > 0
    BY <1>1, <1>2, <1>3, <2>1
  <2>4. \A u, v \in users' : u.id = v.id => u = v
    BY <1>1, <1>2, <1>3, <2>1 DEF UsersInv, KeysAreSpentOnce
  <2>5. \A t \in tokens' : t.sub < nextId' /\ t.sub > 0
    BY <1>1, <1>3, <2>2
  <2> QED  BY <2>3, <2>4, <2>5 DEF KeysAreSpentOnce
<1>8. TokensNameTheirRow'
  <2> HIDE DEF row
  <2>1. \A t \in tokens : t.sub \in Nat /\ t.sub < nextId
    BY Shapes DEF UsersInv, KeysAreSpentOnce
  <2>2. \A t \in tokens : t.sub # row.id
    BY <1>1, <1>2, <2>1
  <2> QED  BY <1>3, <2>2 DEF UsersInv, TokensNameTheirRow
<1>9. GhostsExpire'
  <2>1. Keys \subseteq Keys'
    BY <1>3 DEF Keys
  <2> QED  BY <2>1 DEF UsersInv, GhostsExpire
<1>10. DeletesAreSomeoneElses'
  BY <1>4 DEF UsersInv, DeletesAreSomeoneElses
<1> QED  BY <1>5, <1>6, <1>7, <1>8, <1>9, <1>10 DEF UsersInv

\* The statements that only look: they change what the worker holds.
LEMMA LookingKeepsInv ==
  ASSUME UsersInv, NEW w \in Handlers, NEW p \in Pending, Hold(w, p),
         p.op = "delete" => /\ p.by \in tokens /\ p.by.role = "admin"
                            /\ p.id # p.by.sub /\ p.id \in 1..MaxIds,
         UNCHANGED <<dialect, users, nextId, tokens, clock, removedAt>>
  PROVE  UsersInv'
<1>1. UsersTypeOK'
  BY DEF Hold, UsersInv, UsersTypeOK
<1>2. OneAccountPerName' /\ KeysAreSpentOnce' /\ TokensNameTheirRow'
  BY DEF UsersInv, OneAccountPerName, KeysAreSpentOnce, TokensNameTheirRow
<1>3. GhostsExpire'
  BY DEF UsersInv, GhostsExpire, Keys
<1>4. DeletesAreSomeoneElses'
  BY DEF Hold, UsersInv, UsersTypeOK, DeletesAreSomeoneElses
<1> QED  BY <1>1, <1>2, <1>3, <1>4 DEF UsersInv

\* DELETE FROM users: the key is not given out again, and from now on the tokens
\* of the account have at most their lifetime left.
LEMMA DeleteKeepsInv ==
  ASSUME UsersInv, NEW w \in Handlers, DeleteUser(w)
  PROVE  UsersInv'
<1> DEFINE id == request[w].id
<1>1. /\ id \in 1..MaxIds /\ users' = {u \in users : u.id # id}
      /\ UNCHANGED <<dialect, nextId, tokens, clock>>
      /\ removedAt' = [removedAt EXCEPT ![id] = IF id \in Keys THEN clock ELSE @]
      /\ request' = [request EXCEPT ![w] = Idle]
  BY DEF DeleteUser, Answer, Hold, UsersInv, DeletesAreSomeoneElses
<1> HIDE DEF id
<1>2. UsersTypeOK'
  BY <1>1 DEF UsersInv, UsersTypeOK, Pending
<1>3. OneAccountPerName' /\ KeysAreSpentOnce' /\ TokensNameTheirRow'
  BY <1>1 DEF UsersInv, OneAccountPerName, KeysAreSpentOnce, TokensNameTheirRow
<1>4. GhostsExpire'
  <2>1. ASSUME NEW t \in tokens
        PROVE  t.exp <= clock + Lifetime
               /\ (t.sub \in Keys' \/ t.exp <= removedAt'[t.sub] + Lifetime)
    <3>1. /\ t.sub \in 1..MaxIds /\ t.exp <= clock + Lifetime
          /\ t.sub \in Keys \/ t.exp <= removedAt[t.sub] + Lifetime
      BY Shapes, UsersAssumption DEF UsersInv, GhostsExpire, KeysAreSpentOnce, UsersTypeOK
    <3>2. removedAt \in [1..MaxIds -> 0..MaxTime]
      BY DEF UsersInv, UsersTypeOK
    <3>3. CASE t.sub = id
      BY <1>1, <3>1, <3>2, <3>3
    <3>4. CASE t.sub # id
      <4>1. t.sub \in Keys => t.sub \in Keys'
        BY <1>1, <3>4 DEF Keys
      <4> QED  BY <1>1, <3>1, <3>2, <3>4, <4>1
    <3> QED  BY <3>3, <3>4
  <2> QED  BY <1>1, <2>1 DEF GhostsExpire
<1>5. DeletesAreSomeoneElses'
  BY <1>1 DEF UsersInv, UsersTypeOK, DeletesAreSomeoneElses, Idle
<1> QED  BY <1>2, <1>3, <1>4, <1>5 DEF UsersInv

\* UPDATE users SET password: every row keeps its key, name and role.
LEMMA ChangeKeepsInv ==
  ASSUME UsersInv, NEW w \in Handlers, ChangePassword(w)
  PROVE  UsersInv'
<1> DEFINE New(u) == IF u.id = request[w].by.sub
                     THEN [u EXCEPT !.password = request[w].password] ELSE u
<1>1. request[w] \in Pending /\ request[w].op = "change"
  BY DEF ChangePassword, UsersInv, UsersTypeOK
<1>2. request[w].password \in Passwords
  BY <1>1 DEF Pending, Idle
<1>3. users' = {New(u) : u \in users} /\ UNCHANGED <<dialect, nextId, tokens, clock, removedAt>>
      /\ request' = [request EXCEPT ![w] = Idle]
  BY DEF ChangePassword, Answer, Hold
<1>4. \A u \in users : /\ New(u) \in Account /\ New(u).id = u.id /\ New(u).name = u.name
                       /\ New(u).email = u.email /\ New(u).role = u.role
  BY <1>2 DEF UsersInv, UsersTypeOK, Account
<1> HIDE DEF New
<1>5. UsersTypeOK'
  BY <1>3, <1>4 DEF UsersInv, UsersTypeOK, Pending
<1>6. OneAccountPerName'
  BY <1>3, <1>4 DEF UsersInv, OneAccountPerName
<1>7. KeysAreSpentOnce'
  BY <1>3, <1>4 DEF UsersInv, KeysAreSpentOnce
<1>8. TokensNameTheirRow'
  BY <1>3, <1>4 DEF UsersInv, TokensNameTheirRow
<1>9. GhostsExpire'
  <2>1. Keys' = Keys
    BY <1>3, <1>4 DEF Keys
  <2> QED  BY <1>3, <2>1 DEF UsersInv, GhostsExpire
<1>10. DeletesAreSomeoneElses'
  BY <1>3 DEF UsersInv, UsersTypeOK, DeletesAreSomeoneElses, Idle
<1> QED  BY <1>5, <1>6, <1>7, <1>8, <1>9, <1>10 DEF UsersInv

\* A login only adds a token of a row that is there.
LEMMA LoginKeepsInv ==
  ASSUME UsersInv, NEW name \in Names, NEW password \in Passwords, Login(name, password)
  PROVE  UsersInv'
<1>1. PICK u \in users : tokens' = tokens \cup {TokenFor(u)}
  BY DEF Login
<1> DEFINE new == TokenFor(u)
<1>2. /\ new \in Token /\ new.sub = u.id /\ new.name = u.name /\ new.role = u.role
      /\ new.exp = clock + Lifetime
  <2>1. u.id \in Nat /\ u.name \in Names /\ u.role \in Roles /\ clock + Lifetime \in Nat
    BY Shapes, UsersAssumption DEF UsersInv
  <2> QED  BY <2>1 DEF TokenFor, Token
<1>3. UNCHANGED <<dialect, users, nextId, clock, request, removedAt>>
  BY DEF Login
<1>4. clock + Lifetime \in Nat
  BY Shapes, UsersAssumption DEF UsersInv
<1> HIDE DEF new
<1>5. UsersTypeOK' /\ OneAccountPerName'
  BY <1>1, <1>2, <1>3 DEF UsersInv, UsersTypeOK, OneAccountPerName, new
<1>6. KeysAreSpentOnce' /\ TokensNameTheirRow'
  BY <1>1, <1>2, <1>3 DEF UsersInv, KeysAreSpentOnce, TokensNameTheirRow, new
<1>7. GhostsExpire'
  <2>1. new.sub \in Keys /\ Keys' = Keys
    BY <1>2, <1>3 DEF Keys
  <2> QED  BY <1>1, <1>2, <1>3, <1>4, <2>1 DEF UsersInv, GhostsExpire, new
<1>8. DeletesAreSomeoneElses'
  BY <1>1, <1>3 DEF UsersInv, DeletesAreSomeoneElses
<1> QED  BY <1>5, <1>6, <1>7, <1>8 DEF UsersInv

\* Time passes.
LEMMA TickKeepsInv ==
  ASSUME UsersInv, Tick
  PROVE  UsersInv'
<1>1. clock \in 0..MaxTime /\ MaxTime \in Nat /\ Lifetime \in Nat /\ clock < MaxTime
      /\ clock' = clock + 1 /\ UNCHANGED <<dialect, users, nextId, tokens, request, removedAt>>
  BY UsersAssumption DEF Tick, UsersInv, UsersTypeOK
<1>2. UsersTypeOK'
  BY <1>1 DEF UsersInv, UsersTypeOK
<1>3. OneAccountPerName' /\ KeysAreSpentOnce' /\ TokensNameTheirRow'
  BY <1>1 DEF UsersInv, OneAccountPerName, KeysAreSpentOnce, TokensNameTheirRow
<1>4. GhostsExpire'
  <2>1. \A t \in tokens : t.exp \in Nat
    BY Shapes DEF UsersInv
  <2> QED  BY <1>1, <2>1 DEF UsersInv, GhostsExpire, Keys
<1>5. DeletesAreSomeoneElses'
  BY <1>1 DEF UsersInv, DeletesAreSomeoneElses
<1> QED  BY <1>2, <1>3, <1>4, <1>5 DEF UsersInv

-----------------------------------------------------------------------------
\* The invariant is inductive.
LEMMA UsersInductive ==
  /\ UsersInit => UsersInv
  /\ UsersInv /\ [UsersNext]_userVars => UsersInv'
<1>1. UsersInit => UsersInv
  BY UsersAssumption
  DEF UsersInit, UsersInv, UsersTypeOK, OneAccountPerName, KeysAreSpentOnce,
      TokensNameTheirRow, GhostsExpire, DeletesAreSomeoneElses, Idle, Pending
<1>2. ASSUME UsersInv, [UsersNext]_userVars PROVE UsersInv'
  <2>1. CASE UNCHANGED userVars
    BY <1>2, <2>1 DEF userVars, UsersInv, UsersTypeOK, OneAccountPerName, KeysAreSpentOnce,
      TokensNameTheirRow, GhostsExpire, DeletesAreSomeoneElses, Keys
  <2>2. ASSUME NEW name \in Names, NEW password \in Passwords, Login(name, password)
        PROVE  UsersInv'
    BY <1>2, <2>2, LoginKeepsInv
  <2>3. CASE Tick
    BY <1>2, <2>3, TickKeepsInv
  <2>4. ASSUME NEW w \in Handlers, NEW t \in tokens, NEW a \in NewAccount, CheckNew(w, t, a)
        PROVE  UsersInv'
    <3> DEFINE p == [op |-> "create", by |-> t, account |-> a]
    <3>1. t \in Token
      BY <1>2 DEF UsersInv, UsersTypeOK
    <3>2. p \in Pending /\ p.op # "delete" /\ Hold(w, p)
      BY <2>4, <3>1 DEF Pending, CheckNew
    <3>3. UNCHANGED <<dialect, users, nextId, tokens, clock, removedAt>>
      BY <2>4 DEF CheckNew
    <3> HIDE DEF p
    <3> QED  BY <1>2, <3>2, <3>3, LookingKeepsInv
  <2>5. ASSUME NEW w \in Handlers, NEW t \in tokens, NEW id \in 1..MaxIds, CheckDelete(w, t, id)
        PROVE  UsersInv'
    <3> DEFINE p == [op |-> "delete", by |-> t, id |-> id]
    <3>1. t \in Token /\ id \in Nat
      BY <1>2, UsersAssumption DEF UsersInv, UsersTypeOK
    <3>2. /\ p \in Pending /\ p.by \in tokens /\ p.by.role = "admin" /\ p.id # p.by.sub
          /\ p.id \in 1..MaxIds /\ Hold(w, p)
      BY <2>5, <3>1 DEF Pending, CheckDelete, Privileged
    <3>3. UNCHANGED <<dialect, users, nextId, tokens, clock, removedAt>>
      BY <2>5 DEF CheckDelete
    <3> HIDE DEF p
    <3> QED  BY <1>2, <3>2, <3>3, LookingKeepsInv
  <2>6. ASSUME NEW w \in Handlers, NEW t \in tokens, NEW old \in Passwords,
               NEW new \in Passwords, CheckPassword(w, t, old, new)
        PROVE  UsersInv'
    <3> DEFINE p == [op |-> "change", by |-> t, password |-> new]
    <3>1. t \in Token
      BY <1>2 DEF UsersInv, UsersTypeOK
    <3>2. p \in Pending /\ p.op # "delete" /\ Hold(w, p)
      BY <2>6, <3>1 DEF Pending, CheckPassword
    <3>3. UNCHANGED <<dialect, users, nextId, tokens, clock, removedAt>>
      BY <2>6 DEF CheckPassword
    <3> HIDE DEF p
    <3> QED  BY <1>2, <3>2, <3>3, LookingKeepsInv
  <2>7. ASSUME NEW w \in Handlers, CreateUser(w) PROVE UsersInv'
    <3>1. request[w] \in Pending /\ request[w].op = "create"
      BY <1>2, <2>7 DEF CreateUser, UsersInv, UsersTypeOK
    <3>2. request[w].account \in NewAccount
      BY <3>1 DEF Pending, Idle
    <3> QED  BY <1>2, <2>7, <3>2, InsertKeepsInv DEF CreateUser
  <2>8. ASSUME NEW w \in Handlers, DeleteUser(w) PROVE UsersInv'
    BY <1>2, <2>8, DeleteKeepsInv
  <2>9. ASSUME NEW w \in Handlers, ChangePassword(w) PROVE UsersInv'
    BY <1>2, <2>9, ChangeKeepsInv
  <2>10. ASSUME NEW w \in Handlers, CheckAdmin(w) PROVE UsersInv'
    <3> DEFINE p == [op |-> "seed"]
    <3>1. p \in Pending /\ p.op # "delete" /\ Hold(w, p)
      BY <2>10 DEF Pending, CheckAdmin
    <3>2. UNCHANGED <<dialect, users, nextId, tokens, clock, removedAt>>
      BY <2>10 DEF CheckAdmin
    <3> HIDE DEF p
    <3> QED  BY <1>2, <3>1, <3>2, LookingKeepsInv
  <2>11. ASSUME NEW w \in Handlers, SeedAdmin(w) PROVE UsersInv'
    <3> DEFINE a == [name |-> Admin, email |-> AdminEmail,
                     password |-> AdminPassword, role |-> "admin"]
    <3>1. a \in NewAccount /\ InsertUser(a)
      BY <2>11, UsersAssumption DEF NewAccount, Roles, SeedAdmin
    <3>2. Answer(w) /\ UNCHANGED <<dialect, tokens, clock, removedAt>>
      BY <2>11 DEF SeedAdmin
    <3> HIDE DEF a
    <3> QED  BY <1>2, <3>1, <3>2, InsertKeepsInv
  <2>12. ASSUME NEW w \in Handlers, AbandonRequest(w) PROVE UsersInv'
    <3>1. Idle \in Pending /\ Idle.op # "delete" /\ Hold(w, Idle)
      BY <2>12 DEF Pending, Idle, AbandonRequest, Answer
    <3>2. UNCHANGED <<dialect, users, nextId, tokens, clock, removedAt>>
      BY <2>12 DEF AbandonRequest
    <3> QED  BY <1>2, <3>1, <3>2, LookingKeepsInv
  <2> QED
    BY <1>2, <2>1, <2>2, <2>3, <2>4, <2>5, <2>6, <2>7, <2>8, <2>9, <2>10, <2>11, <2>12
    DEF UsersNext
<1> QED  BY <1>1, <1>2

-----------------------------------------------------------------------------
\* The tables, tokens and requests keep their shape, and keys stay within the
\* sequence.
THEOREM UsersTypeCorrect == UsersSpec => []UsersTypeOK
<1>1. UsersInv => UsersTypeOK
  BY DEF UsersInv
<1> QED  BY <1>1, UsersInductive, PTL DEF UsersSpec

\* However many workers' SELECTs and INSERTs interleave, no two accounts share a
\* username or an e-mail address.
THEOREM AccountsAreUnique == UsersSpec => []OneAccountPerName
<1>1. UsersInv => OneAccountPerName
  BY DEF UsersInv
<1> QED  BY <1>1, UsersInductive, PTL DEF UsersSpec

\* A token speaks for the account that logged in or, for at most its lifetime
\* after the deletion, for none.
THEOREM TokensSpeakForTheirAccount == UsersSpec => []TokensMatchAccounts
<1>1. UsersInv => TokensMatchAccounts
  <2>1. SUFFICES ASSUME UsersInv, NEW t \in tokens
                 PROVE  /\ \A u \in users : u.id = t.sub => u.name = t.name /\ u.role = t.role
                        /\ Accepted(t) => t.sub \in Keys \/ clock <= removedAt[t.sub] + Lifetime
    BY DEF TokensMatchAccounts
  <2>2. t.sub \in 1..MaxIds /\ t.exp \in Nat /\ clock \in Nat /\ Lifetime \in Nat
    BY <2>1, Shapes, UsersAssumption DEF UsersInv, UsersTypeOK, KeysAreSpentOnce
  <2>3. removedAt[t.sub] \in Nat
    BY <2>1, <2>2, Shapes DEF UsersInv
  <2>4. t.sub \in Keys \/ t.exp <= removedAt[t.sub] + Lifetime
    BY <2>1 DEF UsersInv, GhostsExpire
  <2>5. Accepted(t) => clock <= t.exp
    BY <2>2 DEF Accepted
  <2> QED  BY <2>1, <2>2, <2>3, <2>4, <2>5 DEF UsersInv, TokensNameTheirRow
<1> QED  BY <1>1, UsersInductive, PTL DEF UsersSpec

\* Only a token whose account is gone can delete the last administrator.
THEOREM LastAdminIsSafeFromAccounts == UsersSpec => LastAdminFallsToAGhost
<1> DEFINE Ghost == \E w \in Handlers : /\ request[w].op = "delete"
                                        /\ request[w].by.sub \notin Keys
<1>1. ASSUME UsersInv, [UsersNext]_userVars, Admins # {}, Admins' = {}
      PROVE  Ghost
  <2>1. PICK a \in users : a.role = "admin"
    BY <1>1 DEF Admins
  <2>2. users' # users
    BY <1>1 DEF Admins
  <2>3. ~(\E w \in Handlers : DeleteUser(w)) => \A u \in users : \E v \in users' : v.role = u.role
    <3>1. ASSUME NEW w \in Handlers, ChangePassword(w), NEW u \in users
          PROVE  \E v \in users' : v.role = u.role
      <4> DEFINE v == IF u.id = request[w].by.sub
                      THEN [u EXCEPT !.password = request[w].password] ELSE u
      <4>1. v \in users' /\ v.role = u.role
        BY <1>1, <3>1 DEF ChangePassword, UsersInv, UsersTypeOK, Account
      <4> QED  BY <4>1
    <3>2. ASSUME NEW w \in Handlers, CreateUser(w) \/ SeedAdmin(w)
          PROVE  users \subseteq users'
      BY <3>2 DEF CreateUser, SeedAdmin, InsertUser
    <3>3. ASSUME UsersNext, ~\E w \in Handlers : DeleteUser(w) \/ ChangePassword(w)
                                               \/ CreateUser(w) \/ SeedAdmin(w)
          PROVE  users' = users
      BY <3>3 DEF UsersNext, Login, Tick, CheckNew, CheckDelete, CheckPassword,
                  CheckAdmin, AbandonRequest
    <3> QED  BY <1>1, <2>2, <3>1, <3>2, <3>3 DEF userVars
  <2>4. PICK w \in Handlers : DeleteUser(w)
    BY <1>1, <2>1, <2>3 DEF Admins
  <2>5. /\ request[w].op = "delete" /\ users' = {u \in users : u.id # request[w].id}
        /\ request[w].by \in tokens /\ request[w].by.role = "admin"
        /\ request[w].id # request[w].by.sub
    BY <1>1, <2>4 DEF DeleteUser, UsersInv, DeletesAreSomeoneElses
  <2>6. ASSUME NEW u \in users, u.id = request[w].by.sub PROVE FALSE
    <3>1. u.role = "admin"
      BY <1>1, <2>5, <2>6 DEF UsersInv, TokensNameTheirRow
    <3> QED  BY <1>1, <2>5, <2>6, <3>1 DEF Admins
  <2> QED  BY <2>5, <2>6 DEF Keys
<1>2. UsersInv /\ [UsersNext]_userVars =>
        [Admins # {} /\ Admins' = {} =>
           \E w \in Handlers : /\ request[w].op = "delete"
                              /\ request[w].by.sub \notin Keys]_userVars
  BY <1>1
<1> QED  BY <1>2, UsersInductive, PTL DEF UsersSpec, LastAdminFallsToAGhost

-----------------------------------------------------------------------------
(* Certificates and their log.                                             *)

Numbers == {c.id : c \in certificates}
Ids == {c.id : c \in Active}
Logged == {l.cert : l \in expiryLog}

\* Keys are handed out in order and once, also those of rows that are gone.
KeysInOrder ==
  /\ \A c \in certificates : c.id \in 1..(nextKey - 1)
  /\ \A c, d \in certificates : c.id = d.id => c = d
  /\ \A w \in Registrars : Unfinished(w) => desk[w].id \in 1..(nextKey - 1)
  /\ \A v, w \in Registrars : Unfinished(v) /\ Unfinished(w) /\ desk[v].id = desk[w].id => v = w

\* On SQLite nothing is seeded, on PostgreSQL nothing is added.
DialectsDiffer ==
  /\ dialect = "sqlite" =>
       /\ \A c \in certificates : c.status = "active"
       /\ \A w \in Registrars : desk[w].op # "seeding"
  /\ dialect = "postgres" =>
       Active = {} /\ expiryLog = {} /\ UnderWay = {} /\ lost = {} /\ wiped = {}

\* One row of the log for each key, except those being added, lost and wiped.
LogIsComplete ==
  /\ IsFiniteSet(expiryLog)
  /\ Logged = Ids \ (lost \cup wiped \cup UnderWay)
  /\ \A l, m \in expiryLog : l.cert = m.cert => l = m
  /\ lost \subseteq Ids /\ wiped \subseteq Ids
  /\ (lost \cup wiped) \cap UnderWay = {}

CertInv == CertTypeOK /\ KeysInOrder /\ DialectsDiffer /\ LogIsComplete

-----------------------------------------------------------------------------
LEMMA DeskShapes ==
  ASSUME NEW d \in Desk
  PROVE  /\ d.op \in {"free", "seeding", "adding"} \cup DOMAIN CertificateDeletes
         /\ d.op = "adding" => d = [op |-> "adding", id |-> d.id] /\ d.id \in Nat
         /\ d.op \in DOMAIN CertificateDeletes =>
              /\ d \in [op : DOMAIN CertificateDeletes, at : 1..2]
              /\ [d EXCEPT !.at = 2] \in [op : DOMAIN CertificateDeletes, at : 1..2]
         /\ DOMAIN CertificateDeletes = {"generate", "reset"}
BY DEF Desk, Free, CertificateDeletes

LEMMA FreeDesk == Free \in Desk /\ Free.op = "free"
BY DEF Desk, Free

\* A worker turns to something else than adding: its key, if it has one, is under way
\* no more.
LEMMA WorkerLeaves ==
  ASSUME CertTypeOK, KeysInOrder, NEW w \in Registrars, NEW d \in Desk, d.op # "adding",
         desk' = [desk EXCEPT ![w] = d]
  PROVE  /\ desk' \in [Registrars -> Desk]
         /\ \A v \in Registrars : Unfinished(v)' <=> Unfinished(v) /\ v # w
         /\ \A v \in Registrars : v # w => desk'[v] = desk[v]
         /\ UnderWay' = IF Unfinished(w) THEN UnderWay \ {desk[w].id} ELSE UnderWay
<1>1. desk \in [Registrars -> Desk] /\ desk'[w] = d /\ desk' \in [Registrars -> Desk]
      /\ \A v \in Registrars : v # w => desk'[v] = desk[v]
  BY DEF CertTypeOK
<1>2. \A v \in Registrars : Unfinished(v)' <=> Unfinished(v) /\ v # w
  BY <1>1 DEF Unfinished
<1>3. ASSUME NEW v \in Registrars, Unfinished(v), v # w, Unfinished(w)
      PROVE  desk[v].id # desk[w].id
  BY <1>3 DEF KeysInOrder
<1>4. UnderWay' = {desk[v].id : v \in {v \in Registrars : Unfinished(v) /\ v # w}}
  <2>1. {v \in Registrars : Unfinished(v)'} = {v \in Registrars : Unfinished(v) /\ v # w}
    BY <1>2
  <2>2. UnderWay' = {desk'[v].id : v \in {v \in Registrars : Unfinished(v)'}}
    BY DEF UnderWay
  <2> QED  BY <1>1, <2>1, <2>2
<1> QED  BY <1>1, <1>2, <1>3, <1>4 DEF UnderWay

\* The key a worker is adding belongs to an active row, unless that is gone.
LEMMA AddingIsActive ==
  ASSUME CertInv, NEW w \in Registrars, Unfinished(w)
  PROVE  /\ desk[w].id \in UnderWay /\ dialect = "sqlite" /\ Active = certificates
         /\ desk[w].id \in Nat
<1>1. desk[w].id \in UnderWay
  BY DEF UnderWay
<1>2. dialect = "sqlite"
  BY <1>1 DEF CertInv, DialectsDiffer, CertTypeOK, Dialects
<1> QED  BY <1>1, <1>2, DeskShapes DEF CertInv, DialectsDiffer, Active, CertTypeOK, Unfinished

\* A statement that leaves the tables alone: an addition that ends without its log
\* row, a demo job that begins, goes on or ends.
LEMMA LeavingKeepsInv ==
  ASSUME CertInv, NEW w \in Registrars, NEW d \in Desk, d.op \notin {"adding", "seeding"},
         desk' = [desk EXCEPT ![w] = d],
         UNCHANGED <<dialect, certTables, now, wiped>>,
         lost' = IF Unfinished(w) THEN lost \cup ({desk[w].id} \cap Numbers) ELSE lost
  PROVE  CertInv'
<1>1. UNCHANGED <<dialect, certificates, expiryLog, nextKey, now, wiped>>
  BY DEF certTables
<1>2. Active' = Active /\ Ids' = Ids /\ Logged' = Logged
  BY <1>1 DEF Active, Ids, Logged
<1>3. /\ desk' \in [Registrars -> Desk]
      /\ \A v \in Registrars : Unfinished(v)' <=> Unfinished(v) /\ v # w
      /\ \A v \in Registrars : v # w => desk'[v] = desk[v]
      /\ UnderWay' = IF Unfinished(w) THEN UnderWay \ {desk[w].id} ELSE UnderWay
  BY WorkerLeaves DEF CertInv
<1>4. desk'[w] = d
  BY DEF CertInv, CertTypeOK
<1>5. Unfinished(w) => Numbers = Ids /\ desk[w].id \in UnderWay /\ dialect = "sqlite" /\ desk[w].id \in Nat
  BY AddingIsActive DEF Numbers, Ids
<1>6. CertTypeOK'
  BY <1>1, <1>3, <1>5 DEF CertInv, CertTypeOK
<1>7. KeysInOrder'
  BY <1>1, <1>3 DEF CertInv, KeysInOrder
<1>8. DialectsDiffer'
  <2>1. \A v \in Registrars : desk'[v].op = "seeding" => desk[v].op = "seeding"
    BY <1>3, <1>4
  <2> QED  BY <1>1, <1>2, <1>3, <1>5, <2>1 DEF CertInv, DialectsDiffer
<1>9. LogIsComplete'
  BY <1>1, <1>2, <1>3, <1>5 DEF CertInv, LogIsComplete
<1> QED  BY <1>6, <1>7, <1>8, <1>9 DEF CertInv

\* INSERT INTO certificates takes a key that no row, log or worker has.
LEMMA AddKeepsInv ==
  ASSUME CertInv, NEW w \in Registrars, NEW type \in CertTypes, NEW expiry \in Dates \cup {BadDate},
         AddCertificate(w, type, expiry)
  PROVE  CertInv'
<1> DEFINE c == [id |-> nextKey, type |-> type, expiry |-> expiry, status |-> "active"]
           d == [op |-> "adding", id |-> nextKey]
<1>1. dialect = "sqlite"
  BY CertificateKey DEF AddCertificate, Schema, CertInv, CertTypeOK, Dialects
<1>2. /\ certificates' = certificates \cup {c} /\ nextKey \in Nat \ {0} /\ nextKey' = nextKey + 1
      /\ desk[w] = Free /\ desk' = [desk EXCEPT ![w] = d] /\ desk \in [Registrars -> Desk]
      /\ UNCHANGED <<dialect, expiryLog, now, lost, wiped>>
  BY DEF AddCertificate, CertInv, CertTypeOK
<1>3. c \in Certificate /\ c.id = nextKey /\ c.status = "active"
  BY <1>2 DEF Certificate
<1>4. d \in Desk /\ d.op = "adding" /\ d.id = nextKey
  BY <1>2 DEF Desk
<1> HIDE DEF c, d
<1>5. /\ desk'[w] = d /\ desk' \in [Registrars -> Desk]
      /\ \A v \in Registrars : v # w => desk'[v] = desk[v]
  BY <1>2, <1>4
<1>6. \A x \in certificates : x.id # nextKey /\ x.status = "active"
  BY <1>1, <1>2 DEF CertInv, KeysInOrder, DialectsDiffer
<1>7. Ids' = Ids \cup {nextKey} /\ nextKey \notin Ids
  BY <1>2, <1>3, <1>6 DEF Ids, Active
<1>8. UnderWay' = UnderWay \cup {nextKey} /\ nextKey \notin UnderWay
  <2>1. ~Unfinished(w)
    BY <1>2 DEF Unfinished, Free
  <2>2. \A v \in Registrars : Unfinished(v)' <=> Unfinished(v) \/ v = w
    BY <1>4, <1>5 DEF Unfinished
  <2>3. UnderWay' = {desk'[v].id : v \in {v \in Registrars : Unfinished(v)'}}
    BY DEF UnderWay
  <2>4. \A v \in Registrars : Unfinished(v) => v # w /\ desk'[v].id = desk[v].id
    BY <1>5, <2>1
  <2>5. UnderWay' = UnderWay \cup {nextKey}
    BY <1>4, <1>5, <2>2, <2>3, <2>4 DEF UnderWay
  <2>6. \A v \in Registrars : Unfinished(v) => desk[v].id # nextKey
    BY <1>2 DEF CertInv, KeysInOrder
  <2> QED  BY <2>5, <2>6 DEF UnderWay
<1>9. CertTypeOK'
  BY <1>2, <1>3, <1>5 DEF CertInv, CertTypeOK
<1>10. KeysInOrder'
  <2>1. \A x \in certificates' : x.id \in 1..(nextKey' - 1)
    BY <1>2, <1>3 DEF CertInv, KeysInOrder
  <2>2. \A x, y \in certificates' : x.id = y.id => x = y
    BY <1>2, <1>3, <1>6 DEF CertInv, KeysInOrder
  <2>3. ~Unfinished(w)
    BY <1>2 DEF Unfinished, Free
  <2>4. ASSUME NEW v \in Registrars, Unfinished(v)'
        PROVE  /\ desk'[v].id \in 1..(nextKey' - 1)
               /\ v = w => desk'[v].id = nextKey
               /\ v # w => Unfinished(v) /\ desk'[v].id = desk[v].id /\ desk[v].id \in 1..(nextKey - 1)
    <3>1. CASE v = w
      BY <1>2, <1>4, <1>5, <3>1
    <3>2. CASE v # w
      <4>1. Unfinished(v) /\ desk'[v] = desk[v]
        BY <1>5, <2>4, <3>2 DEF Unfinished
      <4>2. desk[v].id \in 1..(nextKey - 1)
        BY <4>1 DEF CertInv, KeysInOrder
      <4> QED  BY <1>2, <3>2, <4>1, <4>2
    <3> QED  BY <3>1, <3>2
  <2>5. ASSUME NEW u \in Registrars, NEW v \in Registrars, Unfinished(u)', Unfinished(v)',
               desk'[u].id = desk'[v].id
        PROVE  u = v
    BY <1>2, <2>4, <2>5 DEF CertInv, KeysInOrder
  <2> QED  BY <2>1, <2>2, <2>4, <2>5 DEF KeysInOrder
<1>11. DialectsDiffer'
  BY <1>1, <1>2, <1>3, <1>4, <1>5, <1>6 DEF CertInv, DialectsDiffer
<1>12. LogIsComplete'
  <2>1. Logged' = Logged
    BY <1>2 DEF Logged
  <2> QED  BY <1>2, <1>7, <1>8, <2>1 DEF CertInv, LogIsComplete
<1> QED  BY <1>9, <1>10, <1>11, <1>12 DEF CertInv

\* INSERT INTO certificate_expiry_log, the second statement.
LEMMA LogKeepsInv ==
  ASSUME CertInv, NEW w \in Registrars, LogExpiry(w)
  PROVE  CertInv'
<1>1. PICK c \in certificates :
        /\ c.id = desk[w].id
        /\ LET days == IF Dated(c) THEN DaysLeft(c) ELSE 999
           IN expiryLog' = expiryLog \cup
                {[cert |-> c.id, days |-> days, alert_90 |-> days <= Soon,
                  alert_30 |-> days <= Critical]}
  BY DEF LogExpiry
<1> DEFINE key == desk[w].id
           days == IF Dated(c) THEN DaysLeft(c) ELSE 999
           l == [cert |-> key, days |-> days, alert_90 |-> days <= Soon,
                 alert_30 |-> days <= Critical]
<1>2. /\ Unfinished(w) /\ desk' = [desk EXCEPT ![w] = Free]
      /\ UNCHANGED <<dialect, certificates, nextKey, now, lost, wiped>>
      /\ expiryLog' = expiryLog \cup {l}
  BY <1>1 DEF LogExpiry, Release
<1>3. /\ key \in UnderWay /\ dialect = "sqlite" /\ Active = certificates /\ key \in Nat
  BY <1>2, AddingIsActive
<1>4. key \in Ids
  BY <1>1, <1>3 DEF Ids
<1>5. l \in [cert : Nat, days : Int, alert_90 : BOOLEAN, alert_30 : BOOLEAN] /\ l.cert = key
  <2>1. now \in Int
    BY CertificatesAssumption DEF CertInv, CertTypeOK
  <2>2. days \in Int
    <3>1. CASE Dated(c)
      <4>1. c.expiry \in Int
        BY <1>1, <3>1, CertificatesAssumption DEF CertInv, CertTypeOK, Certificate, Dated
      <4> QED  BY <2>1, <3>1, <4>1 DEF DaysLeft
    <3>2. CASE ~Dated(c)
      BY <3>2
    <3> QED  BY <3>1, <3>2
  <2> HIDE DEF days, key
  <2> QED  BY <1>3, <2>2
<1>6. /\ desk' \in [Registrars -> Desk]
      /\ \A v \in Registrars : Unfinished(v)' <=> Unfinished(v) /\ v # w
      /\ \A v \in Registrars : v # w => desk'[v] = desk[v]
      /\ UnderWay' = UnderWay \ {key}
  BY <1>2, WorkerLeaves, FreeDesk DEF CertInv
<1>7. desk'[w].op = "free"
  BY <1>2 DEF CertInv, CertTypeOK, Free
<1> HIDE DEF l, key
<1>8. Ids' = Ids /\ Active' = Active
  BY <1>2 DEF Ids, Active
<1>9. CertTypeOK'
  BY <1>2, <1>5, <1>6 DEF CertInv, CertTypeOK
<1>10. KeysInOrder'
  BY <1>2, <1>6 DEF CertInv, KeysInOrder
<1>11. DialectsDiffer'
  BY <1>2, <1>3, <1>6, <1>7 DEF CertInv, DialectsDiffer
<1>12. LogIsComplete'
  <2>1. Logged' = Logged \cup {key} /\ key \notin Logged
    BY <1>2, <1>3, <1>5 DEF CertInv, LogIsComplete, Logged
  <2>2. Logged' = Ids' \ (lost' \cup wiped' \cup UnderWay')
    BY <1>2, <1>3, <1>4, <1>6, <1>8, <2>1 DEF CertInv, LogIsComplete
  <2>3. \A m, n \in expiryLog' : m.cert = n.cert => m = n
    BY <1>2, <1>5, <2>1 DEF CertInv, LogIsComplete, Logged
  <2>4. IsFiniteSet(expiryLog')
    BY <1>2, FS_AddElement DEF CertInv, LogIsComplete
  <2> QED  BY <1>2, <1>6, <1>8, <2>2, <2>3, <2>4 DEF CertInv, LogIsComplete
<1> QED  BY <1>9, <1>10, <1>11, <1>12 DEF CertInv

\* The static rows take the next keys and are not active.
LEMMA SeedKeepsInv ==
  ASSUME CertInv, NEW w \in Registrars, SeedCertificates(w)
  PROVE  CertInv'
<1>1. /\ desk[w].op = "seeding" /\ desk' = [desk EXCEPT ![w] = Free]
      /\ nextKey \in Nat \ {0} /\ nextKey' = nextKey + Len(StaticTypes)
      /\ UNCHANGED <<dialect, expiryLog, now, lost, wiped>>
  BY DEF SeedCertificates, Release, CertInv, CertTypeOK
<1>2. PICK expiry \in Dates : certificates' = certificates \cup StaticRows(expiry)
  BY DEF SeedCertificates
<1>3. dialect = "postgres"
  BY <1>1 DEF CertInv, DialectsDiffer, CertTypeOK, Dialects
<1>4. /\ Len(StaticTypes) \in Nat /\ DOMAIN StaticTypes = 1..Len(StaticTypes)
      /\ \A i \in 1..Len(StaticTypes) : StaticTypes[i] \in CertTypes
  BY CertificatesAssumption
<1>5. ASSUME NEW c \in StaticRows(expiry)
      PROVE  c \in Certificate /\ c.status # "active" /\ c.id \in nextKey..(nextKey' - 1)
  <2>1. PICK i \in 1..Len(StaticTypes) :
          c = [id |-> nextKey + i - 1, type |-> StaticTypes[i], expiry |-> expiry,
               status |-> IF (expiry - now) \div 2 > 0 THEN "valid" ELSE "expired"]
    BY <1>4 DEF StaticRows
  <2>2. nextKey + i - 1 \in Nat /\ nextKey + i - 1 \in nextKey..(nextKey' - 1)
    BY <1>1, <1>4
  <2> QED  BY <1>4, <2>1, <2>2 DEF Certificate
<1>6. ASSUME NEW c \in StaticRows(expiry), NEW d \in StaticRows(expiry), c.id = d.id
      PROVE  c = d
  <2>1. PICK i \in 1..Len(StaticTypes) :
          c = [id |-> nextKey + i - 1, type |-> StaticTypes[i], expiry |-> expiry,
               status |-> IF (expiry - now) \div 2 > 0 THEN "valid" ELSE "expired"]
    BY <1>4 DEF StaticRows
  <2>2. PICK j \in 1..Len(StaticTypes) :
          d = [id |-> nextKey + j - 1, type |-> StaticTypes[j], expiry |-> expiry,
               status |-> IF (expiry - now) \div 2 > 0 THEN "valid" ELSE "expired"]
    BY <1>4 DEF StaticRows
  <2>3. i = j
    BY <1>1, <1>4, <1>6, <2>1, <2>2
  <2> QED  BY <2>1, <2>2, <2>3
<1>7. Active' = Active /\ Ids' = Ids /\ Logged' = Logged
  <2>1. Active' = Active
    BY <1>2, <1>5 DEF Active
  <2> QED  BY <1>1, <2>1 DEF Ids, Logged
<1>8. ~Unfinished(w)
  BY <1>1 DEF Unfinished
<1>9. /\ desk' \in [Registrars -> Desk]
      /\ \A v \in Registrars : Unfinished(v)' <=> Unfinished(v)
      /\ \A v \in Registrars : v # w => desk'[v] = desk[v]
      /\ UnderWay' = UnderWay
  BY <1>1, <1>8, WorkerLeaves, FreeDesk DEF CertInv
<1>10. CertTypeOK'
  BY <1>1, <1>2, <1>4, <1>5, <1>9 DEF CertInv, CertTypeOK
<1>11. KeysInOrder'
  <2>1. \A c \in certificates : c.id \in 1..(nextKey - 1)
    BY DEF CertInv, KeysInOrder
  <2>2. \A c \in certificates' : c.id \in 1..(nextKey' - 1)
    BY <1>1, <1>2, <1>4, <1>5, <2>1
  <2>3. \A c, d \in certificates' : c.id = d.id => c = d
    <3>1. \A c \in certificates, d \in StaticRows(expiry) : c.id # d.id
      BY <1>1, <1>5, <2>1
    <3> QED  BY <1>2, <1>6, <3>1 DEF CertInv, KeysInOrder
  <2>4. \A v \in Registrars : ~Unfinished(v)
    BY <1>3 DEF CertInv, DialectsDiffer, UnderWay
  <2> QED  BY <1>9, <2>2, <2>3, <2>4 DEF KeysInOrder
<1>12. DialectsDiffer'
  BY <1>1, <1>3, <1>7, <1>9 DEF CertInv, DialectsDiffer
<1>13. LogIsComplete'
  BY <1>1, <1>7, <1>9 DEF CertInv, LogIsComplete
<1> QED  BY <1>10, <1>11, <1>12, <1>13 DEF CertInv

\* A DELETE of a demo job, and the place it goes on from.
LEMMA DeletingMoves ==
  ASSUME CertInv, NEW w \in Registrars, NEW table, Deleting(w, table), AfterDelete(w)
  PROVE  \E d \in Desk : d.op \notin {"adding", "seeding"} /\ desk' = [desk EXCEPT ![w] = d]
<1> DEFINE d == IF desk[w].at = 2 THEN Free ELSE [desk[w] EXCEPT !.at = 2]
<1>1. desk[w] \in Desk /\ desk[w].op \in DOMAIN CertificateDeletes
  BY DEF CertInv, CertTypeOK, Deleting
<1>2. desk' = [desk EXCEPT ![w] = d]
  BY DEF AfterDelete
<1>3. d \in Desk /\ d.op \notin {"adding", "seeding"}
  <2>1. CASE desk[w].at = 2
    BY <2>1, FreeDesk
  <2>2. CASE desk[w].at # 2
    <3>1. [desk[w] EXCEPT !.at = 2] \in [op : DOMAIN CertificateDeletes, at : 1..2]
      BY <1>1, DeskShapes
    <3>2. DOMAIN CertificateDeletes = {"generate", "reset"}
      BY DEF CertificateDeletes
    <3> QED  BY <2>2, <3>1, <3>2 DEF Desk
  <2> QED  BY <2>1, <2>2
<1> QED  BY <1>2, <1>3

LEMMA EmptyingKeepsInv ==
  ASSUME CertInv, NEW w \in Registrars, EmptyLog(w) \/ EmptyCertificates(w)
  PROVE  CertInv'
<1>1. PICK d \in Desk : d.op \notin {"adding", "seeding"} /\ desk' = [desk EXCEPT ![w] = d]
  BY DeletingMoves DEF EmptyLog, EmptyCertificates
<1>2. ~Unfinished(w)
  BY DeskShapes DEF EmptyLog, EmptyCertificates, Deleting, Unfinished, CertificateDeletes
<1>3. /\ desk' \in [Registrars -> Desk]
      /\ \A v \in Registrars : Unfinished(v)' <=> Unfinished(v)
      /\ \A v \in Registrars : v # w => desk'[v] = desk[v]
      /\ UnderWay' = UnderWay
  BY <1>1, <1>2, WorkerLeaves DEF CertInv
<1>4. \A v \in Registrars : desk'[v].op = "seeding" => desk[v].op = "seeding"
  BY <1>1, <1>3 DEF CertInv, CertTypeOK
<1>5. \A v \in Registrars : Unfinished(v) => desk'[v].id = desk[v].id
  BY <1>2, <1>3
<1>6. CASE EmptyLog(w)
  <2>1. /\ expiryLog' = {} /\ wiped' = wiped \cup Logged
        /\ UNCHANGED <<dialect, certificates, nextKey, now, lost>>
    BY <1>6 DEF EmptyLog, Logged
  <2>2. Active' = Active /\ Ids' = Ids /\ Logged' = {}
    BY <2>1 DEF Active, Ids, Logged
  <2>3. Logged \subseteq Nat
    BY DEF Logged, CertInv, CertTypeOK
  <2>4. CertTypeOK'
    BY <1>3, <2>1, <2>3 DEF CertInv, CertTypeOK
  <2>5. KeysInOrder'
    BY <1>3, <1>5, <2>1 DEF CertInv, KeysInOrder
  <2>6. expiryLog = {} => Logged = {}
    BY DEF Logged
  <2>7. DialectsDiffer'
    BY <1>3, <1>4, <2>1, <2>2, <2>6 DEF CertInv, DialectsDiffer
  <2>8. LogIsComplete'
    <3>1. IsFiniteSet(expiryLog')
      BY <2>1, FS_EmptySet
    <3> QED  BY <1>3, <2>1, <2>2, <3>1 DEF CertInv, LogIsComplete
  <2> QED  BY <2>4, <2>5, <2>7, <2>8 DEF CertInv
<1>7. CASE EmptyCertificates(w)
  <2>1. /\ certificates' = {} /\ lost' = {} /\ wiped' = {} /\ expiryLog = {}
        /\ UNCHANGED <<dialect, expiryLog, nextKey, now>>
    BY <1>7 DEF EmptyCertificates
  <2>2. Active' = {} /\ Ids' = {} /\ Logged' = {}
    BY <2>1 DEF Active, Ids, Logged
  <2>3. CertTypeOK'
    BY <1>3, <2>1 DEF CertInv, CertTypeOK
  <2>4. KeysInOrder'
    BY <1>3, <1>5, <2>1 DEF CertInv, KeysInOrder
  <2>5. DialectsDiffer'
    BY <1>3, <1>4, <2>1, <2>2 DEF CertInv, DialectsDiffer
  <2>6. LogIsComplete'
    BY <1>3, <2>1, <2>2 DEF CertInv, LogIsComplete
  <2> QED  BY <2>3, <2>4, <2>5, <2>6 DEF CertInv
<1> QED  BY <1>6, <1>7

\* The tables start empty.
LEMMA CertStart == CertInit => CertInv
<1> SUFFICES ASSUME CertInit PROVE CertInv
  OBVIOUS
<1>1. /\ certificates = {} /\ expiryLog = {} /\ nextKey = 1 /\ now = 0 /\ lost = {} /\ wiped = {}
      /\ dialect \in Dialects
  BY DEF CertInit
<1>2. \A w \in Registrars : \/ desk[w] = Free
                            \/ desk[w] = [op |-> "seeding"] /\ dialect = "postgres"
  BY DEF CertInit
<1>3. desk \in [Registrars -> Desk]
  BY DEF CertInit, Desk
<1>4. UnderWay = {} /\ \A w \in Registrars : ~Unfinished(w)
  BY <1>2 DEF UnderWay, Unfinished, Free
<1>5. dialect = "sqlite" => \A w \in Registrars : desk[w].op # "seeding"
  BY <1>2 DEF Free
<1> QED
  BY <1>1, <1>3, <1>4, <1>5, FS_EmptySet, CertificatesAssumption
  DEF CertInv, CertTypeOK, KeysInOrder, DialectsDiffer, LogIsComplete, Ids, Logged, Active

LEMMA CertStep == CertInv /\ [CertNext]_certVars => CertInv'
<1> SUFFICES ASSUME CertInv, [CertNext]_certVars PROVE CertInv'
  OBVIOUS
<1>1. ASSUME UNCHANGED <<dialect, certTables, desk, lost, wiped>>, now' \in 0..LastDay
      PROVE  CertInv'
  <2>1. UNCHANGED <<dialect, certificates, expiryLog, nextKey, desk, lost, wiped>>
    BY <1>1 DEF certTables
  <2>2. Ids' = Ids /\ Logged' = Logged /\ Active' = Active /\ UnderWay' = UnderWay
    BY <2>1 DEF Ids, Logged, Active, UnderWay, Unfinished
  <2>3. CertTypeOK'
    BY <1>1, <2>1 DEF CertInv, CertTypeOK
  <2>4. KeysInOrder'
    BY <2>1 DEF CertInv, KeysInOrder, Unfinished
  <2> QED  BY <2>1, <2>2, <2>3, <2>4 DEF CertInv, DialectsDiffer, LogIsComplete
<1>2. CASE UNCHANGED certVars
  BY <1>1, <1>2 DEF certVars, CertInv, CertTypeOK
<1>3. CASE HalfDay
  BY <1>1, <1>3, CertificatesAssumption DEF HalfDay, CertInv, CertTypeOK
<1>4. ASSUME NEW w \in Registrars, LogRefused(w) PROVE CertInv'
  <2>1. {desk[w].id} \cap Numbers = {}
    BY <1>4 DEF LogRefused, Numbers
  <2>2. Free \in Desk /\ Free.op \notin {"adding", "seeding"}
    BY DEF Desk, Free
  <2>3. /\ desk' = [desk EXCEPT ![w] = Free] /\ UNCHANGED <<dialect, certTables, now, wiped>>
        /\ lost' = IF Unfinished(w) THEN lost \cup ({desk[w].id} \cap Numbers) ELSE lost
    BY <1>4, <2>1 DEF LogRefused, Release
  <2> QED  BY <2>2, <2>3, LeavingKeepsInv
<1>5. ASSUME NEW w \in Registrars, Abandon(w) PROVE CertInv'
  <2>1. Free \in Desk /\ Free.op \notin {"adding", "seeding"}
    BY DEF Desk, Free
  <2>2. /\ desk' = [desk EXCEPT ![w] = Free] /\ UNCHANGED <<dialect, certTables, now, wiped>>
        /\ lost' = IF Unfinished(w) THEN lost \cup ({desk[w].id} \cap Numbers) ELSE lost
    BY <1>5 DEF Abandon, Release, Numbers
  <2> QED  BY <2>1, <2>2, LeavingKeepsInv
<1>6. ASSUME NEW w \in Registrars, NEW kind \in DOMAIN CertificateDeletes, DemoOnCertificates(w, kind)
      PROVE  CertInv'
  <2> DEFINE d == [op |-> kind, at |-> 1]
  <2>1. d \in Desk /\ d.op \notin {"adding", "seeding"}
    BY DEF Desk, CertificateDeletes
  <2>2. ~Unfinished(w)
    BY <1>6 DEF DemoOnCertificates, Unfinished, Free
  <2>3. /\ desk' = [desk EXCEPT ![w] = d] /\ UNCHANGED <<dialect, certTables, now, wiped>>
        /\ lost' = lost
    BY <1>6 DEF DemoOnCertificates
  <2> HIDE DEF d
  <2> QED  BY <2>1, <2>2, <2>3, LeavingKeepsInv
<1>7. ASSUME NEW w \in Registrars, DeleteRefused(w) PROVE CertInv'
  <2>1. PICK d \in Desk : d.op \notin {"adding", "seeding"} /\ desk' = [desk EXCEPT ![w] = d]
    <3>1. CASE AfterDelete(w)
      BY <1>7, <3>1, DeletingMoves DEF DeleteRefused
    <3>2. CASE Release(w)
      BY <3>2 DEF Release, Desk, Free
    <3> QED  BY <1>7, <3>1, <3>2 DEF DeleteRefused
  <2>2. ~Unfinished(w)
    BY <1>7 DEF DeleteRefused, Deleting, Unfinished, CertificateDeletes
  <2>3. UNCHANGED <<dialect, certTables, now, wiped>> /\ lost' = lost
    BY <1>7 DEF DeleteRefused
  <2> QED  BY <2>1, <2>2, <2>3, LeavingKeepsInv
<1> QED
  BY <1>2, <1>3, <1>4, <1>5, <1>6, <1>7, AddKeepsInv, LogKeepsInv, SeedKeepsInv, EmptyingKeepsInv
  DEF CertNext

-----------------------------------------------------------------------------
\* Rows, log and pending key keep their shape.
THEOREM CertTypeCorrect == CertSpec => []CertTypeOK
<1>1. CertInv => CertTypeOK
  BY DEF CertInv
<1> QED  BY <1>1, CertStart, CertStep, PTL DEF CertSpec

\* The expiry log has exactly one row for every certificate added, whatever is added
\* and deleted and whenever a worker dies; only the certificates being added, those
\* whose worker died and those a demo job left behind when it emptied the log lack
\* theirs.
THEOREM LogIsFaithful == CertSpec => []LogFollowsCertificates
<1>1. CertInv => LogFollowsCertificates
  <2>1. SUFFICES ASSUME CertInv PROVE LogFollowsCertificates
    OBVIOUS
  <2> DEFINE f == [l \in expiryLog |-> l.cert]
  <2>2. IsFiniteSet(expiryLog) /\ f \in Bijection(expiryLog, Logged)
    <3>1. /\ IsFiniteSet(expiryLog) /\ f \in [expiryLog -> Logged]
          /\ \A l, m \in expiryLog : f[l] = f[m] => l = m
          /\ \A k \in Logged : \E l \in expiryLog : f[l] = k
      BY <2>1 DEF CertInv, LogIsComplete, Logged
    <3> HIDE DEF f
    <3> QED  BY <3>1 DEF Bijection, Injection, Surjection, IsInjective
  <2>3. Cardinality(Logged) = Cardinality(expiryLog)
    BY <2>2, FS_Bijection DEF ExistsBijection
  <2> QED
    BY <2>1, <2>3 DEF CertInv, LogIsComplete, DialectsDiffer, LogFollowsCertificates, Logged, Ids
<1> QED  BY <1>1, CertStart, CertStep, PTL DEF CertSpec

-----------------------------------------------------------------------------
\* What each read says of a dated certificate, by the days it has left.
LEMMA Judgements ==
  ASSUME NEW c, Dated(c), DaysLeft(c) \in Int, NEW threshold \in Int
  PROVE  /\ ListStatus(c) = "expired" <=> DaysLeft(c) < 0
         /\ ListStatus(c) = "critical" <=> DaysLeft(c) \in 0..Critical
         /\ Severity(c, threshold) = "expired" <=> DaysLeft(c) <= 0
         /\ Severity(c, threshold) = "critical" <=> DaysLeft(c) \in 1..Critical
<1> DEFINE d == DaysLeft(c)
<1>1. d \in Int /\ Critical \in Nat /\ Soon \in Nat /\ Critical < Soon
  BY CertificatesAssumption
<1> HIDE DEF d
<1>2. /\ ListStatus(c) = "expired" <=> d < 0
      /\ ListStatus(c) = "critical" <=> d \in 0..Critical
  <2>1. ListStatus(c) = CASE d < 0 -> "expired"
                          [] d \in 0..Critical -> "critical"
                          [] d \in (Critical + 1)..Soon -> "expiring_soon"
                          [] OTHER -> "valid"
    BY DEF ListStatus, d
  <2>2. CASE d < 0
    BY <1>1, <2>1, <2>2
  <2>3. CASE d \in 0..Critical
    BY <1>1, <2>1, <2>3
  <2>4. CASE d \in (Critical + 1)..Soon
    BY <1>1, <2>1, <2>4
  <2>5. CASE d > Soon
    BY <1>1, <2>1, <2>5
  <2> QED  BY <1>1, <2>2, <2>3, <2>4, <2>5
<1>3. /\ Severity(c, threshold) = "expired" <=> d <= 0
      /\ Severity(c, threshold) = "critical" <=> d \in 1..Critical
  <2>1. Severity(c, threshold) = CASE d <= 0 -> "expired"
                                   [] d \in 1..Critical -> "critical"
                                   [] d > Critical /\ d <= threshold -> "warning"
                                   [] OTHER -> "none"
    BY DEF Severity, d
  <2>2. CASE d <= 0
    BY <1>1, <2>1, <2>2
  <2>3. CASE d \in 1..Critical
    BY <1>1, <2>1, <2>3
  <2>4. CASE d > Critical /\ d <= threshold
    BY <1>1, <2>1, <2>4
  <2>5. CASE d > Critical /\ d > threshold
    BY <1>1, <2>1, <2>5
  <2> QED  BY <1>1, <2>2, <2>3, <2>4, <2>5
<1> QED  BY <1>2, <1>3 DEF d

LEMMA DatedHasDays ==
  ASSUME CertTypeOK, NEW c \in certificates, Dated(c)
  PROVE  DaysLeft(c) \in Int
<1>1. c \in Certificate /\ now \in 0..LastDay
  BY DEF CertTypeOK
<1>2. c.expiry \in Dates
  BY <1>1 DEF Certificate, Dated
<1>3. c.expiry \in Int
  BY <1>2, CertificatesAssumption
<1>4. now \in Int
  BY <1>1
<1> QED  BY <1>3, <1>4 DEF DaysLeft

\* The rows of a type that are active are numbered, so one of them is the last.
LEMMA ChosenExists ==
  ASSUME CertInv, NEW type, \E c \in Active : c.type = type
  PROVE  Chosen(type) \in Active /\ Chosen(type).type = type
<1> DEFINE N == nextKey
           S == {N - c.id : c \in {c \in Active : c.type = type}}
<1>2. N \in Nat /\ \A c \in Active : c.id \in 1..N
  BY DEF CertInv, CertTypeOK, KeysInOrder, Active
<1> HIDE DEF N
<1>3. S \subseteq Nat /\ S # {}
  BY <1>2
<1>4. PICK x \in S : \A y \in S : <<y, x>> \notin OpToRel(<, Nat)
  BY <1>3, NatLessThanWellFounded, WFMin
<1>5. PICK c \in Active : c.type = type /\ x = N - c.id
  BY <1>4
<1>6. \A d \in Active : d.type = type => d.id <= c.id
  <2>1. ASSUME NEW d \in Active, d.type = type PROVE d.id <= c.id
    <3>1. N - d.id \in S /\ N - d.id \in Nat /\ x \in Nat
      BY <1>2, <1>3, <2>1
    <3>2. ~(N - d.id < x)
      BY <1>4, <3>1 DEF OpToRel
    <3> QED  BY <1>2, <1>5, <3>2
  <2> QED  BY <2>1
<1> QED  BY <1>5, <1>6 DEF Chosen

\* What the clearance says of a type, by the certificate that decides.
LEMMA Decisions ==
  ASSUME CertInv, NEW type, Validation(type) # "missing"
  PROVE  /\ Chosen(type) \in Active /\ Chosen(type).type = type
         /\ Validation(type) = "expired"
              <=> ~Dated(Chosen(type)) \/ DaysLeft(Chosen(type)) <= 0
         /\ Dated(Chosen(type)) =>
              /\ DaysLeft(Chosen(type)) \in Int
              /\ Validation(type) = "expiring_soon" <=> DaysLeft(Chosen(type)) \in 1..Critical
<1>1. \E c \in Active : c.type = type
  BY DEF Validation
<1>2. Chosen(type) \in Active /\ Chosen(type).type = type
  BY <1>1, ChosenExists
<1>3. Dated(Chosen(type)) => DaysLeft(Chosen(type)) \in Int
  BY <1>2, DatedHasDays DEF CertInv, Active
<1>4. Validation(type) = IF ~Dated(Chosen(type)) \/ DaysLeft(Chosen(type)) <= 0 THEN "expired"
                         ELSE IF DaysLeft(Chosen(type)) \in 1..Critical THEN "expiring_soon"
                         ELSE "valid"
  BY <1>1 DEF Validation
<1> QED  BY <1>2, <1>3, <1>4, CertificatesAssumption

\* Whatever certificates a vessel has and whatever threshold is asked for, the
\* list, the alerts and the clearance agree as ClearanceAndAlertsAgree says.
THEOREM ReadsAgree == CertSpec => []ClearanceAndAlertsAgree
<1>1. CertInv => ClearanceIsSound
  <2>1. SUFFICES ASSUME CertInv, VoyageClearance, NEW type \in Required
                 PROVE  /\ \E c \in Active : c.type = type /\ Dated(c) /\ DaysLeft(c) >= 1
                        /\ \A threshold \in Thresholds :
                             Severity(Chosen(type), threshold) # "expired"
    BY DEF ClearanceIsSound
  <2> DEFINE c == Chosen(type)
  <2>2. c \in Active /\ c.type = type /\ Dated(c) /\ DaysLeft(c) \in Int /\ ~(DaysLeft(c) <= 0)
    BY <2>1, Decisions DEF VoyageClearance
  <2> HIDE DEF c
  <2>3. \A threshold \in Thresholds : Severity(c, threshold) # "expired"
    BY <2>2, Judgements, CertificatesAssumption
  <2> QED  BY <2>2, <2>3 DEF c
<1>2. CertInv => ViewsDifferOnlyOnTheLastDay
  <2>1. SUFFICES ASSUME CertInv, NEW c \in Active, NEW threshold \in Thresholds,
                        Dated(c), DaysLeft(c) # 0
                 PROVE  /\ ListStatus(c) = "expired" <=> Severity(c, threshold) = "expired"
                        /\ ListStatus(c) = "critical" <=> Severity(c, threshold) = "critical"
                        /\ c.type \in Required /\ c = Chosen(c.type) =>
                             /\ Validation(c.type) = "expired" <=> ListStatus(c) = "expired"
                             /\ Validation(c.type) = "expiring_soon"
                                  <=> ListStatus(c) = "critical"
    BY DEF ViewsDifferOnlyOnTheLastDay
  <2>2. DaysLeft(c) \in Int /\ threshold \in Int /\ Critical \in Nat
    BY <2>1, DatedHasDays, CertificatesAssumption DEF CertInv, Active
  <2>3. /\ ListStatus(c) = "expired" <=> DaysLeft(c) < 0
        /\ ListStatus(c) = "critical" <=> DaysLeft(c) \in 0..Critical
        /\ Severity(c, threshold) = "expired" <=> DaysLeft(c) <= 0
        /\ Severity(c, threshold) = "critical" <=> DaysLeft(c) \in 1..Critical
    BY <2>1, <2>2, Judgements
  <2>4. ASSUME c = Chosen(c.type)
        PROVE  /\ Validation(c.type) = "expired" <=> DaysLeft(c) <= 0
               /\ Validation(c.type) = "expiring_soon" <=> DaysLeft(c) \in 1..Critical
    <3>1. Validation(c.type) # "missing"
      BY <2>1 DEF Validation
    <3> QED  BY <2>1, <2>4, <3>1, Decisions
  <2> QED  BY <2>1, <2>2, <2>3, <2>4
<1>3. CertInv => RefusalsAreAlerted
  <2>1. SUFFICES ASSUME CertInv, NEW type \in Required, NEW threshold \in Thresholds,
                        Validation(type) = "expired", Dated(Chosen(type))
                 PROVE  [type |-> type, severity |-> "expired"] \in Alerts(threshold)
    BY DEF RefusalsAreAlerted
  <2> DEFINE c == Chosen(type)
  <2>2. c \in Active /\ c.type = type /\ Dated(c) /\ DaysLeft(c) \in Int /\ DaysLeft(c) <= 0
    BY <2>1, Decisions
  <2> HIDE DEF c
  <2>3. Severity(c, threshold) = "expired"
    BY <2>2, Judgements, CertificatesAssumption
  <2> QED  BY <2>2, <2>3 DEF Alerts
<1>4. CertInv => ClearanceAndAlertsAgree
  BY <1>1, <1>2, <1>3 DEF ClearanceAndAlertsAgree
<1> QED  BY <1>4, CertStart, CertStep, PTL DEF CertSpec

-----------------------------------------------------------------------------
(* All components in one database.                                         *)

\* Which database the application runs on is decided before it starts.
LEMMA DialectIsFixed ==
  /\ DemoNext => dialect' = dialect
  /\ UsersNext => dialect' = dialect
  /\ CertNext => dialect' = dialect
  /\ LedgerNext => dialect' = dialect
<1>1. ASSUME DemoNext PROVE dialect' = dialect
  <2>1. PICK w \in Workers :
          \/ TryDelete(w) \/ Delete(w)
          \/ FindVessel(w) \/ SaveVessel(w) \/ Replace(w) \/ ReadTanks(w) \/ Insert(w)
          \/ Count(w) \/ SeedVessels(w) \/ ReadVoyages(w) \/ Seed(w)
          \/ Start(w) \/ Generate(w) \/ Reset(w) \/ Record(w) \/ Crash(w)
    BY <1>1 DEF DemoNext
  <2>2. CASE Others
    BY <2>2 DEF Others
  <2>3. CASE Start(w) \/ Generate(w) \/ Reset(w) \/ Record(w) \/ Crash(w)
    BY <2>3 DEF Start, Generate, Reset, Request, Record, Crash
  <2>4. CASE ~Others
    BY <2>1, <2>3, <2>4 DEF TryDelete, Delete, FindVessel, SaveVessel, Replace, ReadTanks, Insert,
                            Count, SeedVessels, ReadVoyages, Seed
  <2> QED  BY <2>2, <2>4
<1>2. ASSUME UsersNext PROVE dialect' = dialect
  BY <1>2 DEF UsersNext, Login, Tick, CheckNew, CheckDelete, CheckPassword, CreateUser, DeleteUser,
              ChangePassword, CheckAdmin, SeedAdmin, AbandonRequest
<1>3. ASSUME CertNext PROVE dialect' = dialect
  BY <1>3 DEF CertNext, AddCertificate, LogExpiry, LogRefused, Abandon, HalfDay, SeedCertificates,
              DemoOnCertificates, EmptyLog, EmptyCertificates, DeleteRefused
<1>4. ASSUME LedgerNext PROVE dialect' = dialect
  BY <1>4 DEF LedgerNext, CiiNext, EtsNext, FuelEuNext, EfficiencyNext, Elsewhere, CiiFleet,
              CalculateCii, SeedCii, GatherDcs, LookForReport, WriteReport, CalculateEts, Summarise,
              LookForSurrender, WriteSurrender, WriteFuelRecord, CalculateFuelEu, ConfigureEpl,
              AddMeasure, WriteEexi, LookForEexi, NextDay, DropTask, DemoDelete, DemoOnLedger,
              EmptyCii, EmptyEts, EmptyFuelEu, EmptyEfficiency, EmptyTotals, EmptyVoyages
<1> QED  BY <1>1, <1>2, <1>3, <1>4

\* A step of the application is a step of one component, or a step that the others do
\* not see.
LEMMA OneComponentMoves ==
  ASSUME [AppNext]_appVars
  PROVE  /\ [DemoNext]_demoVars /\ [UsersNext]_userVars
         /\ [CertNext]_certVars /\ [LedgerNext]_ledgerVars
<1> DEFINE D == UNCHANGED demoOnly
           U == UNCHANGED usersOnly
           C == UNCHANGED certOnly
           L == UNCHANGED ledgerOnly
<1>1. /\ D /\ dialect' = dialect => [DemoNext]_demoVars
      /\ U /\ dialect' = dialect => [UsersNext]_userVars
      /\ C /\ dialect' = dialect => [CertNext]_certVars
      /\ L /\ dialect' = dialect => [LedgerNext]_ledgerVars
  BY DEF demoOnly, usersOnly, certOnly, ledgerOnly, demoVars, userVars, certVars, ledgerVars
<1>2. CASE UNCHANGED appVars
  <2>1. D /\ U /\ C /\ L /\ dialect' = dialect
    BY <1>2 DEF appVars, demoOnly, usersOnly, certOnly, ledgerOnly, ledgerVars
  <2> HIDE DEF D, U, C, L
  <2> QED  BY <1>1, <2>1
<1>3. ASSUME AppNext
      PROVE  \/ DemoNext /\ U /\ C /\ L
             \/ UsersNext /\ D /\ C /\ L
             \/ CertNext /\ D /\ U /\ L
             \/ LedgerNext /\ D /\ U /\ C
  <2>1. /\ UNCHANGED <<usersOnly, certOnly, ledgerOnly>> => U /\ C /\ L
        /\ UNCHANGED <<demoOnly, certOnly, ledgerOnly>> => D /\ C /\ L
        /\ UNCHANGED <<demoOnly, usersOnly, ledgerOnly>> => D /\ U /\ L
        /\ UNCHANGED <<demoOnly, usersOnly, certOnly>> => D /\ U /\ C
    OBVIOUS
  <2> HIDE DEF D, U, C, L
  <2> QED  BY <1>3, <2>1, Zenon DEF AppNext
<1> HIDE DEF D, U, C, L
<1>4. CASE AppNext
  BY <1>1, <1>3, <1>4, DialectIsFixed
<1> QED  BY <1>2, <1>4

\* A behaviour of the application, whichever of its parts moves when, is a behaviour of
\* each part: what a demo job does to a part's tables is among the part's own actions.
LEMMA AppImplementsItsComponents ==
  AppSpec => DemoSpec /\ UsersSpec /\ CertSpec /\ LedgerSpec
<1>1. AppInit => DemoInit /\ UsersInit /\ CertInit /\ LedgerInit
  BY DEF AppInit
<1>2. [AppNext]_appVars => [DemoNext]_demoVars /\ [UsersNext]_userVars
  BY OneComponentMoves
<1>3. [AppNext]_appVars => [CertNext]_certVars /\ [LedgerNext]_ledgerVars
  BY OneComponentMoves
<1> QED  BY <1>1, <1>2, <1>3, PTL DEF AppSpec, DemoSpec, UsersSpec, CertSpec, LedgerSpec

\* Every component's rows and requests keep their shape, whatever the others do.
THEOREM AppTypeCorrect == AppSpec => []AppTypeOK
<1>1. DemoTypeOK /\ UsersTypeOK /\ CertTypeOK /\ LedgerTypeOK => AppTypeOK
  BY DEF AppTypeOK
<1> QED
  BY <1>1, AppImplementsItsComponents, DemoTypeCorrect, UsersTypeCorrect, CertTypeCorrect,
     LedgerTypeCorrect, PTL

\* Generated data are whole and refer to rows that exist, accounts and tokens belong
\* together, expiry logs follow the certificates, and totals and annual answers follow the
\* voyages: in one application, on either database, with the requests of all parts
\* interleaved and with demo jobs that empty and fill the tables of any of them at any
\* time.
THEOREM AppKeepsItsPromises ==
  AppSpec => /\ []DemoDataIsSound
             /\ []OneAccountPerName /\ []TokensMatchAccounts /\ LastAdminFallsToAGhost
             /\ []LogFollowsCertificates /\ []ClearanceAndAlertsAgree
             /\ []StoredTotalsLagBehind /\ []AnnualAnswersFollowVoyages
<1>1. AppSpec => DemoSpec /\ UsersSpec /\ CertSpec /\ LedgerSpec
  BY AppImplementsItsComponents
<1>2. DemoSpec => []DemoDataIsSound
  BY DemoDataSound
<1>3. UsersSpec => []OneAccountPerName
  BY AccountsAreUnique
<1>4. UsersSpec => []TokensMatchAccounts
  BY TokensSpeakForTheirAccount
<1>5. UsersSpec => LastAdminFallsToAGhost
  BY LastAdminIsSafeFromAccounts
<1>6. CertSpec => []LogFollowsCertificates
  BY LogIsFaithful
<1>7. CertSpec => []ClearanceAndAlertsAgree
  BY ReadsAgree
<1>8. LedgerSpec => []StoredTotalsLagBehind
  BY TotalsLagBehind
<1>9. LedgerSpec => []AnnualAnswersFollowVoyages
  BY AnnualAnswersHold
<1> QED  BY <1>1, <1>2, <1>3, <1>4, <1>5, <1>6, <1>7, <1>8, <1>9, PTL
===============================================================================
