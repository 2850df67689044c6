---------------------------- MODULE AccessProofs ----------------------------
(***************************************************************************)
(* The Board keeps an admin, a login keeps one refresh token, and the      *)
(* audit log tells the accounts, for any finite set of users, any tokens   *)
(* and any number of crashes.                                              *)
(*                                                                         *)
(* That no login has two live tokens is not inductive: a login is named    *)
(* after its first token, so the token that a new login takes must not be  *)
(* the name of a login already.  Every login is named after a token that   *)
(* was issued, and no token is issued twice.                               *)
(***************************************************************************)
EXTENDS Access, FiniteSetTheorems, SequenceTheorems, TLAPS

\* The types of the two tables and of the work of a handler.
Tables ==
    /\ account \in [User -> Roles \cup {"none", "deleted"}]
    /\ token \in [Token -> [user : User \cup {Nobody}, login : Token \cup {Nobody},
                            state : States]]
    /\ todo \in Seq(Writes)

LoginsNamed ==
    \A t \in Token : token[t] # NoToken =>
        token[t].login \in Token /\ token[token[t].login] # NoToken

TokenInv == Tables /\ LoginsNamed /\ OneTokenPerLogin

-----------------------------------------------------------------------------
(* Types. *)

\* What a handler leaves to do is a sequence of writes.
LEMMA ThenTyped ==
    ASSUME NEW u \in User,
           NEW kinds \in Seq({"issue", "revoke_all"} \cup Audits),
           Then(kinds, u)
    PROVE  todo' \in Seq(Writes)
<1>1. Len(kinds) \in Nat /\ DOMAIN kinds = 1 .. Len(kinds)
    OBVIOUS
<1>2. \A i \in DOMAIN kinds : kinds[i] \in {"issue", "revoke_all"} \cup Audits
    BY <1>1
<1>3. todo' \in [1 .. Len(kinds) -> Writes]
    BY <1>1, <1>2 DEF Then, Writes
<1> QED
    BY <1>1, <1>3, SeqDef

LEMMA TablesInit == Init => Tables
BY DEF Init, Tables, NoToken, States

LEMMA TablesStep == Tables /\ [Next]_vars => Tables'
<1> SUFFICES ASSUME Tables, [Next]_vars PROVE Tables'
    OBVIOUS
<1> USE DEF Tables
<1>0. CASE UNCHANGED vars
    BY <1>0 DEF vars
<1>1. ASSUME NEW u \in User, Register(u) PROVE Tables'
    <2>1. <<"issue", "account">> \in Seq({"issue", "revoke_all"} \cup Audits)
        BY DEF Audits
    <2>2. todo' \in Seq(Writes)
        BY <1>1, <2>1, ThenTyped DEF Register
    <2> QED
        BY <1>1, <2>2 DEF Register, RoleOf, Roles
<1>2. ASSUME NEW u \in User, Authenticate(u) PROVE Tables'
    BY <1>2 DEF Authenticate, accountVars
<1>3. ASSUME NEW u \in User, LoginRoute(u) PROVE Tables'
    <2>1. <<"issue">> \in Seq({"issue", "revoke_all"} \cup Audits)
        OBVIOUS
    <2>2. todo' \in Seq(Writes)
        BY <1>3, <2>1, ThenTyped DEF LoginRoute, Login
    <2> QED
        BY <1>3, <2>2 DEF LoginRoute, Login, accountVars
<1>4. <<"companies">> \in Seq({"issue", "revoke_all"} \cup Audits)
    BY DEF Audits
<1>5. <<"account">> \in Seq({"issue", "revoke_all"} \cup Audits)
    BY DEF Audits
<1>6. ASSUME NEW by \in User, NEW u \in User, NEW c \in Company,
             AddAssignment(by, u, c) \/ RemoveAssignment(by, u, c)
      PROVE  Tables'
    <2>1. todo' \in Seq(Writes)
        BY <1>6, <1>4, ThenTyped DEF AddAssignment, RemoveAssignment
    <2> QED
        BY <1>6, <2>1 DEF AddAssignment, RemoveAssignment
<1>7. ASSUME NEW by \in User, NEW u \in User, NEW role \in Roles,
             CreateUser(by, u, role) \/ SetRole(by, u, role)
      PROVE  Tables'
    <2>1. todo' \in Seq(Writes)
        BY <1>7, <1>5, ThenTyped DEF CreateUser, SetRole
    <2> QED
        BY <1>7, <2>1 DEF CreateUser, SetRole, RoleOf, Roles
<1>8. ASSUME NEW by \in User, NEW u \in User, DeleteUser(by, u) PROVE Tables'
    <2>1. <<"revoke_all", "account">> \in Seq({"issue", "revoke_all"} \cup Audits)
        BY DEF Audits
    <2>2. todo' \in Seq(Writes)
        BY <1>8, <2>1, ThenTyped DEF DeleteUser
    <2> QED
        BY <1>8, <2>2 DEF DeleteUser, SoftDelete
<1>9. ASSUME NEW t \in Token, NEW n \in Token, RefreshRoute(t, n) PROVE Tables'
    BY <1>9 DEF RefreshRoute, Refresh, SwapRefresh, accountVars, States
<1>10. ASSUME NEW t \in Token, Issue(t) PROVE Tables'
    <2>1. Head(todo) \in Writes /\ Tail(todo) \in Seq(Writes)
        BY <1>10 DEF Issue
    <2> QED
        BY <1>10, <2>1 DEF Issue, accountVars, States, Writes
<1>11. ASSUME NEW t \in Token, Logout(t) PROVE Tables'
    BY <1>11 DEF Logout, RevokeRefresh, accountVars, States
<1>12. CASE Expire
    BY <1>12 DEF Expire, accountVars, States
<1>13. CASE RevokeAll
    BY <1>13 DEF RevokeAll, accountVars, States
<1>14. CASE Audit
    BY <1>14 DEF Audit, accountVars
<1>15. CASE Crash
    BY <1>15 DEF Crash, accountVars
<1> QED
    BY <1>0, <1>1, <1>2, <1>3, <1>6, <1>7, <1>8, <1>9, <1>10, <1>11, <1>12, <1>13,
       <1>14, <1>15 DEF Next

-----------------------------------------------------------------------------
(* An admin remains. *)

AdminInv == Tables /\ AdminRemains

\* Of more than one admin another one is left.
LEMMA AnotherAdmin ==
    ASSUME NEW u \in User, Tables, Cardinality(Admins) > 1
    PROVE  \E w \in User \ {u} : account[w] = "admin"
<1>1. Admins \subseteq User
    BY DEF Admins
<1>2. IsFiniteSet(Admins)
    BY <1>1, AccessConstants, FS_Subset DEF AccessConstants
<1>3. Admins # {} /\ Cardinality(Admins) # 1
    BY <1>2, FS_EmptySet
<1>4. Admins # {u}
    BY <1>3, FS_Singleton
<1> QED
    BY <1>1, <1>3, <1>4 DEF Admins

LEMMA AdminStep == AdminInv /\ [Next]_vars => AdminInv'
<1> SUFFICES ASSUME AdminInv, [Next]_vars PROVE AdminRemains'
    BY TablesStep DEF AdminInv
<1> USE DEF AdminInv
<1>0. CASE UNCHANGED account
    BY <1>0 DEF AdminRemains, Admins
<1>1. ASSUME NEW u \in User, NEW role \in Roles, account[u] = "none",
             account' = [account EXCEPT ![u] = RoleOf(role)]
      PROVE  AdminRemains'
    <2>1. CASE Admins = {}
        <3>1. account'[u] = "admin"
            BY <1>1, <2>1 DEF RoleOf, Tables
        <3> QED
            BY <3>1 DEF AdminRemains, Admins
    <2>2. CASE Admins # {}
        <3>1. PICK w \in User : account[w] = "admin"
            BY <2>2 DEF Admins
        <3>2. account'[w] = "admin"
            BY <1>1, <3>1 DEF Tables
        <3> QED
            BY <3>2 DEF AdminRemains, Admins
    <2> QED
        BY <2>1, <2>2
<1>2. ASSUME NEW u \in User, NEW now, Exists(u),
             account[u] = "admin" /\ now # "admin" => Cardinality(Admins) > 1,
             account' = [account EXCEPT ![u] = now]
      PROVE  AdminRemains'
    <2>1. CASE account[u] = "admin" /\ now # "admin"
        <3>1. PICK w \in User \ {u} : account[w] = "admin"
            BY <1>2, <2>1, AnotherAdmin
        <3>2. account'[w] = "admin"
            BY <1>2, <3>1 DEF Tables
        <3> QED
            BY <3>2 DEF AdminRemains, Admins
    <2>2. CASE now = "admin"
        <3>1. account'[u] = "admin"
            BY <1>2, <2>2 DEF Tables
        <3> QED
            BY <3>1 DEF AdminRemains, Admins
    <2>3. CASE account[u] # "admin"
        <3>1. account[u] # "none"
            BY <1>2 DEF Exists, Roles
        <3>2. PICK w \in User : account[w] = "admin"
            BY <3>1 DEF AdminRemains, Admins
        <3>3. account'[w] = "admin"
            BY <1>2, <2>3, <3>2 DEF Tables
        <3> QED
            BY <3>3 DEF AdminRemains, Admins
    <2> QED
        BY <2>1, <2>2, <2>3
<1>3. ASSUME NEW u \in User, Register(u) PROVE AdminRemains'
    BY <1>1, <1>3 DEF Register, Roles
<1>4. ASSUME NEW by \in User, NEW u \in User, NEW role \in Roles,
             CreateUser(by, u, role) \/ SetRole(by, u, role)
      PROVE  AdminRemains'
    BY <1>1, <1>2, <1>4 DEF CreateUser, SetRole, MayDemote
<1>5. ASSUME NEW by \in User, NEW u \in User, DeleteUser(by, u) PROVE AdminRemains'
    BY <1>2, <1>5 DEF DeleteUser, SoftDelete
<1>6. ASSUME NEW t \in Token, NEW n \in Token, RefreshRoute(t, n) \/ Issue(t) \/ Logout(t)
      PROVE  UNCHANGED account
    BY <1>6 DEF RefreshRoute, Refresh, Issue, Logout, accountVars
<1>7. ASSUME NEW by \in User, NEW u \in User, NEW c \in Company,
             AddAssignment(by, u, c) \/ RemoveAssignment(by, u, c)
      PROVE  UNCHANGED account
    BY <1>7 DEF AddAssignment, RemoveAssignment
<1>8. ASSUME NEW u \in User, Authenticate(u) \/ LoginRoute(u) PROVE UNCHANGED account
    BY <1>8 DEF Authenticate, LoginRoute, Login, accountVars
<1>9. CASE Expire \/ RevokeAll \/ Audit \/ Crash \/ UNCHANGED vars
    <2> UNCHANGED account
        BY <1>9 DEF Expire, RevokeAll, Audit, Crash, vars, accountVars
    <2> QED
        BY <1>0
<1> QED
    BY <1>0, <1>3, <1>4, <1>5, <1>6, <1>7, <1>8, <1>9 DEF Next

\* Once the Board has an account it has an admin, whatever set_role and
\* soft_delete are asked by admins who act at the same time, for any number of
\* users.
THEOREM BoardKeepsAdmin == Spec => []AdminRemains
<1>1. Init => AdminInv
    BY TablesInit DEF Init, AdminInv, AdminRemains, Admins
<1> QED
    BY <1>1, AdminStep, PTL DEF Spec, AdminInv

-----------------------------------------------------------------------------
(* One token per login. *)

\* A step that issues no token and at most ends some.
Fewer ==
    \A t \in Token : \/ token'[t] = token[t]
                      \/ /\ token[t] # NoToken /\ token'[t] # NoToken
                         /\ token'[t].login = token[t].login
                         /\ token'[t].state # "live"

LEMMA FewerKeeps ==
    ASSUME TokenInv, Fewer PROVE LoginsNamed' /\ OneTokenPerLogin'
<1>1. LoginsNamed'
    BY DEF TokenInv, Fewer, LoginsNamed
<1>2. OneTokenPerLogin'
    BY DEF TokenInv, Fewer, OneTokenPerLogin, Live
<1> QED
    BY <1>1, <1>2

\* A valid token was issued.
LEMMA RowsOf ==
    ASSUME Tables, NEW t \in Token
    PROVE  token[t].state = "live" => token[t] # NoToken
BY DEF NoToken

LEMMA IssueKeeps ==
    ASSUME TokenInv, NEW t \in Token, Issue(t)
    PROVE  LoginsNamed' /\ OneTokenPerLogin'
<1>1. /\ token[t] = NoToken
      /\ token'[t] = [user |-> Head(todo).user, login |-> t, state |-> "live"]
      /\ \A n \in Token \ {t} : token'[n] = token[n]
    BY DEF Issue, TokenInv, Tables
<1>2. token'[t] # NoToken /\ token'[t].login = t
    BY <1>1 DEF NoToken
<1>3. LoginsNamed'
    BY <1>1, <1>2 DEF TokenInv, LoginsNamed
<1>4. \A n \in Token \ {t} : Live(n) => token[n].login # t
    BY <1>1, RowsOf DEF TokenInv, LoginsNamed, Live
<1>5. OneTokenPerLogin'
    BY <1>1, <1>2, <1>4 DEF TokenInv, OneTokenPerLogin, Live
<1> QED
    BY <1>3, <1>5

LEMMA RefreshKeeps ==
    ASSUME TokenInv, NEW t \in Token, NEW n \in Token, RefreshRoute(t, n)
    PROVE  LoginsNamed' /\ OneTokenPerLogin'
<1>1. token[n] = NoToken /\ token[t].state = "live" /\ token[t] # NoToken /\ t # n
    BY RowsOf DEF RefreshRoute, Refresh, SwapRefresh, Live, TokenInv
<1>2. \A m \in Token \ {t, n} : token'[m] = token[m]
    BY <1>1 DEF RefreshRoute, Refresh, SwapRefresh, TokenInv, Tables
<1>3. /\ token'[t].state = "revoked" /\ token'[t].login = token[t].login
      /\ token'[n].state = "live" /\ token'[n].login = token[t].login
    BY <1>1 DEF RefreshRoute, Refresh, SwapRefresh, TokenInv, Tables
<1>4. token'[t] # NoToken /\ token'[n] # NoToken
    BY <1>3 DEF NoToken
<1>5. LoginsNamed'
    <2>1. ASSUME NEW m \in Token, token'[m] # NoToken
          PROVE  token'[m].login \in Token /\ token[token'[m].login] # NoToken
        BY <1>1, <1>2, <1>3, <2>1 DEF TokenInv, LoginsNamed
    <2>2. \A m \in Token : token[m] # NoToken => token'[m] # NoToken
        BY <1>2, <1>4
    <2> QED
        BY <2>1, <2>2 DEF LoginsNamed
<1>6. OneTokenPerLogin'
    <2>1. \A m \in Token \ {t} : token[m].state = "live" => token[m].login # token[t].login
        BY <1>1 DEF TokenInv, OneTokenPerLogin, Live
    <2>2. \A m \in Token : token'[m].state = "live" =>
             \/ m = n
             \/ m \notin {t, n} /\ token[m].state = "live" /\ token'[m].login = token[m].login
        BY <1>2, <1>3
    <2> QED
        BY <1>3, <2>1, <2>2 DEF TokenInv, OneTokenPerLogin, Live
<1> QED
    BY <1>5, <1>6

LEMMA TokenStep == TokenInv /\ [Next]_vars => TokenInv'
<1> SUFFICES ASSUME TokenInv, [Next]_vars PROVE LoginsNamed' /\ OneTokenPerLogin'
    BY TablesStep DEF TokenInv
<1>0. ASSUME UNCHANGED token PROVE Fewer
    BY <1>0 DEF Fewer
<1>1. ASSUME NEW t \in Token, NEW n \in Token, RefreshRoute(t, n) \/ Issue(t)
      PROVE  LoginsNamed' /\ OneTokenPerLogin'
    BY <1>1, IssueKeeps, RefreshKeeps
<1>2. ASSUME NEW t \in Token, Logout(t) PROVE Fewer
    BY <1>2, RowsOf DEF Logout, RevokeRefresh, Live, Fewer, TokenInv, Tables, NoToken
<1>3. CASE Expire
    BY <1>3, RowsOf, FewerKeeps DEF Expire, Live, Fewer, TokenInv, Tables, NoToken
<1>4. CASE RevokeAll
    BY <1>4, RowsOf, FewerKeeps DEF RevokeAll, Live, Fewer, TokenInv, Tables, NoToken
<1>5. ASSUME NEW u \in User, Register(u) \/ Authenticate(u) \/ LoginRoute(u)
      PROVE  UNCHANGED token
    BY <1>5 DEF Register, Authenticate, LoginRoute, Login
<1>6. ASSUME NEW by \in User, NEW u \in User, NEW c \in Company,
             AddAssignment(by, u, c) \/ RemoveAssignment(by, u, c)
      PROVE  UNCHANGED token
    BY <1>6 DEF AddAssignment, RemoveAssignment
<1>7. ASSUME NEW by \in User, NEW u \in User, NEW role \in Roles,
             CreateUser(by, u, role) \/ SetRole(by, u, role)
      PROVE  UNCHANGED token
    BY <1>7 DEF CreateUser, SetRole
<1>8. ASSUME NEW by \in User, NEW u \in User, DeleteUser(by, u) PROVE UNCHANGED token
    BY <1>8 DEF DeleteUser
<1>9. CASE Audit \/ Crash \/ UNCHANGED vars
    <2> UNCHANGED token
        BY <1>9 DEF Audit, Crash, vars
    <2> QED
        BY <1>0, FewerKeeps
<1> QED
    BY <1>0, <1>1, <1>2, <1>3, <1>4, <1>5, <1>6, <1>7, <1>8, <1>9, FewerKeeps DEF Next

\* Rotation never leaves a login two valid refresh tokens: swap_refresh ends the
\* one it is given, and no login takes the name of another.
THEOREM RotationKeepsOne == Spec => []OneTokenPerLogin
<1>1. Init => TokenInv
    BY TablesInit DEF Init, TokenInv, LoginsNamed, OneTokenPerLogin, Live, NoToken
<1> QED
    BY <1>1, TokenStep, PTL DEF Spec, TokenInv

-----------------------------------------------------------------------------
(* The audit log. *)

\* The audit log is right about u, the entry is still to be written, or a crash
\* has taken it.
Says(u, k) == IF k = "account" THEN told[u].account = account[u]
                               ELSE told[u].companies = assigned[u]
Announced(u, k) == \E i \in DOMAIN todo : todo[i] = [kind |-> k, user |-> u]
Audited == \A u \in User, k \in Audits : Says(u, k) \/ <<u, k>> \in untold \/ Announced(u, k)

AuditTypes ==
    /\ assigned \in [User -> SUBSET Company]
    /\ told \in [User -> [account : Roles \cup {"none", "deleted"}, companies : SUBSET Company]]

AuditInv == Tables /\ AuditTypes /\ Audited

\* The write that is next is about a user.
LEMMA HeadTyped ==
    ASSUME Tables, todo # <<>>
    PROVE  Head(todo) \in Writes /\ Head(todo).user \in User
<1>1. Head(todo) \in Writes
    BY DEF Tables
<1> QED
    BY <1>1 DEF Writes

LEMMA AuditTypesStep == Tables /\ AuditTypes /\ [Next]_vars => AuditTypes'
<1> SUFFICES ASSUME Tables, AuditTypes, [Next]_vars PROVE AuditTypes'
    OBVIOUS
<1>1. UNCHANGED <<assigned, told>> => AuditTypes'
    BY DEF AuditTypes
<1>2. ASSUME NEW by \in User, NEW u \in User, NEW c \in Company,
             AddAssignment(by, u, c) \/ RemoveAssignment(by, u, c)
      PROVE  AuditTypes'
    BY <1>2 DEF AddAssignment, RemoveAssignment, AssignCompany, UnassignCompany, AuditTypes
<1>3. CASE Audit
    <2>1. Head(todo).user \in User
        BY <1>3, HeadTyped DEF Audit
    <2> QED
        BY <1>3, <2>1 DEF Audit, AuditTypes, Tables, accountVars
<1>4. ASSUME NEW u \in User, Register(u) \/ Authenticate(u) \/ LoginRoute(u)
      PROVE  UNCHANGED <<assigned, told>>
    BY <1>4 DEF Register, Authenticate, LoginRoute, Login, accountVars
<1>5. ASSUME NEW by \in User, NEW u \in User, NEW role \in Roles,
             CreateUser(by, u, role) \/ SetRole(by, u, role)
      PROVE  UNCHANGED <<assigned, told>>
    BY <1>5 DEF CreateUser, SetRole
<1>6. ASSUME NEW t \in Token, NEW n \in Token, RefreshRoute(t, n) \/ Issue(t) \/ Logout(t)
      PROVE  UNCHANGED <<assigned, told>>
    BY <1>6 DEF RefreshRoute, Refresh, Issue, Logout, accountVars
<1>7. Expire \/ RevokeAll \/ Crash \/ UNCHANGED vars => UNCHANGED <<assigned, told>>
    BY DEF Expire, RevokeAll, Crash, vars, accountVars
<1>8. \A by, u \in User : DeleteUser(by, u) => UNCHANGED <<assigned, told>>
    BY DEF DeleteUser
<1> QED
    BY <1>1, <1>2, <1>3, <1>4, <1>5, <1>6, <1>7, <1>8 DEF Next

\* A handler announces what it changes about one account.
LEMMA HandlerAnnounces ==
    ASSUME Audited, LoopFree, NEW u \in User, NEW kinds, Then(kinds, u), untold' = untold,
           \A w \in User, k \in Audits :
               \/ w = u /\ \E i \in DOMAIN kinds : kinds[i] = k
               \/ Says(w, k) => Says(w, k)'
    PROVE  Audited'
<1> SUFFICES ASSUME NEW w \in User, NEW k \in Audits
             PROVE  Says(w, k)' \/ <<w, k>> \in untold' \/ Announced(w, k)'
    BY DEF Audited
<1>1. Says(w, k) \/ <<w, k>> \in untold
    BY DEF Audited, Announced, LoopFree
<1>2. CASE w = u /\ \E i \in DOMAIN kinds : kinds[i] = k
    BY <1>2 DEF Announced, Then
<1>3. CASE Says(w, k) => Says(w, k)'
    BY <1>1, <1>3
<1> QED
    BY <1>2, <1>3

\* Of the writes still to be made the first one may go when it is no entry, or
\* when its entry has been written.
LEMMA RestAnnounced ==
    ASSUME todo \in Seq(Writes), todo # <<>>, todo' = Tail(todo), NEW w, NEW k,
           Announced(w, k), Head(todo) # [kind |-> k, user |-> w]
    PROVE  Announced(w, k)'
<1>1. PICK i \in DOMAIN todo : todo[i] = [kind |-> k, user |-> w]
    BY DEF Announced
<1>2. Head(todo) = todo[1] /\ Len(todo) \in Nat /\ i \in 1 .. Len(todo)
    BY <1>1
<1>3. i # 1
    BY <1>1, <1>2
<1>4. i - 1 \in DOMAIN Tail(todo) /\ Tail(todo)[i - 1] = todo[i]
    BY <1>2, <1>3
<1> QED
    BY <1>1, <1>4 DEF Announced

\* The steps that neither change an account nor end a write.
LEMMA NothingAnnounced ==
    ASSUME Audited, UNCHANGED <<account, assigned, told, untold, todo>>
    PROVE  Audited'
BY DEF Audited, Says, Announced

LEMMA AuditedStep == AuditInv /\ [Next]_vars => AuditInv'
<1> SUFFICES ASSUME AuditInv, [Next]_vars PROVE Audited'
    BY TablesStep, AuditTypesStep DEF AuditInv
<1> USE DEF AuditInv
<1>1. ASSUME NEW u \in User, NEW role, LoopFree, NEW kinds, Then(kinds, u),
             \E i \in DOMAIN kinds : kinds[i] = "account",
             account' = [account EXCEPT ![u] = role], UNCHANGED <<assigned, told, untold>>
      PROVE  Audited'
    <2>1. ASSUME NEW w \in User, NEW k \in Audits, w # u \/ k # "account", Says(w, k)
          PROVE  Says(w, k)'
        BY <1>1, <2>1 DEF Says, Tables
    <2> QED
        BY <1>1, <2>1, HandlerAnnounces
<1>2. ASSUME NEW u \in User, NEW S, LoopFree, Then(<<"companies">>, u),
             assigned' = [assigned EXCEPT ![u] = S], UNCHANGED <<account, told, untold>>
      PROVE  Audited'
    <2>1. ASSUME NEW w \in User, NEW k \in Audits, w # u \/ k # "companies", Says(w, k)
          PROVE  Says(w, k)'
        BY <1>2, <2>1 DEF Says, AuditTypes, Audits
    <2>2. \E i \in DOMAIN <<"companies">> : <<"companies">>[i] = "companies"
        OBVIOUS
    <2> QED
        BY <1>2, <2>1, <2>2, HandlerAnnounces
<1>3. ASSUME NEW u \in User, Register(u) PROVE Audited'
    <2>1. \E i \in DOMAIN <<"issue", "account">> : <<"issue", "account">>[i] = "account"
        OBVIOUS
    <2> QED
        BY <1>1, <1>3, <2>1 DEF Register
<1>4. ASSUME NEW by \in User, NEW u \in User, NEW role \in Roles,
             CreateUser(by, u, role) \/ SetRole(by, u, role)
      PROVE  Audited'
    <2>1. \E i \in DOMAIN <<"account">> : <<"account">>[i] = "account"
        OBVIOUS
    <2>2. CASE CreateUser(by, u, role)
        BY <1>1, <2>1, <2>2 DEF CreateUser, Handles
    <2>3. CASE SetRole(by, u, role)
        BY <1>1, <2>1, <2>3 DEF SetRole, Handles
    <2> QED
        BY <1>4, <2>2, <2>3
<1>5. ASSUME NEW by \in User, NEW u \in User, DeleteUser(by, u) PROVE Audited'
    <2>1. \E i \in DOMAIN <<"revoke_all", "account">> : <<"revoke_all", "account">>[i] = "account"
        OBVIOUS
    <2> QED
        BY <1>1, <1>5, <2>1 DEF DeleteUser, SoftDelete, Handles
<1>6. ASSUME NEW by \in User, NEW u \in User, NEW c \in Company,
             AddAssignment(by, u, c) \/ RemoveAssignment(by, u, c)
      PROVE  Audited'
    <2>1. CASE AddAssignment(by, u, c)
        BY <1>2, <2>1 DEF AddAssignment, AssignCompany, Handles
    <2>2. CASE RemoveAssignment(by, u, c)
        BY <1>2, <2>2 DEF RemoveAssignment, UnassignCompany, Handles
    <2> QED
        BY <1>6, <2>1, <2>2
<1>7. ASSUME NEW u \in User, Authenticate(u) PROVE Audited'
    BY <1>7, NothingAnnounced DEF Authenticate, accountVars
<1>8. ASSUME NEW u \in User, LoginRoute(u) PROVE Audited'
    <2>1. \A w \in User, k \in Audits : Says(w, k) => Says(w, k)'
        BY <1>8 DEF LoginRoute, Login, accountVars, Says
    <2> QED
        BY <1>8, <2>1, HandlerAnnounces DEF LoginRoute, Login
<1>9. ASSUME NEW t \in Token, NEW n \in Token, RefreshRoute(t, n) \/ Logout(t) PROVE Audited'
    BY <1>9, NothingAnnounced DEF RefreshRoute, Refresh, Logout, accountVars
<1>10. CASE Expire \/ UNCHANGED vars
    BY <1>10, NothingAnnounced DEF Expire, vars, accountVars
<1>11. ASSUME todo # <<>>, Head(todo).kind \notin Audits, todo' = Tail(todo),
              UNCHANGED <<account, assigned, told, untold>>
       PROVE  Audited'
    <2> SUFFICES ASSUME NEW w \in User, NEW k \in Audits
                 PROVE  Says(w, k)' \/ <<w, k>> \in untold' \/ Announced(w, k)'
        BY DEF Audited
    <2>1. Head(todo) # [kind |-> k, user |-> w]
        BY <1>11
    <2>2. Announced(w, k) => Announced(w, k)'
        BY <1>11, <2>1, RestAnnounced DEF Tables
    <2>3. Says(w, k) => Says(w, k)'
        BY <1>11 DEF Says
    <2> QED
        BY <1>11, <2>2, <2>3 DEF Audited
<1>12. ASSUME NEW t \in Token, Issue(t) PROVE Audited'
    BY <1>11, <1>12 DEF Issue, accountVars, Audits
<1>13. CASE RevokeAll
    BY <1>11, <1>13 DEF RevokeAll, accountVars, Audits
<1>14. CASE Audit
    <2>0. PICK u \in User, j \in Audits : u = Head(todo).user /\ j = Head(todo).kind
        BY <1>14, HeadTyped DEF Audit
    <2>1. Head(todo) \in Writes /\ todo # <<>> /\ todo' = Tail(todo)
        BY <1>14, HeadTyped DEF Audit
    <2>2. /\ UNCHANGED <<account, assigned>> /\ untold' = untold \ {<<u, j>>}
          /\ told' = IF j = "account" THEN [told EXCEPT ![u].account = account[u]]
                     ELSE [told EXCEPT ![u].companies = assigned[u]]
        BY <1>14, <2>0 DEF Audit, accountVars
    <2>3. Head(todo) = [kind |-> j, user |-> u]
        BY <2>0, <2>1 DEF Writes
    <2>4. Says(u, j)'
        <3>1. CASE j = "account"
            <4>1. told'[u].account = account[u]
                BY <2>1, <2>2, <3>1 DEF AuditTypes
            <4> QED
                BY <2>2, <3>1, <4>1 DEF Says
        <3>2. CASE j # "account"
            <4>1. told'[u].companies = assigned[u]
                BY <2>1, <2>2, <3>2 DEF AuditTypes
            <4> QED
                BY <2>2, <3>2, <4>1 DEF Says
        <3> QED
            BY <3>1, <3>2
    <2>5. ASSUME NEW w \in User, NEW k \in Audits, w # u \/ k # j
          PROVE  Says(w, k)' \/ <<w, k>> \in untold' \/ Announced(w, k)'
        <3>1. Says(w, k) => Says(w, k)'
            BY <2>1, <2>2, <2>5 DEF Says, AuditTypes, Audits
        <3>2. Head(todo) # [kind |-> k, user |-> w]
            BY <2>3, <2>5
        <3>3. Announced(w, k) => Announced(w, k)'
            BY <2>1, <3>2, RestAnnounced DEF Tables
        <3>4. <<w, k>> \in untold => <<w, k>> \in untold'
            BY <2>2, <2>5
        <3> QED
            BY <3>1, <3>3, <3>4 DEF Audited
    <2>6. ASSUME NEW w \in User, NEW k \in Audits
          PROVE  Says(w, k)' \/ <<w, k>> \in untold' \/ Announced(w, k)'
        <3>1. CASE w = u /\ k = j
            BY <2>4, <3>1
        <3>2. CASE w # u \/ k # j
            BY <2>5, <3>2
        <3> QED
            BY <3>1, <3>2
    <2> QED
        BY <2>6 DEF Audited
<1>15. CASE Crash
    <2> SUFFICES ASSUME NEW w \in User, NEW k \in Audits
                 PROVE  Says(w, k)' \/ <<w, k>> \in untold'
        BY DEF Audited
    <2>1. Says(w, k) => Says(w, k)'
        BY <1>15 DEF Crash, accountVars, Says
    <2>2. untold \subseteq untold'
        BY <1>15 DEF Crash
    <2>3. Announced(w, k) => <<w, k>> \in untold'
        BY <1>15 DEF Crash, Announced
    <2> QED
        BY <2>1, <2>2, <2>3 DEF Audited
<1> QED
    BY <1>3, <1>4, <1>5, <1>6, <1>7, <1>8, <1>9, <1>10, <1>12, <1>13, <1>14, <1>15 DEF Next

\* The audit log tells the role and the companies of every account, whoever
\* acted and in which order; only what a crash took between a change and its
\* entry is missing (board_api/audit.py, record, the last call of the handlers).
THEOREM AuditTells == Spec => []AuditTellsAccounts
<1>1. Init => AuditInv
    <2> SUFFICES ASSUME Init PROVE AuditTypes /\ Audited
        BY TablesInit DEF AuditInv
    <2>1. AuditTypes
        BY DEF Init, AuditTypes
    <2>2. Audited
        BY DEF Init, Audited, Says, Audits
    <2> QED
        BY <2>1, <2>2
<1>2. AuditInv => AuditTellsAccounts
    <2> SUFFICES ASSUME AuditInv, LoopFree, NEW u \in User
                 PROVE  /\ <<u, "account">> \in untold \/ told[u].account = account[u]
                        /\ <<u, "companies">> \in untold \/ told[u].companies = assigned[u]
        BY DEF AuditTellsAccounts
    <2>1. ASSUME NEW k \in Audits PROVE Says(u, k) \/ <<u, k>> \in untold
        BY DEF AuditInv, Audited, Announced, LoopFree
    <2>2. "account" \in Audits /\ "companies" \in Audits
        BY DEF Audits
    <2>3. Says(u, "account") \/ <<u, "account">> \in untold
        BY <2>1, <2>2
    <2>4. Says(u, "companies") \/ <<u, "companies">> \in untold
        BY <2>1, <2>2
    <2> QED
        BY <2>3, <2>4 DEF Says
<1> QED
    BY <1>1, <1>2, AuditedStep, PTL DEF Spec
=============================================================================
