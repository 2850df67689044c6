------------------------------- MODULE Access -------------------------------
(***************************************************************************)
(* The people of the Board: accounts, refresh tokens and the audit log     *)
(* (modules/board_api/auth, modules/board_api/routes/users.py and          *)
(* modules/board_api/audit.py).                                            *)
(*                                                                         *)
(* A request is in two parts.  The dependency require_user runs in a       *)
(* thread and reads the caller's account; the handler, which never awaits, *)
(* runs on the event loop some time later and trusts what was read.  A     *)
(* handler is several transactions, and the process may die between them.  *)
(***************************************************************************)
EXTENDS Naturals, Sequences, FiniteSets

CONSTANTS
    User,    \* ids of accounts
    Token,   \* refresh tokens
    Company, \* companies that operators are assigned to
    Nobody,  \* no user, no token
    MaxCrashes   \* bound: crashes of the process

ASSUME AccessConstants ==
    /\ IsFiniteSet(User)
    /\ Nobody \notin User \cup Token
    /\ MaxCrashes \in Nat

Roles == {"admin", "operator", "observer"}

VARIABLES
    account,  \* role of each user, "none" before and "deleted" after its life
    assigned, \* companies of each user, the table company_assignments
    token,    \* the table refresh_tokens
    access,   \* users who hold an access token that has not expired
    asked,    \* admins whose request waits for its handler
    todo,     \* transactions that the running handler still has to make
    told,     \* what the audit log says of each account and its companies
    untold,   \* changes of them that a crash kept out of the log
    crashes   \* crashes so far

vars == <<account, assigned, token, access, asked, todo, told, untold, crashes>>
accountVars == <<account, assigned>>

\* A token belongs to a user and descends, by rotation, from a login.
NoToken == [user |-> Nobody, login |-> Nobody, state |-> "none"]
States == {"none", "live", "revoked", "expired"}

\* Writes that follow the first one of a handler, about a user.
Audits == {"account", "companies"}   \* entries of the audit log
Writes == [kind : {"issue", "revoke_all"} \cup Audits, user : User]

TypeOK ==
    /\ account \in [User -> Roles \cup {"none", "deleted"}]
    /\ assigned \in [User -> SUBSET Company]
    /\ token \in [Token -> [user : User \cup {Nobody}, login : Token \cup {Nobody},
                            state : States]]
    /\ access \subseteq User
    /\ asked \subseteq User
    /\ todo \in Seq(Writes)
    /\ told \in [User -> [account : Roles \cup {"none", "deleted"}, companies : SUBSET Company]]
    /\ untold \subseteq User \X Audits
    /\ crashes \in 0 .. MaxCrashes

Exists(u) == account[u] \in Roles   \* get(): deleted = 0
Admins == {u \in User : account[u] = "admin"}
LoopFree == todo = <<>>
Live(t) == token[t].state = "live"
TokensLeft == \E t \in Token : token[t] = NoToken   \* bound: logins and rotations

Then(kinds, u) == todo' = [i \in DOMAIN kinds |-> [kind |-> kinds[i], user |-> u]]

-----------------------------------------------------------------------------
(* Accounts. *)

\* register(): the first account is an admin, whatever was asked for.
RoleOf(wanted) == IF Admins = {} THEN "admin" ELSE wanted

\* The route /auth/register: an observer, logged in at once.
Register(u) ==
    /\ LoopFree /\ TokensLeft
    /\ account[u] = "none"
    /\ account' = [account EXCEPT ![u] = RoleOf("observer")]
    /\ Then(<<"issue", "account">>, u)
    /\ UNCHANGED <<assigned, token, access, asked, told, untold, crashes>>

\* require_user and require_user_admin, in a thread.
Authenticate(u) ==
    /\ u \in access
    /\ account[u] = "admin"
    /\ asked' = asked \cup {u}
    /\ UNCHANGED <<accountVars, token, access, todo, told, untold, crashes>>

\* A handler that only an admin reaches.
Handles(by) == LoopFree /\ by \in asked /\ asked' = asked \ {by}

CreateUser(by, u, role) ==
    /\ Handles(by)
    /\ account[u] = "none"
    /\ account' = [account EXCEPT ![u] = RoleOf(role)]
    /\ Then(<<"account">>, u)
    /\ UNCHANGED <<assigned, token, access, told, untold, crashes>>

\* Mutant: the last admin may be demoted.
MayDemoteAny(u, role) == TRUE

\* set_role does not demote the last admin.
MayDemote(u, role) ==
    account[u] = "admin" /\ role # "admin" => Cardinality(Admins) > 1

SetRole(by, u, role) ==
    /\ Handles(by)
    /\ Exists(u)
    /\ MayDemote(u, role)
    /\ account' = [account EXCEPT ![u] = role]
    /\ Then(<<"account">>, u)
    /\ UNCHANGED <<assigned, token, access, told, untold, crashes>>

\* soft_delete: not the last admin.
SoftDelete(u) ==
    /\ Exists(u)
    /\ account[u] = "admin" => Cardinality(Admins) > 1
    /\ account' = [account EXCEPT ![u] = "deleted"]

\* Mutant: nothing is audited.
DeleteUserQuietly(by, u) ==
    /\ Handles(by)
    /\ u # by
    /\ SoftDelete(u)
    /\ Then(<<"revoke_all">>, u)
    /\ UNCHANGED <<assigned, token, access, told, untold, crashes>>

\* The route: not oneself.
DeleteUser(by, u) ==
    /\ Handles(by)
    /\ u # by
    /\ SoftDelete(u)
    /\ Then(<<"revoke_all", "account">>, u)
    /\ UNCHANGED <<assigned, token, access, told, untold, crashes>>

\* assign_company and unassign_company, and their routes.
AssignCompany(u, c) == assigned' = [assigned EXCEPT ![u] = @ \cup {c}]
UnassignCompany(u, c) == assigned' = [assigned EXCEPT ![u] = @ \ {c}]

AddAssignment(by, u, c) ==
    /\ Handles(by)
    /\ Exists(u)
    /\ AssignCompany(u, c)
    /\ Then(<<"companies">>, u)
    /\ UNCHANGED <<account, token, access, told, untold, crashes>>

RemoveAssignment(by, u, c) ==
    /\ Handles(by)
    /\ UnassignCompany(u, c)
    /\ Then(<<"companies">>, u)
    /\ UNCHANGED <<account, token, access, told, untold, crashes>>

-----------------------------------------------------------------------------
(* Tokens.  Their routes also audit, which tells nothing of the accounts. *)

Login(u) ==
    /\ LoopFree /\ TokensLeft
    /\ Exists(u)
    /\ Then(<<"issue">>, u)
    /\ UNCHANGED <<accountVars, token, access, asked, told, untold, crashes>>

LoginRoute(u) == Login(u)

\* issue_pair, a step of login and register.
Issue(t) ==
    /\ todo # <<>> /\ Head(todo).kind = "issue"
    /\ token[t] = NoToken
    /\ token' = [token EXCEPT ![t] =
                    [user |-> Head(todo).user, login |-> t, state |-> "live"]]
    /\ access' = access \cup {Head(todo).user}
    /\ todo' = Tail(todo)
    /\ UNCHANGED <<accountVars, asked, told, untold, crashes>>

\* Mutant: the old token stays valid.
SwapRefreshKeepsOld(t, n) ==
    /\ token[n] = NoToken
    /\ token' = [token EXCEPT ![n] = [token[t] EXCEPT !.state = "live"]]

\* swap_refresh: the token is revoked and another one issued in its place, in
\* one transaction.
SwapRefresh(t, n) ==
    /\ token[n] = NoToken
    /\ token' = [token EXCEPT ![t].state = "revoked", ![n] = [token[t] EXCEPT !.state = "live"]]

\* refresh: the account is looked up, then the token is swapped.
Refresh(t, n) ==
    /\ LoopFree
    /\ Live(t)
    /\ Exists(token[t].user)
    /\ SwapRefresh(t, n)
    /\ access' = access \cup {token[t].user}
    /\ UNCHANGED <<accountVars, asked, todo, told, untold, crashes>>

RefreshRoute(t, n) == Refresh(t, n)

\* revoke_refresh
RevokeRefresh(t) == token' = [token EXCEPT ![t].state = "revoked"]

\* logout, by its user or by another who is logged in.
Logout(t) ==
    /\ LoopFree
    /\ Live(t)
    /\ \E u \in access : Exists(u)
    /\ RevokeRefresh(t)
    /\ UNCHANGED <<accountVars, access, asked, todo, told, untold, crashes>>

Expire ==
    /\ LoopFree
    /\ \/ \E u \in access : access' = access \ {u} /\ UNCHANGED token
       \/ \E t \in Token : /\ Live(t)
                           /\ token' = [token EXCEPT ![t].state = "expired"]
                           /\ UNCHANGED access
    /\ UNCHANGED <<accountVars, asked, todo, told, untold, crashes>>

-----------------------------------------------------------------------------
(* The rest of a handler, and the process. *)

\* revoke_all_for_user
RevokeAll ==
    /\ todo # <<>> /\ Head(todo).kind = "revoke_all"
    /\ token' = [t \in Token |-> IF token[t].user = Head(todo).user /\ Live(t)
                                 THEN [token[t] EXCEPT !.state = "revoked"] ELSE token[t]]
    /\ todo' = Tail(todo)
    /\ UNCHANGED <<accountVars, access, asked, told, untold, crashes>>

\* AuditLog.record: the last write of every handler that changes an account.
Audit ==
    /\ todo # <<>> /\ Head(todo).kind \in Audits
    /\ LET u == Head(todo).user
       IN /\ told' = IF Head(todo).kind = "account"
                     THEN [told EXCEPT ![u].account = account[u]]
                     ELSE [told EXCEPT ![u].companies = assigned[u]]
          /\ untold' = untold \ {<<u, Head(todo).kind>>}
    /\ todo' = Tail(todo)
    /\ UNCHANGED <<accountVars, token, access, asked, crashes>>

\* The process dies: the requests are gone, the tokens are not.
Crash ==
    /\ crashes < MaxCrashes
    /\ crashes' = crashes + 1
    /\ asked' = {}
    /\ todo' = <<>>
    /\ untold' = untold \cup ({<<todo[i].user, todo[i].kind>> : i \in DOMAIN todo}
                                \cap (User \X Audits))
    /\ UNCHANGED <<accountVars, token, access, told>>

Init ==
    /\ account = [u \in User |-> "none"]
    /\ assigned = [u \in User |-> {}]
    /\ token = [t \in Token |-> NoToken]
    /\ access = {}
    /\ asked = {}
    /\ todo = <<>>
    /\ told = [u \in User |-> [account |-> "none", companies |-> {}]]
    /\ untold = {}
    /\ crashes = 0

Next ==
    \/ \E u \in User : Register(u) \/ Authenticate(u) \/ LoginRoute(u)
    \/ \E by, u \in User, c \in Company : AddAssignment(by, u, c) \/ RemoveAssignment(by, u, c)
    \/ \E by, u \in User, role \in Roles : CreateUser(by, u, role) \/ SetRole(by, u, role)
    \/ \E by, u \in User : DeleteUser(by, u)
    \/ \E t, n \in Token : RefreshRoute(t, n)
    \/ \E t \in Token : Issue(t) \/ Logout(t)
    \/ Expire \/ RevokeAll \/ Audit \/ Crash

Spec == Init /\ [][Next]_vars
-----------------------------------------------------------------------------
(* Properties. *)

\* The Board is never left without an admin, although an admin's request acts
\* on an account read earlier: two admins may demote and delete each other at
\* the same time.
AdminRemains == (\E u \in User : account[u] # "none") => Admins # {}

\* A login has one valid refresh token at most, whatever is refreshed, repeated
\* or revoked: rotation never leaves two.
OneTokenPerLogin ==
    \A t, n \in Token :
        t # n /\ Live(t) /\ Live(n) => token[t].login # token[n].login

\* The audit log tells the role and the companies of every account, and which
\* are gone; only what a crash took between a change and its entry is missing.
AuditTellsAccounts ==
    LoopFree => \A u \in User :
        /\ <<u, "account">> \in untold \/ told[u].account = account[u]
        /\ <<u, "companies">> \in untold \/ told[u].companies = assigned[u]
=============================================================================
