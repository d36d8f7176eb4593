------------------------------ MODULE Accounts ------------------------------
(***************************************************************************)
(* Accounts and tokens of the backend: sign-up (TenancyService), login and *)
(* refresh (AuthService) and the guards every request passes (Tenant-      *)
(* Middleware, JwtAuthGuard, PermissionGuard).                             *)
(*                                                                         *)
(* A token says who its bearer was when it was signed.  The guards believe *)
(* it until it expires; only refresh and me look at the account again.     *)
(***************************************************************************)
EXTENDS Naturals, FiniteSets

CONSTANTS
    Tenants, Users,
    TenantOf, EmailOf,      \* of each user
    NoTenant,               \* a login or a header without a tenant
    Roles,                  \* the roles users are given
    Required,               \* the permissions some routes ask for
    AccessTTL, RefreshTTL,  \* JWT_ACCESS_TTL, JWT_REFRESH_TTL
    Handlers,               \* sign-ups, logins and refreshes in progress
    MaxHandling,            \* bound: ticks from reading an account to signing its tokens
    MaxClock,               \* bound: the clock
    MaxChanges              \* bound: changes of accounts and tenants

ASSUME AccountsAssumption ==
    /\ TenantOf \in [Users -> Tenants]
    /\ NoTenant \notin Tenants
    /\ "admin" \in Roles
    /\ {AccessTTL, RefreshTTL, MaxHandling, MaxClock, MaxChanges} \subseteq Nat
    /\ AccessTTL > 0

VARIABLES
    clock,
    tenants,   \* the status of each tenant
    accounts,  \* the state and the role of each user
    lost,      \* when a user last lost a role, by losing it or the account
    tokens,    \* the tokens that have been signed and are not expired
    work,      \* what each handler is doing
    served,    \* how long ago the bearer of the last request lost the token's role
    changes    \* changes so far

vars == <<clock, tenants, accounts, lost, tokens, work, served, changes>>

Token == [typ : {"access", "refresh"}, user : Users, role : Roles, exp : Nat]
NoWork == [pc |-> "idle"]
Work ==
    {NoWork}
    \cup [pc : {"find"}, user : Users]
    \cup [pc : {"compare", "sign"}, user : Users, role : Roles, since : Nat]

Init ==
    /\ clock = 0
    /\ tenants = [t \in Tenants |-> "none"]
    /\ accounts = [u \in Users |-> [state |-> "none", role |-> "admin"]]
    /\ lost = [u \in Users |-> [r \in Roles |-> 0]]
    /\ tokens = {}
    /\ work = [h \in Handlers |-> NoWork]
    /\ served = 0
    /\ changes = 0

-----------------------------------------------------------------------------
(* Tenants and their users.                                                *)

\* isActive: true, deletedAt: null, and the same of the tenant.
IsUsable(u) == accounts[u].state = "active" /\ tenants[TenantOf[u]] = "active"

Holds(u, r) == IsUsable(u) /\ accounts[u].role = r

\* A change notes who has lost a role.
Noted ==
    lost' = [u \in Users |-> [r \in Roles |->
                IF Holds(u, r) /\ ~Holds(u, r)' THEN clock ELSE lost[u][r]]]

Change ==
    /\ changes < MaxChanges
    /\ changes' = changes + 1
    /\ UNCHANGED <<clock, tokens, work, served>>

\* The users endpoint: an account is made or changed, deactivated or deleted
\* (which is the same to everyone who asks).
SetAccount(u, state, role) ==
    /\ tenants[TenantOf[u]] # "none"
    /\ accounts' = [accounts EXCEPT ![u] = [state |-> state, role |-> role]]
    /\ UNCHANGED tenants
    /\ Noted /\ Change

SetTenant(t, status) ==
    /\ tenants[t] # "none"
    /\ tenants' = [tenants EXCEPT ![t] = status]
    /\ UNCHANGED accounts
    /\ Noted /\ Change

-----------------------------------------------------------------------------
(* Sign-up, login and refresh.                                             *)

Set(h, w) == work' = [work EXCEPT ![h] = w]
Rest == UNCHANGED <<clock, tenants, accounts, lost, served, changes>>

\* The account as a handler has read it.
Found(u, step) == [pc |-> step, user |-> u, role |-> accounts[u].role, since |-> clock]

\* findMany and the test for several accounts of the same address.
Login(h, email, t) ==
    LET candidates == {u \in Users : /\ EmailOf[u] = email /\ IsUsable(u)
                                     /\ t \in {NoTenant, TenantOf[u]}}
    IN  /\ work[h] = NoWork
        /\ Cardinality(candidates) = 1
        /\ \E u \in candidates : Set(h, Found(u, "compare"))
        /\ UNCHANGED tokens /\ Rest

\* signup: the tenant and its administrator in one transaction, unless the slug
\* is taken; the session of the user it has made is signed afterwards.
Signup(h, u) ==
    LET t == TenantOf[u]
    IN  /\ work[h] = NoWork
        /\ tenants[t] = "none"
        /\ tenants' = [tenants EXCEPT ![t] = "active"]
        /\ accounts' = [accounts EXCEPT ![u] = [state |-> "active", role |-> "admin"]]
        /\ Set(h, [pc |-> "sign", user |-> u, role |-> "admin", since |-> clock])
        /\ UNCHANGED <<clock, lost, tokens, served, changes>>

\* The comparison of the passwords takes its time; a wrong one ends the login.
Compare(h, right) ==
    /\ work[h].pc = "compare"
    /\ Set(h, IF right THEN [work[h] EXCEPT !.pc = "sign"] ELSE NoWork)
    /\ UNCHANGED tokens /\ Rest

\* The refresh token is verified.
Refresh(h, token) ==
    /\ work[h] = NoWork
    /\ token.typ = "refresh" /\ clock < token.exp
    /\ Set(h, [pc |-> "find", user |-> token.user])
    /\ UNCHANGED tokens /\ Rest

\* Mutant: a refresh does not ask whether the account is active.
MayRefresh_Always(u) == accounts[u].state # "none"

MayRefresh(u) == IsUsable(u)

\* The user of the token is read: who is active gets tokens with the role of now.
FindUser(h) ==
    /\ work[h].pc = "find"
    /\ LET u == work[h].user
       IN  Set(h, IF MayRefresh(u) THEN Found(u, "sign") ELSE NoWork)
    /\ UNCHANGED tokens /\ Rest

\* issueTokens
Sign(h) ==
    /\ work[h].pc = "sign"
    /\ LET Signed(typ, ttl) == [typ |-> typ, user |-> work[h].user, role |-> work[h].role,
                                exp |-> clock + ttl]
       IN  tokens' = tokens \cup {Signed("access", AccessTTL), Signed("refresh", RefreshTTL)}
    /\ Set(h, NoWork)
    /\ Rest

-----------------------------------------------------------------------------
(* A request with a bearer token.                                          *)

Entity(keys, right) == {<<"entity", key, right>> : key \in keys}

OfficeWrites ==
    {"customers", "objects", "installations", "work_orders", "work_order_installations",
     "materials", "reports"}

FieldWrites ==
    {"work_orders", "checklist_answers", "measurements", "defects", "photos", "time_entries",
     "work_order_materials", "work_order_service_lines", "reports"}

AllRead ==
    {"customers", "objects", "installations", "work_orders", "work_order_installations",
     "checklist_templates", "checklist_template_items", "checklist_answers", "measurements",
     "defects", "photos", "time_entries", "materials", "work_order_materials",
     "tariff_catalog_items", "object_tariff_assignments", "work_order_service_lines",
     "report_templates", "reports", "legacy_import_records"}

ROLE_PERMISSIONS ==
    LET both == {<<"tenancy", "read">>, <<"sync", "pull">>, <<"files", "write">>,
                 <<"reports", "generate">>, <<"push", "device_tokens", "write">>}
                    \cup Entity(AllRead, "read")
    IN  [admin |-> {<<"*">>},
         dispatcher |-> both \cup Entity(OfficeWrites, "write")
                             \cup {<<"disposition", "read">>, <<"disposition", "write">>},
         technician |-> both \cup Entity(FieldWrites, "write")
                             \cup {<<"sync", "push">>, <<"entity", "tenants", "read">>}]

roleHasAllPermissions(role, required) ==
    LET permissions == IF role \in DOMAIN ROLE_PERMISSIONS THEN ROLE_PERMISSIONS[role] ELSE {}
    IN  <<"*">> \in permissions \/ required \subseteq permissions

\* How long the bearer has not had the role of the token.
Lag(token) == IF Holds(token.user, token.role) THEN 0 ELSE clock - lost[token.user][token.role]

\* The header names the tenant of the token or none, the token is an access
\* token that has not expired, and its role has the permissions of the route.
Serve(token, header, required) ==
    /\ header \in {NoTenant, TenantOf[token.user]}
    /\ token.typ = "access" /\ clock < token.exp
    /\ roleHasAllPermissions(token.role, required)
    /\ served' = Lag(token)
    /\ UNCHANGED <<clock, tenants, accounts, lost, tokens, work, changes>>

Tick ==
    /\ clock < MaxClock
    /\ \A h \in Handlers : work[h].pc \in {"compare", "sign"} => clock - work[h].since < MaxHandling
    /\ clock' = clock + 1
    /\ tokens' = {token \in tokens : clock' < token.exp}
    /\ UNCHANGED <<tenants, accounts, lost, work, served, changes>>

Next ==
    \/ Tick
    \/ \E u \in Users, state \in {"active", "inactive"}, role \in Roles :
          SetAccount(u, state, role)
    \/ \E t \in Tenants, status \in {"active", "suspended"} : SetTenant(t, status)
    \/ \E h \in Handlers :
          \/ \E u \in Users : Signup(h, u)
          \/ \E u \in Users, t \in Tenants \cup {NoTenant} : Login(h, EmailOf[u], t)
          \/ \E right \in BOOLEAN : Compare(h, right)
          \/ \E token \in tokens : Refresh(h, token)
          \/ FindUser(h) \/ Sign(h)
    \/ \E token \in tokens, header \in Tenants \cup {NoTenant}, required \in Required :
          Serve(token, header, required)

Spec == Init /\ [][Next]_vars

-----------------------------------------------------------------------------
(* Properties.                                                             *)

TypeOK ==
    /\ clock \in 0 .. MaxClock
    /\ tenants \in [Tenants -> {"none", "active", "suspended"}]
    /\ accounts \in [Users -> [state : {"none", "active", "inactive"}, role : Roles]]
    /\ lost \in [Users -> [Roles -> Nat]]
    /\ tokens \subseteq Token
    /\ work \in [Handlers -> Work]
    /\ served \in Nat
    /\ changes \in 0 .. MaxChanges

\* Whoever is deactivated, loses a role or whose tenant is suspended is served
\* with it for less than the life of one access token after the last login or
\* refresh that had begun, through any chain of refreshes.
RightsEnd == served < AccessTTL + MaxHandling
=============================================================================
