--------------------------- MODULE AccountsProofs ---------------------------
(***************************************************************************)
(* Proofs about Accounts for any tenants, users, roles and life times, and *)
(* any number of sign-ups, logins and refreshes in progress.               *)
(***************************************************************************)
EXTENDS Accounts, TLAPS

-----------------------------------------------------------------------------
(* The inductive invariant.  A token is as old as the account its handler  *)
(* has read, so the bound on what is served needs a bound on every access  *)
(* token, and that one needs a bound on what every handler holds.          *)

\* Whoever no longer has the role of a token lost it after the account was
\* read that the token was signed from.
TokenInv(token) ==
    token.typ = "access" =>
        /\ token.exp <= clock + AccessTTL
        /\ \/ Holds(token.user, token.role)
           \/ token.exp <= lost[token.user][token.role] + AccessTTL + MaxHandling

\* The same of a handler that is going to sign.
WorkInv(w) ==
    w.pc \in {"compare", "sign"} =>
        /\ w.since <= clock /\ clock <= w.since + MaxHandling
        /\ Holds(w.user, w.role) \/ w.since <= lost[w.user][w.role]

AccountsInv ==
    /\ TypeOK
    /\ \A u \in Users, r \in Roles : lost[u][r] <= clock
    /\ \A token \in tokens : TokenInv(token)
    /\ \A h \in Handlers : WorkInv(work[h])
    /\ RightsEnd

\* What every step but a tick does to rights: whoever loses a role is noted.
LossNoted ==
    /\ clock' = clock
    /\ \A u \in Users, r \in Roles :
          \/ Holds(u, r)' /\ lost'[u][r] \in {lost[u][r], clock}
          \/ Holds(u, r) /\ lost'[u][r] = clock
          \/ ~Holds(u, r) /\ lost'[u][r] = lost[u][r]

LEMMA Constants ==
    /\ AccessTTL \in Nat /\ AccessTTL > 0 /\ RefreshTTL \in Nat /\ MaxHandling \in Nat
    /\ MaxClock \in Nat /\ MaxChanges \in Nat /\ "admin" \in Roles
BY AccountsAssumption DEF AccountsAssumption

\* A step that leaves accounts and tenants alone.
LEMMA NothingLost ==
    ASSUME AccountsInv, UNCHANGED <<clock, tenants, accounts, lost>>
    PROVE  LossNoted
BY DEF AccountsInv, LossNoted, Holds, IsUsable

LEMMA NotedIsNoted ==
    ASSUME TypeOK, Noted, UNCHANGED clock
    PROVE  LossNoted /\ lost' \in [Users -> [Roles -> Nat]]
<1>1. ASSUME NEW u \in Users, NEW r \in Roles
      PROVE  lost'[u][r] = IF Holds(u, r) /\ ~Holds(u, r)' THEN clock ELSE lost[u][r]
  BY DEF Noted
<1>2. clock \in Nat /\ \A u \in Users, r \in Roles : lost[u][r] \in Nat
  BY DEF TypeOK
<1>3. lost' \in [Users -> [Roles -> Nat]]
  <2>1. ASSUME NEW u \in Users, NEW r \in Roles
        PROVE  (IF Holds(u, r) /\ ~Holds(u, r)' THEN clock ELSE lost[u][r]) \in Nat
    BY <1>2
  <2> QED
    BY <2>1 DEF Noted
<1>4. ASSUME NEW u \in Users, NEW r \in Roles
      PROVE  \/ Holds(u, r)' /\ lost'[u][r] \in {lost[u][r], clock}
             \/ Holds(u, r) /\ lost'[u][r] = clock
             \/ ~Holds(u, r) /\ lost'[u][r] = lost[u][r]
  BY <1>1
<1> QED
  BY <1>3, <1>4 DEF LossNoted

\* The clock does not run: tokens and handlers keep their bounds.
LEMMA TokenStays ==
    ASSUME AccountsInv, LossNoted, NEW token \in Token, TokenInv(token)
    PROVE  TokenInv(token)'
<1>1. token.user \in Users /\ token.role \in Roles /\ token.exp \in Nat
  BY DEF Token
<1>2. clock \in Nat /\ lost[token.user][token.role] \in Nat
      /\ lost[token.user][token.role] <= clock
  BY <1>1 DEF AccountsInv, TypeOK
<1>3. CASE Holds(token.user, token.role)'
  BY <1>3 DEF TokenInv, LossNoted
<1>4. CASE ~Holds(token.user, token.role)' /\ Holds(token.user, token.role)
  <2>1. lost'[token.user][token.role] = clock /\ clock' = clock
    BY <1>1, <1>4 DEF LossNoted
  <2> QED
    BY <1>1, <1>2, <2>1, Constants DEF TokenInv
<1>5. CASE ~Holds(token.user, token.role)' /\ ~Holds(token.user, token.role)
  <2>1. lost'[token.user][token.role] = lost[token.user][token.role] /\ clock' = clock
    BY <1>1, <1>5 DEF LossNoted
  <2> QED
    BY <1>5, <2>1 DEF TokenInv
<1> QED
  BY <1>3, <1>4, <1>5

LEMMA WorkStays ==
    ASSUME AccountsInv, LossNoted, NEW w \in Work, WorkInv(w)
    PROVE  WorkInv(w)'
<1>1. SUFFICES ASSUME w.pc \in {"compare", "sign"}
               PROVE  WorkInv(w)'
  BY DEF WorkInv
<1>2. w.user \in Users /\ w.role \in Roles /\ w.since \in Nat
  BY <1>1 DEF Work, NoWork
<1>3. w.since <= clock /\ clock <= w.since + MaxHandling /\ clock' = clock
  BY <1>1 DEF WorkInv, LossNoted
<1>4. CASE Holds(w.user, w.role)'
  BY <1>3, <1>4 DEF WorkInv
<1>5. CASE ~Holds(w.user, w.role)' /\ Holds(w.user, w.role)
  <2>1. lost'[w.user][w.role] = clock
    BY <1>2, <1>5 DEF LossNoted
  <2> QED
    BY <1>3, <2>1 DEF WorkInv
<1>6. CASE ~Holds(w.user, w.role)' /\ ~Holds(w.user, w.role)
  <2>1. lost'[w.user][w.role] = lost[w.user][w.role]
    BY <1>2, <1>6 DEF LossNoted
  <2>2. w.since <= lost[w.user][w.role]
    BY <1>1, <1>6 DEF WorkInv
  <2> QED
    BY <1>3, <2>1, <2>2 DEF WorkInv
<1> QED
  BY <1>4, <1>5, <1>6

\* The bounds on lost itself.
LEMMA LostStays ==
    ASSUME AccountsInv, LossNoted
    PROVE  \A u \in Users, r \in Roles : lost'[u][r] <= clock'
<1>1. ASSUME NEW u \in Users, NEW r \in Roles
      PROVE  lost'[u][r] <= clock'
  <2>1. lost[u][r] <= clock /\ clock \in Nat
    BY DEF AccountsInv, TypeOK
  <2>2. lost'[u][r] \in {lost[u][r], clock} /\ clock' = clock
    BY DEF LossNoted
  <2> QED
    BY <2>1, <2>2
<1> QED
  BY <1>1

\* A step without a tick: what it does to rights is noted, the tokens and the
\* work it adds are bounded, and what it serves is.
LEMMA BoundsStay ==
    ASSUME AccountsInv, LossNoted, TypeOK', RightsEnd',
           \A token \in tokens' : token \in tokens \/ TokenInv(token)',
           \A h \in Handlers : work'[h] = work[h] \/ WorkInv(work[h])'
    PROVE  AccountsInv'
<1>1. ASSUME NEW token \in tokens'
      PROVE  TokenInv(token)'
  <2>1. CASE token \in tokens
    <3>1. token \in Token /\ TokenInv(token)
      BY <2>1 DEF AccountsInv, TypeOK
    <3> QED
      BY <3>1, TokenStays
  <2> QED
    BY <2>1, <1>1
<1>2. ASSUME NEW h \in Handlers
      PROVE  WorkInv(work[h])'
  <2>1. CASE work'[h] = work[h]
    <3>1. PICK w \in Work : w = work[h]
      BY DEF AccountsInv, TypeOK
    <3>2. WorkInv(w)
      BY <3>1 DEF AccountsInv
    <3>3. WorkInv(w)'
      BY <3>2, WorkStays
    <3> QED
      BY <2>1, <3>1, <3>3 DEF WorkInv, Holds, IsUsable
  <2>2. CASE WorkInv(work[h])'
    BY <2>2
  <2> QED
    BY <1>2, <2>1, <2>2
<1>3. \A u \in Users, r \in Roles : (lost[u][r] <= clock)'
  BY LostStays
<1> QED
  BY <1>1, <1>2, <1>3 DEF AccountsInv

-----------------------------------------------------------------------------
(* Type correctness.                                                       *)

LEMMA InitTyped == Init => AccountsInv
<1> SUFFICES ASSUME Init
             PROVE  AccountsInv
  OBVIOUS
<1>1. TypeOK
  BY Constants DEF Init, TypeOK, Work
<1>2. \A h \in Handlers : WorkInv(work[h])
  BY DEF Init, WorkInv, NoWork
<1>3. RightsEnd
  BY Constants DEF Init, RightsEnd
<1> QED
  BY <1>1, <1>2, <1>3 DEF Init, AccountsInv

\* A handler goes on with work of the right type.
LEMMA SetTyped ==
    ASSUME TypeOK, NEW h \in Handlers, NEW w \in Work, Set(h, w)
    PROVE  /\ work' \in [Handlers -> Work] /\ work'[h] = w
           /\ \A g \in Handlers : g # h => work'[g] = work[g]
BY DEF TypeOK, Set

\* What a handler reads from a usable account.
LEMMA FoundFacts ==
    ASSUME AccountsInv, NEW u \in Users, NEW step \in {"compare", "sign"}, IsUsable(u)
    PROVE  Found(u, step) \in Work /\ WorkInv(Found(u, step))
<1>1. accounts[u].role \in Roles /\ clock \in Nat
  BY DEF AccountsInv, TypeOK
<1>2. Found(u, step) \in Work
  BY <1>1 DEF Found, Work
<1>3. Holds(u, accounts[u].role)
  BY DEF Holds
<1> QED
  BY <1>1, <1>2, <1>3, Constants DEF Found, WorkInv

\* Two tokens signed now.
LEMMA SignedTyped ==
    ASSUME TypeOK, NEW typ \in {"access", "refresh"}, NEW u \in Users, NEW r \in Roles,
           NEW ttl \in Nat
    PROVE  [typ |-> typ, user |-> u, role |-> r, exp |-> clock + ttl] \in Token
BY DEF TypeOK, Token

-----------------------------------------------------------------------------
(* Every step preserves the invariant.                                     *)

\* The handler of a sign-up holds the role its transaction has given.
LEMMA SignupKeeps ==
    ASSUME AccountsInv, NEW h \in Handlers, NEW u \in Users, Signup(h, u)
    PROVE  AccountsInv'
<1>1. PICK w : w = [pc |-> "sign", user |-> u, role |-> "admin", since |-> clock]
  OBVIOUS
<1>2. w \in Work
  BY <1>1, Constants DEF AccountsInv, TypeOK, Work
<1>3. /\ work' \in [Handlers -> Work] /\ work'[h] = w
      /\ \A g \in Handlers : g # h => work'[g] = work[g]
  BY <1>1, <1>2, SetTyped DEF AccountsInv, Signup
<1>4. TypeOK'
  <2>1. tenants' \in [Tenants -> {"none", "active", "suspended"}]
    BY DEF AccountsInv, TypeOK, Signup
  <2>2. accounts' \in [Users -> [state : {"none", "active", "inactive"}, role : Roles]]
    BY Constants DEF AccountsInv, TypeOK, Signup
  <2> QED
    BY <1>3, <2>1, <2>2 DEF AccountsInv, TypeOK, Signup
<1>5. LossNoted
  <2>1. ASSUME NEW x \in Users, NEW r \in Roles, Holds(x, r)
        PROVE  Holds(x, r)'
    <3>1. accounts[x].state = "active" /\ tenants[TenantOf[x]] = "active"
      BY <2>1 DEF Holds, IsUsable
    <3>2. x # u /\ TenantOf[x] # TenantOf[u]
      BY <3>1 DEF Signup
    <3>3. accounts'[x] = accounts[x] /\ tenants'[TenantOf[x]] = tenants[TenantOf[x]]
      BY <3>2, AccountsAssumption DEF AccountsInv, TypeOK, Signup, AccountsAssumption
    <3> QED
      BY <2>1, <3>3 DEF Holds, IsUsable
  <2>2. lost' = lost /\ clock' = clock
    BY DEF Signup
  <2> QED
    BY <2>1, <2>2 DEF LossNoted
<1>6. WorkInv(work[h])'
  <2>1. accounts'[u].state = "active" /\ accounts'[u].role = "admin"
        /\ tenants'[TenantOf[u]] = "active"
    BY AccountsAssumption DEF AccountsInv, TypeOK, Signup, AccountsAssumption
  <2>2. Holds(u, "admin")'
    BY <2>1 DEF Holds, IsUsable
  <2>3. work'[h].user = u /\ work'[h].role = "admin" /\ work'[h].since = clock
    BY <1>1, <1>3
  <2>4. clock' = clock /\ clock \in Nat
    BY DEF Signup, AccountsInv, TypeOK
  <2> QED
    BY <2>2, <2>3, <2>4, Constants DEF WorkInv, Holds, IsUsable
<1>7. \A g \in Handlers : work'[g] = work[g] \/ WorkInv(work[g])'
  <2>1. ASSUME NEW g \in Handlers
        PROVE  work'[g] = work[g] \/ WorkInv(work[g])'
    BY <1>3, <1>6
  <2> QED
    BY <2>1
<1> QED
  BY <1>4, <1>5, <1>7, BoundsStay DEF AccountsInv, Signup, RightsEnd

LEMMA ChangeKeeps ==
    ASSUME AccountsInv, Noted, Change,
           tenants' \in [Tenants -> {"none", "active", "suspended"}],
           accounts' \in [Users -> [state : {"none", "active", "inactive"}, role : Roles]]
    PROVE  AccountsInv'
<1>1. LossNoted /\ lost' \in [Users -> [Roles -> Nat]]
  BY NotedIsNoted DEF AccountsInv, Change
<1>2. changes' \in 0 .. MaxChanges
  BY Constants DEF AccountsInv, TypeOK, Change
<1>3. TypeOK'
  BY <1>1, <1>2 DEF AccountsInv, TypeOK, Change
<1> QED
  BY <1>1, <1>3, BoundsStay DEF AccountsInv, Change, RightsEnd

LEMMA SetAccountKeeps ==
    ASSUME AccountsInv, NEW u \in Users, NEW state \in {"active", "inactive"},
           NEW role \in Roles, SetAccount(u, state, role)
    PROVE  AccountsInv'
<1>1. accounts' \in [Users -> [state : {"none", "active", "inactive"}, role : Roles]]
  BY DEF AccountsInv, TypeOK, SetAccount
<1> QED
  BY <1>1, ChangeKeeps DEF AccountsInv, TypeOK, SetAccount

LEMMA SetTenantKeeps ==
    ASSUME AccountsInv, NEW t \in Tenants, NEW status \in {"active", "suspended"},
           SetTenant(t, status)
    PROVE  AccountsInv'
<1>1. tenants' \in [Tenants -> {"none", "active", "suspended"}]
  BY DEF AccountsInv, TypeOK, SetTenant
<1> QED
  BY <1>1, ChangeKeeps DEF AccountsInv, TypeOK, SetTenant

\* A handler goes on and signs nothing.
LEMMA WorkKeeps ==
    ASSUME AccountsInv, NEW h \in Handlers, NEW w, w \in Work, WorkInv(w), Set(h, w),
           UNCHANGED tokens, Rest
    PROVE  AccountsInv'
<1>1. LossNoted
  BY NothingLost DEF Rest
<1>2. /\ work' \in [Handlers -> Work] /\ work'[h] = w
      /\ \A g \in Handlers : g # h => work'[g] = work[g]
  BY SetTyped DEF AccountsInv
<1>3. TypeOK'
  BY <1>2 DEF AccountsInv, TypeOK, Rest
<1>4. WorkInv(work[h])'
  BY <1>2, <1>1 DEF WorkInv, Rest, Holds, IsUsable
<1>5. \A g \in Handlers : work'[g] = work[g] \/ WorkInv(work[g])'
  <2>1. ASSUME NEW g \in Handlers
        PROVE  work'[g] = work[g] \/ WorkInv(work[g])'
    BY <1>2, <1>4
  <2> QED
    BY <2>1
<1> QED
  BY <1>1, <1>3, <1>5, BoundsStay DEF AccountsInv, Rest, RightsEnd

LEMMA LoginKeeps ==
    ASSUME AccountsInv, NEW h \in Handlers, NEW email, NEW t, Login(h, email, t)
    PROVE  AccountsInv'
<1>1. PICK u \in Users : IsUsable(u) /\ Set(h, Found(u, "compare"))
  BY DEF Login
<1>2. PICK w : w = Found(u, "compare")
  OBVIOUS
<1>3. w \in Work /\ WorkInv(w)
  BY <1>1, <1>2, FoundFacts
<1>4. Set(h, w) /\ UNCHANGED tokens /\ Rest
  BY <1>1, <1>2 DEF Login
<1> QED
  BY <1>3, <1>4, WorkKeeps

LEMMA IdleKeeps ==
    NoWork \in Work /\ WorkInv(NoWork)
BY DEF Work, WorkInv, NoWork

LEMMA CompareKeeps ==
    ASSUME AccountsInv, NEW h \in Handlers, NEW right \in BOOLEAN, Compare(h, right)
    PROVE  AccountsInv'
<1>1. PICK w : w = IF right THEN [work[h] EXCEPT !.pc = "sign"] ELSE NoWork
  OBVIOUS
<1>2. Set(h, w) /\ UNCHANGED tokens /\ Rest
  BY <1>1 DEF Compare
<1>3. w \in Work /\ WorkInv(w)
  <2>1. CASE ~right
    BY <2>1, <1>1, IdleKeeps
  <2>2. CASE right
    <3>1. work[h] \in [pc : {"compare", "sign"}, user : Users, role : Roles, since : Nat]
      BY DEF Compare, AccountsInv, TypeOK, Work, NoWork
    <3>2. w \in [pc : {"compare", "sign"}, user : Users, role : Roles, since : Nat]
          /\ w.user = work[h].user /\ w.role = work[h].role /\ w.since = work[h].since
      BY <1>1, <2>2, <3>1
    <3>3. WorkInv(work[h])
      BY DEF AccountsInv
    <3> QED
      BY <3>1, <3>2, <3>3 DEF Work, WorkInv
  <2> QED
    BY <2>1, <2>2
<1> QED
  BY <1>2, <1>3, WorkKeeps

LEMMA RefreshKeeps ==
    ASSUME AccountsInv, NEW h \in Handlers, NEW token \in tokens, Refresh(h, token)
    PROVE  AccountsInv'
<1>1. PICK w : w = [pc |-> "find", user |-> token.user]
  OBVIOUS
<1>2. token \in Token
  BY DEF AccountsInv, TypeOK
<1>3. w \in Work /\ WorkInv(w)
  BY <1>1, <1>2 DEF Token, Work, WorkInv
<1> QED
  BY <1>1, <1>3, WorkKeeps DEF Refresh

LEMMA FindUserKeeps ==
    ASSUME AccountsInv, NEW h \in Handlers, FindUser(h)
    PROVE  AccountsInv'
<1>1. PICK w : w = IF MayRefresh(work[h].user) THEN Found(work[h].user, "sign") ELSE NoWork
  OBVIOUS
<1>2. work[h].user \in Users
  BY DEF FindUser, AccountsInv, TypeOK, Work, NoWork
<1>3. w \in Work /\ WorkInv(w)
  <2>1. CASE ~MayRefresh(work[h].user)
    BY <1>1, <2>1, IdleKeeps
  <2>2. CASE MayRefresh(work[h].user)
    <3>1. PICK u \in Users : u = work[h].user
      BY <1>2
    <3>2. Found(u, "sign") \in Work /\ WorkInv(Found(u, "sign"))
      BY <2>2, <3>1, FoundFacts DEF MayRefresh
    <3> QED
      BY <1>1, <2>2, <3>1, <3>2
  <2> QED
    BY <2>1, <2>2
<1> QED
  BY <1>1, <1>3, WorkKeeps DEF FindUser

\* issueTokens: the bound on what the handler holds becomes the bound on its
\* access token.
LEMMA SignKeeps ==
    ASSUME AccountsInv, NEW h \in Handlers, Sign(h)
    PROVE  AccountsInv'
<1>1. PICK u, r, since :
         u = work[h].user /\ r = work[h].role /\ since = work[h].since
  OBVIOUS
<1>2. u \in Users /\ r \in Roles /\ since \in Nat
  BY <1>1 DEF Sign, AccountsInv, TypeOK, Work, NoWork
<1>3. clock <= since + MaxHandling /\ (Holds(u, r) \/ since <= lost[u][r])
  <2>1. WorkInv(work[h]) /\ work[h].pc = "sign"
    BY DEF AccountsInv, Sign
  <2> QED
    BY <1>1, <2>1 DEF WorkInv
<1>4. PICK access, refresh :
         /\ access = [typ |-> "access", user |-> u, role |-> r, exp |-> clock + AccessTTL]
         /\ refresh = [typ |-> "refresh", user |-> u, role |-> r, exp |-> clock + RefreshTTL]
  OBVIOUS
<1>5. tokens' = tokens \cup {access, refresh} /\ Set(h, NoWork) /\ Rest
  BY <1>1, <1>4 DEF Sign
<1>6. access \in Token /\ refresh \in Token
  BY <1>2, <1>4, SignedTyped, Constants DEF AccountsInv
<1>7. LossNoted
  BY <1>5, NothingLost DEF Rest
<1>8. TypeOK'
  <2>1. work' \in [Handlers -> Work]
    BY <1>5, IdleKeeps, SetTyped DEF AccountsInv
  <2>2. tokens' \subseteq Token
    BY <1>5, <1>6 DEF AccountsInv, TypeOK
  <2> QED
    BY <2>1, <2>2, <1>5 DEF AccountsInv, TypeOK, Rest
<1>9. TokenInv(access) /\ TokenInv(refresh)
  <2>1. clock \in Nat /\ lost[u][r] \in Nat
    BY <1>2 DEF AccountsInv, TypeOK
  <2>2. refresh.typ = "refresh" /\ access.user = u /\ access.role = r
        /\ access.exp = clock + AccessTTL
    BY <1>4
  <2>3. clock + AccessTTL <= clock + AccessTTL
        /\ (Holds(u, r) \/ clock + AccessTTL <= lost[u][r] + AccessTTL + MaxHandling)
    BY <1>2, <1>3, <2>1, Constants
  <2> QED
    BY <2>2, <2>3 DEF TokenInv
<1>10. TokenInv(access)' /\ TokenInv(refresh)'
  BY <1>6, <1>7, <1>9, TokenStays
<1>11. \A token \in tokens' : token \in tokens \/ TokenInv(token)'
  BY <1>5, <1>10
<1>12. \A g \in Handlers : work'[g] = work[g] \/ WorkInv(work[g])'
  <2>1. ASSUME NEW g \in Handlers
        PROVE  work'[g] = work[g] \/ WorkInv(work[g])'
    <3>1. CASE g = h
      <4>1. work'[g] = NoWork
        BY <3>1, <1>5, IdleKeeps, SetTyped DEF AccountsInv
      <4> QED
        BY <4>1 DEF WorkInv, NoWork
    <3>2. CASE g # h
      BY <3>2, <1>5, IdleKeeps, SetTyped DEF AccountsInv
    <3> QED
      BY <3>1, <3>2
  <2> QED
    BY <2>1
<1> QED
  BY <1>5, <1>7, <1>8, <1>11, <1>12, BoundsStay DEF AccountsInv, Rest, RightsEnd

\* The guards: the bound on the token is the bound on what is served.
LEMMA ServeKeeps ==
    ASSUME AccountsInv, NEW token \in tokens, NEW header, NEW required,
           Serve(token, header, required)
    PROVE  AccountsInv'
<1>1. token \in Token /\ TokenInv(token)
  BY DEF AccountsInv, TypeOK
<1>2. token.user \in Users /\ token.role \in Roles /\ token.exp \in Nat
  BY <1>1 DEF Token
<1>3. clock \in Nat /\ lost[token.user][token.role] \in Nat
      /\ lost[token.user][token.role] <= clock
  BY <1>2 DEF AccountsInv, TypeOK
<1>4. served' \in Nat /\ served' < AccessTTL + MaxHandling
  <2>1. token.typ = "access" /\ clock < token.exp /\ served' = Lag(token)
    BY DEF Serve
  <2>2. CASE Holds(token.user, token.role)
    BY <2>1, <2>2, Constants DEF Lag
  <2>3. CASE ~Holds(token.user, token.role)
    <3>1. token.exp <= lost[token.user][token.role] + AccessTTL + MaxHandling
      BY <1>1, <2>1, <2>3 DEF TokenInv
    <3>2. served' = clock - lost[token.user][token.role]
      BY <2>1, <2>3 DEF Lag
    <3> QED
      BY <1>2, <1>3, <2>1, <3>1, <3>2, Constants
  <2> QED
    BY <2>2, <2>3
<1>5. LossNoted
  BY NothingLost DEF Serve
<1>6. TypeOK'
  BY <1>4 DEF AccountsInv, TypeOK, Serve
<1> QED
  BY <1>4, <1>5, <1>6, BoundsStay DEF RightsEnd, Serve

LEMMA TickKeeps ==
    ASSUME AccountsInv, Tick
    PROVE  AccountsInv'
<1>1. clock \in Nat /\ clock' = clock + 1 /\ clock' \in 0 .. MaxClock
  BY Constants DEF AccountsInv, TypeOK, Tick
<1>2. TypeOK'
  BY <1>1 DEF AccountsInv, TypeOK, Tick
<1>3. ASSUME NEW u \in Users, NEW r \in Roles
      PROVE  (Holds(u, r)' <=> Holds(u, r)) /\ lost'[u][r] = lost[u][r]
             /\ lost'[u][r] <= clock'
  <2>1. lost[u][r] \in Nat /\ lost[u][r] <= clock
    BY DEF AccountsInv, TypeOK
  <2> QED
    BY <1>1, <2>1 DEF Tick, Holds, IsUsable
<1>4. ASSUME NEW token \in tokens'
      PROVE  TokenInv(token)'
  <2>1. token \in Token /\ TokenInv(token)
    BY DEF Tick, AccountsInv, TypeOK
  <2>2. token.user \in Users /\ token.role \in Roles /\ token.exp \in Nat
    BY <2>1 DEF Token
  <2>3. token.typ = "access" => token.exp <= clock' + AccessTTL
    BY <1>1, <2>1, <2>2, Constants DEF TokenInv
  <2> QED
    BY <1>3, <2>1, <2>2, <2>3 DEF TokenInv
<1>5. ASSUME NEW h \in Handlers
      PROVE  WorkInv(work[h])'
  <2>1. SUFFICES ASSUME work[h].pc \in {"compare", "sign"}
                 PROVE  WorkInv(work[h])'
    BY DEF Tick, WorkInv
  <2>2. work[h].user \in Users /\ work[h].role \in Roles /\ work[h].since \in Nat
    BY <2>1 DEF AccountsInv, TypeOK, Work, NoWork
  <2>3. WorkInv(work[h]) /\ clock - work[h].since < MaxHandling
    BY <2>1 DEF AccountsInv, Tick
  <2>4. work[h].since <= clock' /\ clock' <= work[h].since + MaxHandling
    BY <1>1, <2>1, <2>2, <2>3, Constants DEF WorkInv
  <2>5. Holds(work[h].user, work[h].role)' \/ work[h].since <= lost'[work[h].user][work[h].role]
    <3>1. PICK u \in Users, r \in Roles : u = work[h].user /\ r = work[h].role
      BY <2>2
    <3>2. Holds(u, r) \/ work[h].since <= lost[u][r]
      BY <3>1, <2>1, <2>3 DEF WorkInv
    <3>3. Holds(u, r)' \/ work[h].since <= lost'[u][r]
      BY <3>2, <1>3
    <3> QED
      BY <3>1, <3>3 DEF Holds, Tick, IsUsable
  <2> QED
    BY <2>4, <2>5 DEF WorkInv, Tick, Holds, IsUsable
<1> QED
  BY <1>2, <1>3, <1>4, <1>5 DEF AccountsInv, Tick, RightsEnd

LEMMA InvariantStep ==
    AccountsInv /\ [Next]_vars => AccountsInv'
<1> SUFFICES ASSUME AccountsInv, [Next]_vars
             PROVE  AccountsInv'
  OBVIOUS
<1>1. CASE Tick
  BY <1>1, TickKeeps
<1>2. CASE \E u \in Users, state \in {"active", "inactive"}, role \in Roles :
              SetAccount(u, state, role)
  BY <1>2, SetAccountKeeps
<1>3. CASE \E t \in Tenants, status \in {"active", "suspended"} : SetTenant(t, status)
  BY <1>3, SetTenantKeeps
<1>4. ASSUME NEW h \in Handlers,
             \/ \E u \in Users : Signup(h, u)
             \/ \E u \in Users, t \in Tenants \cup {NoTenant} : Login(h, EmailOf[u], t)
             \/ \E right \in BOOLEAN : Compare(h, right)
             \/ \E token \in tokens : Refresh(h, token)
             \/ FindUser(h) \/ Sign(h)
      PROVE  AccountsInv'
  BY <1>4, SignupKeeps, LoginKeeps, CompareKeeps, RefreshKeeps, FindUserKeeps, SignKeeps
<1>5. CASE \E token \in tokens, header \in Tenants \cup {NoTenant}, required \in Required :
              Serve(token, header, required)
  BY <1>5, ServeKeeps
<1>6. CASE UNCHANGED vars
  <2>1. LossNoted
    BY <1>6, NothingLost DEF vars
  <2> QED
    BY <1>6, <2>1, BoundsStay DEF vars, AccountsInv, TypeOK, RightsEnd
<1> QED
  BY <1>1, <1>2, <1>3, <1>4, <1>5, <1>6 DEF Next

LEMMA InvariantHolds == Spec => []AccountsInv
BY InitTyped, InvariantStep, PTL DEF Spec

\* Type correctness, for any number of users and handlers.
THEOREM AccountsTypeCorrect == Spec => []TypeOK
<1>1. AccountsInv => TypeOK
  BY DEF AccountsInv
<1> QED
  BY <1>1, InvariantHolds, PTL

\* Whoever is deactivated, changes roles or belongs to a suspended tenant is
\* served with the old role for less than the life of one access token after
\* the last login or refresh that had read the account, however many tokens
\* were refreshed in between (AuthService.refresh reads the account, the
\* guards do not).
THEOREM RightsRunOut == Spec => []RightsEnd
<1>1. AccountsInv => RightsEnd
  BY DEF AccountsInv
<1> QED
  BY <1>1, InvariantHolds, PTL
=============================================================================
