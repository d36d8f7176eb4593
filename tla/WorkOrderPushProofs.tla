------------------------ MODULE WorkOrderPushProofs ------------------------
(***************************************************************************)
(* Proofs about WorkOrderPush for any users, devices, tokens and requests  *)
(* and every fault: its types, who a device's token belongs to, and that   *)
(* the assignee is told.                                                   *)
(***************************************************************************)
EXTENDS WorkOrderPush, FiniteSetTheorems, TLAPS

-----------------------------------------------------------------------------
(* Types.                                                                  *)

LEMMA Constants ==
    /\ none \notin Users /\ keep \notin Users /\ keep # none
    /\ FirstToken \in [Devices -> Tokens]
BY PushAssumption DEF PushAssumption

\* A request that is at a step of its own and holds nothing.
LEMMA AtIsRequest ==
    \A step \in {"idle", "done"} \cup Handling \cup Notifying : At(step) \in Request
BY Constants DEF At, Request

LEMMA TypeInit == Init => TypeOK
<1> SUFFICES ASSUME Init PROVE TypeOK
  OBVIOUS
<1>1. req \in [Requests -> Request]
  BY AtIsRequest DEF Init
<1>2. order \in [state : {"new", "open", "deleted"}, assignedUserId : Users \cup {none}]
  BY DEF Init
<1>3. used \subseteq Tokens /\ token \in [Devices -> Tokens]
  BY Constants DEF Init
<1> QED
  BY <1>1, <1>2, <1>3 DEF Init, TypeOK

\* One request moves.
LEMMA RequestMoves ==
    ASSUME TypeOK, NEW r \in Requests, NEW x \in Request, req' = [req EXCEPT ![r] = x]
    PROVE  req' \in [Requests -> Request]
BY DEF TypeOK

LEMMA RequestGoes ==
    ASSUME TypeOK, NEW r \in Requests,
           NEW step \in {"idle", "done"} \cup Handling \cup Notifying, GoTo(r, step)
    PROVE  req' \in [Requests -> Request]
<1>1. [req[r] EXCEPT !.pc = step] \in Request
  BY DEF TypeOK, Request
<1>2. req' = [req EXCEPT ![r] = [req[r] EXCEPT !.pc = step]]
  BY DEF GoTo
<1> QED
  BY <1>1, <1>2, RequestMoves

LEMMA RequestEnds ==
    ASSUME TypeOK, NEW r \in Requests, End(r)
    PROVE  req' \in [Requests -> Request]
BY AtIsRequest, RequestMoves DEF End

LEMMA TypeStep == ASSUME TypeOK, [Next]_vars PROVE TypeOK'
<1> USE DEF orderVars, deviceVars
<1>1. ASSUME NEW r \in Requests, NEW k \in {"create", "dispatch", "update"},
             NEW u \in Users \cup {none, keep}, Begin(r, k, u)
      PROVE  TypeOK'
  <2> DEFINE first == CASE k = "create" -> "write"
                        [] k = "dispatch" /\ u \in Users -> "check"
                        [] OTHER -> "read"
             x == [req[r] EXCEPT !.pc = first, !.kind = k, !.assignee = u]
  <2>1. x \in Request
    BY DEF TypeOK, Request, Handling
  <2>2. req' = [req EXCEPT ![r] = x]
    BY <1>1 DEF Begin
  <2> QED
    BY <1>1, <2>1, <2>2, RequestMoves DEF Begin, TypeOK
<1>2. ASSUME NEW r \in Requests, CheckAssignee(r) PROVE TypeOK'
  <2>1. req' \in [Requests -> Request]
    BY <1>2, RequestGoes, RequestEnds DEF CheckAssignee, Handling
  <2> QED
    BY <1>2, <2>1 DEF CheckAssignee, TypeOK
<1>3. ASSUME NEW r \in Requests, ReadExisting(r) PROVE TypeOK'
  <2> DEFINE x == [req[r] EXCEPT !.pc = "write", !.previous = Existing(r)]
  <2>1. x \in Request
    BY DEF TypeOK, Request, Handling, Existing
  <2>2. req' \in [Requests -> Request]
    BY <1>3, <2>1, RequestMoves, RequestEnds DEF ReadExisting
  <2> QED
    BY <1>3, <2>2 DEF ReadExisting, TypeOK
<1>4. ASSUME NEW r \in Requests, Write(r) PROVE TypeOK'
  <2> DEFINE u == IF req[r].assignee = keep THEN order.assignedUserId ELSE req[r].assignee
  <2>1. req' \in [Requests -> Request]
    BY <1>4, RequestGoes, RequestEnds DEF Write, Handling, Notifying
  <2>2. u \in Users \cup {none}
    BY DEF TypeOK, Request
  <2>3. ASSUME Assign(u)
        PROVE  /\ order' \in [state : {"new", "open", "deleted"}, assignedUserId : Users \cup {none}]
               /\ owed' \subseteq Devices
    BY <2>2, <2>3 DEF Assign, ReachableFor, TypeOK
  <2>4. Assign(u) \/ UNCHANGED <<order, owed>>
    BY <1>4 DEF Write
  <2> QED
    BY <1>4, <2>1, <2>3, <2>4 DEF Write, TypeOK
<1>5. ASSUME NEW r \in Requests, Reread(r) PROVE TypeOK'
  <2>1. req' \in [Requests -> Request]
    BY <1>5, RequestGoes, RequestEnds DEF Reread, Notifying
  <2> QED
    BY <1>5, <2>1 DEF Reread, TypeOK
<1>6. ASSUME NEW r \in Requests, NotifyRead(r) PROVE TypeOK'
  <2> DEFINE x == [At("tokens") EXCEPT !.assignee = order.assignedUserId]
  <2>1. x \in Request
    BY DEF At, Request, Notifying, TypeOK
  <2>2. req' \in [Requests -> Request]
    BY <1>6, <2>1, RequestMoves, RequestEnds DEF NotifyRead
  <2> QED
    BY <1>6, <2>2 DEF NotifyRead, TypeOK
<1>7. ASSUME NEW r \in Requests, ReadTokens(r) PROVE TypeOK'
  <2> DEFINE found == {t \in Tokens : /\ rows[t] = [userId |-> req[r].assignee, revoked |-> FALSE]
                                      /\ req[r].assignee \notin inactive}
             x == [req[r] EXCEPT !.sendTo = found, !.pc = IF found = {} THEN "audit" ELSE "send"]
  <2>1. x \in Request
    BY DEF TypeOK, Request, Notifying
  <2>2. req' = [req EXCEPT ![r] = x]
    BY <1>7 DEF ReadTokens
  <2> QED
    BY <1>7, <2>1, <2>2, RequestMoves DEF ReadTokens, TypeOK
<1>8. ASSUME NEW r \in Requests, Send(r) PROVE TypeOK'
  <2> DEFINE invalid == {t \in req[r].sendTo : Invalid(t)}
             x == [req[r] EXCEPT !.sendTo = invalid,
                                 !.pc = IF invalid = {} THEN "audit" ELSE "revoke"]
  <2>1. x \in Request
    BY DEF TypeOK, Request, Notifying
  <2>2. req' = [req EXCEPT ![r] = x]
    BY <1>8 DEF Send
  <2>3. owed' \subseteq Devices
    BY <1>8 DEF Send, TypeOK
  <2> QED
    BY <1>8, <2>1, <2>2, <2>3, RequestMoves DEF Send, TypeOK
<1>9. ASSUME NEW r \in Requests, GatewayFails(r) PROVE TypeOK'
  <2>1. req' \in [Requests -> Request]
    BY <1>9, RequestEnds DEF GatewayFails
  <2> QED
    BY <1>9, <2>1 DEF GatewayFails, TypeOK
<1>10. ASSUME NEW r \in Requests, RevokeInvalid(r) PROVE TypeOK'
  <2>1. req' \in [Requests -> Request]
    BY <1>10, RequestGoes DEF RevokeInvalid, Notifying
  <2>2. rows' \in [Tokens -> [userId : Users \cup {none}, revoked : BOOLEAN]]
    BY <1>10 DEF RevokeInvalid, TypeOK
  <2> QED
    BY <1>10, <2>1, <2>2 DEF RevokeInvalid, TypeOK
<1>11. ASSUME NEW r \in Requests, AuditDelivery(r) PROVE TypeOK'
  <2>1. req' \in [Requests -> Request]
    BY <1>11, RequestEnds DEF AuditDelivery
  <2> QED
    BY <1>11, <2>1 DEF AuditDelivery, TypeOK
<1>12. ASSUME Delete PROVE TypeOK'
  BY <1>12 DEF Delete, TypeOK
<1>13. ASSUME Kill PROVE TypeOK'
  <2>1. req' \in [Requests -> Request]
    BY <1>13, AtIsRequest DEF Kill, TypeOK
  <2> QED
    BY <1>13, <2>1 DEF Kill, TypeOK
<1>14. ASSUME NEW d \in Devices, Logout(d) PROVE TypeOK'
  BY <1>14 DEF Logout, TypeOK
<1>15. ASSUME NEW d \in Devices, NEW u \in Users, Login(d, u) PROVE TypeOK'
  BY <1>15 DEF Login, TypeOK
<1>16. ASSUME NEW d \in Devices, NEW t \in Tokens, RefreshToken(d, t) PROVE TypeOK'
  BY <1>16 DEF RefreshToken, TypeOK
<1>17. ASSUME NEW m \in inFlight, RegisterDeviceToken(m) PROVE TypeOK'
  <2>1. m.user \in Users /\ m.token \in Tokens
    BY DEF TypeOK
  <2>2. rows' \in [Tokens -> [userId : Users \cup {none}, revoked : BOOLEAN]]
    BY <1>17, <2>1 DEF RegisterDeviceToken, Registered, TypeOK
  <2> QED
    BY <1>17, <2>2 DEF RegisterDeviceToken, TypeOK
<1>18. ASSUME NEW m \in inFlight, LoseRegistration(m) PROVE TypeOK'
  BY <1>18 DEF LoseRegistration, TypeOK
<1>19. ASSUME NEW u \in Users, NEW t \in Tokens, RevokeDeviceToken(u, t) PROVE TypeOK'
  <2>1. rows' \in [Tokens -> [userId : Users \cup {none}, revoked : BOOLEAN]]
    BY <1>19 DEF RevokeDeviceToken, TypeOK
  <2> QED
    BY <1>19, <2>1 DEF RevokeDeviceToken, TypeOK
<1>20. ASSUME NEW u \in Users, Deactivate(u) PROVE TypeOK'
  BY <1>20 DEF Deactivate, TypeOK
<1>21. CASE UNCHANGED vars
  BY <1>21 DEF vars, TypeOK
<1> QED
  BY <1>1, <1>2, <1>3, <1>4, <1>5, <1>6, <1>7, <1>8, <1>9, <1>10, <1>11, <1>12, <1>13, <1>14,
     <1>15, <1>16, <1>17, <1>18, <1>19, <1>20, <1>21 DEF Next, RequestStep

\* Every variable keeps its type, for any number of requests and through every
\* fault.
THEOREM NotificationTypes == Spec => []TypeOK
<1>1. Init => TypeOK
  BY TypeInit
<1>2. TypeOK /\ [Next]_vars => TypeOK'
  BY TypeStep
<1> QED
  BY <1>1, <1>2, PTL DEF Spec

-----------------------------------------------------------------------------
(* Whose token it is.  A notification may revoke a token long after it has *)
(* read it: that does no harm as a token without a device never gets one.  *)

TokenInv ==
    /\ \A d, e \in Devices : token[d] = token[e] => d = e
    /\ \A d \in Devices : token[d] \in used
    /\ \A m \in inFlight : m.token \in used
    /\ \A t \in Tokens : rows[t].userId # none => t \in used

\* What a notification has read: tokens of a user, later tokens of no device.
SendInv(r) ==
    /\ req[r].sendTo \subseteq used
    /\ req[r].pc = "tokens" => req[r].assignee \in Users
    /\ req[r].pc = "revoke" => \A t \in req[r].sendTo : Invalid(t)

\* The one registration of a device's token is its session's.
RegistrationInv ==
    /\ \A m, n \in inFlight : m.token = n.token => m = n
    /\ \A m \in inFlight, d \in Devices :
          m.token = token[d] /\ session[d] # none => m.user = session[d]

SessionInv ==
    /\ TypeOK
    /\ TokenInv
    /\ \A r \in Requests : SendInv(r)
    /\ RegistrationInv
    /\ DeviceFollowsSession

LEMMA SessionInit == Init => SessionInv
<1> SUFFICES ASSUME Init PROVE SessionInv
  OBVIOUS
<1>1. TokenInv
  BY PushAssumption DEF Init, TokenInv, PushAssumption
<1>2. \A r \in Requests : SendInv(r)
  BY DEF Init, SendInv, At
<1>3. RegistrationInv /\ DeviceFollowsSession
  BY DEF Init, RegistrationInv, DeviceFollowsSession
<1> QED
  BY <1>1, <1>2, <1>3, TypeInit DEF SessionInv

\* A step of a request that leaves the devices and their rows alone.
LEMMA OnlyRequestMoves ==
    ASSUME SessionInv, TypeOK', UNCHANGED <<rows, deviceVars>>,
           \A r \in Requests : SendInv(r)'
    PROVE  SessionInv'
<1>1. TokenInv' /\ RegistrationInv' /\ DeviceFollowsSession'
  BY DEF SessionInv, TokenInv, RegistrationInv, DeviceFollowsSession, deviceVars
<1> QED
  BY <1>1 DEF SessionInv

\* A request whose tokens stay or are given up, at a step without demands.
LEMMA SendsNoMore ==
    ASSUME SessionInv, UNCHANGED deviceVars, NEW r \in Requests,
           \A q \in Requests \ {r} : req'[q] = req[q],
           req'[r].sendTo \subseteq req[r].sendTo,
           req'[r].pc \notin {"tokens", "revoke"}
    PROVE  \A q \in Requests : SendInv(q)'
<1>1. SendInv(r)'
  BY DEF SendInv, SessionInv, deviceVars
<1>2. ASSUME NEW q \in Requests \ {r} PROVE SendInv(q)'
  BY <1>2 DEF SendInv, SessionInv, deviceVars, Invalid
<1> QED
  BY <1>1, <1>2

LEMMA Goes ==
    ASSUME TypeOK, NEW r \in Requests, NEW step, GoTo(r, step)
    PROVE  /\ \A q \in Requests \ {r} : req'[q] = req[q]
           /\ req'[r].pc = step /\ req'[r].sendTo = req[r].sendTo
           /\ req'[r].assignee = req[r].assignee /\ req'[r].previous = req[r].previous
<1>1. req[r] \in Request
  BY DEF TypeOK
<1>2. \A q \in Requests \ {r} : req'[q] = req[q]
  BY DEF GoTo, TypeOK
<1>3. req'[r] = [req[r] EXCEPT !.pc = step]
  BY DEF GoTo, TypeOK
<1> QED
  BY <1>1, <1>2, <1>3 DEF Request

LEMMA Ends ==
    ASSUME TypeOK, NEW r \in Requests, End(r)
    PROVE  /\ \A q \in Requests \ {r} : req'[q] = req[q]
           /\ req'[r] = At("done")
           /\ req'[r].pc = "done" /\ req'[r].sendTo = {}
BY DEF End, TypeOK, At

LEMMA SessionStep ==
    ASSUME MaxInFlight = 1, SessionInv, [Next]_vars
    PROVE  SessionInv'
<1> USE DEF orderVars
<1>0. TypeOK /\ TypeOK'
  BY TypeStep DEF SessionInv
<1>1. ASSUME NEW r \in Requests, NEW k \in {"create", "dispatch", "update"},
             NEW u \in Users \cup {none, keep}, Begin(r, k, u)
      PROVE  SessionInv'
  <2>1. /\ \A q \in Requests \ {r} : req'[q] = req[q]
        /\ req'[r].sendTo = req[r].sendTo
        /\ req'[r].pc \notin {"tokens", "revoke"}
    BY <1>0, <1>1 DEF Begin, TypeOK, Request
  <2>2. UNCHANGED <<rows, deviceVars>>
    BY <1>1 DEF Begin
  <2> QED
    BY <1>0, <2>1, <2>2, SendsNoMore, OnlyRequestMoves
<1>2. ASSUME NEW r \in Requests,
             CheckAssignee(r) \/ Reread(r) \/ Write(r) \/ GatewayFails(r) \/ AuditDelivery(r)
      PROVE  SessionInv'
  <2>1. UNCHANGED <<rows, deviceVars>>
    BY <1>2 DEF CheckAssignee, Reread, Write, GatewayFails, AuditDelivery
  <2>2. End(r) \/ \E step \in {"read", "notify", "reread"} : GoTo(r, step)
    BY <1>2 DEF CheckAssignee, Reread, Write, GatewayFails, AuditDelivery
  <2>3. /\ \A q \in Requests \ {r} : req'[q] = req[q]
        /\ req'[r].sendTo \subseteq req[r].sendTo
        /\ req'[r].pc \notin {"tokens", "revoke"}
    BY <1>0, <2>2, Goes, Ends
  <2> QED
    BY <1>0, <2>1, <2>3, SendsNoMore, OnlyRequestMoves
<1>3. ASSUME NEW r \in Requests, ReadExisting(r) PROVE SessionInv'
  <2>1. /\ \A q \in Requests \ {r} : req'[q] = req[q]
        /\ req'[r].sendTo \subseteq req[r].sendTo
        /\ req'[r].pc \notin {"tokens", "revoke"}
    <3>1. CASE End(r)
      BY <1>0, <3>1, Ends
    <3>2. CASE ~End(r)
      <4> DEFINE x == [req[r] EXCEPT !.pc = "write", !.previous = Existing(r)]
      <4>1. req' = [req EXCEPT ![r] = x]
        BY <1>3, <3>2 DEF ReadExisting
      <4>2. x.sendTo = req[r].sendTo /\ x.pc = "write"
        BY <1>0 DEF TypeOK, Request
      <4>3. req'[r] = x /\ \A q \in Requests \ {r} : req'[q] = req[q]
        BY <1>0, <4>1 DEF TypeOK
      <4> QED
        BY <4>2, <4>3
    <3> QED
      BY <3>1, <3>2
  <2>2. UNCHANGED <<rows, deviceVars>>
    BY <1>3 DEF ReadExisting
  <2> QED
    BY <1>0, <2>1, <2>2, SendsNoMore, OnlyRequestMoves
<1>4. ASSUME NEW r \in Requests, NotifyRead(r) PROVE SessionInv'
  <2>1. UNCHANGED <<rows, deviceVars>>
    BY <1>4 DEF NotifyRead
  <2>2. CASE End(r)
    <3>1. /\ \A q \in Requests \ {r} : req'[q] = req[q]
          /\ req'[r].sendTo \subseteq req[r].sendTo
          /\ req'[r].pc \notin {"tokens", "revoke"}
      BY <1>0, <2>2, Ends
    <3> QED
      BY <1>0, <2>1, <3>1, SendsNoMore, OnlyRequestMoves
  <2>3. CASE ~End(r)
    <3>1. /\ IsNews(r)
          /\ req' = [req EXCEPT ![r] = [At("tokens") EXCEPT !.assignee = order.assignedUserId]]
      BY <1>4, <2>3 DEF NotifyRead
    <3>2. SendInv(r)'
      BY <1>0, <3>1 DEF SendInv, At, IsNews, TypeOK
    <3>3. ASSUME NEW q \in Requests \ {r} PROVE SendInv(q)'
      BY <1>0, <2>1, <3>1 DEF SendInv, SessionInv, TypeOK, deviceVars, Invalid
    <3> QED
      BY <1>0, <2>1, <3>2, <3>3, OnlyRequestMoves
  <2> QED
    BY <2>2, <2>3
<1>5. ASSUME NEW r \in Requests, ReadTokens(r) PROVE SessionInv'
  <2> DEFINE u == req[r].assignee
             found == {t \in Tokens : /\ rows[t] = [userId |-> u, revoked |-> FALSE]
                                      /\ u \notin inactive}
  <2>1. UNCHANGED <<rows, deviceVars>>
    BY <1>5 DEF ReadTokens
  <2>2. u \in Users
    BY <1>5 DEF ReadTokens, Is, SessionInv, SendInv
  <2>3. found \subseteq used
    BY <2>2, Constants DEF SessionInv, TokenInv
  <2>4. /\ \A q \in Requests \ {r} : req'[q] = req[q]
        /\ req'[r].sendTo = found
        /\ req'[r].pc \in {"audit", "send"}
    BY <1>0, <1>5 DEF ReadTokens, TypeOK, Request
  <2>5. SendInv(r)'
    BY <2>1, <2>3, <2>4 DEF SendInv, deviceVars
  <2>6. ASSUME NEW q \in Requests \ {r} PROVE SendInv(q)'
    BY <2>1, <2>4 DEF SendInv, SessionInv, deviceVars, Invalid
  <2> QED
    BY <1>0, <2>1, <2>5, <2>6, OnlyRequestMoves
<1>6. ASSUME NEW r \in Requests, Send(r) PROVE SessionInv'
  <2> DEFINE invalid == {t \in req[r].sendTo : Invalid(t)}
  <2>1. UNCHANGED <<rows, deviceVars>>
    BY <1>6 DEF Send
  <2>2. /\ \A q \in Requests \ {r} : req'[q] = req[q]
        /\ req'[r].sendTo = invalid
        /\ req'[r].pc \in {"audit", "revoke"}
    BY <1>0, <1>6 DEF Send, TypeOK, Request
  <2>3. SendInv(r)'
    BY <2>1, <2>2 DEF SendInv, SessionInv, deviceVars, Invalid
  <2>4. ASSUME NEW q \in Requests \ {r} PROVE SendInv(q)'
    BY <2>1, <2>2 DEF SendInv, SessionInv, deviceVars, Invalid
  <2> QED
    BY <1>0, <2>1, <2>3, <2>4, OnlyRequestMoves
<1>7. ASSUME NEW r \in Requests, RevokeInvalid(r) PROVE SessionInv'
  <2>1. \A t \in req[r].sendTo : Invalid(t)
    BY <1>7 DEF RevokeInvalid, Is, SessionInv, SendInv
  <2>2. UNCHANGED deviceVars /\ GoTo(r, "audit")
    BY <1>7 DEF RevokeInvalid
  <2>3. \A q \in Requests : SendInv(q)'
    <3>1. /\ \A q \in Requests \ {r} : req'[q] = req[q]
          /\ req'[r].sendTo \subseteq req[r].sendTo
          /\ req'[r].pc \notin {"tokens", "revoke"}
      BY <1>0, <2>2, Goes
    <3> QED
      BY <2>2, <3>1, SendsNoMore
  <2>4. \A t \in Tokens : /\ rows'[t].userId = rows[t].userId
                          /\ ~Invalid(t) => rows'[t] = rows[t]
    BY <1>0, <1>7, <2>1 DEF RevokeInvalid, TypeOK
  <2>5. TokenInv' /\ RegistrationInv'
    BY <2>2, <2>4 DEF SessionInv, TokenInv, RegistrationInv, deviceVars
  <2>6. DeviceFollowsSession'
    BY <1>0, <2>2, <2>4 DEF SessionInv, DeviceFollowsSession, Invalid, deviceVars, TypeOK
  <2> QED
    BY <1>0, <2>3, <2>5, <2>6 DEF SessionInv
<1>8. ASSUME Delete \/ \E u \in Users : Deactivate(u)
      PROVE  SessionInv'
  <2>1. UNCHANGED <<rows, deviceVars, req>>
    BY <1>8 DEF Delete, Deactivate
  <2>2. \A q \in Requests : SendInv(q)'
    BY <2>1 DEF SessionInv, SendInv, deviceVars, Invalid
  <2> QED
    BY <1>0, <2>1, <2>2, OnlyRequestMoves
<1>9. ASSUME Kill PROVE SessionInv'
  <2>1. UNCHANGED <<rows, deviceVars>>
    BY <1>9 DEF Kill
  <2>2. \A q \in Requests : SendInv(q)'
    BY <1>9, <2>1 DEF Kill, Is, SessionInv, SendInv, deviceVars, Invalid, At
  <2> QED
    BY <1>0, <2>1, <2>2, OnlyRequestMoves
<1>10. ASSUME NEW d \in Devices, Logout(d) PROVE SessionInv'
  <2>1. session' \in [Devices -> Users \cup {none}] /\ session'[d] = none
        /\ \A e \in Devices \ {d} : session'[e] = session[e]
    BY <1>0, <1>10 DEF Logout, TypeOK
  <2>2. UNCHANGED <<rows, token, used, inFlight, unknown, req>>
    BY <1>10 DEF Logout
  <2>3. TokenInv' /\ \A q \in Requests : SendInv(q)'
    BY <2>2 DEF SessionInv, TokenInv, SendInv, Invalid
  <2>4. RegistrationInv' /\ DeviceFollowsSession'
    BY <2>1, <2>2 DEF SessionInv, RegistrationInv, DeviceFollowsSession
  <2> QED
    BY <1>0, <2>3, <2>4 DEF SessionInv
<1>11. ASSUME NEW d \in Devices, NEW u \in Users, Login(d, u) PROVE SessionInv'
  <2> DEFINE mine == {m \in inFlight : m.token = token[d]}
             new == [user |-> u, token |-> token[d]]
  <2>1. mine = {}
    <3>1. ~(Cardinality(mine) >= 1)
      BY <1>11 DEF Login, IsOnItsWay
    <3>2. ASSUME NEW m \in mine PROVE FALSE
      <4>1. mine = {m}
        BY <3>2 DEF SessionInv, RegistrationInv
      <4>2. Cardinality(mine) = 1
        BY <4>1, FS_Singleton
      <4> QED
        BY <3>1, <4>2
    <3> QED
      BY <3>2
  <2>2. /\ session'[d] = u
        /\ \A e \in Devices \ {d} : session'[e] = session[e] /\ token[e] # token[d]
    BY <1>0, <1>11 DEF Login, TypeOK, SessionInv, TokenInv
  <2>3. /\ UNCHANGED <<rows, token, used, req>>
        /\ inFlight' = inFlight \cup {new} /\ unknown' = unknown \ {token[d]}
    BY <1>11 DEF Login
  <2>4. TokenInv' /\ \A q \in Requests : SendInv(q)'
    BY <2>3 DEF SessionInv, TokenInv, SendInv, Invalid
  <2>5. RegistrationInv'
    <3>1. ASSUME NEW m \in inFlight', NEW n \in inFlight', m.token = n.token PROVE m = n
      BY <2>1, <2>3, <3>1 DEF SessionInv, RegistrationInv
    <3>2. ASSUME NEW m \in inFlight', NEW e \in Devices, m.token = token[e], session'[e] # none
          PROVE  m.user = session'[e]
      <4>1. CASE m = new
        BY <2>2, <3>2, <4>1
      <4>2. CASE m \in inFlight
        BY <2>1, <2>2, <3>2, <4>2 DEF SessionInv, RegistrationInv
      <4> QED
        BY <2>3, <4>1, <4>2
    <3> QED
      BY <2>3, <3>1, <3>2 DEF RegistrationInv
  <2>6. DeviceFollowsSession'
    <3>1. ASSUME NEW e \in Devices, session'[e] # none, token'[e] \notin unknown',
                 \A m \in inFlight' : m.token # token'[e]
          PROVE  rows'[token'[e]] = [userId |-> session'[e], revoked |-> FALSE]
      <4>1. new \in inFlight' /\ new.token = token[d] /\ token'[e] = token[e]
        BY <2>3
      <4>2. e # d
        BY <3>1, <4>1
      <4>3. session[e] # none /\ token[e] \notin unknown /\ \A m \in inFlight : m.token # token[e]
        BY <2>2, <2>3, <3>1, <4>2
      <4> QED
        BY <2>2, <2>3, <4>2, <4>3 DEF SessionInv, DeviceFollowsSession
    <3> QED
      BY <3>1 DEF DeviceFollowsSession
  <2> QED
    BY <1>0, <2>4, <2>5, <2>6 DEF SessionInv
<1>12. ASSUME NEW d \in Devices, NEW t \in Tokens, RefreshToken(d, t) PROVE SessionInv'
  <2>1. /\ t \notin used /\ used' = used \cup {t} /\ token'[d] = t
        /\ \A e \in Devices \ {d} : token'[e] = token[e]
        /\ inFlight' = inFlight \cup {[user |-> u, token |-> t] : u \in {session[d]} \ {none}}
        /\ UNCHANGED <<rows, session, unknown, req>>
    BY <1>0, <1>12 DEF RefreshToken, TypeOK
  <2>2. TokenInv'
    <3>1. \A e \in Devices : token[e] # t
      BY <2>1 DEF SessionInv, TokenInv
    <3>2. ASSUME NEW e \in Devices, NEW f \in Devices, token'[e] = token'[f] PROVE e = f
      <4>1. CASE e = d \/ f = d
        BY <2>1, <3>1, <3>2, <4>1
      <4>2. CASE e # d /\ f # d
        BY <2>1, <3>2, <4>2 DEF SessionInv, TokenInv
      <4> QED
        BY <4>1, <4>2
    <3>3. \A e \in Devices : token'[e] \in used'
      BY <2>1 DEF SessionInv, TokenInv
    <3>4. \A m \in inFlight' : m.token \in used'
      BY <2>1 DEF SessionInv, TokenInv
    <3>5. \A s \in Tokens : rows'[s].userId # none => s \in used'
      BY <2>1 DEF SessionInv, TokenInv
    <3> QED
      BY <3>2, <3>3, <3>4, <3>5 DEF TokenInv
  <2>3. ASSUME NEW q \in Requests PROVE SendInv(q)'
    <3>1. req[q].sendTo \subseteq used /\ t \notin used
      BY <2>1 DEF SessionInv, SendInv
    <3>2. ASSUME NEW s \in req[q].sendTo, Invalid(s) PROVE Invalid(s)'
      BY <2>1, <3>1, <3>2 DEF Invalid
    <3> QED
      BY <2>1, <3>1, <3>2 DEF SessionInv, SendInv
  <2>4. ASSUME NEW m \in inFlight' PROVE \/ m \in inFlight /\ m.token # t
                                         \/ m = [user |-> session[d], token |-> t] /\ session[d] # none
    BY <2>1 DEF SessionInv, TokenInv
  <2>5. RegistrationInv'
    <3>1. ASSUME NEW m \in inFlight', NEW n \in inFlight', m.token = n.token PROVE m = n
      BY <2>4, <3>1 DEF SessionInv, RegistrationInv
    <3>2. ASSUME NEW m \in inFlight', NEW e \in Devices, m.token = token'[e], session'[e] # none
          PROVE  m.user = session'[e]
      <4>1. CASE e = d
        BY <2>1, <2>4, <3>2, <4>1
      <4>2. CASE e # d
        <5>1. token'[e] = token[e] /\ token[e] # t
          BY <2>1, <4>2 DEF SessionInv, TokenInv
        <5> QED
          BY <2>1, <2>4, <3>2, <5>1 DEF SessionInv, RegistrationInv
      <4> QED
        BY <4>1, <4>2
    <3> QED
      BY <3>1, <3>2 DEF RegistrationInv
  <2>6. DeviceFollowsSession'
    <3>1. ASSUME NEW e \in Devices, session'[e] # none, token'[e] \notin unknown',
                 \A m \in inFlight' : m.token # token'[e]
          PROVE  rows'[token'[e]] = [userId |-> session'[e], revoked |-> FALSE]
      <4>1. e # d
        <5>1. SUFFICES ASSUME e = d PROVE FALSE
          OBVIOUS
        <5>2. [user |-> session[d], token |-> t] \in inFlight'
          BY <2>1, <3>1, <5>1
        <5> QED
          BY <2>1, <3>1, <5>1, <5>2
      <4>2. token'[e] = token[e]
        BY <2>1, <4>1
      <4> QED
        BY <2>1, <3>1, <4>2 DEF SessionInv, DeviceFollowsSession
    <3> QED
      BY <3>1 DEF DeviceFollowsSession
  <2> QED
    BY <1>0, <2>2, <2>3, <2>5, <2>6 DEF SessionInv
<1>13. ASSUME NEW m \in inFlight, RegisterDeviceToken(m) PROVE SessionInv'
  <2>1. m.user \in Users /\ m.token \in Tokens
    BY <1>0 DEF TypeOK
  <2>2. /\ rows'[m.token] = [userId |-> m.user, revoked |-> FALSE]
        /\ \A t \in Tokens \ {m.token} : rows'[t] = rows[t]
        /\ inFlight' = inFlight \ {m}
        /\ UNCHANGED <<session, token, used, unknown, req>>
    BY <1>0, <1>13, <2>1 DEF RegisterDeviceToken, Registered, TypeOK
  <2>3. TokenInv'
    BY <2>2 DEF SessionInv, TokenInv
  <2>4. RegistrationInv' /\ \A q \in Requests : SendInv(q)'
    BY <2>2 DEF SessionInv, RegistrationInv, SendInv, Invalid
  <2>5. DeviceFollowsSession'
    <3>1. ASSUME NEW e \in Devices, session'[e] # none, token'[e] \notin unknown',
                 \A n \in inFlight' : n.token # token'[e]
          PROVE  rows'[token'[e]] = [userId |-> session'[e], revoked |-> FALSE]
      <4>0. token[e] \in Tokens
        BY <1>0 DEF TypeOK
      <4>1. CASE token[e] = m.token
        <5>1. m.user = session[e]
          BY <2>2, <3>1, <4>1 DEF SessionInv, RegistrationInv
        <5> QED
          BY <2>2, <4>1, <5>1
      <4>2. CASE token[e] # m.token
        <5>1. \A n \in inFlight : n.token # token[e]
          BY <2>2, <3>1, <4>2
        <5>2. rows[token[e]] = [userId |-> session[e], revoked |-> FALSE]
          BY <2>2, <3>1, <5>1 DEF SessionInv, DeviceFollowsSession
        <5> QED
          BY <2>2, <4>0, <4>2, <5>2
      <4> QED
        BY <4>1, <4>2
    <3> QED
      BY <3>1 DEF DeviceFollowsSession
  <2> QED
    BY <1>0, <2>3, <2>4, <2>5 DEF SessionInv
<1>14. ASSUME NEW m \in inFlight, LoseRegistration(m) PROVE SessionInv'
  <2>1. /\ inFlight' = inFlight \ {m} /\ unknown' = unknown \cup {m.token}
        /\ UNCHANGED <<rows, session, token, used, req>>
    BY <1>14 DEF LoseRegistration
  <2>2. TokenInv' /\ \A q \in Requests : SendInv(q)'
    BY <2>1 DEF SessionInv, TokenInv, SendInv, Invalid
  <2>3. RegistrationInv'
    BY <2>1 DEF SessionInv, RegistrationInv
  <2>4. DeviceFollowsSession'
    BY <2>1 DEF SessionInv, DeviceFollowsSession
  <2> QED
    BY <1>0, <2>2, <2>3, <2>4 DEF SessionInv
<1>15. ASSUME NEW u \in Users, NEW t \in Tokens, RevokeDeviceToken(u, t) PROVE SessionInv'
  <2>1. /\ UNCHANGED <<deviceVars, req>>
        /\ rows[t] = [userId |-> u, revoked |-> FALSE]
        /\ \A d \in Devices : token[d] = t => session[d] # u
        /\ rows'[t].userId = rows[t].userId
        /\ \A s \in Tokens \ {t} : rows'[s] = rows[s]
    BY <1>0, <1>15 DEF RevokeDeviceToken, DevicesWith, TypeOK
  <2>2. TokenInv' /\ RegistrationInv'
    BY <2>1 DEF SessionInv, TokenInv, RegistrationInv, deviceVars
  <2>3. \A q \in Requests : SendInv(q)'
    BY <2>1 DEF SessionInv, SendInv, Invalid, deviceVars
  <2>4. DeviceFollowsSession'
    BY <1>0, <2>1 DEF SessionInv, DeviceFollowsSession, deviceVars, TypeOK
  <2> QED
    BY <1>0, <2>2, <2>3, <2>4 DEF SessionInv
<1>16. CASE UNCHANGED vars
  <2>1. UNCHANGED <<rows, deviceVars, req>>
    BY <1>16 DEF vars
  <2>2. \A q \in Requests : SendInv(q)'
    BY <2>1 DEF SessionInv, SendInv, deviceVars, Invalid
  <2> QED
    BY <1>0, <2>1, <2>2, OnlyRequestMoves
<1> QED
  BY <1>1, <1>2, <1>3, <1>4, <1>5, <1>6, <1>7, <1>8, <1>9, <1>10, <1>11, <1>12, <1>13, <1>14,
     <1>15, <1>16 DEF Next, RequestStep

\* As long as registrations of a token do not overtake each other, the token of
\* a device belongs to whoever is logged in there, for any number of devices,
\* requests and late notifications and through every fault.
THEOREM TokenFollowsSession ==
    ASSUME MaxInFlight = 1
    PROVE  Spec => []DeviceFollowsSession
<1>1. Init => SessionInv
  BY SessionInit
<1>2. SessionInv /\ [Next]_vars => SessionInv'
  BY SessionStep
<1>3. SessionInv => DeviceFollowsSession
  BY DEF SessionInv
<1> QED
  BY <1>1, <1>2, <1>3, PTL DEF Spec

-----------------------------------------------------------------------------
(* The assignee is told.  With requests handled one after the other, what a *)
(* request has read of the order is still true when it writes; each device *)
(* that is owed a message then has a notification on its way that will not *)
(* be taken for old news.                                                  *)

HandlerInv ==
    /\ \A r, q \in Requests : req[r].pc \in Handling /\ req[q].pc \in Handling => r = q
    /\ \A r \in Requests : req[r].pc = "idle" => req[r].previous = none
    /\ \A r \in Requests : req[r].pc = "write" => req[r].previous = order.assignedUserId
    /\ order.state = "new" => order.assignedUserId = none

WillTell(r, d) ==
    \/ req[r].pc \in {"reread", "notify"} /\ req[r].previous # order.assignedUserId
    \/ req[r].pc = "tokens" /\ req[r].assignee = order.assignedUserId
    \/ /\ req[r].pc = "send" /\ req[r].assignee = order.assignedUserId
       /\ token[d] \in req[r].sendTo

OwedInv(d) ==
    /\ order.state = "open" /\ order.assignedUserId \in Users \ inactive
    /\ rows[token[d]] = [userId |-> order.assignedUserId, revoked |-> FALSE]
    /\ \E r \in Requests : WillTell(r, d)

ToldInv ==
    /\ TypeOK
    /\ HandlerInv
    /\ \A d \in owed : OwedInv(d)

LEMMA ToldInit == Init => ToldInv
<1> SUFFICES ASSUME Init PROVE ToldInv
  OBVIOUS
<1>1. HandlerInv
  BY DEF Init, HandlerInv, At, Handling
<1>2. owed = {}
  BY DEF Init
<1> QED
  BY <1>1, <1>2, TypeInit DEF ToldInv

\* Who has nothing to do any more has told everybody.
LEMMA ToldAll == ToldInv => AssigneeIsTold
BY DEF ToldInv, OwedInv, WillTell, AssigneeIsTold

\* One request moves on, and nobody takes a new one.
LEMMA HandlerStays ==
    ASSUME TypeOK, HandlerInv, UNCHANGED order, NEW r \in Requests,
           \A q \in Requests \ {r} : req'[q] = req[q],
           req'[r].pc # "idle",
           req'[r].pc \in Handling => req[r].pc \in Handling,
           req'[r].pc = "write" => req'[r].previous = order.assignedUserId
    PROVE  HandlerInv'
<1>1. ASSUME NEW p \in Requests, NEW q \in Requests,
             req'[p].pc \in Handling, req'[q].pc \in Handling
      PROVE  p = q
  <2>1. req[p].pc \in Handling /\ req[q].pc \in Handling
    BY <1>1
  <2> QED
    BY <2>1 DEF HandlerInv
<1>2. \A q \in Requests : req'[q].pc = "idle" => req'[q].previous = none
  BY DEF HandlerInv
<1>3. \A q \in Requests : req'[q].pc = "write" => req'[q].previous = order.assignedUserId
  BY DEF HandlerInv
<1> QED
  BY <1>1, <1>2, <1>3 DEF HandlerInv

\* What is owed stays promised when one request moves and keeps its promise.
LEMMA PromisesStay ==
    ASSUME ToldInv, UNCHANGED <<order, inactive, rows, token>>, owed' \subseteq owed,
           NEW r \in Requests, \A q \in Requests \ {r} : req'[q] = req[q],
           \A d \in owed' : WillTell(r, d) => WillTell(r, d)'
    PROVE  \A d \in owed' : OwedInv(d)'
<1> SUFFICES ASSUME NEW d \in owed' PROVE OwedInv(d)'
  OBVIOUS
<1>1. OwedInv(d)
  BY DEF ToldInv
<1>2. PICK q \in Requests : WillTell(q, d)
  BY <1>1 DEF OwedInv
<1>3. WillTell(q, d)'
  <2>1. CASE q = r
    BY <1>2, <2>1
  <2>2. CASE q # r
    BY <1>2, <2>2 DEF WillTell
  <2> QED
    BY <2>1, <2>2
<1> QED
  BY <1>1, <1>3 DEF OwedInv

\* Requests, order, rows and tokens of what is still owed stay as they are.
LEMMA NothingOfItMoves ==
    ASSUME ToldInv, TypeOK', UNCHANGED <<order, req>>, owed' \subseteq owed,
           \A d \in owed' : /\ token'[d] = token[d]
                            /\ rows'[token[d]] = rows[token[d]]
                            /\ order.assignedUserId \notin inactive'
    PROVE  ToldInv'
<1>1. HandlerInv'
  BY DEF ToldInv, HandlerInv
<1>2. ASSUME NEW d \in owed' PROVE OwedInv(d)'
  <2>1. OwedInv(d)
    BY DEF ToldInv
  <2>2. \A r \in Requests : WillTell(r, d) => WillTell(r, d)'
    BY DEF WillTell
  <2> QED
    BY <2>1, <2>2 DEF OwedInv
<1> QED
  BY <1>1, <1>2 DEF ToldInv

LEMMA ToldStep ==
    ASSUME MaxHandlers = 1, ToldInv, [Next]_vars
    PROVE  ToldInv'
<1> USE DEF orderVars, deviceVars
<1>0. TypeOK /\ TypeOK' /\ HandlerInv
  BY TypeStep DEF ToldInv
<1>1. ASSUME NEW r \in Requests, NEW k \in {"create", "dispatch", "update"},
             NEW u \in Users \cup {none, keep}, Begin(r, k, u)
      PROVE  ToldInv'
  <2> DEFINE busy == {q \in Requests : req[q].pc \in Handling}
  <2>1. busy = {}
    <3>1. Cardinality(busy) < 1
      BY <1>1 DEF Begin
    <3>2. ASSUME NEW q \in busy PROVE FALSE
      <4>1. busy = {q}
        BY <1>0, <3>2 DEF HandlerInv
      <4>2. Cardinality(busy) = 1
        BY <4>1, FS_Singleton
      <4> QED
        BY <3>1, <4>2
    <3> QED
      BY <3>2
  <2>2. /\ \A q \in Requests \ {r} : req'[q] = req[q]
        /\ req'[r].previous = req[r].previous
        /\ req'[r].pc \in {"write", "check", "read"}
        /\ req'[r].pc = "write" => order.state = "new"
    <3> DEFINE first == CASE k = "create" -> "write"
                          [] k = "dispatch" /\ u \in Users -> "check"
                          [] OTHER -> "read"
               x == [req[r] EXCEPT !.pc = first, !.kind = k, !.assignee = u]
    <3>1. req' = [req EXCEPT ![r] = x]
      BY <1>1 DEF Begin
    <3>2. x.previous = req[r].previous /\ x.pc = first
      BY <1>0 DEF TypeOK, Request
    <3>3. first \in {"write", "check", "read"} /\ (first = "write" => order.state = "new")
      BY <1>1 DEF Begin
    <3>4. req'[r] = x /\ \A q \in Requests \ {r} : req'[q] = req[q]
      BY <1>0, <3>1 DEF TypeOK
    <3> QED
      BY <3>2, <3>3, <3>4
  <2>3. req[r].pc = "idle" /\ UNCHANGED <<order, inactive, rows, token, owed>>
    BY <1>1 DEF Begin, Is
  <2>4. HandlerInv'
    <3>1. \A q \in Requests : req'[q].pc \in Handling => q = r
      BY <2>1, <2>2
    <3>2. req'[r].pc = "write" => req'[r].previous = order.assignedUserId
      BY <1>0, <2>2, <2>3 DEF HandlerInv
    <3>3. \A q \in Requests : req'[q].pc = "idle" => req'[q].previous = none
      BY <1>0, <2>2 DEF HandlerInv
    <3>4. \A q \in Requests : req'[q].pc = "write" => req'[q].previous = order.assignedUserId
      BY <1>0, <2>2, <3>2 DEF HandlerInv
    <3> QED
      BY <1>0, <2>3, <3>1, <3>3, <3>4 DEF HandlerInv
  <2>5. \A d \in owed' : ~WillTell(r, d)
    BY <2>3 DEF WillTell
  <2> QED
    BY <1>0, <2>2, <2>3, <2>4, <2>5, PromisesStay DEF ToldInv
<1>2. ASSUME NEW r \in Requests, CheckAssignee(r) PROVE ToldInv'
  <2>1. req[r].pc = "check" /\ UNCHANGED <<order, inactive, rows, token, owed>>
    BY <1>2 DEF CheckAssignee, Is
  <2>2. End(r) \/ GoTo(r, "read")
    BY <1>2 DEF CheckAssignee
  <2>3. /\ \A q \in Requests \ {r} : req'[q] = req[q]
        /\ req'[r].pc \in {"done", "read"}
    BY <1>0, <2>2, Goes, Ends
  <2>4. HandlerInv'
    BY <1>0, <2>1, <2>3, HandlerStays DEF Handling
  <2>5. \A d \in owed' : ~WillTell(r, d)
    BY <2>1 DEF WillTell
  <2> QED
    BY <1>0, <2>1, <2>3, <2>4, <2>5, PromisesStay DEF ToldInv
<1>3. ASSUME NEW r \in Requests, ReadExisting(r) PROVE ToldInv'
  <2> DEFINE x == [req[r] EXCEPT !.pc = "write", !.previous = Existing(r)]
  <2>1. req[r].pc = "read" /\ UNCHANGED <<order, inactive, rows, token, owed>>
    BY <1>3 DEF ReadExisting, Is
  <2>2. /\ \A q \in Requests \ {r} : req'[q] = req[q]
        /\ req'[r].pc \in {"done", "write"}
        /\ req'[r].pc = "write" => req'[r].previous = order.assignedUserId
    <3>1. CASE End(r)
      BY <1>0, <3>1, Ends
    <3>2. CASE ~End(r)
      <4>1. req' = [req EXCEPT ![r] = x]
        BY <1>3, <3>2 DEF ReadExisting
      <4>2. x.previous = order.assignedUserId /\ x.pc = "write"
        BY <1>0 DEF TypeOK, Request, Existing
      <4>3. req'[r] = x /\ \A q \in Requests \ {r} : req'[q] = req[q]
        BY <1>0, <4>1 DEF TypeOK
      <4> QED
        BY <4>2, <4>3
    <3> QED
      BY <3>1, <3>2
  <2>3. HandlerInv'
    BY <1>0, <2>1, <2>2, HandlerStays DEF Handling
  <2>4. \A d \in owed' : ~WillTell(r, d)
    BY <2>1 DEF WillTell
  <2> QED
    BY <1>0, <2>1, <2>2, <2>3, <2>4, PromisesStay DEF ToldInv
<1>4. ASSUME NEW r \in Requests, Write(r) PROVE ToldInv'
  <2> DEFINE u == IF req[r].assignee = keep THEN order.assignedUserId ELSE req[r].assignee
  <2>1. req[r].pc = "write" /\ UNCHANGED <<inactive, rows, token>>
    BY <1>4 DEF Write, Is
  <2>2. req[r].previous = order.assignedUserId
    BY <1>0, <2>1 DEF HandlerInv
  <2>3. \A q \in Requests \ {r} : req[q].pc \notin Handling
    BY <1>0, <2>1 DEF HandlerInv, Handling
  <2>4. CASE End(r) /\ UNCHANGED <<order, owed>>
    <3>1. (\A q \in Requests \ {r} : req'[q] = req[q]) /\ req'[r].pc = "done"
      BY <1>0, <2>4, Ends
    <3>2. HandlerInv'
      BY <1>0, <2>4, <3>1, HandlerStays DEF Handling
    <3>3. \A d \in owed' : ~WillTell(r, d)
      BY <2>1, <2>4 DEF WillTell
    <3> QED
      BY <1>0, <2>1, <2>4, <3>1, <3>2, <3>3, PromisesStay DEF ToldInv
  <2>5. CASE ~(End(r) /\ UNCHANGED <<order, owed>>)
    <3>1. /\ Assign(u)
          /\ \/ GoTo(r, "reread")
             \/ IsQueued(r, u) /\ GoTo(r, "notify")
             \/ ~IsQueued(r, u) /\ End(r)
      BY <1>4, <2>5 DEF Write
    <3>2. /\ order'.assignedUserId = u /\ order'.state # "new"
          /\ order'.state = IF order.state = "new" THEN "open" ELSE order.state
          /\ owed' = IF u = order.assignedUserId THEN owed
                     ELSE IF order.state = "deleted" THEN {} ELSE ReachableFor(u)
      BY <3>1 DEF Assign
    <3>3. /\ \A q \in Requests \ {r} : req'[q] = req[q]
          /\ req'[r].pc \in {"reread", "notify", "done"}
          /\ req'[r].pc # "done" => req'[r].previous = order.assignedUserId
          /\ req'[r].pc = "done" => ~IsQueued(r, u)
      BY <1>0, <2>2, <3>1, Goes, Ends
    <3>4. HandlerInv'
      <4>1. \A q \in Requests : req'[q].pc \in Handling => q = r
        BY <2>3, <3>3
      <4>2. \A q \in Requests : req'[q].pc = "idle" => req'[q].previous = none
        BY <1>0, <3>3 DEF HandlerInv
      <4>3. \A q \in Requests : req'[q].pc # "write"
        BY <2>3, <3>3 DEF Handling
      <4> QED
        BY <3>2, <4>1, <4>2, <4>3 DEF HandlerInv
    <3>5. ASSUME NEW d \in owed' PROVE OwedInv(d)'
      <4>1. CASE u = order.assignedUserId
        <5>1. OwedInv(d)
          BY <3>2, <3>5, <4>1 DEF ToldInv
        <5>2. PICK q \in Requests : WillTell(q, d)
          BY <5>1 DEF OwedInv
        <5>3. q # r
          BY <2>1, <5>2 DEF WillTell
        <5>4. WillTell(q, d)'
          BY <2>1, <3>2, <3>3, <4>1, <5>2, <5>3 DEF WillTell
        <5>5. order'.state = "open"
          BY <3>2, <5>1 DEF OwedInv
        <5> QED
          BY <2>1, <3>2, <4>1, <5>1, <5>4, <5>5 DEF OwedInv
      <4>2. CASE u # order.assignedUserId
        <5>1. order.state # "deleted" /\ d \in ReachableFor(u)
          BY <3>2, <3>5, <4>2
        <5>2. u \in Users \ inactive /\ rows[token[d]] = [userId |-> u, revoked |-> FALSE]
          BY <5>1 DEF ReachableFor
        <5>3. order'.state = "open"
          BY <1>0, <3>2, <5>1 DEF TypeOK
        <5>4. IsQueued(r, u)
          BY <2>2, <4>2, <5>2, Constants DEF IsQueued
        <5>5. WillTell(r, d)'
          BY <3>2, <3>3, <4>2, <5>4 DEF WillTell
        <5> QED
          BY <2>1, <3>2, <5>2, <5>3, <5>5 DEF OwedInv
      <4> QED
        BY <4>1, <4>2
    <3> QED
      BY <1>0, <3>4, <3>5 DEF ToldInv
  <2> QED
    BY <2>4, <2>5
<1>5. ASSUME NEW r \in Requests, Reread(r) PROVE ToldInv'
  <2>1. req[r].pc = "reread" /\ UNCHANGED <<order, inactive, rows, token, owed>>
    BY <1>5 DEF Reread, Is
  <2>2. /\ \A q \in Requests \ {r} : req'[q] = req[q]
        /\ req'[r].pc \in {"done", "notify"}
        /\ req'[r].pc = "done" => ~IsQueued(r, order.assignedUserId)
        /\ req'[r].pc = "notify" => req'[r].previous = req[r].previous
    BY <1>0, <1>5, Goes, Ends DEF Reread
  <2>3. HandlerInv'
    BY <1>0, <2>1, <2>2, HandlerStays DEF Handling
  <2>4. ASSUME NEW d \in owed', WillTell(r, d) PROVE WillTell(r, d)'
    <3>1. order.assignedUserId \in Users
      BY <2>1 DEF ToldInv, OwedInv
    <3>2. IsQueued(r, order.assignedUserId)
      BY <2>1, <2>4, <3>1, Constants DEF WillTell, IsQueued
    <3> QED
      BY <2>1, <2>2, <2>4, <3>2 DEF WillTell
  <2> QED
    BY <1>0, <2>1, <2>2, <2>3, <2>4, PromisesStay DEF ToldInv
<1>6. ASSUME NEW r \in Requests, NotifyRead(r) PROVE ToldInv'
  <2> DEFINE x == [At("tokens") EXCEPT !.assignee = order.assignedUserId]
  <2>1. req[r].pc = "notify" /\ UNCHANGED <<order, inactive, rows, token, owed>>
    BY <1>6 DEF NotifyRead, Is
  <2>2. \/ ~(order.state = "open" /\ IsNews(r)) /\ End(r)
        \/ req' = [req EXCEPT ![r] = x]
    BY <1>6 DEF NotifyRead
  <2>3. /\ \A q \in Requests \ {r} : req'[q] = req[q]
        /\ req'[r].pc \in {"done", "tokens"}
        /\ req'[r].pc = "done" => ~(order.state = "open" /\ IsNews(r))
        /\ req'[r].pc = "tokens" => req'[r].assignee = order.assignedUserId
    <3>1. CASE ~(order.state = "open" /\ IsNews(r)) /\ End(r)
      BY <1>0, <3>1, Ends
    <3>2. CASE req' = [req EXCEPT ![r] = x]
      <4>1. x.pc = "tokens" /\ x.assignee = order.assignedUserId
        BY DEF At
      <4>2. req'[r] = x /\ \A q \in Requests \ {r} : req'[q] = req[q]
        BY <1>0, <3>2 DEF TypeOK
      <4> QED
        BY <4>1, <4>2
    <3> QED
      BY <2>2, <3>1, <3>2
  <2>4. HandlerInv'
    BY <1>0, <2>1, <2>3, HandlerStays DEF Handling
  <2>5. ASSUME NEW d \in owed', WillTell(r, d) PROVE WillTell(r, d)'
    <3>1. order.state = "open" /\ order.assignedUserId \in Users
      BY <2>1 DEF ToldInv, OwedInv
    <3>2. IsNews(r)
      BY <2>1, <2>5, <3>1, Constants DEF WillTell, IsNews
    <3> QED
      BY <2>1, <2>3, <3>1, <3>2 DEF WillTell
  <2> QED
    BY <1>0, <2>1, <2>3, <2>4, <2>5, PromisesStay DEF ToldInv
<1>7. ASSUME NEW r \in Requests, ReadTokens(r) PROVE ToldInv'
  <2> DEFINE u == req[r].assignee
             found == {t \in Tokens : /\ rows[t] = [userId |-> u, revoked |-> FALSE]
                                      /\ u \notin inactive}
             x == [req[r] EXCEPT !.sendTo = found, !.pc = IF found = {} THEN "audit" ELSE "send"]
  <2>1. req[r].pc = "tokens" /\ UNCHANGED <<order, inactive, rows, token, owed>>
    BY <1>7 DEF ReadTokens, Is
  <2>2. /\ \A q \in Requests \ {r} : req'[q] = req[q]
        /\ req'[r].pc = IF found = {} THEN "audit" ELSE "send"
        /\ req'[r].sendTo = found /\ req'[r].assignee = u
    <3>1. req' = [req EXCEPT ![r] = x]
      BY <1>7 DEF ReadTokens
    <3>2. x.pc = (IF found = {} THEN "audit" ELSE "send") /\ x.sendTo = found /\ x.assignee = u
      BY <1>0 DEF TypeOK, Request
    <3>3. req'[r] = x /\ \A q \in Requests \ {r} : req'[q] = req[q]
      BY <1>0, <3>1 DEF TypeOK
    <3> QED
      BY <3>2, <3>3
  <2>3. HandlerInv'
    BY <1>0, <2>1, <2>2, HandlerStays DEF Handling
  <2>4. ASSUME NEW d \in owed', WillTell(r, d) PROVE WillTell(r, d)'
    <3>1. /\ u = order.assignedUserId /\ u \notin inactive
          /\ rows[token[d]] = [userId |-> u, revoked |-> FALSE]
      BY <2>1, <2>4 DEF WillTell, ToldInv, OwedInv
    <3>2. token[d] \in Tokens
      BY <1>0, <2>1 DEF TypeOK
    <3>3. token[d] \in found
      BY <3>1, <3>2
    <3> QED
      BY <2>1, <2>2, <3>1, <3>3 DEF WillTell
  <2> QED
    BY <1>0, <2>1, <2>2, <2>3, <2>4, PromisesStay DEF ToldInv
<1>8. ASSUME NEW r \in Requests, Send(r) PROVE ToldInv'
  <2> DEFINE invalid == {t \in req[r].sendTo : Invalid(t)}
             x == [req[r] EXCEPT !.sendTo = invalid,
                                 !.pc = IF invalid = {} THEN "audit" ELSE "revoke"]
  <2>1. req[r].pc = "send" /\ UNCHANGED <<order, inactive, rows, token>> /\ owed' \subseteq owed
    BY <1>8 DEF Send, Is
  <2>2. (\A q \in Requests \ {r} : req'[q] = req[q]) /\ req'[r].pc \in {"audit", "revoke"}
    <3>1. req' = [req EXCEPT ![r] = x]
      BY <1>8 DEF Send
    <3>2. x.pc \in {"audit", "revoke"}
      BY <1>0 DEF TypeOK, Request
    <3>3. req'[r] = x /\ \A q \in Requests \ {r} : req'[q] = req[q]
      BY <1>0, <3>1 DEF TypeOK
    <3> QED
      BY <3>2, <3>3
  <2>3. HandlerInv'
    BY <1>0, <2>1, <2>2, HandlerStays DEF Handling
  <2>4. ASSUME NEW d \in owed', WillTell(r, d) PROVE FALSE
    <3>1. req[r].assignee = order.assignedUserId /\ token[d] \in req[r].sendTo
      BY <2>1, <2>4 DEF WillTell
    <3>2. owed' = owed \ {e \in Devices : token[e] \in req[r].sendTo}
      BY <1>8, <3>1 DEF Send
    <3>3. d \in Devices
      BY <1>0 DEF TypeOK
    <3> QED
      BY <3>1, <3>2, <3>3
  <2> QED
    BY <1>0, <2>1, <2>2, <2>3, <2>4, PromisesStay DEF ToldInv
<1>9. ASSUME NEW r \in Requests, GatewayFails(r) PROVE ToldInv'
  <2>1. req[r].pc = "send" /\ UNCHANGED order /\ owed' = {}
    BY <1>9 DEF GatewayFails, Is
  <2>2. (\A q \in Requests \ {r} : req'[q] = req[q]) /\ req'[r].pc = "done"
    BY <1>0, <1>9, Ends DEF GatewayFails
  <2>3. HandlerInv'
    BY <1>0, <2>1, <2>2, HandlerStays DEF Handling
  <2> QED
    BY <1>0, <2>1, <2>3 DEF ToldInv
<1>10. ASSUME NEW r \in Requests, RevokeInvalid(r) PROVE ToldInv'
  <2>1. /\ req[r].pc = "revoke" /\ UNCHANGED <<order, inactive, token>>
        /\ owed' = owed \ {d \in Devices : token[d] \in req[r].sendTo}
        /\ GoTo(r, "audit")
    BY <1>10 DEF RevokeInvalid, Is
  <2>2. (\A q \in Requests \ {r} : req'[q] = req[q]) /\ req'[r].pc = "audit"
    BY <1>0, <2>1, Goes
  <2>3. HandlerInv'
    BY <1>0, <2>1, <2>2, HandlerStays DEF Handling
  <2>4. ASSUME NEW d \in owed' PROVE OwedInv(d)'
    <3>1. OwedInv(d) /\ d \in Devices /\ token[d] \notin req[r].sendTo /\ token[d] \in Tokens
      BY <1>0, <2>1 DEF ToldInv, TypeOK
    <3>2. rows'[token[d]] = rows[token[d]]
      BY <1>10, <3>1 DEF RevokeInvalid
    <3>3. PICK q \in Requests : WillTell(q, d)
      BY <3>1 DEF OwedInv
    <3>4. q # r
      BY <2>1, <3>3 DEF WillTell
    <3>5. WillTell(q, d)'
      BY <2>1, <2>2, <3>3, <3>4 DEF WillTell
    <3> QED
      BY <2>1, <3>1, <3>2, <3>5 DEF OwedInv
  <2> QED
    BY <1>0, <2>3, <2>4 DEF ToldInv
<1>11. ASSUME NEW r \in Requests, AuditDelivery(r) PROVE ToldInv'
  <2>1. req[r].pc = "audit" /\ UNCHANGED <<order, inactive, rows, token, owed>>
    BY <1>11 DEF AuditDelivery, Is
  <2>2. (\A q \in Requests \ {r} : req'[q] = req[q]) /\ req'[r].pc = "done"
    BY <1>0, <1>11, Ends DEF AuditDelivery
  <2>3. HandlerInv'
    BY <1>0, <2>1, <2>2, HandlerStays DEF Handling
  <2>4. \A d \in owed' : ~WillTell(r, d)
    BY <2>1 DEF WillTell
  <2> QED
    BY <1>0, <2>1, <2>2, <2>3, <2>4, PromisesStay DEF ToldInv
<1>12. ASSUME Delete PROVE ToldInv'
  <2>1. /\ order'.state = "deleted" /\ order'.assignedUserId = order.assignedUserId
        /\ owed' = {} /\ UNCHANGED req
    BY <1>0, <1>12 DEF Delete, TypeOK
  <2>2. HandlerInv'
    BY <1>0, <2>1 DEF HandlerInv
  <2> QED
    BY <1>0, <2>1, <2>2 DEF ToldInv
<1>13. ASSUME Kill PROVE ToldInv'
  <2>1. /\ owed' = {} /\ UNCHANGED order
        /\ \A q \in Requests : req'[q] = IF req[q].pc = "idle" THEN req[q] ELSE At("done")
    BY <1>13 DEF Kill, Is
  <2>2. HandlerInv'
    BY <1>0, <2>1 DEF HandlerInv, At, Handling
  <2> QED
    BY <1>0, <2>1, <2>2 DEF ToldInv
<1>14. ASSUME \/ \E d \in Devices : Logout(d) \/ \E u \in Users : Login(d, u)
              \/ \E m \in inFlight : LoseRegistration(m)
              \/ UNCHANGED vars
       PROVE  ToldInv'
  <2>1. UNCHANGED <<order, inactive, rows, token, owed, req>>
    BY <1>14 DEF Logout, Login, LoseRegistration, vars
  <2>2. \A d \in owed : order.assignedUserId \notin inactive
    BY DEF ToldInv, OwedInv
  <2> QED
    BY <1>0, <2>1, <2>2, NothingOfItMoves
<1>15. ASSUME NEW d \in Devices, NEW t \in Tokens, RefreshToken(d, t) PROVE ToldInv'
  <2>1. /\ UNCHANGED <<order, inactive, rows, req>> /\ owed' = owed \ {d}
        /\ \A e \in Devices \ {d} : token'[e] = token[e]
    BY <1>0, <1>15 DEF RefreshToken, TypeOK
  <2>2. ASSUME NEW e \in owed'
        PROVE  /\ token'[e] = token[e] /\ rows'[token[e]] = rows[token[e]]
               /\ order.assignedUserId \notin inactive'
    BY <1>0, <2>1 DEF ToldInv, OwedInv, TypeOK
  <2> QED
    BY <1>0, <2>1, <2>2, NothingOfItMoves
<1>16. ASSUME NEW m \in inFlight, RegisterDeviceToken(m) PROVE ToldInv'
  <2>1. /\ UNCHANGED <<order, inactive, token, req>>
        /\ owed' = IF rows[m.token] = Registered(m) THEN owed ELSE owed \ DevicesWith(m.token)
        /\ rows' = [rows EXCEPT ![m.token] = Registered(m)]
    BY <1>16 DEF RegisterDeviceToken
  <2>2. ASSUME NEW e \in owed'
        PROVE  /\ token'[e] = token[e] /\ rows'[token[e]] = rows[token[e]]
               /\ order.assignedUserId \notin inactive'
    <3>1. e \in owed /\ e \in Devices /\ token[e] \in Tokens
      BY <1>0, <2>1 DEF TypeOK
    <3>2. rows'[token[e]] = rows[token[e]]
      <4>1. CASE token[e] = m.token
        BY <1>0, <2>1, <2>2, <3>1, <4>1 DEF DevicesWith, TypeOK
      <4>2. CASE token[e] # m.token
        BY <1>0, <2>1, <3>1, <4>2 DEF TypeOK
      <4> QED
        BY <4>1, <4>2
    <3> QED
      BY <2>1, <3>1, <3>2 DEF ToldInv, OwedInv
  <2>3. owed' \subseteq owed
    BY <2>1
  <2> QED
    BY <1>0, <2>1, <2>2, <2>3, NothingOfItMoves
<1>17. ASSUME NEW u \in Users, NEW t \in Tokens, RevokeDeviceToken(u, t) PROVE ToldInv'
  <2>1. /\ UNCHANGED <<order, inactive, token, req>> /\ owed' = owed \ DevicesWith(t)
        /\ \A s \in Tokens \ {t} : rows'[s] = rows[s]
    BY <1>0, <1>17 DEF RevokeDeviceToken, TypeOK
  <2>2. ASSUME NEW e \in owed'
        PROVE  /\ token'[e] = token[e] /\ rows'[token[e]] = rows[token[e]]
               /\ order.assignedUserId \notin inactive'
    BY <1>0, <2>1, <2>2 DEF ToldInv, OwedInv, TypeOK, DevicesWith
  <2> QED
    BY <1>0, <2>1, <2>2, NothingOfItMoves
<1>18. ASSUME NEW u \in Users, Deactivate(u) PROVE ToldInv'
  <2>1. /\ UNCHANGED <<order, rows, token, req>> /\ inactive' = inactive \cup {u}
        /\ owed' = IF u = order.assignedUserId THEN {} ELSE owed
    BY <1>18 DEF Deactivate
  <2>2. ASSUME NEW e \in owed'
        PROVE  /\ token'[e] = token[e] /\ rows'[token[e]] = rows[token[e]]
               /\ order.assignedUserId \notin inactive'
    BY <2>1, <2>2 DEF ToldInv, OwedInv
  <2>3. owed' \subseteq owed
    BY <2>1
  <2> QED
    BY <1>0, <2>1, <2>2, <2>3, NothingOfItMoves
<1> QED
  BY <1>1, <1>2, <1>3, <1>4, <1>5, <1>6, <1>7, <1>8, <1>9, <1>10, <1>11, <1>12, <1>13, <1>14,
     <1>15, <1>16, <1>17, <1>18 DEF Next, RequestStep

\* As long as requests for an order are handled one after the other, once all
\* requests and notifications are over, the devices of the assignee have been
\* told, for any number of requests, whose notifications may run as late and
\* over each other as they will, and through every fault.
THEOREM TheAssigneeIsTold ==
    ASSUME MaxHandlers = 1
    PROVE  Spec => []AssigneeIsTold
<1>1. Init => ToldInv
  BY ToldInit
<1>2. ToldInv /\ [Next]_vars => ToldInv'
  BY ToldStep
<1>3. ToldInv => AssigneeIsTold
  BY ToldAll
<1> QED
  BY <1>1, <1>2, <1>3, PTL DEF Spec
=============================================================================
