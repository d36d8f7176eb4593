---------------------------- MODULE WorkOrderPush ----------------------------
(***************************************************************************)
(* Who is told of a work order: the requests that assign it                *)
(* (DispositionService.updateWorkOrder, EntityCrudService.create, update   *)
(* and softDelete), the notification each starts without awaiting it       *)
(* (PushService.notifyNewWorkOrder, FirebasePushGateway.send), and the     *)
(* registration of the devices' tokens (PushService.registerDeviceToken,   *)
(* RemotePushRegistrationService).                                         *)
(*                                                                         *)
(* One work order of one tenant; a message is on the device when the       *)
(* gateway has taken it.                                                   *)
(***************************************************************************)
EXTENDS Naturals, FiniteSets

CONSTANTS
    Users, none,   \* technicians of the tenant, and nobody
    keep,          \* an update that does not name an assignee
    Devices, Tokens,
    Requests,      \* requests for the work order, each used once
    MaxHandlers,   \* bound: requests that are handled at the same time
    MaxInFlight,   \* bound: registrations of one token on their way
    MaxInactive,   \* bound: users that are deactivated
    Faults,        \* "gateway", "kill", "offline"
    FirstToken     \* the token each device has at first

ASSUME PushAssumption ==
    /\ none \notin Users /\ keep \notin Users \cup {none}
    /\ MaxHandlers \in Nat \ {0} /\ MaxInFlight \in Nat \ {0}
    /\ MaxInactive \in Nat
    /\ FirstToken \in [Devices -> Tokens]
    /\ \A d, e \in Devices : FirstToken[d] = FirstToken[e] => d = e

VARIABLES
    order,     \* its state and its assignedUserId
    inactive,  \* users that are not active
    rows,      \* push_device_tokens by token; user none is no row
    session,   \* who is logged in on each device
    token,     \* the token each device has
    used,      \* tokens that have been given to a device
    inFlight,  \* registrations on their way: user and token
    req,       \* each request and the notification it starts, see Request
    owed,      \* devices that are still to be told of the present assignment
    unknown    \* tokens whose last registration was lost

orderVars == <<order, inactive>>
deviceVars == <<session, token, used, inFlight, unknown>>
vars == <<orderVars, rows, deviceVars, req, owed>>

Handling == {"check", "read", "write", "reread"}
Notifying == {"notify", "tokens", "send", "revoke", "audit"}

\* Where it is, what asks for whom, the assignedUserId it has read, and the
\* tokens the notification has read, later the invalid ones among them.
Request ==
    [pc : {"idle", "done"} \cup Handling \cup Notifying,
     kind : {"create", "dispatch", "update"}, assignee : Users \cup {none, keep},
     previous : Users \cup {none}, sendTo : SUBSET Tokens]

At(step) == [pc |-> step, kind |-> "update", assignee |-> none, previous |-> none, sendTo |-> {}]

Init ==
    /\ order \in [state : {"new"}, assignedUserId : {none}]
                    \cup [state : {"open"}, assignedUserId : Users]
    /\ inactive = {}
    /\ rows = [t \in Tokens |-> [userId |-> none, revoked |-> FALSE]]
    /\ session = [d \in Devices |-> none]
    /\ token = FirstToken
    /\ used = {FirstToken[d] : d \in Devices}
    /\ inFlight = {}
    /\ req = [r \in Requests |-> At("idle")]
    /\ owed = {} /\ unknown = {}

-----------------------------------------------------------------------------
(* The requests.                                                           *)

Is(r, step) == req[r].pc = step
GoTo(r, step) == req' = [req EXCEPT ![r].pc = step]
End(r) == req' = [req EXCEPT ![r] = At("done")]

\* The devices a notification to this user reaches.
ReachableFor(u) ==
    {d \in Devices : rows[token[d]] = [userId |-> u, revoked |-> FALSE] /\ u \in Users \ inactive}

\* The order gets an assignee; a new one is to be told.
Assign(u) ==
    /\ order' = [state |-> IF order.state = "new" THEN "open" ELSE order.state,
                 assignedUserId |-> u]
    /\ owed' = IF u = order.assignedUserId THEN owed
                ELSE IF order.state = "deleted" THEN {} ELSE ReachableFor(u)

\* A request arrives: the portal's, or an entry or call for the entity, whose
\* create needs no read.
Begin(r, k, u) ==
    /\ Is(r, "idle")
    /\ Cardinality({q \in Requests : req[q].pc \in Handling}) < MaxHandlers
    /\ k = "create" => u # keep /\ order.state = "new"
    /\ LET first == CASE k = "create" -> "write"
                      [] k = "dispatch" /\ u \in Users -> "check"
                      [] OTHER -> "read"
       IN  req' = [req EXCEPT ![r] = [@ EXCEPT !.pc = first, !.kind = k, !.assignee = u]]
    /\ UNCHANGED <<orderVars, rows, deviceVars, owed>>

\* updateWorkOrder: the assignee has to be an active technician.
CheckAssignee(r) ==
    /\ Is(r, "check")
    /\ IF req[r].assignee \in inactive THEN End(r) ELSE GoTo(r, "read")
    /\ UNCHANGED <<orderVars, rows, deviceVars, owed>>

\* Mutant: what the body asks for is taken for what there is.
Existing_OfBody(r) == req[r].assignee

\* The assignee before the write.
Existing(r) == order.assignedUserId

\* The portal does not find a deleted order, the entity's update does.
Finds(r) == IF req[r].kind = "dispatch" THEN order.state = "open" ELSE order.state # "new"

ReadExisting(r) ==
    /\ Is(r, "read")
    /\ IF Finds(r)
       THEN req' = [req EXCEPT ![r] = [@ EXCEPT !.pc = "write", !.previous = Existing(r)]]
       ELSE End(r)
    /\ UNCHANGED <<orderVars, rows, deviceVars, owed>>

\* The conditions before queueNewWorkOrderNotification in the two services.
IsQueued(r, assigned) == assigned # none /\ req[r].previous # assigned

\* create and update look at the record their write returns, the portal reads
\* the order again.
Write(r) ==
    /\ Is(r, "write")
    /\ LET u == IF req[r].assignee = keep THEN order.assignedUserId ELSE req[r].assignee
           failed == \/ req[r].kind = "create" /\ order.state # "new"
                     \/ req[r].kind = "dispatch" /\ ~Finds(r)
       IN  IF failed THEN End(r) /\ UNCHANGED <<order, owed>>
           ELSE /\ Assign(u)
                /\ CASE req[r].kind = "dispatch" -> GoTo(r, "reread")
                     [] req[r].kind # "dispatch" /\ IsQueued(r, u) -> GoTo(r, "notify")
                     [] OTHER -> End(r)
    /\ UNCHANGED <<inactive, rows, deviceVars>>

Reread(r) ==
    /\ Is(r, "reread")
    /\ IF IsQueued(r, order.assignedUserId) THEN GoTo(r, "notify") ELSE End(r)
    /\ UNCHANGED <<orderVars, rows, deviceVars, owed>>

\* softDelete; nobody needs to be told any more.
Delete ==
    /\ order.state = "open"
    /\ order' = [order EXCEPT !.state = "deleted"]
    /\ owed' = {}
    /\ UNCHANGED <<inactive, rows, deviceVars, req>>

-----------------------------------------------------------------------------
(* notifyNewWorkOrder, which runs on after the request is answered.        *)

\* Mutant: only an order that nobody had is news.
IsNews_FirstOnly(r) == order.assignedUserId # none /\ req[r].previous = none

\* work_order_unassigned, assignment_unchanged
IsNews(r) == order.assignedUserId # none /\ req[r].previous # order.assignedUserId

\* The user the notification is for takes the place of the assignee.
NotifyRead(r) ==
    /\ Is(r, "notify")
    /\ IF order.state = "open" /\ IsNews(r)
       THEN req' = [req EXCEPT ![r] = [At("tokens") EXCEPT !.assignee = order.assignedUserId]]
       ELSE End(r)
    /\ UNCHANGED <<orderVars, rows, deviceVars, owed>>

\* activeTokens
ReadTokens(r) ==
    /\ Is(r, "tokens")
    /\ LET u == req[r].assignee
           found == {t \in Tokens : /\ rows[t] = [userId |-> u, revoked |-> FALSE]
                                    /\ u \notin inactive}
       IN  req' = [req EXCEPT ![r] = [@ EXCEPT !.sendTo = found,
                                              !.pc = IF found = {} THEN "audit" ELSE "send"]]
    /\ UNCHANGED <<orderVars, rows, deviceVars, owed>>

\* The token of no device: the gateway answers that it is not registered.
Invalid(t) == \A d \in Devices : token[d] # t

Send(r) ==
    /\ Is(r, "send")
    /\ LET reached == {d \in Devices : token[d] \in req[r].sendTo}
           invalid == {t \in req[r].sendTo : Invalid(t)}
       IN  /\ owed' = IF req[r].assignee = order.assignedUserId THEN owed \ reached ELSE owed
           /\ req' = [req EXCEPT ![r] = [@ EXCEPT !.sendTo = invalid,
                                                  !.pc = IF invalid = {} THEN "audit" ELSE "revoke"]]
    /\ UNCHANGED <<orderVars, rows, deviceVars>>

\* gateway_error: the catch clause answers and audits nothing.
GatewayFails(r) ==
    /\ "gateway" \in Faults /\ Is(r, "send")
    /\ End(r)
    /\ owed' = {}
    /\ UNCHANGED <<orderVars, rows, deviceVars>>

\* revokeInvalidTokens
RevokeInvalid(r) ==
    /\ Is(r, "revoke")
    /\ rows' = [t \in Tokens |-> IF t \in req[r].sendTo THEN [rows[t] EXCEPT !.revoked = TRUE]
                                 ELSE rows[t]]
    /\ owed' = owed \ {d \in Devices : token[d] \in req[r].sendTo}
    /\ GoTo(r, "audit")
    /\ UNCHANGED <<orderVars, deviceVars>>

\* The audit log is read by nobody here.
AuditDelivery(r) ==
    /\ Is(r, "audit")
    /\ End(r)
    /\ UNCHANGED <<orderVars, rows, deviceVars, owed>>

\* The server is killed: what it had not done stays undone.
Kill ==
    /\ "kill" \in Faults
    /\ \E r \in Requests : req[r].pc \in Handling \cup Notifying
    /\ req' = [r \in Requests |-> IF Is(r, "idle") THEN req[r] ELSE At("done")]
    /\ owed' = {}
    /\ UNCHANGED <<orderVars, rows, deviceVars>>

RequestStep(r) ==
    \/ CheckAssignee(r) \/ ReadExisting(r) \/ Write(r) \/ Reread(r)
    \/ NotifyRead(r) \/ ReadTokens(r) \/ Send(r) \/ GatewayFails(r)
    \/ RevokeInvalid(r) \/ AuditDelivery(r)

-----------------------------------------------------------------------------
(* The devices and their tokens.                                           *)

IsOnItsWay(t) == Cardinality({m \in inFlight : m.token = t}) >= MaxInFlight

\* A login has been answered: remotePushBootstrapProvider registers the token.
Login(d, u) ==
    /\ session[d] = none /\ ~IsOnItsWay(token[d])
    /\ session' = [session EXCEPT ![d] = u]
    /\ inFlight' = inFlight \cup {[user |-> u, token |-> token[d]]}
    /\ unknown' = unknown \ {token[d]}
    /\ UNCHANGED <<orderVars, rows, token, used, req, owed>>

\* logout revokes no token.
Logout(d) ==
    /\ session[d] # none
    /\ session' = [session EXCEPT ![d] = none]
    /\ UNCHANGED <<orderVars, rows, token, used, inFlight, unknown, req, owed>>

\* The device gets another token; while somebody is logged in it is registered
\* (tokenRefreshes), otherwise by the next login.
RefreshToken(d, t) ==
    /\ t \notin used
    /\ token' = [token EXCEPT ![d] = t]
    /\ used' = used \cup {t}
    /\ inFlight' = inFlight \cup {[user |-> u, token |-> t] : u \in {session[d]} \ {none}}
    /\ owed' = owed \ {d}
    /\ UNCHANGED <<orderVars, rows, session, unknown, req>>

\* Mutant: the row of a token keeps its user.
Registered_KeepsUser(m) ==
    [userId |-> IF rows[m.token].userId = none THEN m.user ELSE rows[m.token].userId,
     revoked |-> FALSE]

\* The upsert gives the token to the user, revoked or not.
Registered(m) == [userId |-> m.user, revoked |-> FALSE]

DevicesWith(t) == {d \in Devices : token[d] = t}

RegisterDeviceToken(m) ==
    /\ m \in inFlight
    /\ rows' = [rows EXCEPT ![m.token] = Registered(m)]
    /\ inFlight' = inFlight \ {m}
    /\ owed' = IF rows[m.token] = Registered(m) THEN owed ELSE owed \ DevicesWith(m.token)
    /\ UNCHANGED <<orderVars, session, token, used, unknown, req>>

\* Registration fails without a network and is not tried again.
LoseRegistration(m) ==
    /\ "offline" \in Faults /\ m \in inFlight
    /\ inFlight' = inFlight \ {m}
    /\ unknown' = unknown \cup {m.token}
    /\ UNCHANGED <<orderVars, rows, session, token, used, req, owed>>

\* A user revokes a token from elsewhere; the app has no caller for it.
RevokeDeviceToken(u, t) ==
    /\ \A d \in DevicesWith(t) : session[d] # u
    /\ rows[t] = [userId |-> u, revoked |-> FALSE]
    /\ rows' = [rows EXCEPT ![t].revoked = TRUE]
    /\ owed' = owed \ DevicesWith(t)
    /\ UNCHANGED <<orderVars, deviceVars, req>>

\* A user is deactivated.
Deactivate(u) ==
    /\ u \notin inactive /\ Cardinality(inactive) < MaxInactive
    /\ inactive' = inactive \cup {u}
    /\ owed' = IF u = order.assignedUserId THEN {} ELSE owed
    /\ UNCHANGED <<order, rows, deviceVars, req>>

Next ==
    \/ \E r \in Requests : \/ RequestStep(r)
                           \/ \E k \in {"create", "dispatch", "update"},
                                 u \in Users \cup {none, keep} : Begin(r, k, u)
    \/ Delete \/ Kill
    \/ \E d \in Devices : \/ Logout(d)
                          \/ \E u \in Users : Login(d, u)
                          \/ \E t \in Tokens : RefreshToken(d, t)
    \/ \E m \in inFlight : RegisterDeviceToken(m) \/ LoseRegistration(m)
    \/ \E u \in Users : Deactivate(u) \/ \E t \in Tokens : RevokeDeviceToken(u, t)

Spec == Init /\ [][Next]_vars

-----------------------------------------------------------------------------
(* Properties.                                                             *)

TypeOK ==
    /\ order \in [state : {"new", "open", "deleted"}, assignedUserId : Users \cup {none}]
    /\ inactive \subseteq Users
    /\ rows \in [Tokens -> [userId : Users \cup {none}, revoked : BOOLEAN]]
    /\ session \in [Devices -> Users \cup {none}]
    /\ token \in [Devices -> Tokens]
    /\ used \subseteq Tokens
    /\ inFlight \subseteq [user : Users, token : Tokens]
    /\ req \in [Requests -> Request]
    /\ owed \subseteq Devices /\ unknown \subseteq Tokens

\* Once every request and notification is over, the devices of the assignee
\* have been told since the order became theirs, however late the notifications
\* of earlier requests ran and whatever they read; excepted are devices whose
\* registration changed and messages that were lost.
AssigneeIsTold ==
    (\A r \in Requests : req[r].pc \in {"idle", "done"}) => owed = {}

\* When no registration is on its way, the token of a device belongs to the
\* user who is logged in and is not revoked, after logouts, logins of others,
\* token refreshes and revocations.
DeviceFollowsSession ==
    \A d \in Devices :
        /\ session[d] # none /\ token[d] \notin unknown
        /\ \A m \in inFlight : m.token # token[d]
        => rows[token[d]] = [userId |-> session[d], revoked |-> FALSE]
=============================================================================
