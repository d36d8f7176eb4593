------------------------------ MODULE SyncPull ------------------------------
(***************************************************************************)
(* GET /sync/pull of the backend (SyncService.pull, EntityCrudService.list) *)
(* and the pull of a device (PullSyncService.pull) that follows it by      *)
(* cursor.                                                                 *)
(*                                                                         *)
(* The server takes its time before it queries and selects the rows whose  *)
(* updatedAt is later than the cursor; the device stores that time as its  *)
(* next cursor in the transaction that applies the page.  A pull reads the *)
(* cursors of all types before its first request.  Several pulls of one    *)
(* device can be in progress, each awaits the network between its steps.   *)
(*                                                                         *)
(* A row's content is the number of writes it has seen (rev).              *)
(***************************************************************************)
EXTENDS Naturals, Sequences, FiniteSets, EntityNames

CONSTANTS
    Rows,      \* primary keys
    Types,     \* the entity types of the device in the order they are pulled
    TypeOf,    \* the entity type of a row, by the device's name
    Tenants,
    TenantOf,  \* the tenant a row belongs to
    NoTenant,
    Pulls,     \* pulls of the device that may overlap
    Faults,    \* "lost_reply", "kill", "edit", "switch", "slow_commit"
    MaxClock,  \* bound: nothing is written once the clock has reached it
    MaxRev     \* bound: writes to each row

ASSUME PullAssumption ==
    /\ Types \in Seq(STRING)
    /\ \A i, j \in DOMAIN Types : Types[i] = Types[j] => i = j
    /\ TypeOf \in [Rows -> {Types[i] : i \in DOMAIN Types}]
    /\ NoTenant \notin Tenants
    /\ TenantOf \in [Rows -> Tenants]
    /\ MaxClock \in Nat \ {0} /\ MaxRev \in [Rows -> Nat]

VARIABLES
    clock,    \* the server's time
    rows,     \* the committed entity rows; at is updated_at, rev 0 is no row
    writing,  \* per row the updated_at of a write that is not yet committed, or 0
    device,   \* the device's rows: the rev they hold and sync_status
    states,   \* sync_states by id ("sync-<type>"): tenant and cursor, 0 if null
    session,  \* the tenant that is logged in on the device
    pc,       \* where each pull is
    tenant,   \* the tenant it was started for
    left,     \* the types it has still to pull, in the order of Types
    snap,     \* the sync states it has read
    page,     \* the answer of the server: its time and the changes
    told      \* per row how often the user was notified of a new order

pullVars == <<pc, tenant, left, snap, page>>
vars == <<clock, rows, writing, device, states, session, pullVars, told>>

TypeSet == {Types[i] : i \in DOMAIN Types}
Times == 0 .. MaxClock
NoPage == [asof |-> 0, changes |-> {}]
Change == [row : Rows, rev : Nat, deleted : BOOLEAN]
PcValues == {"idle", "read", "request", "query", "apply", "notify"}

Init ==
    /\ clock = 1
    /\ rows = [r \in Rows |-> [rev |-> 0, at |-> 0, deleted |-> FALSE]]
    /\ writing = [r \in Rows |-> 0]
    /\ device = [r \in Rows |-> [rev |-> 0, status |-> "none"]]
    /\ states = [t \in TypeSet |-> [tenant |-> NoTenant, cursor |-> 0]]
    /\ session = NoTenant
    /\ pc = [p \in Pulls |-> "idle"]
    /\ tenant = [p \in Pulls |-> NoTenant]
    /\ left = [p \in Pulls |-> {}]
    /\ snap = [p \in Pulls |-> [t \in TypeSet |-> 0]]
    /\ page = [p \in Pulls |-> NoPage]
    /\ told = [r \in Rows |-> 0]

-----------------------------------------------------------------------------
(* The server's writers.                                                   *)

Tick ==
    /\ clock < MaxClock
    /\ clock' = clock + 1
    /\ UNCHANGED <<rows, writing, device, states, session, pullVars, told>>

\* A pull takes its time and then awaits the database, so a write that begins
\* after the query has seen the rows takes a later time.
AfterQueries ==
    /\ \A t \in TypeSet : clock > states[t].cursor
    /\ \A p \in Pulls : pc[p] = "apply" => clock > page[p].asof

MayWrite(r) ==
    /\ clock < MaxClock /\ rows[r].rev < MaxRev[r]
    /\ writing[r] = 0
    /\ AfterQueries

\* create, update and softDelete of EntityCrudService: Prisma takes updated_at
\* before the statement, which commits in a later step.
StartWrite(r) ==
    /\ MayWrite(r)
    /\ writing' = [writing EXCEPT ![r] = clock]
    /\ UNCHANGED <<clock, rows, device, states, session, pullVars, told>>

\* A deletion sets deletedAt, an update leaves it.
CommitWrite(r, delete) ==
    /\ writing[r] > 0
    /\ delete => rows[r].rev > 0
    /\ rows' = [rows EXCEPT ![r] = [rev |-> @.rev + 1, at |-> writing[r],
                                    deleted |-> @.deleted \/ delete]]
    /\ writing' = [writing EXCEPT ![r] = 0]
    /\ UNCHANGED <<clock, device, states, session, pullVars, told>>

-----------------------------------------------------------------------------
(* The pull of the device.                                                 *)

GoTo(p, step) == pc' = [pc EXCEPT ![p] = step]

\* _ensureSyncStates: a type without a state of this tenant gets one; the id
\* has no tenant in it, so the row of another tenant is taken over, and the
\* columns that are not given, the cursor among them, keep their values.
EnsureSyncStates(p) ==
    /\ pc[p] = "idle" /\ session # NoTenant
    /\ states' = [t \in TypeSet |-> [states[t] EXCEPT !.tenant = session]]
    /\ tenant' = [tenant EXCEPT ![p] = session]
    /\ GoTo(p, "read")
    /\ UNCHANGED <<clock, rows, writing, device, session, left, snap, page, told>>

\* watchForTenant(tenantId).first
ReadStates(p) ==
    /\ pc[p] = "read"
    /\ snap' = [snap EXCEPT ![p] = [t \in TypeSet |-> states[t].cursor]]
    /\ left' = [left EXCEPT ![p] =
                   {t \in TypeSet : states[t].tenant = tenant[p]}]
    /\ GoTo(p, "request")
    /\ UNCHANGED <<clock, rows, writing, device, states, session, tenant, page, told>>

\* The type whose turn it is: the states come ordered by type.
Current(p) ==
    Types[CHOOSE i \in DOMAIN Types : /\ Types[i] \in left[p]
                                      /\ \A j \in 1 .. i - 1 : Types[j] \notin left[p]]

\* A pull that fails, or is over, holds nothing any more.
EndPull(p) ==
    /\ GoTo(p, "idle")
    /\ left' = [left EXCEPT ![p] = {}]
    /\ page' = [page EXCEPT ![p] = NoPage]
    /\ snap' = [snap EXCEPT ![p] = [t \in TypeSet |-> 0]]
    /\ tenant' = [tenant EXCEPT ![p] = NoTenant]

\* SyncService.pull: the entity type is looked up and the time is taken.
Request(p) ==
    /\ pc[p] = "request" /\ left[p] # {}
    /\ IsKnown(Current(p))
    /\ page' = [page EXCEPT ![p] = [asof |-> clock, changes |-> {}]]
    /\ GoTo(p, "query")
    /\ UNCHANGED <<clock, rows, writing, device, states, session, tenant, left, snap, told>>

\* EntityCrudService.list with includeDeleted and since.
Selected(p, r) ==
    /\ TypeOf[r] = Current(p) /\ TenantOf[r] = tenant[p] /\ rows[r].rev > 0
    /\ rows[r].at > snap[p][TypeOf[r]]

\* pullEntityChanges: the query sees the committed rows; without "slow_commit"
\* no statement is on its way just then.
Query(p) ==
    /\ pc[p] = "query"
    /\ "slow_commit" \in Faults \/ \A r \in Rows : writing[r] = 0
    /\ page' = [page EXCEPT ![p].changes =
                   {[row |-> r, rev |-> rows[r].rev, deleted |-> rows[r].deleted] :
                       r \in {q \in Rows : Selected(p, q)}}]
    /\ GoTo(p, "apply")
    /\ UNCHANGED <<clock, rows, writing, device, states, session, tenant, left, snap, told>>

\* The reply is lost, or the type is refused: NetworkError ends the pull.
PullFails(p) ==
    /\ \/ pc[p] = "apply" /\ "lost_reply" \in Faults
       \/ pc[p] = "request" /\ left[p] # {} /\ ~IsKnown(Current(p))
    /\ EndPull(p)
    /\ UNCHANGED <<clock, rows, writing, device, states, session, told>>

\* Mutant: a deletion is written as a sync status.
Applied_Deleted(row, c) ==
    IF row.status \notin {"none", "synced"} THEN [row EXCEPT !.status = "conflict"]
    ELSE [rev |-> c.rev, status |-> IF c.deleted THEN "deleted" ELSE "synced"]

\* _applyChange: a row with unsent changes becomes a conflict, a deletion of a
\* row the device does not have does nothing.
Applied(row, c) ==
    IF row.status \notin {"none", "synced"} THEN [row EXCEPT !.status = "conflict"]
    ELSE IF c.deleted /\ row.status = "none" THEN row
    ELSE [rev |-> c.rev, status |-> "synced"]

\* Mutant: the cursor is the time at which the page is applied.
NextCursor_Now(p) == clock

NextCursor(p) == page[p].asof

\* Mutant: an order is new if the page has its first version.
IsNew_FirstVersion(p, c) ==
    TypeOf[c.row] = "work_orders" /\ snap[p]["work_orders"] > 0 /\ ~c.deleted /\ c.rev = 1

\* A work order the device did not have, in a pull that is not the first one.
IsNew(p, c) ==
    /\ TypeOf[c.row] = "work_orders" /\ snap[p]["work_orders"] > 0
    /\ ~c.deleted
    /\ device[c.row].status = "none"

\* The page and the cursor are written in one transaction, over the sync state
\* as the pull has read it.  New orders are announced once a pull has succeeded.
ApplyPage(p) ==
    /\ pc[p] = "apply"
    /\ LET t == Current(p)
           changed == {c.row : c \in page[p].changes}
           ChangeOf(r) == CHOOSE c \in page[p].changes : c.row = r
       IN  /\ device' = [r \in Rows |->
                            IF r \in changed THEN Applied(device[r], ChangeOf(r))
                            ELSE device[r]]
           /\ states' = [states EXCEPT ![t] = [tenant |-> tenant[p],
                                               cursor |-> NextCursor(p)]]
           /\ page' = [page EXCEPT ![p] =
                          [asof |-> 0, changes |-> {c \in page[p].changes : IsNew(p, c)}]]
    /\ left' = [left EXCEPT ![p] = @ \ {Current(p)}]
    /\ GoTo(p, "notify")
    /\ UNCHANGED <<clock, rows, writing, session, tenant, snap, told>>

\* notifyNewWorkOrder after the transaction; its errors are ignored.
Notify(p) ==
    /\ pc[p] = "notify"
    /\ told' = [r \in Rows |-> IF \E c \in page[p].changes : c.row = r
                               THEN told[r] + 1 ELSE told[r]]
    /\ page' = [page EXCEPT ![p] = NoPage]
    /\ GoTo(p, "request")
    /\ UNCHANGED <<clock, rows, writing, device, states, session, tenant, left, snap>>

FinishPull(p) ==
    /\ pc[p] = "request" /\ left[p] = {}
    /\ EndPull(p)
    /\ UNCHANGED <<clock, rows, writing, device, states, session, told>>

PullStep(p) ==
    \/ EnsureSyncStates(p) \/ ReadStates(p) \/ Request(p) \/ Query(p)
    \/ ApplyPage(p) \/ Notify(p) \/ FinishPull(p)

-----------------------------------------------------------------------------
(* The rest of the device.                                                 *)

\* The user changes a row the device has (OutboxSync has the details).
EditLocally(r) ==
    /\ "edit" \in Faults
    /\ device[r].status = "synced"
    /\ device' = [device EXCEPT ![r].status = "pending"]
    /\ UNCHANGED <<clock, rows, writing, states, session, pullVars, told>>

\* The edit is pushed (ServerPush has the details): it is accepted if the
\* server's row is the one it was made from, and a conflict otherwise.
PushEdit(r) ==
    /\ device[r].status = "pending"
    /\ MayWrite(r)
    /\ \/ /\ rows[r].rev = device[r].rev
          /\ rows' = [rows EXCEPT ![r] = [rev |-> @.rev + 1, at |-> clock,
                                             deleted |-> @.deleted]]
          /\ device' = [device EXCEPT ![r] = [rev |-> @.rev + 1, status |-> "synced"]]
       \/ /\ rows[r].rev # device[r].rev
          /\ device' = [device EXCEPT ![r].status = "conflict"]
          /\ UNCHANGED rows
    /\ UNCHANGED <<clock, writing, states, session, pullVars, told>>

\* A login, or with "switch" one after a logout; the database is kept.
Login(t) ==
    /\ session = NoTenant \/ "switch" \in Faults
    /\ t # session
    /\ session' = t
    /\ UNCHANGED <<clock, rows, writing, device, states, pullVars, told>>

\* The app is killed, as long as the clock is below its bound.
Kill ==
    /\ "kill" \in Faults
    /\ clock < MaxClock
    /\ pc' = [p \in Pulls |-> "idle"]
    /\ tenant' = [p \in Pulls |-> NoTenant]
    /\ left' = [p \in Pulls |-> {}]
    /\ snap' = [p \in Pulls |-> [t \in TypeSet |-> 0]]
    /\ page' = [p \in Pulls |-> NoPage]
    /\ UNCHANGED <<clock, rows, writing, device, states, session, told>>

Next ==
    \/ Tick \/ Kill
    \/ \E r \in Rows : \/ StartWrite(r) \/ \E delete \in BOOLEAN : CommitWrite(r, delete)
                       \/ EditLocally(r) \/ PushEdit(r)
    \/ \E p \in Pulls : PullStep(p) \/ PullFails(p)
    \/ \E t \in Tenants : Login(t)

Spec == Init /\ [][Next]_vars

\* A user logs in, time passes, pulls are started by the timer and go on, commits end, and a
\* type whose page is fetched again and again gets it in the end.
Fairness ==
    /\ WF_vars(Tick) /\ WF_vars(\E t \in Tenants : session = NoTenant /\ Login(t))
    /\ \A r \in Rows : WF_vars(\E delete \in BOOLEAN : CommitWrite(r, delete))
    /\ \A p \in Pulls :
          /\ WF_vars(PullStep(p))
          /\ \A t \in TypeSet : SF_vars(ApplyPage(p) /\ Current(p) = t)

LiveSpec == Spec /\ Fairness

-----------------------------------------------------------------------------
(* Properties.                                                             *)

TypeOK ==
    /\ clock \in Times
    /\ rows \in [Rows -> [rev : Nat, at : Times, deleted : BOOLEAN]]
    /\ writing \in [Rows -> Times]
    /\ device \in [Rows -> [rev : Nat, status : {"none", "synced", "pending", "conflict"}]]
    /\ states \in [TypeSet -> [tenant : Tenants \cup {NoTenant}, cursor : Times]]
    /\ session \in Tenants \cup {NoTenant}
    /\ pc \in [Pulls -> PcValues]
    /\ tenant \in [Pulls -> Tenants \cup {NoTenant}]
    /\ left \in [Pulls -> SUBSET TypeSet]
    /\ snap \in [Pulls -> [TypeSet -> Times]]
    /\ page \in [Pulls -> [asof : Times, changes : SUBSET Change]]
    /\ told \in [Rows -> Nat]

\* The device does not show the row as the server has it; a deleted row that
\* never reached the device is not missed, a conflict is left to the user.
Lacks(r) ==
    /\ rows[r].rev # device[r].rev
    /\ ~(rows[r].deleted /\ device[r].status = "none")
    /\ device[r].status # "conflict"

\* The cursor never passes a change the device does not have: whatever the
\* device lacks of its tenant is newer than the stored cursor of its type, so
\* that a later pull still fetches it (pull takes the time before the query,
\* and the page and the cursor are one transaction).
NothingSkipped ==
    \A r \in Rows :
        LET state == states[TypeOf[r]]
        IN  state.tenant = session /\ TenantOf[r] = session /\ Lacks(r)
                => rows[r].at > state.cursor

\* A new order is announced once, although overlapping pulls fetch it twice
\* and a slower pull moves the cursor back.
AnnouncedOnce == \A r \in Rows : told[r] <= 1

\* Once the server's rows stop changing, every row of the tenant reaches the
\* device or waits for the user, through lost replies and kills.
CatchesUp ==
    <>[](\A r \in Rows : TenantOf[r] = session /\ device[r].status # "pending" => ~Lacks(r))
=============================================================================
