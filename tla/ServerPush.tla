----------------------------- MODULE ServerPush -----------------------------
(***************************************************************************)
(* POST /sync/push of the backend (SyncService.push) with the writers it   *)
(* shares the entity tables with.                                          *)
(*                                                                         *)
(* A request handler takes the entries of its batch one after the other.   *)
(* Each prisma call is an await and a database transaction of its own, so  *)
(* every one is a step, handlers of several requests interleave between    *)
(* them, and the process can be killed between them.  An exception leaves  *)
(* the rest of the batch undone and answers the request with an error.     *)
(*                                                                         *)
(* An outbox id stands for the unique pair (tenant_id, outbox_id).         *)
(***************************************************************************)
EXTENDS Naturals, Sequences, FiniteSets

CONSTANTS
    Records,    \* primary keys of the entity tables
    OutboxIds,  \* entries a client may push
    Tenants,
    TenantOf,   \* the tenant whose token an entry is pushed with
    Owner,      \* the tenant a record belongs to at the start, or NoTenant
    NoTenant,
    TenantRecords, \* the rows of entity tenants, whose id is that of the tenant
    Relinks,    \* the tenant a payload's relation field names, or NoTenant
    Operations, \* operations the clients use; "bogus" is one nobody supports
    Versioned,  \* entries pushed with a baseVersion
    Handlers,   \* requests that may be in progress together
    Batches,    \* sequences of entries a client may put into one request
    Faults,     \* what else occurs: "crash", "lost_reply", "dispatch"
    MaxRev      \* bound: writes to a record before crashes and dispatches end

ASSUME PushAssumption ==
    /\ TenantOf \in [OutboxIds -> Tenants]
    /\ NoTenant \notin Tenants
    /\ Owner \in [Records -> Tenants \cup {NoTenant}]
    /\ TenantRecords \subseteq Records
    /\ Relinks \in [OutboxIds -> Tenants \cup {NoTenant}]
    /\ Operations \subseteq {"create", "update", "delete", "bogus"}
    /\ Versioned \subseteq OutboxIds
    /\ Batches \subseteq Seq(OutboxIds)
    /\ MaxRev \in Nat

VARIABLES
    records,  \* the entity rows; rev counts the writes, by names the last one
    entry,    \* the entries clients have made, with what they saw of the row
    log,      \* sync_outbox_entries: the status of the entry, "none" if absent
    audits,   \* audit_logs: number of rows per entry
    pc,       \* where each request handler is
    batch,    \* the entries it has still to process, the current one first
    snap,     \* the version the current mutation has read
    answers,  \* the accepted and rejected lists of the response so far
    told,     \* history: the answers clients have received
    applied   \* history: how often the mutation of each entry was written

serverVars == <<pc, batch, snap, answers>>
vars == <<records, entry, log, audits, pc, batch, snap, answers, told, applied>>

Verdicts == {"accepted", "rejected"}
NoRecord == [version |-> 0, deleted |-> FALSE, tenant |-> NoTenant,
             rev |-> 0, by |-> "nobody"]
Record == [version : Nat, deleted : BOOLEAN, tenant : Tenants \cup {NoTenant},
           rev : Nat, by : OutboxIds \cup {"nobody", "dispatcher"}]
NoEntry == [record |-> "none", op |-> "none", base |-> 0, rev |-> 0]
Entry == [record : Records, op : Operations, base : Nat, rev : Nat]
Answer == [id : OutboxIds, verdict : Verdicts]
PcValues == {"idle", "lookup", "check", "apply", "write", "insert", "log",
             "reject", "auditAccepted", "auditRejected"}

Init ==
    /\ records = [r \in Records |->
                     IF Owner[r] = NoTenant THEN NoRecord
                     ELSE [NoRecord EXCEPT !.version = 1, !.tenant = Owner[r]]]
    /\ entry = [o \in OutboxIds |-> NoEntry]
    /\ log = [o \in OutboxIds |-> "none"]
    /\ audits = [o \in OutboxIds |-> 0]
    /\ pc = [h \in Handlers |-> "idle"]
    /\ batch = [h \in Handlers |-> << >>]
    /\ snap = [h \in Handlers |-> 0]
    /\ answers = [h \in Handlers |-> {}]
    /\ told = {}
    /\ applied = [o \in OutboxIds |-> 0]

\* A row after an update by primary key.
Written(r, tenant, version, deleted, by) ==
    [version |-> version, deleted |-> deleted, tenant |-> tenant,
     rev |-> records[r].rev + 1, by |-> by]

Quiet == \A r \in Records : records[r].rev < MaxRev

-----------------------------------------------------------------------------
(* Clients and the dispatcher.                                             *)

\* A client makes an entry from the version of the record it has pulled; a
\* record that it has created itself may not have reached the server yet.
MakeEntry(o, r, op) ==
    /\ entry[o] = NoEntry
    /\ op = "create" => records[r].version = 0
    /\ entry' = [entry EXCEPT ![o] = [record |-> r, op |-> op,
                                      base |-> records[r].version,
                                      rev |-> records[r].rev]]
    /\ UNCHANGED <<records, log, audits, serverVars, told, applied>>

\* A request arrives, for the first time or as a retry.
Receive(h, b) ==
    /\ pc[h] = "idle"
    /\ \A k \in DOMAIN b : entry[b[k]] # NoEntry
    /\ pc' = [pc EXCEPT ![h] = "lookup"]
    /\ batch' = [batch EXCEPT ![h] = b]
    /\ UNCHANGED <<records, entry, log, audits, snap, answers, told, applied>>

\* DispositionService.updateWorkOrder: one updateMany that leaves version alone.
UpdateWorkOrder(r) ==
    /\ "dispatch" \in Faults
    /\ Quiet
    /\ r \notin TenantRecords
    /\ records[r].version > 0 /\ ~records[r].deleted
    /\ records' = [records EXCEPT ![r] =
                      Written(r, records[r].tenant, records[r].version,
                              records[r].deleted, "dispatcher")]
    /\ UNCHANGED <<entry, log, audits, serverVars, told, applied>>

-----------------------------------------------------------------------------
(* One entry: processPushEntry, rejectEntry, replayPrevious.               *)

\* Mutant: the record is looked up by its id alone.
Found_AnyTenant(o) == records[entry[o].record].version > 0

\* findTenantRecord with includeDeleted.  The condition on the tenant is put on
\* the column tenantId, except for a row of tenants, where it is put on the id
\* and then overwritten by the id that is looked up.
Found(o) ==
    LET r == entry[o].record
    IN  /\ records[r].version > 0
        /\ r \in TenantRecords \/ records[r].tenant = TenantOf[o]

GoTo(h, step) == pc' = [pc EXCEPT ![h] = step]

\* The response of an entry is complete: the loop of push takes the next one.
NextEntry(h, verdict) ==
    /\ GoTo(h, "lookup")
    /\ batch' = [batch EXCEPT ![h] = Tail(@)]
    /\ answers' = [answers EXCEPT ![h] =
                      @ \cup {[id |-> Head(batch[h]), verdict |-> verdict]}]
    /\ snap' = [snap EXCEPT ![h] = 0]

\* An exception ends the request; what is written stays written.
Throw(h) ==
    /\ GoTo(h, "idle")
    /\ batch' = [batch EXCEPT ![h] = << >>]
    /\ answers' = [answers EXCEPT ![h] = {}]
    /\ snap' = [snap EXCEPT ![h] = 0]
    /\ UNCHANGED <<records, entry, log, audits, told, applied>>

\* Mutant: the idempotency record is never consulted.
Lookup_Skipped(h, o) ==
    /\ GoTo(h, IF entry[o].op = "bogus" THEN "reject" ELSE "check")
    /\ UNCHANGED <<batch, snap, answers>>

\* findUnique on the outbox id: a known entry is replayed, an entry that makes
\* no sense is rejected.
Lookup(h, o) ==
    \/ log[o] # "none" /\ NextEntry(h, log[o])
    \/ /\ log[o] = "none"
       /\ GoTo(h, IF entry[o].op = "bogus" THEN "reject" ELSE "check")
       /\ UNCHANGED <<batch, snap, answers>>

LookupEntry(h) ==
    /\ pc[h] = "lookup"
    /\ batch[h] # << >>
    /\ Lookup(h, Head(batch[h]))
    /\ UNCHANGED <<records, entry, log, audits, told, applied>>

\* Mutant: creates are the only operation whose version is compared.
Stale_OnlyCreates(o) ==
    /\ Found(o) /\ o \in Versioned /\ entry[o].op = "create"
    /\ records[entry[o].record].version > entry[o].base

\* The version is newer than the one the entry was made from.
Stale(o) ==
    /\ Found(o) /\ o \in Versioned /\ entry[o].op # "create"
    /\ records[entry[o].record].version > entry[o].base

CheckVersion(h) ==
    /\ pc[h] = "check"
    /\ GoTo(h, IF Stale(Head(batch[h])) THEN "reject" ELSE "apply")
    /\ UNCHANGED <<records, entry, log, audits, batch, snap, answers, told, applied>>

\* Mutant: deleting a record that does not exist succeeds.
ReadToApply_DeleteMissing(h, o) ==
    \/ /\ Found(o)
       /\ GoTo(h, "write")
       /\ snap' = [snap EXCEPT ![h] = records[entry[o].record].version]
       /\ UNCHANGED <<records, entry, log, audits, batch, answers, told, applied>>
    \/ /\ ~Found(o)
       /\ GoTo(h, IF entry[o].op = "delete" THEN "log" ELSE "insert")
       /\ UNCHANGED <<records, entry, log, audits, batch, snap, answers, told, applied>>

\* applySyncMutation reads the record to choose between update and create, and
\* update reads it again; rows are never removed, so the second read, whose
\* version counts, finds what the first one found.
ReadToApply(h, o) ==
    \/ /\ Found(o)
       /\ GoTo(h, "write")
       /\ snap' = [snap EXCEPT ![h] = records[entry[o].record].version]
       /\ UNCHANGED <<records, entry, log, audits, batch, answers, told, applied>>
    \/ /\ ~Found(o) /\ entry[o].op # "delete"
       /\ GoTo(h, "insert")
       /\ UNCHANGED <<records, entry, log, audits, batch, snap, answers, told, applied>>
    \/ /\ ~Found(o) /\ entry[o].op = "delete"
       /\ Throw(h)

ApplySyncMutation(h) == pc[h] = "apply" /\ ReadToApply(h, Head(batch[h]))

\* Mutant: the version is left alone.
NewVersion_Same(h) == snap[h]

NewVersion(h) == snap[h] + 1

\* The payload of an update reaches the row with its relation field: the column
\* tenantId is reserved in cleanWritePayload, the relation tenant is not.
Relinking(o) == Relinks[o] # NoTenant /\ entry[o].op # "delete"

TenantAfter(o) ==
    IF Relinking(o) THEN Relinks[o] ELSE records[entry[o].record].tenant

\* update and softDelete write by primary key; an update never clears deletedAt.
\* A tenant has no relation of that name, so that Prisma throws.
WriteRecord(h) ==
    /\ pc[h] = "write"
    /\ LET o == Head(batch[h])
           r == entry[o].record
       IN  \/ /\ ~(r \in TenantRecords /\ Relinking(o))
              /\ records' = [records EXCEPT ![r] =
                                Written(r, TenantAfter(o), NewVersion(h),
                                        records[r].deleted \/ entry[o].op = "delete", o)]
              /\ applied' = [applied EXCEPT ![o] = @ + 1]
              /\ GoTo(h, "log")
              /\ UNCHANGED <<entry, log, audits, batch, snap, answers, told>>
           \/ r \in TenantRecords /\ Relinking(o) /\ Throw(h)

\* Mutant: the tenant is taken from the payload, where its column is reserved.
TenantData_Missing(o) == NoTenant

TenantData(o) == TenantOf[o]

\* What Prisma refuses to create: a primary key that is taken, by any tenant;
\* a tenant, because tenantData gives it the id of the pusher's own; and data
\* that have the relation next to the column tenantId.
Uncreatable(o) ==
    LET r == entry[o].record
    IN  records[r].version > 0 \/ r \in TenantRecords \/ Relinking(o)

\* create
InsertRecord(h) ==
    /\ pc[h] = "insert"
    /\ LET o == Head(batch[h])
           r == entry[o].record
       IN  \/ /\ ~Uncreatable(o)
              /\ records' = [records EXCEPT ![r] =
                                [version |-> 1, deleted |-> FALSE,
                                 tenant |-> TenantData(o),
                                 rev |-> records[r].rev + 1, by |-> o]]
              /\ applied' = [applied EXCEPT ![o] = @ + 1]
              /\ GoTo(h, "log")
              /\ UNCHANGED <<entry, log, audits, batch, snap, answers, told>>
           \/ Uncreatable(o) /\ Throw(h)

\* Mutant: the row of the outbox id is written with upsert.
StoreVerdict_Upsert(h, o, verdict, next) ==
    /\ log' = [log EXCEPT ![o] = verdict]
    /\ GoTo(h, next)
    /\ UNCHANGED <<records, entry, audits, batch, snap, answers, told, applied>>

\* syncOutboxEntry.create: (tenant_id, outbox_id) is unique.
StoreVerdict(h, o, verdict, next) ==
    \/ /\ log[o] = "none"
       /\ log' = [log EXCEPT ![o] = verdict]
       /\ GoTo(h, next)
       /\ UNCHANGED <<records, entry, audits, batch, snap, answers, told, applied>>
    \/ log[o] # "none" /\ Throw(h)

LogAccepted(h) ==
    /\ pc[h] = "log"
    /\ StoreVerdict(h, Head(batch[h]), "accepted", "auditAccepted")

RejectEntry(h) ==
    /\ pc[h] = "reject"
    /\ StoreVerdict(h, Head(batch[h]), "rejected", "auditRejected")

Audit(h) ==
    /\ pc[h] \in {"auditAccepted", "auditRejected"}
    /\ audits' = [audits EXCEPT ![Head(batch[h])] = @ + 1]
    /\ NextEntry(h, IF pc[h] = "auditAccepted" THEN "accepted" ELSE "rejected")
    /\ UNCHANGED <<records, entry, log, told, applied>>

\* The response leaves the server, and may never arrive.
Respond(h) ==
    /\ pc[h] = "lookup"
    /\ batch[h] = << >>
    /\ \/ told' = told \cup answers[h]
       \/ "lost_reply" \in Faults /\ told' = told
    /\ GoTo(h, "idle")
    /\ answers' = [answers EXCEPT ![h] = {}]
    /\ UNCHANGED <<records, entry, log, audits, batch, snap, applied>>

\* The server process is killed and started again.
Crash ==
    /\ "crash" \in Faults
    /\ Quiet
    /\ pc' = [h \in Handlers |-> "idle"]
    /\ batch' = [h \in Handlers |-> << >>]
    /\ snap' = [h \in Handlers |-> 0]
    /\ answers' = [h \in Handlers |-> {}]
    /\ UNCHANGED <<records, entry, log, audits, told, applied>>

ProcessPushEntry(h) ==
    \/ LookupEntry(h) \/ CheckVersion(h) \/ ApplySyncMutation(h)
    \/ WriteRecord(h) \/ InsertRecord(h) \/ LogAccepted(h) \/ RejectEntry(h)
    \/ Audit(h) \/ Respond(h)

Next ==
    \/ \E o \in OutboxIds, r \in Records, op \in Operations : MakeEntry(o, r, op)
    \/ \E h \in Handlers : ProcessPushEntry(h) \/ \E b \in Batches : Receive(h, b)
    \/ \E r \in Records : UpdateWorkOrder(r)
    \/ Crash

Spec == Init /\ [][Next]_vars

-----------------------------------------------------------------------------
(* Properties.                                                             *)

\* Every variable has its type, a row has a tenant exactly if it exists, and a
\* handler that is in the middle of an entry has one.
TypeOK ==
    /\ records \in [Records -> Record]
    /\ \A r \in Records : records[r].version = 0 <=> records[r].tenant = NoTenant
    /\ entry \in [OutboxIds -> Entry \cup {NoEntry}]
    /\ log \in [OutboxIds -> Verdicts \cup {"none"}]
    /\ audits \in [OutboxIds -> Nat]
    /\ pc \in [Handlers -> PcValues]
    /\ batch \in [Handlers -> Seq(OutboxIds)]
    /\ snap \in [Handlers -> Nat]
    /\ answers \in [Handlers -> SUBSET Answer]
    /\ told \subseteq Answer
    /\ applied \in [OutboxIds -> Nat]
    /\ \A h \in Handlers : pc[h] \notin {"idle", "lookup"} => batch[h] # << >>

\* Whatever requests overlap, crash or are repeated, all answers that clients
\* get for an outbox id are the one stored for it: a retry is never told the
\* opposite of an earlier answer.
AnswersAgreeWithLog == \A a \in told : log[a.id] = a.verdict

\* An entry stored as accepted has been written to its record, whatever crashes
\* and overlapping requests do in between.
AcceptedWasApplied ==
    \A o \in OutboxIds : log[o] = "accepted" => applied[o] > 0

\* No payload names a relation, as none of the clients in this repository does.
NoRelinks == \A o \in OutboxIds : Relinks[o] = NoTenant

\* What a handler has established at one await still holds at the next, however
\* other requests, crashes and the dispatcher got in between: the record it is
\* about to update is there and, unless payloads move records between tenants,
\* one its tenant finds, the entry it is about to store as accepted is written,
\* and the answers it has collected are the stored ones.
EstablishedStays ==
    \A h \in Handlers :
        /\ \A k \in DOMAIN batch[h] : entry[batch[h][k]] # NoEntry
        /\ pc[h] = "write" => records[entry[Head(batch[h])].record].version > 0
        /\ pc[h] = "write" /\ NoRelinks => Found(Head(batch[h]))
        /\ pc[h] = "log" => applied[Head(batch[h])] > 0
        /\ pc[h] = "auditAccepted" => log[Head(batch[h])] = "accepted"
        /\ pc[h] = "auditRejected" => log[Head(batch[h])] = "rejected"
        /\ \A a \in answers[h] : log[a.id] = a.verdict

\* A write to a row that exists leaves it with its tenant, and comes from there.
WrittenByOwner(r) ==
    records[r].version > 0 /\ records'[r] # records[r] =>
        /\ records'[r].tenant = records[r].tenant
        /\ \/ records'[r].by = "dispatcher"
           \/ TenantOf[records'[r].by] = records[r].tenant

\* Of every entity with a column tenantId, push never changes or takes over a
\* row of another tenant, although the update and the create go by the primary
\* key alone and the row was looked up an await earlier.
TenantsAreIsolated ==
    [][\A r \in Records \ TenantRecords : WrittenByOwner(r)]_vars

\* The same of the rows of entity tenants: docs/security.md claims it of all
\* CRUD and sync operations, and findTenantRecord does not keep it.
TenantRowsAreIsolated ==
    [][\A r \in TenantRecords : WrittenByOwner(r)]_vars

\* One request at a time: an entry with a stored verdict is never written again,
\* however often it is repeated after lost replies and crashes.
VerdictEndsWrites ==
    [][\A o \in OutboxIds : log[o] # "none" => applied'[o] = applied[o]]_vars

\* Push is idempotent by outbox id: the mutation of an entry is written once.
AppliedAtMostOnce == \A o \in OutboxIds : applied[o] <= 1

\* A rejected entry has had no effect.
RejectedNotApplied == \A o \in OutboxIds : log[o] = "rejected" => applied[o] = 0

\* An update or delete pushed with a base version is written only over the
\* state of the record that its author had seen.
NoStaleWrite ==
    [][\A r \in Records :
          LET o == records'[r].by
          IN  /\ records'[r] # records[r]
              /\ o \in Versioned
              /\ entry[o].op # "create"
              => records[r].rev = entry[o].rev]_vars

\* The version of a record counts what push has written to it.
VersionCountsWrites ==
    [][\A r \in Records :
          records'[r].rev > records[r].rev => records'[r].version > records[r].version]_vars
=============================================================================
