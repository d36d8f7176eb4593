---------------------------- MODULE GenesisImport ----------------------------
(***************************************************************************)
(* The import of a Genesis archive (prisma/genesis-import.ts): a command   *)
(* that an operator starts, and starts again after it has failed or was    *)
(* killed.  It writes the plan of the archive row by row, without a        *)
(* transaction around it, into tables with foreign keys and unique keys,   *)
(* and keeps a batch with the status of the import and a copy of every row *)
(* of the archive.                                                         *)
(*                                                                         *)
(* The plan is what GenesisMapping makes of the archive: a record with a   *)
(* sequence of drafts for each table and the sequence legacyRecords.  A    *)
(* batch is known by its tenant and its archive, as findFirst by the hash  *)
(* of the archive finds it.                                                *)
(***************************************************************************)
EXTENDS GenesisMapping, FiniteSets

CONSTANTS
    Shelves,    \* what the operator may have: sets of archives
    EntriesOf,  \* the entries of an archive, see TablesOf and RecordsOf
    Tenants,    \* the tenants archives are imported into
    ChunkSize,  \* records written by one createMany, 1000 in the code
    Faults,     \* "database", "kill"
    MaxFaults   \* bound: faults in a behaviour

Archives == UNION Shelves

ASSUME ImportAssumption == ChunkSize \in Nat \ {0} /\ MaxFaults \in Nat

IsSequence(s) == Len(s) \in Nat /\ s = [i \in 1 .. Len(s) |-> s[i]]

\* A ZIP file has an entry once, and a database has a table once.
ASSUME ArchiveAssumption ==
    \A a \in Archives :
        /\ IsSequence(EntriesOf[a])
        /\ \A e, f \in DOMAIN EntriesOf[a] :
              /\ EntriesOf[a][e].folder = EntriesOf[a][f].folder
              /\ EntriesOf[a][e].name = EntriesOf[a][f].name
              => e = f
        /\ \A e \in {e \in DOMAIN EntriesOf[a] : EntriesOf[a][e].mdb} :
              LET tables == EntriesOf[a][e].tables
              IN  /\ IsSequence(tables) /\ EntriesOf[a][e].readable \in 0 .. Len(tables)
                  /\ \A k, l \in DOMAIN tables : tables[k].table = tables[l].table => k = l
                  /\ \A k \in DOMAIN tables : IsSequence(tables[k].rows)

\* inspectGenesisArchive
ArchiveOf == [a \in Archives |-> readGenesisArchive(EntriesOf[a])]
PlanOf == [a \in Archives |-> mapGenesisArchive(ArchiveOf[a])]

VARIABLES
    shelf,    \* the archives at hand, each with its plan
    db,       \* per table the set of its rows: tenant, id and columns
    batches,  \* legacy_import_batches: the status of each
    records,  \* legacy_import_records: pairs of a batch and a record
    pc,       \* where the import is
    job,      \* the batch of the import
    table,    \* the table it is writing
    row,      \* the place in the table's drafts, later in the records
    faults    \* faults so far

vars == <<shelf, db, batches, records, pc, job, table, row, faults>>

\* Mutant: buildings are written before their customers.
Tables_ObjectsFirst ==
    <<"users", "objects", "customers", "installations", "tariffCatalogItems",
      "objectTariffAssignments">>

\* The order of the loops of runGenesisImport.
Tables ==
    <<"users", "customers", "objects", "installations", "tariffCatalogItems",
      "objectTariffAssignments">>

TableSet == {Tables[i] : i \in DOMAIN Tables}
Batches == [tenant : Tenants, archive : Archives]
Plan == shelf[job.archive]
Drafts == Plan[Tables[table]]

Init ==
    /\ shelf \in {[a \in S |-> PlanOf[a]] : S \in Shelves}
    /\ db = [k \in TableSet |-> {}]
    /\ batches = << >>
    /\ records = {}
    /\ pc = "idle"
    /\ job \in {b \in Batches : b.archive \in DOMAIN shelf}
    /\ table = 1 /\ row = 1
    /\ faults = 0

-----------------------------------------------------------------------------
(* The tables.                                                             *)

\* The rows a draft refers to by id; an absent reference is a null.
References(k, d) ==
    {r \in CASE k = "objects" -> {<<"customers", d.customerId>>}
             [] k = "installations" -> {<<"objects", d.objectId>>}
             [] k = "objectTariffAssignments" ->
                    {<<"objects", d.objectId>>, <<"tariffCatalogItems", d.tariffCatalogItemId>>}
             [] OTHER -> {} :
        r[2] # undefined}

\* The employees of the archives at hand have emails of their own.  The mapping
\* does not see to it: an email is made of the letters and digits of the code,
\* and an employee found in the other table is another user with the same one.
EmailsDiffer ==
    \A S \in Shelves : \A a, b \in S :
        \A i \in DOMAIN PlanOf[a].users, j \in DOMAIN PlanOf[b].users :
            PlanOf[a].users[i].email = PlanOf[b].users[j].email
                => PlanOf[a].users[i].sourceKey = PlanOf[b].users[j].sourceKey

\* The row of this tenant and source key.
IsRowOf(r, tenant, d) == r.tenant = tenant /\ r.columns.sourceKey = d.sourceKey

\* Columns the draft does not have keep their values.
Merge(old, d) == [c \in DOMAIN d |-> IF d[c] = undefined THEN old[c] ELSE d[c]]

\* Mutant: every row is created, so that the keys refuse one that is there.
Refused_Create(k, d) == \E r \in db[k] : r.id = d.id

\* What the keys of the schema refuse: a reference to no row, a second user of
\* the tenant with the same email, a new row with an id that is in use.
Refused(k, d) ==
    \/ \E ref \in References(k, d) : \A r \in db[ref[1]] : r.id # ref[2]
    \/ /\ k = "users"
       /\ \E r \in db[k] : /\ r.tenant = job.tenant /\ r.columns.email = d.email
                           /\ ~IsRowOf(r, job.tenant, d)
    \/ /\ \A r \in db[k] : ~IsRowOf(r, job.tenant, d)
       /\ \E r \in db[k] : r.id = d.id

\* upsertUser and its five siblings: the row of the key is updated, all but its
\* id, or a row is created with the id of the draft.
Written(k, d) ==
    IF \E r \in db[k] : IsRowOf(r, job.tenant, d)
    THEN {IF IsRowOf(r, job.tenant, d) THEN [r EXCEPT !.columns = Merge(@, d)] ELSE r : r \in db[k]}
    ELSE db[k] \cup {[tenant |-> job.tenant, id |-> d.id, columns |-> d]}

-----------------------------------------------------------------------------
(* runGenesisImport.                                                       *)

GoTo(step) == pc' = step

\* The command is started for an archive and a tenant that exists; a dry run
\* and "inspect" print the plan and change nothing.
Start(t, a) ==
    /\ pc \in {"idle", "done"}
    /\ a \in DOMAIN shelf
    /\ job' = [tenant |-> t, archive |-> a]
    /\ table' = 1 /\ row' = 1
    /\ GoTo("batch")
    /\ UNCHANGED <<shelf, db, batches, records, faults>>

\* The batch of this archive is taken up again or created.
Running == [b \in DOMAIN batches \cup {job} |-> IF b = job THEN "running" ELSE batches[b]]

FindBatch ==
    /\ pc = "batch"
    /\ batches' = Running
    /\ GoTo("delete")
    /\ UNCHANGED <<shelf, db, records, job, table, row, faults>>

\* deleteMany: the rows are removed, not marked as deleted.
Kept == {r \in records : r[1] # job}

DeleteRecords ==
    /\ pc = "delete"
    /\ records' = Kept
    /\ GoTo("upsert")
    /\ UNCHANGED <<shelf, db, batches, job, table, row, faults>>

\* One awaited upsert; a refusal is an exception.
Upsert ==
    /\ pc = "upsert" /\ table <= Len(Tables) /\ row <= Len(Drafts)
    /\ IF Refused(Tables[table], Drafts[row])
       THEN GoTo("fail") /\ UNCHANGED <<db, row>>
       ELSE /\ db' = [db EXCEPT ![Tables[table]] = Written(Tables[table], Drafts[row])]
            /\ row' = row + 1
            /\ UNCHANGED pc
    /\ UNCHANGED <<shelf, batches, records, job, table, faults>>

\* The end of a loop; the last one is followed by the records.
NextTable ==
    /\ pc = "upsert" /\ table <= Len(Tables) /\ row > Len(Drafts)
    /\ table' = table + 1 /\ row' = 1
    /\ GoTo(IF table = Len(Tables) THEN "records" ELSE "upsert")
    /\ UNCHANGED <<shelf, db, batches, records, job, faults>>

\* Mutant: a last chunk that is not full is left out.
Chunks_Full == (Len(Plan.legacyRecords) \div ChunkSize) * ChunkSize

Chunks == Len(Plan.legacyRecords)

\* createMany of one chunk, all or nothing; duplicates of a key are skipped.
CreateChunk ==
    /\ pc = "records" /\ row <= Chunks
    /\ LET chunk == {Plan.legacyRecords[i] :
                        i \in {j \in row .. row + ChunkSize - 1 : j <= Len(Plan.legacyRecords)}}
       IN  records' = records \cup
              {<<job, r>> : r \in {c \in chunk : \A old \in records :
                                      old[1] = job => old[2].key # c.key}}
    /\ row' = row + ChunkSize
    /\ UNCHANGED <<shelf, db, batches, pc, job, table, faults>>

Complete ==
    /\ pc = "records" /\ row > Chunks
    /\ batches' = [batches EXCEPT ![job] = "completed"]
    /\ GoTo("done")
    /\ UNCHANGED <<shelf, db, records, job, table, row, faults>>

\* The catch clause; the exception then ends the process.
RecordFailure ==
    /\ pc = "fail"
    /\ batches' = [batches EXCEPT ![job] = "failed"]
    /\ GoTo("idle")
    /\ UNCHANGED <<shelf, db, records, job, table, row, faults>>

\* The database does not answer: in the try block that is a failure to record,
\* before it and in the catch clause it ends the process.
DatabaseFault ==
    /\ "database" \in Faults /\ faults < MaxFaults
    /\ \/ pc \in {"delete", "upsert", "records"} /\ GoTo("fail")
       \/ pc \in {"batch", "fail"} /\ GoTo("idle")
    /\ faults' = faults + 1
    /\ UNCHANGED <<shelf, db, batches, records, job, table, row>>

Kill ==
    /\ "kill" \in Faults /\ faults < MaxFaults
    /\ pc \notin {"idle", "done"}
    /\ GoTo("idle")
    /\ faults' = faults + 1
    /\ UNCHANGED <<shelf, db, batches, records, job, table, row>>

Import ==
    FindBatch \/ DeleteRecords \/ Upsert \/ NextTable \/ CreateChunk \/ Complete \/ RecordFailure

Next ==
    \/ \E t \in Tenants, a \in Archives : Start(t, a)
    \/ Import \/ DatabaseFault \/ Kill

Spec == Init /\ [][Next]_vars

Unfinished(b) == b \in DOMAIN batches /\ batches[b] # "completed"

\* The command runs on, and an operator starts it again for an archive whose
\* batch is not completed.
LiveSpec ==
    /\ Spec /\ WF_vars(Import)
    /\ SF_vars(\E t \in Tenants, a \in Archives : Unfinished([tenant |-> t, archive |-> a]) /\ Start(t, a))

-----------------------------------------------------------------------------
(* Properties.                                                             *)

TypeOK ==
    /\ DOMAIN shelf \in Shelves
    /\ DOMAIN db = TableSet
    /\ DOMAIN batches \subseteq Batches
    /\ \A b \in DOMAIN batches : batches[b] \in {"running", "completed", "failed"}
    /\ \A r \in records : r[1] \in DOMAIN batches
    /\ pc \in {"idle", "batch", "delete", "upsert", "records", "fail", "done"}
    /\ job \in Batches
    /\ table \in 1 .. Len(Tables) + 1 /\ row \in Nat \ {0}
    /\ faults \in 0 .. MaxFaults

\* The keys of the schema never refuse a row: every row is written after the
\* rows it refers to, and a repeated import meets its own rows by their keys.
NeverRefused ==
    pc = "upsert" /\ table <= Len(Tables) /\ row <= Len(Drafts)
        => ~Refused(Tables[table], Drafts[row])

\* An import that has ended well has brought everything: the tenant's rows say
\* what the plan says, wherever earlier attempts and archives had left them,
\* and the records are those of the archive, each once.
ImportedAsPlanned ==
    pc = "done" =>
        /\ batches[job] = "completed"
        /\ \A k \in TableSet : \A i \in DOMAIN Plan[k] :
              LET d == Plan[k][i]
              IN  \E r \in db[k] : /\ IsRowOf(r, job.tenant, d)
                                   /\ \A c \in DOMAIN d : c # "id" /\ d[c] # undefined
                                                             => r.columns[c] = d[c]
        /\ {r[2] : r \in {q \in records : q[1] = job}}
               = {Plan.legacyRecords[i] : i \in DOMAIN Plan.legacyRecords}

\* Whatever stopped an import, its repetition completes it.
ImportsComplete == []<>(\A b \in DOMAIN batches : ~Unfinished(b))
=============================================================================
