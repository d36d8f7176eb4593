----------------------------- MODULE OutboxSync -----------------------------
(***************************************************************************)
(* The mobile app's offline write path and synchronisation run.            *)
(*                                                                         *)
(* UI handlers write a row of the local database and, in the same          *)
(* transaction, an outbox entry (AppDatabase.enqueueOutbox).  A            *)
(* synchronisation run (SyncOrchestrator.syncNow) first pulls one page per *)
(* entity type (PullSyncService.pull) and then pushes the outbox entries   *)
(* it listed once at its start (OutboxProcessor.process).  Nothing         *)
(* prevents two runs from overlapping: the network listener, the           *)
(* five-minute timer and the sync button all call syncNow.                 *)
(*                                                                         *)
(* Atomicity is the code's: every awaited database call is one step, and a *)
(* drift transaction (..) block is one step.  Row contents are numbers:    *)
(* 0 is anything the server sent, and every local edit has three numbers   *)
(* of its own, as the transaction of a report writes three contents.       *)
(***************************************************************************)
EXTENDS Naturals, Sequences, FiniteSets

CONSTANTS
    Entities,     \* ids of rows
    Types,        \* entity types, one pull page each
    TypeOf,       \* the entity type of a row
    FileTypes,    \* types created with operation 'upload_file'
    OrderOf,      \* the work order a report belongs to; NoOrder for other rows
    NoOrder,
    MappedTypes,  \* types setEntitySyncStatus knows a table for
    Initial,      \* rows a former pull has already stored
    Runs,         \* synchronisation runs that may be active together
    Editors,      \* UI handlers that may be active together
    EditOps,      \* operations of theirs: "update", "delete"
    Outcomes,     \* what a push or an upload can end with
    Faults,       \* environment faults that occur: "crash", "pull"
    Limit,        \* the limit of OutboxDao.listPending
    MaxEdits      \* bound: local edits, one transaction each, in a behaviour

ASSUME ConstantsAssumption ==
    /\ TypeOf \in [Entities -> Types]
    /\ FileTypes \subseteq Types
    /\ NoOrder \notin Entities
    /\ OrderOf \in [Entities -> Entities \cup {NoOrder}]
    /\ \A e \in Entities : OrderOf[e] # NoOrder =>
          TypeOf[e] \in FileTypes /\ TypeOf[OrderOf[e]] \notin FileTypes
    /\ MappedTypes \subseteq Types
    /\ Initial \subseteq Entities
    /\ EditOps \subseteq {"update", "delete"}
    /\ Outcomes \subseteq {"accepted", "conflict", "error"}
    /\ Limit \in Nat
    /\ MaxEdits \in Nat

VARIABLES
    rows,      \* the entity tables: content, deletion mark, sync_status
    outbox,    \* the outbox_entries table in the order of created_at
    edits,     \* number of local edits so far
    editor,    \* what each UI handler has read and is about to write
    pc,        \* where each synchronisation run is
    left,      \* entity types whose page a run has still to pull
    page,      \* the page a run has received and not applied
    todo,      \* the listed entries a run has not come to yet
    cur,       \* the listed entry a run works on: its id and listed payload
    readPayload, \* the payload column a run read and is about to write back
    rowCopy,   \* the row an upload read and is about to write back
    outcome,   \* how the push or upload of the current entry ended
    accepted,  \* history: edits whose content a push or upload has accepted
    late       \* history: edits merged into an entry some run had listed

rowVars == <<rows, outbox, edits, editor, late>>
runVars == <<pc, left, page, todo, cur, readPayload, rowCopy, outcome>>
vars == <<rows, outbox, edits, editor, pc, left, page, todo, cur,
          readPayload, rowCopy, outcome, accepted, late>>

-----------------------------------------------------------------------------
SyncStatus == {"absent", "pending", "synced", "failed", "conflict"}
Row == [sync : SyncStatus, val : Nat, deleted : BOOLEAN]
NoRow == [sync |-> "absent", val |-> 0, deleted |-> FALSE]
FromServer == [sync |-> "synced", val |-> 0, deleted |-> FALSE]

Operations == {"create", "update", "delete", "upload_file"}
EntryStatus == {"pending", "processing", "done", "failed", "conflict"}
Entry == [entity : Entities, op : Operations, payload : Nat,
          status : EntryStatus, waiting : BOOLEAN]
Snapshot == [id : Nat, payload : Nat]
NoSnapshot == [id |-> 0, payload |-> 0]

Idle == [op |-> "none", entity |-> {}, row |-> NoRow]
Editing == [op : {"update", "delete"}, entity : Entities, row : Row]

NoPage == [upserts |-> {}, deletes |-> {}]
Page == [upserts : SUBSET Entities, deletes : SUBSET Entities]

PullSteps == {"pull", "apply"}
\* Between the await of markProcessing's update and that of the final mark.
EntrySteps == {"push", "upload", "setRow", "readEntry", "writeEntry"}
PcValues == {"idle", "next", "mark"} \cup PullSteps \cup EntrySteps

Mapped(e) == TypeOf[e] \in MappedTypes

\* Mutant: the filter of watchPending, which is right for the status screen.
Listable_AllVisible(i) == outbox[i].status # "done"

\* The entries OutboxDao.listPending selects, before its limit.
Listable(i) == outbox[i].status \in {"pending", "failed"}

\* The rows of listPending: the Limit oldest ones.
Listed ==
    {i \in DOMAIN outbox :
        /\ Listable(i)
        /\ Cardinality({j \in DOMAIN outbox : j < i /\ Listable(j)}) < Limit}

\* Mutant: failed entries are never ready again.
IsReady_OnlyPending(i) == outbox[i].status = "pending"

\* RetryBackoffPolicy.isReady: a failed entry waits until its delay is over.
IsReady(i) == outbox[i].status = "failed" => ~outbox[i].waiting

\* Entries a run has listed and not finished with.
ListedBy(r) == {s.id : s \in todo[r]} \cup {cur[r].id}

\* Mutant: the outcome itself is stored.
RowStatusFor_Raw(o) == o

\* The status of the row the outbox processor writes for an outcome.
RowStatusFor(o) ==
    CASE o = "accepted" -> "synced"
      [] o = "conflict" -> "conflict"
      [] OTHER          -> "failed"

\* A full-row replace of one entry: everything but its key columns is written.
Replaced(i, payload, status, waiting) ==
    [outbox EXCEPT ![i] = [@ EXCEPT !.payload = payload,
                                    !.status = status,
                                    !.waiting = waiting]]

WriteBack(i, payload, status, waiting) ==
    outbox' = Replaced(i, payload, status, waiting)

-----------------------------------------------------------------------------
Init ==
    /\ rows = [e \in Entities |-> IF e \in Initial THEN FromServer ELSE NoRow]
    /\ outbox = << >>
    /\ edits = 0
    /\ editor = [u \in Editors |-> Idle]
    /\ pc = [r \in Runs |-> "idle"]
    /\ left = [r \in Runs |-> {}]
    /\ page = [r \in Runs |-> NoPage]
    /\ todo = [r \in Runs |-> {}]
    /\ cur = [r \in Runs |-> NoSnapshot]
    /\ readPayload = [r \in Runs |-> 0]
    /\ rowCopy = [r \in Runs |-> NoRow]
    /\ outcome = [r \in Runs |-> "none"]
    /\ accepted = {}
    /\ late = {}

-----------------------------------------------------------------------------
(* The UI handlers.                                                        *)

NewEntry(e, op, n) == [entity |-> e, op |-> op, payload |-> n,
                       status |-> "pending", waiting |-> FALSE]

\* What the next local edit writes.
Content(k) == 3 * edits + k

\* The entries an update of a row may be merged into.
Mergeable(e, op) ==
    {i \in DOMAIN outbox : /\ op = "update"
                           /\ outbox[i].entity = e
                           /\ outbox[i].op = "update"
                           /\ outbox[i].status = "pending"}

\* Mutant: every mutation inserts an entry.
EnqueueOutbox_NeverMerges(e, op, n, rest) ==
    /\ outbox' = Append(outbox, NewEntry(e, op, n)) \o rest
    /\ late' = late

\* Mutant: an update that finds a pending entry is taken to be queued already.
EnqueueOutbox_KeepsFirst(e, op, n, rest) ==
    /\ outbox' = (IF Mergeable(e, op) # {} THEN outbox
                  ELSE Append(outbox, NewEntry(e, op, n))) \o rest
    /\ late' = late

\* enqueueOutbox, inside the caller's transaction.  An update is merged into
\* the oldest update entry of the row that is still pending.  The transaction
\* inserts the entries of rest after it.
EnqueueOutbox(e, op, n, rest) ==
    \/ \E i \in Mergeable(e, op) :
          /\ \A j \in Mergeable(e, op) : i <= j
          /\ outbox' = Replaced(i, n, "pending", FALSE) \o rest
          /\ late' = IF \E r \in Runs : i \in ListedBy(r) THEN late \cup {n} ELSE late
    \/ /\ Mergeable(e, op) = {}
       /\ outbox' = Append(outbox, NewEntry(e, op, n)) \o rest
       /\ late' = late

\* The createLocal methods: row and entry in one transaction.
CreateLocal(e) ==
    /\ edits < MaxEdits
    /\ OrderOf[e] = NoOrder
    /\ rows[e].sync = "absent"
    /\ edits' = edits + 1
    /\ rows' = [rows EXCEPT ![e] = [sync |-> "pending", val |-> Content(1),
                                    deleted |-> FALSE]]
    /\ EnqueueOutbox(e, IF TypeOf[e] \in FileTypes THEN "upload_file"
                                                   ELSE "create", Content(1), << >>)
    /\ UNCHANGED <<editor, runVars, accepted>>

\* createGeneratedLocal: one transaction writes the report, attaches it to the
\* order on the screen, which is an edit of that order (attachReportLocal), and
\* makes two entries of the report, one of its data and one of its file.
CreateReport(e) ==
    LET target == OrderOf[e]
    IN  /\ edits < MaxEdits
        /\ target # NoOrder
        /\ rows[e].sync = "absent" /\ rows[target].sync # "absent"
        /\ edits' = edits + 1
        /\ rows' = [rows EXCEPT ![e] = [sync |-> "pending", val |-> Content(1),
                                        deleted |-> FALSE],
                                ![target] = [@ EXCEPT !.sync = "pending",
                                                     !.val = Content(3)]]
        /\ EnqueueOutbox(target, "update", Content(3),
                         <<NewEntry(e, "create", Content(1)),
                           NewEntry(e, "upload_file", Content(2))>>)
        /\ UNCHANGED <<editor, runVars, accepted>>

\* updateNotesLocal, updateCaptionLocal, updateLocal, softDeleteLocal: the row
\* is read outside the transaction; a report is never edited ...
ReadForEdit(u, e, op) ==
    /\ editor[u] = Idle
    /\ edits < MaxEdits
    /\ OrderOf[e] = NoOrder
    /\ rows[e].sync # "absent"
    /\ op = "delete" => ~rows[e].deleted
    /\ editor' = [editor EXCEPT ![u] = [op |-> op, entity |-> e, row |-> rows[e]]]
    /\ UNCHANGED <<rows, outbox, edits, runVars, accepted, late>>

\* ... and a changed copy of it replaces the row inside the transaction.
CommitEdit(u) ==
    /\ editor[u] # Idle
    /\ edits < MaxEdits
    /\ edits' = edits + 1
    /\ rows' = [rows EXCEPT ![editor[u].entity] =
                   [sync |-> "pending", val |-> Content(1),
                    deleted |-> editor[u].row.deleted \/ editor[u].op = "delete"]]
    /\ EnqueueOutbox(editor[u].entity, editor[u].op, Content(1), << >>)
    /\ editor' = [editor EXCEPT ![u] = Idle]
    /\ UNCHANGED <<runVars, accepted>>

-----------------------------------------------------------------------------
(* The pull half of a run.                                                 *)

\* syncNow: the device is online, pull starts with every entity type.
SyncNow(r) ==
    /\ pc[r] = "idle"
    /\ pc' = [pc EXCEPT ![r] = "pull"]
    /\ left' = [left EXCEPT ![r] = Types]
    /\ UNCHANGED <<rowVars, page, todo, cur, readPayload, rowCopy, outcome, accepted>>

\* client.pull returns a page of changes of one entity type.
PullPage(r, t, upserts, deletes) ==
    /\ pc[r] = "pull"
    /\ t \in left[r]
    /\ upserts \cap deletes = {}
    /\ pc' = [pc EXCEPT ![r] = "apply"]
    /\ left' = [left EXCEPT ![r] = @ \ {t}]
    /\ page' = [page EXCEPT ![r] = [upserts |-> upserts, deletes |-> deletes]]
    /\ UNCHANGED <<rowVars, todo, cur, readPayload, rowCopy, outcome, accepted>>

\* _applyChange: a row with a local change is marked, any other is replaced.
AppliedRow(e, p) ==
    CASE rows[e].sync \notin {"absent", "synced"} /\ e \in p.upserts \cup p.deletes
           -> [rows[e] EXCEPT !.sync = "conflict"]
      [] rows[e].sync = "synced" /\ e \in p.deletes
           -> [rows[e] EXCEPT !.deleted = TRUE]
      [] rows[e].sync \in {"absent", "synced"} /\ e \in p.upserts -> FromServer
      [] OTHER -> rows[e]

\* The transaction that applies a page.
ApplyPage(r) ==
    /\ pc[r] = "apply"
    /\ rows' = [e \in Entities |-> AppliedRow(e, page[r])]
    /\ pc' = [pc EXCEPT ![r] = "pull"]
    /\ page' = [page EXCEPT ![r] = NoPage]
    /\ UNCHANGED <<outbox, edits, editor, late, left, todo, cur, readPayload,
                   rowCopy, outcome, accepted>>

\* The request fails, or a page is malformed and its transaction rolls back:
\* syncNow ends without pushing anything.
PullFails(r) ==
    /\ "pull" \in Faults
    /\ \/ pc[r] = "pull" /\ left[r] # {}
       \/ pc[r] = "apply"
    /\ pc' = [pc EXCEPT ![r] = "idle"]
    /\ left' = [left EXCEPT ![r] = {}]
    /\ page' = [page EXCEPT ![r] = NoPage]
    /\ UNCHANGED <<rowVars, todo, cur, readPayload, rowCopy, outcome, accepted>>

-----------------------------------------------------------------------------
(* The push half of a run: OutboxProcessor.process.                        *)

\* listPending, and the filter of the loop: the clock is read once, right
\* after the list, and isReady looks at the listed entry.
ListPending(r) ==
    /\ pc[r] = "pull"
    /\ left[r] = {}
    /\ todo' = [todo EXCEPT ![r] =
                  {[id |-> i, payload |-> outbox[i].payload] :
                      i \in {j \in Listed : IsReady(j)}}]
    /\ pc' = [pc EXCEPT ![r] = "next"]
    /\ UNCHANGED <<rowVars, left, page, cur, readPayload, rowCopy, outcome, accepted>>

\* markProcessing reads the entry ...
MarkProcessingRead(r) ==
    /\ pc[r] = "next"
    /\ \E s \in todo[r] :
          /\ \A x \in todo[r] : s.id <= x.id
          /\ cur' = [cur EXCEPT ![r] = s]
          /\ todo' = [todo EXCEPT ![r] = @ \ {s}]
          /\ readPayload' = [readPayload EXCEPT ![r] = outbox[s.id].payload]
    /\ pc' = [pc EXCEPT ![r] = "mark"]
    /\ UNCHANGED <<rowVars, left, page, rowCopy, outcome, accepted>>

\* ... and replaces it by the copy it read, now processing.
MarkProcessingWrite(r) ==
    /\ pc[r] = "mark"
    /\ WriteBack(cur[r].id, readPayload[r], "processing", FALSE)
    /\ pc' = [pc EXCEPT ![r] = "push"]
    /\ UNCHANGED <<rows, edits, editor, late, left, page, todo, cur,
                   readPayload, rowCopy, outcome, accepted>>

\* The handler of PushSyncService or FileUploadSyncService, or push without a
\* handler.  It is given the listed entry, not the entry of the table.  An
\* error may reach the app although the content arrived.
PushListedEntry(r) ==
    /\ pc[r] = "push"
    /\ \E o \in Outcomes :
          /\ outcome' = [outcome EXCEPT ![r] = o]
          /\ \/ o \in {"accepted", "error"} /\ accepted' = accepted \cup {cur[r].payload}
             \/ o \in {"conflict", "error"} /\ accepted' = accepted
    /\ pc' = [pc EXCEPT ![r] = "setRow"]
    /\ UNCHANGED <<rowVars, left, page, todo, cur, readPayload, rowCopy>>

\* FileUploadSyncService.upload without a handler: markPhotoUploaded and
\* markReportUploaded read the row ...
UploadReadRow(r) ==
    /\ pc[r] = "push"
    /\ outbox[cur[r].id].op = "upload_file"
    /\ rowCopy' = [rowCopy EXCEPT ![r] = rows[outbox[cur[r].id].entity]]
    /\ pc' = [pc EXCEPT ![r] = "upload"]
    /\ UNCHANGED <<rowVars, left, page, todo, cur, readPayload, outcome, accepted>>

\* ... and replace it by the copy, now synced.
UploadWriteRow(r) ==
    /\ pc[r] = "upload"
    /\ rows' = [rows EXCEPT ![outbox[cur[r].id].entity] =
                   [rowCopy[r] EXCEPT !.sync = "synced"]]
    /\ rowCopy' = [rowCopy EXCEPT ![r] = NoRow]
    /\ outcome' = [outcome EXCEPT ![r] = "accepted"]
    /\ accepted' = accepted \cup {cur[r].payload}
    /\ pc' = [pc EXCEPT ![r] = "setRow"]
    /\ UNCHANGED <<outbox, edits, editor, late, left, page, todo, cur, readPayload>>

\* setEntitySyncStatus, in each of the three branches of the loop body: one
\* UPDATE by id, whatever happened to the row since the list was made.
SetEntitySyncStatus(r) ==
    /\ pc[r] = "setRow"
    /\ LET e == outbox[cur[r].id].entity
       IN  rows' = IF Mapped(e) /\ rows[e].sync # "absent"
                   THEN [rows EXCEPT ![e].sync = RowStatusFor(outcome[r])]
                   ELSE rows
    /\ pc' = [pc EXCEPT ![r] = "readEntry"]
    /\ UNCHANGED <<outbox, edits, editor, late, left, page, todo, cur,
                   readPayload, rowCopy, outcome, accepted>>

\* markDone, markConflict and markFailed read the entry ...
ReadEntryToMark(r) ==
    /\ pc[r] = "readEntry"
    /\ readPayload' = [readPayload EXCEPT ![r] = outbox[cur[r].id].payload]
    /\ pc' = [pc EXCEPT ![r] = "writeEntry"]
    /\ UNCHANGED <<rowVars, left, page, todo, cur, rowCopy, outcome, accepted>>

\* ... and replace it by the copy they read with the new status.
WriteEntry(r, o, status, waiting) ==
    /\ pc[r] = "writeEntry"
    /\ outcome[r] = o
    /\ WriteBack(cur[r].id, readPayload[r], status, waiting)
    /\ pc' = [pc EXCEPT ![r] = "next"]
    /\ cur' = [cur EXCEPT ![r] = NoSnapshot]
    /\ readPayload' = [readPayload EXCEPT ![r] = 0]
    /\ outcome' = [outcome EXCEPT ![r] = "none"]
    /\ UNCHANGED <<rows, edits, editor, late, left, page, todo, rowCopy, accepted>>

\* Mutants: a conflict closes its entry; an error sets the row only.
MarkConflict_AsDone(r) == WriteEntry(r, "conflict", "done", FALSE)
MarkFailed_RowOnly(r) == WriteEntry(r, "error", outbox[cur[r].id].status, FALSE)

MarkDone(r) == WriteEntry(r, "accepted", "done", FALSE)
MarkConflict(r) == WriteEntry(r, "conflict", "conflict", FALSE)
MarkFailed(r) == WriteEntry(r, "error", "failed", TRUE)

\* The loop is over and syncNow returns.
FinishRun(r) ==
    /\ pc[r] = "next"
    /\ todo[r] = {}
    /\ pc' = [pc EXCEPT ![r] = "idle"]
    /\ UNCHANGED <<rowVars, left, page, todo, cur, readPayload, rowCopy, outcome, accepted>>

-----------------------------------------------------------------------------
(* The environment.                                                        *)

\* The retry delay of a failed entry is over.
DelayElapses(i) ==
    /\ i \in DOMAIN outbox
    /\ outbox[i].waiting
    /\ WriteBack(i, outbox[i].payload, outbox[i].status, FALSE)
    /\ UNCHANGED <<rows, edits, editor, late, runVars, accepted>>

\* The app is killed and started again: the database is what is left.
Crash ==
    /\ "crash" \in Faults
    /\ editor' = [u \in Editors |-> Idle]
    /\ pc' = [r \in Runs |-> "idle"]
    /\ left' = [r \in Runs |-> {}]
    /\ page' = [r \in Runs |-> NoPage]
    /\ todo' = [r \in Runs |-> {}]
    /\ cur' = [r \in Runs |-> NoSnapshot]
    /\ readPayload' = [r \in Runs |-> 0]
    /\ rowCopy' = [r \in Runs |-> NoRow]
    /\ outcome' = [r \in Runs |-> "none"]
    /\ UNCHANGED <<rows, outbox, edits, accepted, late>>

-----------------------------------------------------------------------------
PullSomePage(r) ==
    \E t \in Types :
        \E upserts, deletes \in SUBSET {e \in Entities : TypeOf[e] = t} :
            PullPage(r, t, upserts, deletes)

\* Everything a run does by itself, given that its awaited calls return.
RunStep(r) ==
    \/ SyncNow(r) \/ PullSomePage(r) \/ ApplyPage(r)
    \/ ListPending(r) \/ MarkProcessingRead(r) \/ MarkProcessingWrite(r)
    \/ PushListedEntry(r) \/ UploadReadRow(r) \/ UploadWriteRow(r)
    \/ SetEntitySyncStatus(r) \/ ReadEntryToMark(r)
    \/ MarkDone(r) \/ MarkConflict(r) \/ MarkFailed(r)
    \/ FinishRun(r)

EditorStep(u) ==
    \/ \E e \in Entities, op \in EditOps : ReadForEdit(u, e, op)
    \/ CommitEdit(u)

Next ==
    \/ \E r \in Runs : RunStep(r) \/ PullFails(r)
    \/ \E u \in Editors : EditorStep(u)
    \/ \E e \in Entities : CreateLocal(e) \/ CreateReport(e)
    \/ \E i \in DOMAIN outbox : DelayElapses(i)
    \/ Crash

Spec == Init /\ [][Next]_vars

\* A report makes three entries, every other edit at most one.
MaxEntries == MaxEdits + 2 * Cardinality({e \in Entities : OrderOf[e] # NoOrder})

\* Awaited calls return, the timer keeps starting runs, delays pass.  The user
\* is free never to act, and faults are free never to occur.
Fairness ==
    /\ \A r \in Runs : WF_vars(RunStep(r))
    /\ \A i \in 1 .. MaxEntries : WF_vars(DelayElapses(i))

LiveSpec == Spec /\ Fairness

-----------------------------------------------------------------------------
(* Properties.                                                             *)

\* Every variable has its type, and a run's progress fits its place.
TypeOK ==
    /\ rows \in [Entities -> Row]
    /\ outbox \in Seq(Entry)
    /\ edits \in Nat
    /\ editor \in [Editors -> Editing \cup {Idle}]
    /\ pc \in [Runs -> PcValues]
    /\ left \in [Runs -> SUBSET Types]
    /\ page \in [Runs -> Page]
    /\ todo \in [Runs -> SUBSET Snapshot]
    /\ cur \in [Runs -> Snapshot]
    /\ readPayload \in [Runs -> Nat]
    /\ rowCopy \in [Runs -> Row]
    /\ outcome \in [Runs -> Outcomes \cup {"none", "accepted"}]
    /\ accepted \subseteq Nat
    /\ late \subseteq Nat

\* However runs and UI handlers interleave, at most one pending update entry
\* exists per row: the merge of enqueueOutbox never has two to choose from, and
\* no write-back of a stale copy revives a second one.
CoalescedOnce ==
    \A i, j \in DOMAIN outbox :
        /\ outbox[i].entity = outbox[j].entity
        /\ outbox[i].op = "update" /\ outbox[i].status = "pending"
        /\ outbox[j].op = "update" /\ outbox[j].status = "pending"
        => i = j

\* A row of a mapped type that is not synced still has an entry that the sync
\* status screen shows (OutboxDao.watchPending: anything but done), so no local
\* change is silently dropped from the queue.
UnsyncedHasOpenEntry ==
    \A e \in Entities :
        Mapped(e) /\ rows[e].sync \notin {"absent", "synced"} =>
            \E i \in DOMAIN outbox :
                outbox[i].entity = e /\ outbox[i].status # "done"

\* An entry ends as done only if the content it ends with was accepted, apart
\* from content merged into it after a run had listed it.
DoneWasAccepted ==
    \A i \in DOMAIN outbox :
        outbox[i].status = "done" => outbox[i].payload \in accepted \cup late

\* The content of a row that nobody has accepted is still in an open entry of
\* that row, apart from content merged into an entry a run had listed.
\* markPhotoUploaded can put old content back, so file types are excluded.
UnsentContentIsQueued ==
    \A e \in Entities :
        LET n == rows[e].val
        IN  TypeOf[e] \notin FileTypes /\ n > 0 /\ n \notin accepted \cup late =>
                \E i \in DOMAIN outbox : /\ outbox[i].entity = e
                                         /\ outbox[i].payload = n
                                         /\ outbox[i].status # "done"

\* An entry is processing only while a run works on it: no path through the
\* loop body leaves one behind in a status listPending does not select.
ProcessingIsOwned ==
    \A i \in DOMAIN outbox :
        outbox[i].status = "processing" =>
            \E r \in Runs : pc[r] \in EntrySteps /\ cur[r].id = i

\* The ids a run works with are ids of the table, any number of runs.
IdsInTable ==
    \A r \in Runs :
        /\ \A s \in todo[r] : s.id \in DOMAIN outbox
        /\ pc[r] \in EntrySteps \cup {"mark"} => cur[r].id \in DOMAIN outbox

\* What one run at a time may rely on between its awaits: the entries it has
\* listed keep their status until it comes to them, the one it works on stays
\* processing, and once the row of an accepted entry is synced, a row that is
\* unsynced again has another open entry.
RunOwnsItsEntries ==
    \A r \in Runs :
        /\ \A s \in todo[r] :
              /\ outbox[s.id].status \in {"pending", "failed"}
              /\ \A t \in todo[r] : s.id = t.id => s = t
              /\ pc[r] \in EntrySteps \cup {"mark"} => s.id # cur[r].id
        /\ pc[r] = "mark" => outbox[cur[r].id].status \in {"pending", "failed"}
        /\ pc[r] \in EntrySteps => outbox[cur[r].id].status = "processing"
        /\ /\ pc[r] \in {"readEntry", "writeEntry"}
           /\ outcome[r] = "accepted"
           => LET e == outbox[cur[r].id].entity
              IN  Mapped(e) /\ rows[e].sync \notin {"absent", "synced"} =>
                      \E j \in DOMAIN outbox \ {cur[r].id} :
                          outbox[j].entity = e /\ outbox[j].status # "done"

\* The status column follows the life cycle of OutboxLifecycle.
Lifecycle == INSTANCE OutboxLifecycle WITH
                 status <- [i \in DOMAIN outbox |-> outbox[i].status]
LifecycleSpec == Lifecycle!Spec

\* No edit is lost: an entry ends as done only if the content it holds was
\* accepted, at whatever time it was merged.
NoMergedEditLost ==
    \A i \in DOMAIN outbox :
        outbox[i].status = "done" => outbox[i].payload \in accepted

\* A page of server data never replaces local content that is still unsent.
PullKeepsUnsentEdits ==
    [][\A e \in Entities :
          rows[e].val > 0 /\ rows[e].val \notin accepted => rows'[e].val # 0]_vars

HasStatus(i, S) == i \in DOMAIN outbox /\ outbox[i].status \in S

\* However runs overlap, every pending entry is eventually pushed, and every
\* failed one is eventually taken up again, unless a stale write-back of the
\* other run ends it before.
EntriesAreAttempted ==
    \A i \in 1 .. MaxEntries :
        /\ HasStatus(i, {"pending"}) ~> HasStatus(i, {"done", "failed", "conflict"})
        /\ HasStatus(i, {"failed"}) ~> HasStatus(i, {"processing", "done", "conflict"})
=============================================================================
