-------------------------- MODULE OutboxSyncProofs ---------------------------
(***************************************************************************)
(* Proofs about OutboxSync for every set of rows, types, runs and UI       *)
(* handlers, every fault, every limit and every number of edits.           *)
(***************************************************************************)
EXTENDS OutboxSync, SequenceTheorems, TLAPS

-----------------------------------------------------------------------------
(* What the two ways of writing the outbox table do.                       *)

\* A full-row replace changes one entry in its payload, status and delay, and
\* nothing else of the table.
LEMMA ReplacedEffect ==
    ASSUME outbox \in Seq(Entry), NEW i \in DOMAIN outbox, NEW p \in Nat,
           NEW st \in EntryStatus, NEW w \in BOOLEAN,
           NEW table, table = Replaced(i, p, st, w)
    PROVE  /\ table \in Seq(Entry)
           /\ Len(table) = Len(outbox)
           /\ DOMAIN table = DOMAIN outbox
           /\ \A j \in DOMAIN outbox :
                 /\ table[j].entity = outbox[j].entity
                 /\ table[j].op = outbox[j].op
                 /\ table[j].status = IF j = i THEN st ELSE outbox[j].status
                 /\ table[j].payload = IF j = i THEN p ELSE outbox[j].payload
<1> DEFINE new == [outbox[i] EXCEPT !.payload = p, !.status = st, !.waiting = w]
<1>1. DOMAIN outbox = 1 .. Len(outbox) /\ outbox[i] \in Entry
  BY LenProperties, ElementOfSeq
<1>2. /\ new \in Entry
      /\ new.entity = outbox[i].entity /\ new.op = outbox[i].op
      /\ new.status = st /\ new.payload = p
  BY <1>1 DEF Entry
<1>3. table = [outbox EXCEPT ![i] = new]
  BY DEF Replaced
<1> HIDE DEF new
<1>4. /\ table \in Seq(Entry)
      /\ Len(table) = Len(outbox)
      /\ \A j \in 1 .. Len(outbox) : table[j] = IF j = i THEN new ELSE outbox[j]
  BY <1>1, <1>2, <1>3, ExceptSeq
<1>5. DOMAIN table = DOMAIN outbox
  BY <1>1, <1>4, LenProperties
<1> QED
  BY <1>1, <1>2, <1>4, <1>5

LEMMA WriteBackEffect ==
    ASSUME outbox \in Seq(Entry), NEW i \in DOMAIN outbox, NEW p \in Nat,
           NEW st \in EntryStatus, NEW w \in BOOLEAN, WriteBack(i, p, st, w)
    PROVE  /\ outbox' \in Seq(Entry)
           /\ DOMAIN outbox' = DOMAIN outbox
           /\ \A j \in DOMAIN outbox :
                 /\ outbox'[j].entity = outbox[j].entity
                 /\ outbox'[j].op = outbox[j].op
                 /\ outbox'[j].status = IF j = i THEN st ELSE outbox[j].status
                 /\ outbox'[j].payload = IF j = i THEN p ELSE outbox[j].payload
BY ReplacedEffect DEF WriteBack

PendingUpdate(i, e) ==
    /\ outbox[i].entity = e
    /\ outbox[i].op = "update"
    /\ outbox[i].status = "pending"

\* The table with the entry of the content n; rest is inserted after it.
TableAfter(table, e, op, n, rest) ==
    /\ outbox' = table \o rest
    /\ Len(table) \in {Len(outbox), Len(outbox) + 1}
    /\ \A j \in DOMAIN outbox :
          /\ table[j].entity = outbox[j].entity
          /\ table[j].op = outbox[j].op
          /\ table[j].status = outbox[j].status
    /\ \E k \in DOMAIN table :
          /\ table[k].entity = e
          /\ table[k].status = "pending"
          /\ table[k].payload = n
          /\ \A j \in DOMAIN outbox :
                j # k => table[j].payload = outbox[j].payload
          /\ \A r \in Runs :
                k \in DOMAIN outbox /\ k \in ListedBy(r) => n \in late'
          /\ Len(table) # Len(outbox) =>
                /\ k = Len(table)
                /\ table[k].op = op
                /\ op = "update" =>
                      \A j \in DOMAIN outbox : ~PendingUpdate(j, e)

\* enqueueOutbox keeps the key and the status of every entry, leaves the content
\* n in a pending entry of row e and touches no other payload.  An entry a run
\* has listed is only given content that is noted as late, and an entry is
\* appended only if no update could be merged.
LEMMA EnqueueEffect ==
    ASSUME outbox \in Seq(Entry), late \subseteq Nat,
           NEW e \in Entities, NEW op \in Operations, NEW n \in Nat,
           NEW rest, EnqueueOutbox(e, op, n, rest)
    PROVE  /\ late \subseteq late' /\ late' \subseteq late \cup {n}
           /\ \E table \in Seq(Entry) : TableAfter(table, e, op, n, rest)
<1>1. late \subseteq late' /\ late' \subseteq late \cup {n}
  BY DEF EnqueueOutbox
<1>2. DOMAIN outbox = 1 .. Len(outbox) /\ Len(outbox) \in Nat
  BY LenProperties
<1>3. ASSUME NEW i \in Mergeable(e, op),
             outbox' = Replaced(i, n, "pending", FALSE) \o rest,
             late' = IF \E r \in Runs : i \in ListedBy(r) THEN late \cup {n} ELSE late
      PROVE  \E table \in Seq(Entry) : TableAfter(table, e, op, n, rest)
  <2>0. /\ "pending" \in EntryStatus /\ FALSE \in BOOLEAN
        /\ i \in DOMAIN outbox /\ PendingUpdate(i, e)
    BY <1>3 DEF EntryStatus, Mergeable, PendingUpdate
  <2>1. PICK st, w, table :
            /\ st \in EntryStatus /\ w \in BOOLEAN
            /\ st = "pending" /\ w = FALSE /\ table = Replaced(i, n, st, w)
    BY <2>0
  <2>2. /\ table \in Seq(Entry)
        /\ Len(table) = Len(outbox)
        /\ DOMAIN table = DOMAIN outbox
        /\ \A j \in DOMAIN outbox :
              /\ table[j].entity = outbox[j].entity
              /\ table[j].op = outbox[j].op
              /\ table[j].status = IF j = i THEN "pending" ELSE outbox[j].status
              /\ table[j].payload = IF j = i THEN n ELSE outbox[j].payload
    BY <2>0, <2>1, ReplacedEffect
  <2>3. \A r \in Runs : i \in ListedBy(r) => n \in late'
    BY <1>3
  <2>4. outbox' = table \o rest
    BY <1>3, <2>1
  <2>5. TableAfter(table, e, op, n, rest)
    BY <2>0, <2>2, <2>3, <2>4 DEF PendingUpdate, TableAfter
  <2> QED
    BY <2>2, <2>5
<1>4. CASE Mergeable(e, op) = {} /\ outbox' = Append(outbox, NewEntry(e, op, n)) \o rest
  <2> DEFINE new == NewEntry(e, op, n)
  <2>0. PICK table : table = Append(outbox, new)
    OBVIOUS
  <2>1. /\ new \in Entry
        /\ new.entity = e /\ new.op = op /\ new.status = "pending" /\ new.payload = n
    BY DEF NewEntry, Entry, EntryStatus
  <2> HIDE DEF new
  <2>2. /\ table \in Seq(Entry)
        /\ Len(table) = Len(outbox) + 1
        /\ \A i \in 1 .. Len(outbox) : table[i] = outbox[i]
        /\ table[Len(outbox) + 1] = new
    BY <2>0, <2>1, AppendProperties
  <2>3. DOMAIN table = 1 .. Len(outbox) + 1
    BY <2>2, LenProperties
  <2>4. outbox' = table \o rest
    BY <1>4, <2>0 DEF new
  <2>5. op = "update" => \A j \in DOMAIN outbox : ~PendingUpdate(j, e)
    BY <1>4 DEF Mergeable, PendingUpdate
  <2>6. Len(table) \in DOMAIN table /\ Len(table) \notin DOMAIN outbox
    BY <1>2, <2>2, <2>3
  <2>7. TableAfter(table, e, op, n, rest)
    BY <1>2, <2>1, <2>2, <2>4, <2>5, <2>6 DEF TableAfter
  <2> QED
    BY <1>1, <2>2, <2>7
<1>5. \E table \in Seq(Entry) : TableAfter(table, e, op, n, rest)
  BY <1>3, <1>4 DEF EnqueueOutbox
<1> QED
  BY <1>1, <1>5

\* A local write leaves the content n of row e in the entry k, which is pending,
\* and may insert further entries of files.
QueuedAt(k, e, n) ==
    /\ outbox'[k].entity = e
    /\ outbox'[k].status = "pending"
    /\ outbox'[k].payload = n
    /\ \A j \in DOMAIN outbox : j # k => outbox'[j].payload = outbox[j].payload
    /\ \A r \in Runs : k \in DOMAIN outbox /\ k \in ListedBy(r) => n \in late'
    /\ \A j \in DOMAIN outbox' \ DOMAIN outbox :
          /\ outbox'[j].status = "pending"
          /\ outbox'[j].op = "upload_file" => TypeOf[outbox'[j].entity] \in FileTypes
          /\ outbox'[j].op = "update" =>
                j = k /\ \A i \in DOMAIN outbox : ~PendingUpdate(i, e)

Queues(e, n) ==
    /\ outbox' \in Seq(Entry)
    /\ Len(outbox') \in Len(outbox) .. Len(outbox) + 3
    /\ late \subseteq late' /\ late' \subseteq late \cup {n}
    /\ \A j \in DOMAIN outbox :
          /\ outbox'[j].entity = outbox[j].entity
          /\ outbox'[j].op = outbox[j].op
          /\ outbox'[j].status = outbox[j].status
    /\ \E k \in DOMAIN outbox' : QueuedAt(k, e, n)

LEMMA EnqueueQueues ==
    ASSUME outbox \in Seq(Entry), late \subseteq Nat,
           NEW e \in Entities, NEW op \in Operations, NEW n \in Nat,
           NEW rest \in Seq(Entry), EnqueueOutbox(e, op, n, rest),
           Len(rest) <= 2,
           op = "upload_file" => TypeOf[e] \in FileTypes,
           \A m \in 1 .. Len(rest) :
              /\ rest[m].status = "pending"
              /\ rest[m].op # "update"
              /\ TypeOf[rest[m].entity] \in FileTypes
    PROVE  /\ Queues(e, n)
           /\ \A m \in 1 .. Len(rest) : \E j \in DOMAIN outbox' : outbox'[j] = rest[m]
<1>1. /\ late \subseteq late' /\ late' \subseteq late \cup {n}
      /\ DOMAIN outbox = 1 .. Len(outbox)
      /\ Len(outbox) \in Nat /\ Len(rest) \in Nat
  BY EnqueueEffect, LenProperties
<1>2. PICK table \in Seq(Entry) : TableAfter(table, e, op, n, rest)
  BY EnqueueEffect
<1>3. /\ outbox' \in Seq(Entry)
      /\ Len(outbox') = Len(table) + Len(rest)
      /\ \A i \in 1 .. Len(table) : outbox'[i] = table[i]
      /\ \A i \in 1 .. Len(rest) : outbox'[Len(table) + i] = rest[i]
  <2>1. outbox' = table \o rest
    BY <1>2 DEF TableAfter
  <2>2. /\ outbox' \in Seq(Entry)
        /\ Len(outbox') = Len(table) + Len(rest)
        /\ \A i \in 1 .. Len(table) + Len(rest) :
              outbox'[i] = IF i <= Len(table) THEN table[i] ELSE rest[i - Len(table)]
    BY <2>1, ConcatProperties
  <2>3. Len(table) \in Nat /\ Len(rest) \in Nat
    BY LenProperties
  <2>4. ASSUME NEW i \in 1 .. Len(rest) PROVE outbox'[Len(table) + i] = rest[i]
    <3>1. /\ Len(table) + i \in 1 .. Len(table) + Len(rest)
          /\ ~(Len(table) + i <= Len(table))
          /\ (Len(table) + i) - Len(table) = i
      BY <2>3
    <3> QED
      BY <2>2, <3>1
  <2> QED
    BY <2>2, <2>3, <2>4
<1>4. /\ DOMAIN outbox' = 1 .. Len(table) + Len(rest)
      /\ DOMAIN table = 1 .. Len(table) /\ Len(table) \in Nat
  BY <1>2, <1>3, LenProperties
<1>5. /\ Len(table) \in {Len(outbox), Len(outbox) + 1}
      /\ \A j \in DOMAIN outbox :
            /\ j \in 1 .. Len(table)
            /\ table[j].entity = outbox[j].entity
            /\ table[j].op = outbox[j].op
            /\ table[j].status = outbox[j].status
  <2>1. /\ Len(table) \in {Len(outbox), Len(outbox) + 1}
        /\ \A j \in DOMAIN outbox :
              /\ table[j].entity = outbox[j].entity
              /\ table[j].op = outbox[j].op
              /\ table[j].status = outbox[j].status
    BY <1>2 DEF TableAfter
  <2>2. \A j \in DOMAIN outbox : j \in 1 .. Len(table)
    BY <1>1, <2>1
  <2> QED
    BY <2>1, <2>2
<1>6. PICK k \in DOMAIN table :
                       /\ table[k].entity = e
                       /\ table[k].status = "pending"
                       /\ table[k].payload = n
                       /\ \A j \in DOMAIN outbox :
                             j # k => table[j].payload = outbox[j].payload
                       /\ \A r \in Runs :
                             k \in DOMAIN outbox /\ k \in ListedBy(r) => n \in late'
                       /\ Len(table) # Len(outbox) =>
                             /\ k = Len(table)
                             /\ table[k].op = op
                             /\ op = "update" =>
                                   \A j \in DOMAIN outbox : ~PendingUpdate(j, e)
  BY <1>2 DEF TableAfter
<1>7. k \in DOMAIN outbox' /\ outbox'[k] = table[k]
  BY <1>1, <1>3, <1>4
<1>8. ASSUME NEW j \in DOMAIN outbox' \ DOMAIN outbox
      PROVE  /\ outbox'[j].status = "pending"
             /\ outbox'[j].op = "upload_file" => TypeOf[outbox'[j].entity] \in FileTypes
             /\ outbox'[j].op = "update" =>
                   j = k /\ \A i \in DOMAIN outbox : ~PendingUpdate(i, e)
  <2>1. CASE j \in 1 .. Len(table)
    <3>1. Len(table) # Len(outbox) /\ j = Len(table)
      BY <1>1, <1>5, <2>1
    <3>2. j = k /\ outbox'[j] = table[k]
      BY <1>6, <1>7, <3>1
    <3> QED
      BY <1>6, <3>1, <3>2
  <2>2. CASE j \notin 1 .. Len(table)
    <3>1. PICK m \in 1 .. Len(rest) : j = Len(table) + m
      <4>1. j - Len(table) \in 1 .. Len(rest) /\ j = Len(table) + (j - Len(table))
        BY <1>1, <1>4, <2>2
      <4> QED
        BY <4>1
    <3>2. outbox'[j] = rest[m]
      BY <1>3, <3>1
    <3> QED
      BY <3>2
  <2> QED
    BY <2>1, <2>2
<1>9. QueuedAt(k, e, n)
  BY <1>3, <1>5, <1>6, <1>7, <1>8 DEF QueuedAt
<1>10. Len(outbox') \in Len(outbox) .. Len(outbox) + 3
  BY <1>1, <1>3, <1>5
<1>11. Queues(e, n)
  BY <1>1, <1>3, <1>5, <1>7, <1>9, <1>10 DEF Queues
<1>12. ASSUME NEW m \in 1 .. Len(rest)
       PROVE  \E j \in DOMAIN outbox' : outbox'[j] = rest[m]
  <2>1. Len(table) + m \in DOMAIN outbox'
    BY <1>1, <1>4
  <2> QED
    BY <1>3, <2>1
<1> QED
  BY <1>11, <1>12

-----------------------------------------------------------------------------
(* Type correctness.  UploadReadRow and MarkProcessingRead read the table   *)
(* at an id a run has carried along, so TypeOK is inductive only together   *)
(* with the fact that such ids stay in the table.                           *)

TypeInv == TypeOK /\ IdsInTable

LEMMA InitTypeInv == Init => TypeInv
<1> SUFFICES ASSUME Init PROVE TypeInv
  OBVIOUS
<1>1. outbox \in Seq(Entry)
  BY EmptySeq DEF Init
<1>2. rows \in [Entities -> Row]
  BY DEF Init, Row, SyncStatus, FromServer, NoRow
<1>3. NoRow \in Row /\ NoPage \in Page /\ NoSnapshot \in Snapshot
  BY DEF NoRow, Row, SyncStatus, NoPage, Page, NoSnapshot, Snapshot
<1>4. IdsInTable
  BY DEF Init, IdsInTable, EntrySteps
<1>5. pc \in [Runs -> PcValues]
  BY DEF Init, PcValues
<1> QED
  BY <1>1, <1>2, <1>3, <1>4, <1>5 DEF Init, TypeInv, TypeOK

\* The steps of a run that change neither the rows nor the table.
LEMMA RunLocalType ==
    ASSUME TypeInv, NEW r \in Runs,
           \/ SyncNow(r) \/ PullSomePage(r) \/ PullFails(r) \/ ListPending(r)
           \/ MarkProcessingRead(r) \/ PushListedEntry(r) \/ UploadReadRow(r)
           \/ ReadEntryToMark(r) \/ FinishRun(r)
    PROVE  TypeInv'
<1>1. /\ outbox \in Seq(Entry)
      /\ DOMAIN outbox = 1 .. Len(outbox) /\ Len(outbox) \in Nat
      /\ \A i \in DOMAIN outbox : outbox[i] \in Entry
  BY LenProperties, ElementOfSeq DEF TypeInv, TypeOK
<1>2. NoRow \in Row /\ NoPage \in Page /\ NoSnapshot \in Snapshot
  BY DEF NoRow, Row, SyncStatus, NoPage, Page, NoSnapshot, Snapshot
<1> USE DEF TypeInv, TypeOK, IdsInTable, rowVars
<1>3. CASE SyncNow(r)
  BY <1>3 DEF SyncNow, PcValues, PullSteps, EntrySteps
<1>4. CASE PullSomePage(r)
  BY <1>4 DEF PullSomePage, PullPage, PcValues, PullSteps, EntrySteps, Page
<1>5. CASE PullFails(r)
  BY <1>2, <1>5 DEF PullFails, PcValues, PullSteps, EntrySteps
<1>6. CASE ListPending(r)
  <2> DEFINE ready == {j \in Listed : IsReady(j)}
             list == {[id |-> i, payload |-> outbox[i].payload] : i \in ready}
  <2>1. ready \subseteq DOMAIN outbox
    BY DEF Listed
  <2>2. todo' = [todo EXCEPT ![r] = list]
    BY <1>6 DEF ListPending
  <2> HIDE DEF ready
  <2>3. list \in SUBSET Snapshot /\ \A s \in list : s.id \in DOMAIN outbox
    BY <1>1, <2>1 DEF Snapshot, Entry
  <2> HIDE DEF list
  <2> QED
    BY <1>6, <2>2, <2>3 DEF ListPending, PcValues, PullSteps, EntrySteps
<1>7. CASE MarkProcessingRead(r)
  BY <1>1, <1>7 DEF MarkProcessingRead, PcValues, PullSteps, EntrySteps, Entry
<1>8. CASE PushListedEntry(r)
  <2>1. PICK o \in Outcomes : outcome' = [outcome EXCEPT ![r] = o]
    BY <1>8 DEF PushListedEntry
  <2>2. accepted' \subseteq Nat
    <3>1. cur[r].payload \in Nat
      BY DEF Snapshot
    <3> QED
      BY <1>8, <3>1 DEF PushListedEntry
  <2>3. outcome' \in [Runs -> Outcomes \cup {"none", "accepted"}]
    BY <2>1
  <2>4. pc' \in [Runs -> PcValues]
    BY <1>8 DEF PushListedEntry, PcValues, PullSteps, EntrySteps
  <2> QED
    BY <1>8, <2>2, <2>3, <2>4 DEF PushListedEntry, EntrySteps
<1>9. CASE UploadReadRow(r)
  BY <1>1, <1>9 DEF UploadReadRow, PcValues, PullSteps, EntrySteps, Entry
<1>10. CASE ReadEntryToMark(r)
  BY <1>1, <1>10 DEF ReadEntryToMark, PcValues, PullSteps, EntrySteps, Entry
<1>11. CASE FinishRun(r)
  BY <1>11 DEF FinishRun, PcValues, PullSteps, EntrySteps
<1> QED
  BY <1>3, <1>4, <1>5, <1>6, <1>7, <1>8, <1>9, <1>10, <1>11

\* A new status keeps the type of the rows.
LEMMA RowStatusType ==
    ASSUME NEW table \in [Entities -> Row], NEW e \in Entities, NEW status \in SyncStatus
    PROVE  [table EXCEPT ![e].sync = status] \in [Entities -> Row]
<1>1. [table[e] EXCEPT !.sync = status] \in Row
  BY DEF Row
<1> QED
  BY <1>1

\* The steps of a run that write rows.
LEMMA RunRowsType ==
    ASSUME TypeInv, NEW r \in Runs,
           ApplyPage(r) \/ UploadWriteRow(r) \/ SetEntitySyncStatus(r)
    PROVE  TypeInv'
<1>1. /\ outbox \in Seq(Entry)
      /\ DOMAIN outbox = 1 .. Len(outbox)
      /\ \A i \in DOMAIN outbox : outbox[i] \in Entry
  BY LenProperties, ElementOfSeq DEF TypeInv, TypeOK
<1>2. NoRow \in Row /\ NoPage \in Page /\ FromServer \in Row
  BY DEF NoRow, Row, SyncStatus, NoPage, Page, FromServer
<1> USE DEF TypeInv, TypeOK, IdsInTable
<1>3. CASE ApplyPage(r)
  <2>1. ASSUME NEW e \in Entities PROVE AppliedRow(e, page[r]) \in Row
    <3>1. rows[e] \in Row
      OBVIOUS
    <3> QED
      BY <1>2, <3>1 DEF AppliedRow, Row, SyncStatus
  <2>2. rows' \in [Entities -> Row]
    BY <1>3, <2>1 DEF ApplyPage
  <2> QED
    BY <1>2, <1>3, <2>2 DEF ApplyPage, PcValues, PullSteps, EntrySteps
<1>4. CASE UploadWriteRow(r)
  <2>1. [rowCopy[r] EXCEPT !.sync = "synced"] \in Row
    BY DEF Row, SyncStatus
  <2>2. rows' \in [Entities -> Row]
    BY <1>4, <2>1 DEF UploadWriteRow
  <2>3. accepted' \subseteq Nat
    BY <1>4 DEF UploadWriteRow, Snapshot
  <2> QED
    BY <1>2, <1>4, <2>2, <2>3 DEF UploadWriteRow, PcValues, PullSteps, EntrySteps
<1>5. CASE SetEntitySyncStatus(r)
  <2>1. RowStatusFor(outcome[r]) \in SyncStatus
    BY DEF RowStatusFor, SyncStatus
  <2>2. outbox[cur[r].id].entity \in Entities
    <3>1. outbox[cur[r].id] \in Entry
      BY <1>1, <1>5 DEF SetEntitySyncStatus, EntrySteps
    <3> QED
      BY <3>1 DEF Entry
  <2>3. rows \in [Entities -> Row]
    OBVIOUS
  <2>4. rows' \in [Entities -> Row]
    BY <1>5, <2>1, <2>2, <2>3, RowStatusType DEF SetEntitySyncStatus
  <2> QED
    BY <1>5, <2>4 DEF SetEntitySyncStatus, PcValues, PullSteps, EntrySteps
<1> QED
  BY <1>3, <1>4, <1>5

\* The steps that write back one entry.
LEMMA WriteBackType ==
    ASSUME TypeInv,
           \/ \E r \in Runs : MarkProcessingWrite(r) \/ MarkDone(r)
                              \/ MarkConflict(r) \/ MarkFailed(r)
           \/ \E i \in DOMAIN outbox : DelayElapses(i)
    PROVE  TypeInv'
<1>1. /\ outbox \in Seq(Entry)
      /\ DOMAIN outbox = 1 .. Len(outbox)
      /\ \A i \in DOMAIN outbox : outbox[i] \in Entry
  BY LenProperties, ElementOfSeq DEF TypeInv, TypeOK
<1>2. CASE \E r \in Runs : MarkProcessingWrite(r)
  <2>1. PICK r \in Runs : MarkProcessingWrite(r)
    BY <1>2
  <2>2. /\ cur[r].id \in DOMAIN outbox
        /\ readPayload[r] \in Nat
        /\ "processing" \in EntryStatus
        /\ FALSE \in BOOLEAN
        /\ WriteBack(cur[r].id, readPayload[r], "processing", FALSE)
    BY <2>1 DEF MarkProcessingWrite, TypeInv, TypeOK, IdsInTable, EntryStatus
  <2>3. outbox' \in Seq(Entry) /\ DOMAIN outbox' = DOMAIN outbox
    BY <1>1, <2>2, WriteBackEffect
  <2> QED
    BY <2>1, <2>3 DEF MarkProcessingWrite, TypeInv, TypeOK, IdsInTable, PcValues,
                      PullSteps, EntrySteps
<1>3. ASSUME NEW r \in Runs, NEW o, NEW st \in EntryStatus, NEW w \in BOOLEAN,
             WriteEntry(r, o, st, w)
      PROVE  TypeInv'
  <2>1. /\ cur[r].id \in DOMAIN outbox
        /\ readPayload[r] \in Nat
        /\ WriteBack(cur[r].id, readPayload[r], st, w)
    BY <1>3 DEF WriteEntry, TypeInv, TypeOK, IdsInTable, EntrySteps
  <2>2. outbox' \in Seq(Entry) /\ DOMAIN outbox' = DOMAIN outbox
    BY <1>1, <2>1, WriteBackEffect
  <2>3. NoSnapshot \in Snapshot
    BY DEF NoSnapshot, Snapshot
  <2> QED
    BY <1>3, <2>2, <2>3 DEF WriteEntry, TypeInv, TypeOK, IdsInTable, PcValues,
                            PullSteps, EntrySteps
<1>4. CASE \E r \in Runs : MarkDone(r) \/ MarkConflict(r) \/ MarkFailed(r)
  BY <1>3, <1>4 DEF MarkDone, MarkConflict, MarkFailed, EntryStatus
<1>5. CASE \E i \in DOMAIN outbox : DelayElapses(i)
  <2>1. PICK i \in DOMAIN outbox : DelayElapses(i)
    BY <1>5
  <2>2. /\ outbox[i].payload \in Nat
        /\ outbox[i].status \in EntryStatus
        /\ FALSE \in BOOLEAN
        /\ WriteBack(i, outbox[i].payload, outbox[i].status, FALSE)
    BY <1>1, <2>1 DEF DelayElapses, Entry
  <2>3. outbox' \in Seq(Entry) /\ DOMAIN outbox' = DOMAIN outbox
    BY <1>1, <2>2, WriteBackEffect
  <2> QED
    BY <2>1, <2>3 DEF DelayElapses, TypeInv, TypeOK, IdsInTable, runVars
<1> QED
  BY <1>2, <1>4, <1>5

\* The same for a transaction that inserts nothing after it.
LEMMA EnqueueAloneQueues ==
    ASSUME outbox \in Seq(Entry), late \subseteq Nat,
           NEW e \in Entities, NEW op \in Operations, NEW n \in Nat,
           EnqueueOutbox(e, op, n, << >>),
           op = "upload_file" => TypeOf[e] \in FileTypes
    PROVE  Queues(e, n)
<1>1. PICK rest \in Seq(Entry) : rest = << >> /\ Len(rest) = 0
  BY EmptySeq
<1>2. EnqueueOutbox(e, op, n, rest)
  BY <1>1
<1>3. Len(rest) <= 2 /\ \A m \in 1 .. Len(rest) : FALSE
  BY <1>1
<1> QED
  BY <1>2, <1>3, EnqueueQueues

\* What a UI handler writes: the content n of row e, with the entry that holds
\* it; the only other row is that of a report, which has entries of its own.
Writes(e, n) ==
    /\ Queues(e, n)
    /\ rows' \in [Entities -> Row]
    /\ rows'[e].val = n
    /\ \A x \in Entities \ {e} :
          rows'[x] # rows[x] =>
              /\ TypeOf[x] \in FileTypes
              /\ \E j \in DOMAIN outbox' :
                    outbox'[j].entity = x /\ outbox'[j].status = "pending"
    /\ UNCHANGED <<runVars, accepted>>

LEMMA CreateLocalWrites ==
    ASSUME TypeInv, NEW e \in Entities, CreateLocal(e)
    PROVE  Writes(e, Content(1))
<1>1. /\ outbox \in Seq(Entry) /\ late \subseteq Nat /\ Content(1) \in Nat
      /\ rows \in [Entities -> Row]
  BY DEF TypeInv, TypeOK, Content
<1>2. PICK op \in Operations :
          /\ op = "upload_file" => TypeOf[e] \in FileTypes
          /\ EnqueueOutbox(e, op, Content(1), << >>)
  BY DEF CreateLocal, Operations
<1>3. Queues(e, Content(1))
  BY <1>1, <1>2, EnqueueAloneQueues
<1>4. /\ rows' = [rows EXCEPT ![e] = [sync |-> "pending", val |-> Content(1),
                                      deleted |-> FALSE]]
      /\ UNCHANGED <<runVars, accepted>>
  BY DEF CreateLocal
<1>5. rows' \in [Entities -> Row]
  BY <1>1, <1>4 DEF Row, SyncStatus
<1> QED
  BY <1>1, <1>3, <1>4, <1>5 DEF Writes

LEMMA CommitEditWrites ==
    ASSUME TypeInv, NEW u \in Editors, CommitEdit(u)
    PROVE  \E e \in Entities : Writes(e, Content(1))
<1>1. /\ outbox \in Seq(Entry) /\ late \subseteq Nat /\ Content(1) \in Nat
      /\ rows \in [Entities -> Row]
  BY DEF TypeInv, TypeOK, Content
<1>2. editor[u] \in Editing
  BY DEF CommitEdit, TypeInv, TypeOK
<1>3. PICK e \in Entities : e = editor[u].entity
  BY <1>2 DEF Editing
<1>4. PICK op \in Operations : op = editor[u].op /\ op # "upload_file"
  BY <1>2 DEF Editing, Operations
<1>5. EnqueueOutbox(e, op, Content(1), << >>)
  BY <1>3, <1>4 DEF CommitEdit
<1>6. Queues(e, Content(1))
  BY <1>1, <1>4, <1>5, EnqueueAloneQueues
<1>7. PICK del \in BOOLEAN :
          rows' = [rows EXCEPT ![e] = [sync |-> "pending", val |-> Content(1),
                                       deleted |-> del]]
  <2>1. editor[u].row.deleted \in BOOLEAN
    BY <1>2 DEF Editing, Row
  <2>2. (editor[u].row.deleted \/ editor[u].op = "delete") \in BOOLEAN
    BY <2>1
  <2> QED
    BY <1>3, <2>2 DEF CommitEdit
<1>8. rows' \in [Entities -> Row]
  BY <1>1, <1>7 DEF Row, SyncStatus
<1>9. UNCHANGED <<runVars, accepted>>
  BY DEF CommitEdit
<1> QED
  BY <1>1, <1>6, <1>7, <1>8, <1>9 DEF Writes

LEMMA CreateReportWrites ==
    ASSUME TypeInv, NEW e \in Entities, CreateReport(e)
    PROVE  \E order \in Entities : Writes(order, Content(3))
<1> DEFINE data == NewEntry(e, "create", Content(1))
           file == NewEntry(e, "upload_file", Content(2))
           rest == <<data, file>>
<1>1. /\ outbox \in Seq(Entry) /\ late \subseteq Nat
      /\ Content(1) \in Nat /\ Content(2) \in Nat /\ Content(3) \in Nat
      /\ rows \in [Entities -> Row]
  BY DEF TypeInv, TypeOK, Content
<1>2. PICK order \in Entities : order = OrderOf[e] /\ order # e
  BY ConstantsAssumption DEF CreateReport
<1>3. TypeOf[e] \in FileTypes
  BY ConstantsAssumption DEF CreateReport
<1>4. data \in Entry /\ file \in Entry
  BY <1>1 DEF NewEntry, Entry, EntryStatus, Operations
<1>5. /\ data.entity = e /\ data.status = "pending" /\ data.op # "update"
      /\ file.entity = e /\ file.status = "pending" /\ file.op # "update"
  BY DEF NewEntry
<1>6. EnqueueOutbox(order, "update", Content(3), rest)
  BY <1>2 DEF CreateReport
<1>7. /\ rows' = [rows EXCEPT ![e] = [sync |-> "pending", val |-> Content(1),
                                      deleted |-> FALSE],
                              ![order] = [@ EXCEPT !.sync = "pending",
                                                   !.val = Content(3)]]
      /\ UNCHANGED <<runVars, accepted>>
  BY <1>2 DEF CreateReport
<1> HIDE DEF data, file
<1>8. /\ rest \in Seq(Entry)
      /\ Len(rest) = 2
      /\ \A m \in 1 .. Len(rest) : rest[m] \in {data, file}
  BY <1>4
<1>9. rest[1] = data
  OBVIOUS
<1> HIDE DEF rest
<1>10. \A m \in 1 .. Len(rest) : /\ rest[m].status = "pending"
                                 /\ rest[m].op # "update"
                                 /\ TypeOf[rest[m].entity] \in FileTypes
  BY <1>3, <1>5, <1>8
<1>11. PICK op \in Operations : op = "update"
  BY DEF Operations
<1>12. EnqueueOutbox(order, op, Content(3), rest)
  BY <1>6, <1>11
<1>13. /\ Queues(order, Content(3))
       /\ \A m \in 1 .. Len(rest) : \E j \in DOMAIN outbox' : outbox'[j] = rest[m]
  <2>1. Len(rest) <= 2 /\ (op = "upload_file" => TypeOf[order] \in FileTypes)
    BY <1>8, <1>11
  <2> QED
    BY <1>1, <1>8, <1>10, <1>12, <2>1, EnqueueQueues
<1>14. \E j \in DOMAIN outbox' : outbox'[j].entity = e /\ outbox'[j].status = "pending"
  <2>1. 1 \in 1 .. Len(rest)
    BY <1>8
  <2> QED
    BY <1>5, <1>9, <1>13, <2>1
<1>15. rows' \in [Entities -> Row]
  <2>1. [rows[order] EXCEPT !.sync = "pending", !.val = Content(3)] \in Row
    BY <1>1 DEF Row, SyncStatus
  <2>2. [sync |-> "pending", val |-> Content(1), deleted |-> FALSE] \in Row
    BY <1>1 DEF Row, SyncStatus
  <2> QED
    BY <1>1, <1>2, <1>7, <2>1, <2>2
<1>16. /\ rows'[order].val = Content(3)
       /\ \A x \in Entities \ {order} : rows'[x] # rows[x] => x = e
  <2>1. rows'[order] = [rows[order] EXCEPT !.sync = "pending", !.val = Content(3)]
    BY <1>1, <1>2, <1>7
  <2>2. rows[order] \in Row
    BY <1>1
  <2> QED
    BY <1>1, <1>2, <1>7, <2>1, <2>2 DEF Row
<1> QED
  BY <1>3, <1>7, <1>13, <1>14, <1>15, <1>16 DEF Writes

LocalWrite ==
    \/ \E e \in Entities : CreateLocal(e) \/ CreateReport(e)
    \/ \E u \in Editors : CommitEdit(u)

LEMMA LocalWriteEffect ==
    ASSUME TypeInv, LocalWrite
    PROVE  \E e \in Entities, n \in Nat : Writes(e, n)
<1>1. Content(1) \in Nat /\ Content(3) \in Nat
  BY DEF TypeInv, TypeOK, Content
<1> QED
  BY <1>1, CreateLocalWrites, CreateReportWrites, CommitEditWrites DEF LocalWrite

\* The steps of the UI handlers.
LEMMA LocalWriteType ==
    ASSUME TypeInv, LocalWrite
    PROVE  TypeInv'
<1>1. PICK e \in Entities, n \in Nat : Writes(e, n)
  BY LocalWriteEffect
<1>2. /\ outbox' \in Seq(Entry)
      /\ late' \subseteq Nat
      /\ DOMAIN outbox \subseteq DOMAIN outbox'
  <2>1. outbox \in Seq(Entry) /\ late \subseteq Nat
    BY DEF TypeInv, TypeOK
  <2>2. /\ outbox' \in Seq(Entry)
        /\ Len(outbox') \in Len(outbox) .. Len(outbox) + 3
        /\ late' \subseteq late \cup {n}
    BY <1>1 DEF Writes, Queues
  <2>3. DOMAIN outbox \subseteq DOMAIN outbox'
    BY <2>1, <2>2, LenProperties
  <2> QED
    BY <2>1, <2>2, <2>3
<1>3. rows' \in [Entities -> Row] /\ UNCHANGED <<runVars, accepted>>
  BY <1>1 DEF Writes
<1>4. edits' \in Nat /\ editor' \in [Editors -> Editing \cup {Idle}]
  <2>1. edits \in Nat /\ editor \in [Editors -> Editing \cup {Idle}]
    BY DEF TypeInv, TypeOK
  <2>2. ASSUME NEW x \in Entities, CreateLocal(x) \/ CreateReport(x)
        PROVE  edits' = edits + 1 /\ editor' = editor
    BY <2>2 DEF CreateLocal, CreateReport
  <2>3. ASSUME NEW u \in Editors, CommitEdit(u)
        PROVE  edits' = edits + 1 /\ editor' = [editor EXCEPT ![u] = Idle]
    BY <2>3 DEF CommitEdit
  <2> QED
    BY <2>1, <2>2, <2>3 DEF LocalWrite
<1> QED
  BY <1>2, <1>3, <1>4 DEF TypeInv, TypeOK, IdsInTable, runVars

LEMMA ReadForEditType ==
    ASSUME TypeInv, NEW u \in Editors, NEW e \in Entities,
           NEW op \in {"update", "delete"}, ReadForEdit(u, e, op)
    PROVE  TypeInv'
<1>1. [op |-> op, entity |-> e, row |-> rows[e]] \in Editing
  BY DEF TypeInv, TypeOK, Editing
<1> QED
  BY <1>1 DEF ReadForEdit, TypeInv, TypeOK, IdsInTable, runVars

LEMMA CrashType == TypeInv /\ Crash => TypeInv'
<1>1. NoRow \in Row /\ NoPage \in Page /\ NoSnapshot \in Snapshot
  BY DEF NoRow, Row, SyncStatus, NoPage, Page, NoSnapshot, Snapshot
<1> QED
  BY <1>1 DEF Crash, TypeInv, TypeOK, IdsInTable, PcValues, EntrySteps

LEMMA NextTypeInv == TypeInv /\ [Next]_vars => TypeInv'
<1> SUFFICES ASSUME TypeInv, [Next]_vars PROVE TypeInv'
  OBVIOUS
<1>1. CASE \E r \in Runs : RunStep(r) \/ PullFails(r)
  BY <1>1, RunLocalType, RunRowsType, WriteBackType DEF RunStep
<1>2. CASE LocalWrite
  BY <1>2, LocalWriteType
<1>3. ASSUME NEW u \in Editors, NEW e \in Entities, NEW op \in {"update", "delete"},
             ReadForEdit(u, e, op)
      PROVE  TypeInv'
  BY <1>3, ReadForEditType
<1>4. CASE \E i \in DOMAIN outbox : DelayElapses(i)
  BY <1>4, WriteBackType
<1>5. CASE Crash
  BY <1>5, CrashType
<1>6. CASE UNCHANGED vars
  BY <1>6 DEF vars, TypeInv, TypeOK, IdsInTable
<1> QED
  BY <1>1, <1>2, <1>3, <1>4, <1>5, <1>6, ConstantsAssumption
     DEF Next, EditorStep, LocalWrite

\* Every variable keeps its type and every carried id stays in the table, with
\* any number of runs and handlers and through crashes.
THEOREM TypeCorrect == Spec => [](TypeOK /\ IdsInTable)
<1> QED
  BY InitTypeInv, NextTypeInv, PTL DEF Spec, TypeInv

-----------------------------------------------------------------------------
(* How each step changes the status column.                                *)

\* The entry with id i gets the status st and the table is otherwise the same
\* up to payloads and delays.
Restatus(i, st) ==
    /\ DOMAIN outbox' = DOMAIN outbox
    /\ \A j \in DOMAIN outbox :
          /\ outbox'[j].entity = outbox[j].entity
          /\ outbox'[j].op = outbox[j].op
          /\ outbox'[j].status = IF j = i THEN st ELSE outbox[j].status

\* The entry with id i gets the payload p, every other one keeps its own.
Repayload(i, p) ==
    \A j \in DOMAIN outbox :
        outbox'[j].payload = IF j = i THEN p ELSE outbox[j].payload

LEMMA MarkProcessingRestatus ==
    ASSUME TypeInv, NEW r \in Runs, MarkProcessingWrite(r)
    PROVE  /\ cur[r].id \in DOMAIN outbox
           /\ Restatus(cur[r].id, "processing")
           /\ Repayload(cur[r].id, readPayload[r])
<1>1. /\ outbox \in Seq(Entry)
      /\ cur[r].id \in DOMAIN outbox
      /\ readPayload[r] \in Nat
      /\ "processing" \in EntryStatus
      /\ WriteBack(cur[r].id, readPayload[r], "processing", FALSE)
  BY DEF MarkProcessingWrite, TypeInv, TypeOK, IdsInTable, EntryStatus
<1>2. PICK st \in EntryStatus, w \in BOOLEAN : st = "processing" /\ w = FALSE
  BY <1>1
<1>3. WriteBack(cur[r].id, readPayload[r], st, w)
  BY <1>1, <1>2
<1>4. Restatus(cur[r].id, st) /\ Repayload(cur[r].id, readPayload[r])
  BY <1>1, <1>3, WriteBackEffect DEF Restatus, Repayload
<1> QED
  BY <1>1, <1>2, <1>4

LEMMA WriteEntryRestatus ==
    ASSUME TypeInv, NEW r \in Runs, NEW o, NEW st \in EntryStatus,
           NEW w \in BOOLEAN, WriteEntry(r, o, st, w)
    PROVE  /\ cur[r].id \in DOMAIN outbox
           /\ Restatus(cur[r].id, st)
           /\ Repayload(cur[r].id, readPayload[r])
<1>1. /\ outbox \in Seq(Entry)
      /\ cur[r].id \in DOMAIN outbox
      /\ readPayload[r] \in Nat
      /\ WriteBack(cur[r].id, readPayload[r], st, w)
  BY DEF WriteEntry, TypeInv, TypeOK, IdsInTable, EntrySteps
<1> QED
  BY <1>1, WriteBackEffect DEF Restatus, Repayload

LEMMA DelayRestatus ==
    ASSUME TypeInv, NEW i \in DOMAIN outbox, DelayElapses(i)
    PROVE  Restatus(i, outbox[i].status) /\ Repayload(i, outbox[i].payload)
<1>1. outbox \in Seq(Entry) /\ outbox[i] \in Entry
  BY LenProperties, ElementOfSeq DEF TypeInv, TypeOK
<1>2. /\ outbox[i].payload \in Nat
      /\ outbox[i].status \in EntryStatus
      /\ FALSE \in BOOLEAN
      /\ WriteBack(i, outbox[i].payload, outbox[i].status, FALSE)
  BY <1>1 DEF DelayElapses, Entry
<1>3. Restatus(i, outbox[i].status)
  BY <1>1, <1>2, WriteBackEffect DEF Restatus
<1>4. Repayload(i, outbox[i].payload)
  BY <1>1, <1>2, WriteBackEffect DEF Repayload
<1> QED
  BY <1>3, <1>4

-----------------------------------------------------------------------------
(* At most one pending update per row.                                     *)

LEMMA InitCoalesced == Init => CoalescedOnce
BY DEF Init, CoalescedOnce

LEMMA RestatusKeepsCoalesced ==
    ASSUME CoalescedOnce, NEW i \in DOMAIN outbox, NEW st, Restatus(i, st),
           st = "pending" => outbox[i].status = "pending"
    PROVE  CoalescedOnce'
BY DEF CoalescedOnce, Restatus

LEMMA LocalWriteKeepsCoalesced ==
    ASSUME TypeInv, CoalescedOnce, LocalWrite
    PROVE  CoalescedOnce'
<1>1. PICK e \in Entities, n \in Nat : Writes(e, n)
  BY LocalWriteEffect
<1>2. \A j \in DOMAIN outbox :
         /\ outbox'[j].entity = outbox[j].entity
         /\ outbox'[j].op = outbox[j].op
         /\ outbox'[j].status = outbox[j].status
  BY <1>1 DEF Writes, Queues
<1>3. PICK k \in DOMAIN outbox' : QueuedAt(k, e, n)
  BY <1>1 DEF Writes, Queues
<1>4. \A j \in DOMAIN outbox' \ DOMAIN outbox :
         outbox'[j].op = "update" =>
            /\ j = k /\ outbox'[j].entity = e
            /\ \A i \in DOMAIN outbox : ~PendingUpdate(i, e)
  BY <1>3 DEF QueuedAt
<1> QED
  BY <1>2, <1>4 DEF CoalescedOnce, PendingUpdate

LEMMA NextCoalesced == TypeInv /\ CoalescedOnce /\ [Next]_vars => CoalescedOnce'
<1> SUFFICES ASSUME TypeInv, CoalescedOnce, [Next]_vars PROVE CoalescedOnce'
  OBVIOUS
<1>1. ASSUME NEW r \in Runs, MarkProcessingWrite(r) PROVE CoalescedOnce'
  BY <1>1, MarkProcessingRestatus, RestatusKeepsCoalesced
<1>2. ASSUME NEW r \in Runs, MarkDone(r) \/ MarkConflict(r) \/ MarkFailed(r)
      PROVE  CoalescedOnce'
  <2>1. PICK st \in {"done", "conflict", "failed"} :
            cur[r].id \in DOMAIN outbox /\ Restatus(cur[r].id, st)
    BY <1>2, WriteEntryRestatus DEF MarkDone, MarkConflict, MarkFailed, EntryStatus
  <2> QED
    BY <2>1, RestatusKeepsCoalesced
<1>3. ASSUME NEW i \in DOMAIN outbox, DelayElapses(i) PROVE CoalescedOnce'
  BY <1>3, DelayRestatus, RestatusKeepsCoalesced
<1>4. CASE LocalWrite
  BY <1>4, LocalWriteKeepsCoalesced
<1>5. CASE outbox' = outbox
  BY <1>5 DEF CoalescedOnce
<1>6. ASSUME NEW r \in Runs,
             \/ SyncNow(r) \/ PullSomePage(r) \/ PullFails(r) \/ ApplyPage(r)
             \/ ListPending(r) \/ MarkProcessingRead(r) \/ PushListedEntry(r)
             \/ UploadReadRow(r) \/ UploadWriteRow(r) \/ SetEntitySyncStatus(r)
             \/ ReadEntryToMark(r) \/ FinishRun(r)
      PROVE  outbox' = outbox
  BY <1>6 DEF SyncNow, PullSomePage, PullPage, PullFails, ApplyPage, ListPending,
              MarkProcessingRead, PushListedEntry, UploadReadRow, UploadWriteRow,
              SetEntitySyncStatus, ReadEntryToMark, FinishRun, rowVars
<1>7. ASSUME NEW u \in Editors, NEW e \in Entities, NEW op, ReadForEdit(u, e, op)
      PROVE  outbox' = outbox
  BY <1>7 DEF ReadForEdit
<1>8. Crash \/ UNCHANGED vars => outbox' = outbox
  BY DEF Crash, vars
<1> QED
  BY <1>1, <1>2, <1>3, <1>4, <1>5, <1>6, <1>7, <1>8 DEF Next, RunStep, EditorStep, LocalWrite

\* However many runs and handlers interleave, and through crashes, the merge of
\* enqueueOutbox never finds two pending updates of a row.
THEOREM MergeTargetUnique == Spec => []CoalescedOnce
<1>1. Init => TypeInv /\ CoalescedOnce
  BY InitTypeInv, InitCoalesced
<1>2. TypeInv /\ CoalescedOnce /\ [Next]_vars => (TypeInv /\ CoalescedOnce)'
  BY NextTypeInv, NextCoalesced
<1> QED
  BY <1>1, <1>2, PTL DEF Spec

-----------------------------------------------------------------------------
(* One synchronisation run at a time.                                      *)

SingleRun == \A r, s \in Runs : r = s

QueueInv == TypeInv /\ RunOwnsItsEntries /\ UnsyncedHasOpenEntry

LEMMA InitQueueInv == Init => QueueInv
<1> SUFFICES ASSUME Init PROVE QueueInv
  OBVIOUS
<1>1. RunOwnsItsEntries
  BY DEF Init, RunOwnsItsEntries, EntrySteps
<1>2. UnsyncedHasOpenEntry
  BY DEF Init, UnsyncedHasOpenEntry, FromServer, NoRow
<1> QED
  BY <1>1, <1>2, InitTypeInv DEF QueueInv

\* Steps that leave rows and table alone, up to the entry a run works on.
LEMMA RunLocalQueue ==
    ASSUME SingleRun, QueueInv, NEW r \in Runs,
           \/ SyncNow(r) \/ PullSomePage(r) \/ PullFails(r) \/ ListPending(r)
           \/ MarkProcessingRead(r) \/ PushListedEntry(r) \/ UploadReadRow(r)
           \/ ReadEntryToMark(r) \/ FinishRun(r)
    PROVE  RunOwnsItsEntries' /\ UnsyncedHasOpenEntry'
<1>1. rows' = rows /\ outbox' = outbox
  BY DEF SyncNow, PullSomePage, PullPage, PullFails, ListPending,
         MarkProcessingRead, PushListedEntry, UploadReadRow, ReadEntryToMark,
         FinishRun, rowVars
<1>2. UnsyncedHasOpenEntry'
  BY <1>1 DEF QueueInv, UnsyncedHasOpenEntry
<1>3. \A s \in Runs : s = r
  BY DEF SingleRun
<1> USE DEF QueueInv, TypeInv, TypeOK, RunOwnsItsEntries, EntrySteps
<1>4. CASE SyncNow(r) \/ PullSomePage(r) \/ PullFails(r) \/ FinishRun(r)
  BY <1>1, <1>2, <1>3, <1>4 DEF SyncNow, PullSomePage, PullPage, PullFails, FinishRun
<1>5. CASE ListPending(r)
  <2> DEFINE ready == {j \in Listed : IsReady(j)}
             list == {[id |-> i, payload |-> outbox[i].payload] : i \in ready}
  <2>1. \A i \in ready : outbox[i].status \in {"pending", "failed"}
    BY DEF Listed, Listable
  <2>2. todo'[r] = list /\ pc'[r] = "next"
    BY <1>5 DEF ListPending
  <2> HIDE DEF ready
  <2>3. \A s \in list : /\ outbox[s.id].status \in {"pending", "failed"}
                        /\ \A t \in list : s.id = t.id => s = t
    BY <2>1
  <2> HIDE DEF list
  <2> QED
    BY <1>1, <1>2, <1>3, <2>2, <2>3
<1>6. CASE MarkProcessingRead(r)
  <2>1. PICK s \in todo[r] : /\ cur'[r] = s
                            /\ todo'[r] = todo[r] \ {s}
    BY <1>6 DEF MarkProcessingRead
  <2>2. pc'[r] = "mark"
    BY <1>6 DEF MarkProcessingRead
  <2> QED
    BY <1>1, <1>2, <1>3, <2>1, <2>2
<1>7. CASE PushListedEntry(r) \/ UploadReadRow(r)
  BY <1>1, <1>2, <1>3, <1>7 DEF PushListedEntry, UploadReadRow
<1>8. CASE ReadEntryToMark(r)
  BY <1>1, <1>2, <1>3, <1>8 DEF ReadEntryToMark, Mapped
<1> QED
  BY <1>4, <1>5, <1>6, <1>7, <1>8

\* The run writes rows: a page, an uploaded row, a row's sync_status.
LEMMA RunRowsQueue ==
    ASSUME SingleRun, QueueInv, NEW r \in Runs,
           ApplyPage(r) \/ UploadWriteRow(r) \/ SetEntitySyncStatus(r)
    PROVE  RunOwnsItsEntries' /\ UnsyncedHasOpenEntry'
<1>1. \A s \in Runs : s = r
  BY DEF SingleRun
<1>2. outbox' = outbox /\ todo' = todo /\ cur' = cur
  BY DEF ApplyPage, UploadWriteRow, SetEntitySyncStatus
<1> USE DEF QueueInv, TypeInv, TypeOK, RunOwnsItsEntries, UnsyncedHasOpenEntry,
            EntrySteps, Mapped
<1>3. CASE ApplyPage(r)
  <2>1. \A e \in Entities : rows'[e].sync \notin {"absent", "synced"} =>
                              rows[e].sync \notin {"absent", "synced"}
    BY <1>3 DEF ApplyPage, AppliedRow, FromServer, Row
  <2>2. pc'[r] = "pull"
    BY <1>3 DEF ApplyPage
  <2> QED
    BY <1>1, <1>2, <2>1, <2>2
<1>4. CASE UploadWriteRow(r)
  <2>1. \A e \in Entities : rows'[e].sync \notin {"absent", "synced"} =>
                              rows[e].sync \notin {"absent", "synced"}
    BY <1>4 DEF UploadWriteRow, Row
  <2>2. pc[r] = "upload" /\ pc'[r] = "setRow"
    BY <1>4 DEF UploadWriteRow
  <2> QED
    BY <1>1, <1>2, <2>1, <2>2
<1>5. CASE SetEntitySyncStatus(r)
  <2> DEFINE e == outbox[cur[r].id].entity
  <2>1. /\ pc[r] = "setRow" /\ pc'[r] = "readEntry"
        /\ outcome' = outcome
        /\ cur[r].id \in DOMAIN outbox
        /\ outbox[cur[r].id].status = "processing"
    BY <1>5 DEF SetEntitySyncStatus, IdsInTable
  <2>2. /\ \A x \in Entities \ {e} : rows'[x] = rows[x]
        /\ outcome[r] = "accepted" /\ Mapped(e) =>
              rows'[e].sync \in {"absent", "synced"}
    <3>1. outbox[cur[r].id] \in Entry
      BY <2>1, LenProperties, ElementOfSeq
    <3>2. e \in Entities
      BY <3>1 DEF Entry
    <3>3. rows[e] \in Row
      BY <3>2
    <3> QED
      BY <1>5, <3>2, <3>3 DEF SetEntitySyncStatus, RowStatusFor, Row
  <2>3. UnsyncedHasOpenEntry'
    <3>1. SUFFICES ASSUME NEW x \in Entities, Mapped(x),
                          rows'[x].sync \notin {"absent", "synced"}
                   PROVE  \E i \in DOMAIN outbox :
                             outbox[i].entity = x /\ outbox[i].status # "done"
      BY <1>2
    <3>2. CASE x = e
      BY <2>1, <3>2
    <3>3. CASE x # e
      BY <2>2, <3>1, <3>3
    <3> QED
      BY <3>2, <3>3
  <2> QED
    BY <1>1, <1>2, <2>1, <2>2, <2>3
<1> QED
  BY <1>3, <1>4, <1>5

\* The run writes back its entry.
LEMMA WriteBackQueue ==
    ASSUME SingleRun, QueueInv, NEW r \in Runs,
           \/ MarkProcessingWrite(r) \/ MarkDone(r)
           \/ MarkConflict(r) \/ MarkFailed(r)
    PROVE  RunOwnsItsEntries' /\ UnsyncedHasOpenEntry'
<1>1. \A s \in Runs : s = r
  BY DEF SingleRun
<1>2. TypeInv
  BY DEF QueueInv
<1> USE DEF QueueInv, RunOwnsItsEntries, UnsyncedHasOpenEntry, EntrySteps, Mapped
<1>3. CASE MarkProcessingWrite(r)
  <2>1. cur[r].id \in DOMAIN outbox /\ Restatus(cur[r].id, "processing")
    BY <1>2, <1>3, MarkProcessingRestatus
  <2>2. /\ rows' = rows /\ todo' = todo /\ cur' = cur
        /\ pc[r] = "mark" /\ pc'[r] = "push"
    BY <1>2, <1>3 DEF MarkProcessingWrite, TypeInv, TypeOK
  <2>3. UnsyncedHasOpenEntry'
    BY <2>1, <2>2 DEF Restatus
  <2>4. RunOwnsItsEntries'
    BY <1>1, <1>2, <2>1, <2>2 DEF Restatus, TypeInv, IdsInTable
  <2> QED
    BY <2>3, <2>4
<1>4. ASSUME NEW o, NEW st \in {"done", "conflict", "failed"}, NEW w \in BOOLEAN,
             WriteEntry(r, o, st, w),
             st = "done" => o = "accepted"
      PROVE  RunOwnsItsEntries' /\ UnsyncedHasOpenEntry'
  <2>1. st \in EntryStatus
    BY DEF EntryStatus
  <2>2. cur[r].id \in DOMAIN outbox /\ Restatus(cur[r].id, st)
    BY <1>2, <1>4, <2>1, WriteEntryRestatus
  <2>3. /\ rows' = rows /\ todo' = todo
        /\ pc[r] = "writeEntry" /\ pc'[r] = "next"
        /\ outcome[r] = o
    BY <1>2, <1>4 DEF WriteEntry, TypeInv, TypeOK
  <2>4. UnsyncedHasOpenEntry'
    <3>1. SUFFICES ASSUME NEW e \in Entities, Mapped(e),
                          rows[e].sync \notin {"absent", "synced"}
                   PROVE  \E i \in DOMAIN outbox' :
                             outbox'[i].entity = e /\ outbox'[i].status # "done"
      BY <2>3
    <3>2. PICK i \in DOMAIN outbox : outbox[i].entity = e /\ outbox[i].status # "done"
      BY <3>1
    <3>3. CASE i # cur[r].id \/ st # "done"
      BY <2>2, <3>2, <3>3 DEF Restatus
    <3>4. CASE i = cur[r].id /\ st = "done"
      <4>1. \E j \in DOMAIN outbox \ {cur[r].id} :
               outbox[j].entity = e /\ outbox[j].status # "done"
        BY <1>4, <2>3, <3>1, <3>2, <3>4
      <4> QED
        BY <2>2, <4>1 DEF Restatus
    <3> QED
      BY <3>3, <3>4
  <2>5. RunOwnsItsEntries'
    BY <1>1, <1>2, <2>2, <2>3 DEF Restatus, TypeInv, IdsInTable
  <2> QED
    BY <2>4, <2>5
<1>5. CASE MarkDone(r) \/ MarkConflict(r) \/ MarkFailed(r)
  BY <1>4, <1>5 DEF MarkDone, MarkConflict, MarkFailed
<1> QED
  BY <1>3, <1>5

\* A UI handler writes a row and enqueues.
LEMMA LocalWriteQueue ==
    ASSUME QueueInv, LocalWrite
    PROVE  RunOwnsItsEntries' /\ UnsyncedHasOpenEntry'
<1>1. /\ TypeInv /\ IdsInTable
      /\ outbox \in Seq(Entry)
  BY DEF QueueInv, TypeInv, TypeOK
<1>2. PICK e \in Entities, n \in Nat : Writes(e, n)
  BY <1>1, LocalWriteEffect
<1>3. /\ DOMAIN outbox \subseteq DOMAIN outbox'
      /\ \A j \in DOMAIN outbox :
            /\ outbox'[j].entity = outbox[j].entity
            /\ outbox'[j].op = outbox[j].op
            /\ outbox'[j].status = outbox[j].status
  <2>1. /\ outbox' \in Seq(Entry)
        /\ Len(outbox') \in Len(outbox) .. Len(outbox) + 3
    BY <1>2 DEF Writes, Queues
  <2>2. DOMAIN outbox \subseteq DOMAIN outbox'
    BY <1>1, <2>1, LenProperties
  <2> QED
    BY <1>2, <2>2 DEF Writes, Queues
<1>4. \A x \in Entities :
         \/ rows'[x] = rows[x]
         \/ \E j \in DOMAIN outbox' :
               outbox'[j].entity = x /\ outbox'[j].status = "pending"
  BY <1>2 DEF Writes, Queues, QueuedAt
<1>5. UnsyncedHasOpenEntry'
  BY <1>3, <1>4 DEF QueueInv, UnsyncedHasOpenEntry, Mapped
<1>6. pc' = pc /\ todo' = todo /\ cur' = cur /\ outcome' = outcome
  BY <1>2 DEF Writes, runVars
<1>7. ASSUME NEW r \in Runs, pc[r] \in {"readEntry", "writeEntry"},
             outcome[r] = "accepted", NEW x \in Entities,
             x = outbox[cur[r].id].entity, Mapped(x),
             rows'[x].sync \notin {"absent", "synced"}
      PROVE  \E j \in DOMAIN outbox' \ {cur[r].id} :
                outbox'[j].entity = x /\ outbox'[j].status # "done"
  <2>1. /\ cur[r].id \in DOMAIN outbox
        /\ outbox[cur[r].id].status = "processing"
    BY <1>1, <1>7 DEF IdsInTable, EntrySteps, QueueInv, RunOwnsItsEntries
  <2>2. CASE rows'[x] = rows[x]
    BY <1>3, <1>7, <2>2 DEF QueueInv, RunOwnsItsEntries
  <2>3. CASE rows'[x] # rows[x]
    BY <1>3, <1>4, <2>1, <2>3
  <2> QED
    BY <2>2, <2>3
<1>8. ASSUME NEW r \in Runs, pc[r] \in EntrySteps
      PROVE  outbox[cur[r].id].entity \in Entities
  <2>1. cur[r].id \in 1 .. Len(outbox)
    BY <1>1, <1>8, LenProperties DEF IdsInTable
  <2>2. outbox[cur[r].id] \in Entry
    BY <1>1, <2>1, ElementOfSeq
  <2> QED
    BY <2>2 DEF Entry
<1>9. RunOwnsItsEntries'
  BY <1>1, <1>3, <1>6, <1>7, <1>8 DEF QueueInv, RunOwnsItsEntries, IdsInTable,
                                      EntrySteps, Mapped
<1> QED
  BY <1>5, <1>9

LEMMA NextQueueInv == SingleRun /\ QueueInv /\ [Next]_vars => QueueInv'
<1> SUFFICES ASSUME SingleRun, QueueInv, [Next]_vars
             PROVE  RunOwnsItsEntries' /\ UnsyncedHasOpenEntry'
  BY NextTypeInv DEF QueueInv
<1>1. CASE \E r \in Runs : RunStep(r) \/ PullFails(r)
  BY <1>1, RunLocalQueue, RunRowsQueue, WriteBackQueue DEF RunStep
<1>2. CASE LocalWrite
  BY <1>2, LocalWriteQueue
<1>3. ASSUME NEW u \in Editors, NEW e \in Entities, NEW op, ReadForEdit(u, e, op)
      PROVE  RunOwnsItsEntries' /\ UnsyncedHasOpenEntry'
  BY <1>3 DEF ReadForEdit, runVars, QueueInv, RunOwnsItsEntries, UnsyncedHasOpenEntry
<1>4. ASSUME NEW i \in DOMAIN outbox, DelayElapses(i)
      PROVE  RunOwnsItsEntries' /\ UnsyncedHasOpenEntry'
  <2>1. Restatus(i, outbox[i].status) /\ TypeInv
    BY <1>4, DelayRestatus DEF QueueInv
  <2>2. UNCHANGED <<rows, runVars>>
    BY <1>4 DEF DelayElapses
  <2> QED
    BY <2>1, <2>2 DEF Restatus, TypeInv, IdsInTable, runVars, QueueInv, Mapped,
                      RunOwnsItsEntries, UnsyncedHasOpenEntry, EntrySteps
<1>5. CASE Crash
  BY <1>5 DEF Crash, QueueInv, RunOwnsItsEntries, UnsyncedHasOpenEntry, EntrySteps
<1>6. CASE UNCHANGED vars
  BY <1>6 DEF vars, QueueInv, RunOwnsItsEntries, UnsyncedHasOpenEntry
<1> QED
  BY <1>1, <1>2, <1>3, <1>4, <1>5, <1>6 DEF Next, EditorStep, LocalWrite

\* With one run at a time, whatever the UI does and whenever the app is killed,
\* a mapped row that is not synced has an entry that is not done.
THEOREM NoOrphanedRow ==
    ASSUME SingleRun
    PROVE  Spec => [](UnsyncedHasOpenEntry /\ RunOwnsItsEntries)
<1>1. Init => QueueInv
  BY InitQueueInv
<1>2. QueueInv /\ [Next]_vars => QueueInv'
  BY NextQueueInv
<1>3. QueueInv => UnsyncedHasOpenEntry /\ RunOwnsItsEntries
  BY DEF QueueInv
<1> QED
  BY <1>1, <1>2, <1>3, PTL DEF Spec

-----------------------------------------------------------------------------
(* One run at a time implements the life cycle of OutboxLifecycle.         *)

statusColumn == [i \in DOMAIN outbox |-> outbox[i].status]

LEMMA ColumnRestatus ==
    ASSUME NEW i \in DOMAIN outbox, NEW st, Restatus(i, st)
    PROVE  statusColumn' = [statusColumn EXCEPT ![i] = st]
BY DEF statusColumn, Restatus

LEMMA ColumnEnqueue ==
    ASSUME TypeInv, LocalWrite
    PROVE  Lifecycle!Enqueue \/ statusColumn' = statusColumn
<1>1. PICK e \in Entities, n \in Nat : Writes(e, n)
  BY LocalWriteEffect
<1>2. /\ outbox \in Seq(Entry)
      /\ outbox' \in Seq(Entry)
      /\ Len(outbox') \in Len(outbox) .. Len(outbox) + 3
      /\ \A j \in DOMAIN outbox : outbox'[j].status = outbox[j].status
      /\ \A j \in DOMAIN outbox' \ DOMAIN outbox : outbox'[j].status = "pending"
  BY <1>1 DEF Writes, Queues, QueuedAt, TypeInv, TypeOK
<1>3. /\ DOMAIN outbox = 1 .. Len(outbox) /\ Len(outbox) \in Nat
      /\ DOMAIN outbox' = 1 .. Len(outbox') /\ Len(outbox') \in Nat
  BY <1>2, LenProperties
<1>4. Len(statusColumn) = Len(outbox)
  <2>1. \A i \in DOMAIN outbox : outbox[i] \in Entry
    BY <1>2, <1>3, ElementOfSeq
  <2>2. statusColumn \in [1 .. Len(outbox) -> EntryStatus]
    BY <1>3, <2>1 DEF statusColumn, Entry
  <2>3. statusColumn \in Seq(EntryStatus) /\ DOMAIN statusColumn = 1 .. Len(outbox)
    BY <1>3, <2>2
  <2> QED
    BY <1>3, <2>3, LenProperties
<1>5. CASE Len(outbox') = Len(outbox)
  BY <1>2, <1>3, <1>5 DEF statusColumn
<1>6. CASE Len(outbox') # Len(outbox)
  <2>1. PICK m \in 1 .. 3 : Len(outbox') = Len(outbox) + m
    <3>1. PICK a \in Nat, b \in Nat : a = Len(outbox) /\ b = Len(outbox')
      BY <1>3
    <3>2. b \in a .. a + 3 /\ b # a
      BY <1>2, <1>6, <3>1
    <3>3. b - a \in 1 .. 3 /\ b = a + (b - a)
      BY <3>2
    <3> QED
      BY <3>1, <3>3
  <2>2. statusColumn' = [i \in 1 .. Len(outbox) + m |-> outbox'[i].status]
    BY <1>3, <2>1 DEF statusColumn
  <2>3. \A i \in 1 .. Len(outbox) + m :
           outbox'[i].status = IF i <= Len(outbox) THEN statusColumn[i] ELSE "pending"
    BY <1>2, <1>3, <2>1 DEF statusColumn
  <2>4. statusColumn' = [i \in 1 .. Len(statusColumn) + m |->
                            IF i <= Len(statusColumn) THEN statusColumn[i] ELSE "pending"]
    BY <1>4, <2>2, <2>3
  <2> QED
    BY <2>4 DEF Lifecycle!Enqueue, statusColumn
<1> QED
  BY <1>5, <1>6

LEMMA LifecycleInit == Init => Lifecycle!Init
<1> SUFFICES ASSUME Init PROVE statusColumn = << >>
  BY DEF Lifecycle!Init, statusColumn
<1>1. outbox = << >>
  BY DEF Init
<1> QED
  BY <1>1 DEF statusColumn

LEMMA LifecycleStep ==
    SingleRun /\ QueueInv /\ [Next]_vars =>
        Lifecycle!Next \/ statusColumn' = statusColumn
<1> SUFFICES ASSUME SingleRun, QueueInv, [Next]_vars
             PROVE  Lifecycle!Next \/ statusColumn' = statusColumn
  OBVIOUS
<1>1. TypeInv
  BY DEF QueueInv
<1>2. DOMAIN statusColumn = DOMAIN outbox
      /\ \A i \in DOMAIN outbox : statusColumn[i] = outbox[i].status
  BY DEF statusColumn
<1>3. ASSUME NEW r \in Runs, MarkProcessingWrite(r) PROVE Lifecycle!Next
  <2>1. cur[r].id \in DOMAIN outbox /\ Restatus(cur[r].id, "processing")
    BY <1>1, <1>3, MarkProcessingRestatus
  <2>2. outbox[cur[r].id].status \in {"pending", "failed"}
    BY <1>3 DEF MarkProcessingWrite, QueueInv, RunOwnsItsEntries
  <2>3. statusColumn' = [statusColumn EXCEPT ![cur[r].id] = "processing"]
    BY <2>1, ColumnRestatus
  <2> QED
    BY <1>2, <2>1, <2>2, <2>3 DEF Lifecycle!Next, Lifecycle!Claim, statusColumn
<1>4. ASSUME NEW r \in Runs, NEW o, NEW st \in {"done", "conflict", "failed"},
             NEW w \in BOOLEAN, WriteEntry(r, o, st, w)
      PROVE  Lifecycle!Next
  <2>1. st \in EntryStatus
    BY DEF EntryStatus
  <2>2. cur[r].id \in DOMAIN outbox /\ Restatus(cur[r].id, st)
    BY <1>1, <1>4, <2>1, WriteEntryRestatus
  <2>3. outbox[cur[r].id].status = "processing"
    BY <1>4 DEF WriteEntry, QueueInv, RunOwnsItsEntries, EntrySteps
  <2>4. statusColumn' = [statusColumn EXCEPT ![cur[r].id] = st]
    BY <2>2, ColumnRestatus
  <2> QED
    BY <1>2, <2>2, <2>3, <2>4 DEF Lifecycle!Next, Lifecycle!Settle, statusColumn
<1>5. ASSUME NEW i \in DOMAIN outbox, DelayElapses(i)
      PROVE  statusColumn' = statusColumn
  <2>1. Restatus(i, outbox[i].status)
    BY <1>1, <1>5, DelayRestatus
  <2> QED
    BY <2>1 DEF Restatus, statusColumn
<1>6. CASE LocalWrite
  BY <1>1, <1>6, ColumnEnqueue DEF Lifecycle!Next
<1>7. ASSUME NEW r \in Runs,
             \/ SyncNow(r) \/ PullSomePage(r) \/ PullFails(r) \/ ApplyPage(r)
             \/ ListPending(r) \/ MarkProcessingRead(r) \/ PushListedEntry(r)
             \/ UploadReadRow(r) \/ UploadWriteRow(r) \/ SetEntitySyncStatus(r)
             \/ ReadEntryToMark(r) \/ FinishRun(r)
      PROVE  outbox' = outbox
  BY <1>7 DEF SyncNow, PullSomePage, PullPage, PullFails, ApplyPage, ListPending,
              MarkProcessingRead, PushListedEntry, UploadReadRow, UploadWriteRow,
              SetEntitySyncStatus, ReadEntryToMark, FinishRun, rowVars
<1>8. ASSUME NEW u \in Editors, NEW e \in Entities, NEW op, ReadForEdit(u, e, op)
      PROVE  outbox' = outbox
  BY <1>8 DEF ReadForEdit
<1>9. Crash \/ UNCHANGED vars => outbox' = outbox
  BY DEF Crash, vars
<1>10. outbox' = outbox => statusColumn' = statusColumn
  BY DEF statusColumn
<1>11. ASSUME NEW r \in Runs, MarkDone(r) \/ MarkConflict(r) \/ MarkFailed(r)
       PROVE  Lifecycle!Next
  BY <1>4, <1>11 DEF MarkDone, MarkConflict, MarkFailed
<1> QED
  BY <1>3, <1>5, <1>6, <1>7, <1>8, <1>9, <1>10, <1>11 DEF Next, RunStep, EditorStep, LocalWrite

\* With one run at a time every step of the app maps to a step of the entries'
\* life cycle or leaves their status alone: nothing is pushed from a state other
\* than pending or failed, and done and conflict are final.
THEOREM EntriesFollowLifecycle ==
    ASSUME SingleRun
    PROVE  Spec => LifecycleSpec
<1>1. Init => QueueInv
  BY InitQueueInv
<1>2. QueueInv /\ [Next]_vars => QueueInv'
  BY NextQueueInv
<1>3. QueueInv /\ [Next]_vars => [Lifecycle!Next]_statusColumn
  BY LifecycleStep
<1>4. Init => Lifecycle!Init
  BY LifecycleInit
<1> QED
  BY <1>1, <1>2, <1>3, <1>4, PTL DEF Spec, LifecycleSpec, Lifecycle!Spec, statusColumn

-----------------------------------------------------------------------------
(* Where the content of a local edit is until somebody has accepted it.     *)

AtEntry == EntrySteps \cup {"mark"}

\* Uploads are made for file types only, and a run that is not at an entry
\* carries none.
UploadsAreFiles ==
    /\ \A i \in DOMAIN outbox :
          outbox[i].op = "upload_file" => TypeOf[outbox[i].entity] \in FileTypes
    /\ \A r \in Runs :
          /\ pc[r] = "upload" => outbox[cur[r].id].op = "upload_file"
          /\ pc[r] \notin AtEntry => cur[r].id = 0

\* Whatever run r does to entry i, it writes back and pushes the content n, and
\* it closes the entry only after n has been accepted.
Keeps(r, i, n) ==
    /\ \A s \in todo[r] : s.id = i => s.payload = n
    /\ cur[r].id = i =>
          /\ cur[r].payload = n
          /\ pc[r] \in {"mark", "writeEntry"} => readPayload[r] = n
          /\ pc[r] \in {"setRow", "readEntry", "writeEntry"} => outcome[r] # "accepted"

Unsent(e) ==
    /\ TypeOf[e] \notin FileTypes
    /\ rows[e].val > 0
    /\ rows[e].val \notin accepted \cup late

HeldBy(i, e) ==
    /\ outbox[i].entity = e
    /\ outbox[i].payload = rows[e].val
    /\ outbox[i].status # "done"
    /\ \A r \in Runs : Keeps(r, i, rows[e].val)

\* UnsentContentIsQueued is not inductive: an entry keeps its content only if
\* no run carries an older copy of it.
ContentHeld == \A e \in Entities : Unsent(e) => \E i \in DOMAIN outbox : HeldBy(i, e)

ContentInv == TypeInv /\ UploadsAreFiles /\ ContentHeld

LEMMA InitContentInv == Init => ContentInv
<1> SUFFICES ASSUME Init PROVE UploadsAreFiles /\ ContentHeld
  BY InitTypeInv DEF ContentInv
<1>1. UploadsAreFiles
  BY DEF Init, UploadsAreFiles, AtEntry, EntrySteps, NoSnapshot
<1>2. ContentHeld
  BY DEF Init, ContentHeld, Unsent, FromServer, NoRow
<1> QED
  BY <1>1, <1>2

\* A step of a run that leaves the table alone keeps every entry as it is
\* held, or accepts its content.
LEMMA RunKeeps ==
    ASSUME ContentInv, NEW r \in Runs,
           \/ SyncNow(r) \/ PullSomePage(r) \/ PullFails(r) \/ ApplyPage(r)
           \/ ListPending(r) \/ MarkProcessingRead(r) \/ PushListedEntry(r)
           \/ UploadReadRow(r) \/ UploadWriteRow(r) \/ SetEntitySyncStatus(r)
           \/ ReadEntryToMark(r) \/ FinishRun(r),
           NEW i \in DOMAIN outbox, NEW n, outbox[i].payload = n,
           NEW s \in Runs, Keeps(s, i, n), n \notin accepted'
    PROVE  Keeps(s, i, n)'
<1> USE DEF ContentInv, TypeInv, TypeOK, Keeps
<1>1. CASE SyncNow(r) \/ PullSomePage(r) \/ PullFails(r) \/ ApplyPage(r) \/ FinishRun(r)
  BY <1>1 DEF SyncNow, PullSomePage, PullPage, PullFails, ApplyPage, FinishRun
<1>2. CASE ListPending(r)
  <2>1. \A x \in todo'[r] : x.id = i => x.payload = n
    BY <1>2 DEF ListPending
  <2> QED
    BY <1>2, <2>1 DEF ListPending
<1>3. CASE MarkProcessingRead(r)
  <2>1. PICK x \in todo[r] :
            /\ cur' = [cur EXCEPT ![r] = x]
            /\ todo' = [todo EXCEPT ![r] = @ \ {x}]
            /\ readPayload' = [readPayload EXCEPT ![r] = outbox[x.id].payload]
    BY <1>3 DEF MarkProcessingRead
  <2>2. pc' = [pc EXCEPT ![r] = "mark"] /\ outcome' = outcome
    BY <1>3 DEF MarkProcessingRead
  <2> QED
    BY <2>1, <2>2
<1>4. CASE PushListedEntry(r)
  <2>1. PICK o \in Outcomes :
            /\ outcome' = [outcome EXCEPT ![r] = o]
            /\ o = "accepted" => accepted' = accepted \cup {cur[r].payload}
    BY <1>4 DEF PushListedEntry
  <2> QED
    BY <1>4, <2>1 DEF PushListedEntry
<1>5. CASE UploadReadRow(r) \/ UploadWriteRow(r)
  BY <1>5 DEF UploadReadRow, UploadWriteRow
<1>6. CASE SetEntitySyncStatus(r) \/ ReadEntryToMark(r)
  BY <1>6 DEF SetEntitySyncStatus, ReadEntryToMark
<1> QED
  BY <1>1, <1>2, <1>3, <1>4, <1>5, <1>6

\* No step of a run gives a row that is no file other content than the server's.
LEMMA RunRowsContent ==
    ASSUME ContentInv, NEW r \in Runs, RunStep(r) \/ PullFails(r),
           NEW e \in Entities, Unsent(e)'
    PROVE  Unsent(e) /\ rows'[e].val = rows[e].val
<1> USE DEF Unsent
<1>1. accepted \subseteq accepted' /\ late' = late
  BY DEF RunStep, SyncNow, PullSomePage, PullPage, PullFails, ApplyPage, FinishRun,
         ListPending, MarkProcessingRead, MarkProcessingWrite, PushListedEntry,
         UploadReadRow, UploadWriteRow, SetEntitySyncStatus, ReadEntryToMark,
         MarkDone, MarkConflict, MarkFailed, WriteEntry, rowVars
<1>2. rows \in [Entities -> Row]
  BY DEF ContentInv, TypeInv, TypeOK
<1>3. CASE ApplyPage(r)
  <2>1. rows'[e] = AppliedRow(e, page[r])
    BY <1>3 DEF ApplyPage
  <2>2. rows'[e].val = rows[e].val \/ rows'[e].val = 0
    BY <1>2, <2>1 DEF AppliedRow, FromServer, Row
  <2> QED
    BY <1>1, <2>2
<1>4. CASE UploadWriteRow(r)
  <2> DEFINE x == outbox[cur[r].id].entity
  <2>1. pc[r] = "upload" /\ rows' = [rows EXCEPT ![x] = rows'[x]]
    BY <1>2, <1>4 DEF UploadWriteRow
  <2>2. cur[r].id \in DOMAIN outbox /\ outbox[cur[r].id].op = "upload_file"
    BY <2>1 DEF ContentInv, TypeInv, IdsInTable, EntrySteps, UploadsAreFiles
  <2>3. TypeOf[x] \in FileTypes
    BY <2>2 DEF ContentInv, UploadsAreFiles
  <2>4. e # x
    BY <2>3
  <2> QED
    BY <1>1, <1>2, <2>1, <2>4
<1>5. CASE SetEntitySyncStatus(r)
  <2>1. rows'[e].val = rows[e].val
    BY <1>2, <1>5 DEF SetEntitySyncStatus, Row
  <2> QED
    BY <1>1, <2>1
<1>6. CASE ~(ApplyPage(r) \/ UploadWriteRow(r) \/ SetEntitySyncStatus(r))
  <2>1. rows' = rows
    BY <1>6 DEF RunStep, SyncNow, PullSomePage, PullPage, PullFails, FinishRun,
         ListPending, MarkProcessingRead, MarkProcessingWrite, PushListedEntry,
         UploadReadRow, ReadEntryToMark,
         MarkDone, MarkConflict, MarkFailed, WriteEntry, rowVars
  <2> QED
    BY <1>1, <2>1
<1> QED
  BY <1>3, <1>4, <1>5, <1>6

\* A run writes its entry back: the content it holds stays in it, and it is
\* not closed before the content is accepted.
LEMMA WriteBackHolds ==
    ASSUME ContentInv, NEW r \in Runs,
           MarkProcessingWrite(r) \/ MarkDone(r) \/ MarkConflict(r) \/ MarkFailed(r),
           NEW i \in DOMAIN outbox, NEW e \in Entities, HeldBy(i, e)
    PROVE  i \in DOMAIN outbox' /\ HeldBy(i, e)'
<1>1. /\ TypeInv
      /\ outbox \in Seq(Entry)
      /\ i \in 1 .. Len(outbox)
  BY LenProperties DEF ContentInv, TypeInv, TypeOK
<1> USE DEF HeldBy, Keeps
<1>2. CASE MarkProcessingWrite(r)
  <2>1. /\ cur[r].id \in DOMAIN outbox
        /\ Restatus(cur[r].id, "processing")
        /\ Repayload(cur[r].id, readPayload[r])
    BY <1>1, <1>2, MarkProcessingRestatus
  <2>2. /\ rows' = rows /\ todo' = todo /\ cur' = cur /\ outcome' = outcome
        /\ readPayload' = readPayload
        /\ pc[r] = "mark" /\ pc' = [pc EXCEPT ![r] = "push"]
        /\ pc \in [Runs -> PcValues]
    BY <1>1, <1>2 DEF MarkProcessingWrite, TypeInv, TypeOK
  <2>3. \A s \in Runs : Keeps(s, i, rows[e].val)'
    BY <2>2
  <2>4. outbox'[i].payload = rows[e].val
    BY <2>1, <2>2 DEF Repayload
  <2> QED
    BY <2>1, <2>2, <2>3, <2>4 DEF Restatus
<1>3. ASSUME NEW o, NEW st \in EntryStatus, NEW w \in BOOLEAN,
             WriteEntry(r, o, st, w), st = "done" => o = "accepted"
      PROVE  i \in DOMAIN outbox' /\ HeldBy(i, e)'
  <2>1. /\ cur[r].id \in DOMAIN outbox
        /\ Restatus(cur[r].id, st)
        /\ Repayload(cur[r].id, readPayload[r])
    BY <1>1, <1>3, WriteEntryRestatus
  <2>2. /\ rows' = rows /\ todo' = todo
        /\ cur' = [cur EXCEPT ![r] = NoSnapshot]
        /\ outcome' = [outcome EXCEPT ![r] = "none"]
        /\ readPayload' = [readPayload EXCEPT ![r] = 0]
        /\ pc[r] = "writeEntry" /\ outcome[r] = o
        /\ pc' = [pc EXCEPT ![r] = "next"]
    BY <1>3 DEF WriteEntry
  <2>3. pc \in [Runs -> PcValues] /\ cur \in [Runs -> Snapshot] /\ NoSnapshot.id = 0
    BY <1>1 DEF TypeInv, TypeOK, NoSnapshot
  <2>4. \A s \in Runs : Keeps(s, i, rows[e].val)'
    BY <1>1, <2>2, <2>3 DEF TypeInv, TypeOK
  <2>5. outbox'[i].payload = rows[e].val
    BY <2>1, <2>2 DEF Repayload
  <2>6. cur[r].id = i => st # "done"
    BY <1>3, <2>2
  <2> QED
    BY <2>1, <2>2, <2>4, <2>5, <2>6 DEF Restatus
<1>4. CASE MarkDone(r) \/ MarkConflict(r) \/ MarkFailed(r)
  BY <1>3, <1>4 DEF MarkDone, MarkConflict, MarkFailed, EntryStatus
<1> QED
  BY <1>2, <1>4

LEMMA LocalWriteHolds ==
    ASSUME ContentInv, LocalWrite
    PROVE  ContentHeld'
<1>1. /\ TypeInv
      /\ outbox \in Seq(Entry)
      /\ DOMAIN outbox = 1 .. Len(outbox)
  BY LenProperties DEF ContentInv, TypeInv, TypeOK
<1>2. PICK e \in Entities, n \in Nat : Writes(e, n)
  BY <1>1, LocalWriteEffect
<1>3. /\ DOMAIN outbox \subseteq DOMAIN outbox'
      /\ \A j \in DOMAIN outbox' : j # 0
      /\ \A j \in DOMAIN outbox :
            /\ outbox'[j].entity = outbox[j].entity
            /\ outbox'[j].status = outbox[j].status
  <2>1. /\ outbox' \in Seq(Entry)
        /\ Len(outbox') \in Len(outbox) .. Len(outbox) + 3
    BY <1>2 DEF Writes, Queues
  <2>2. DOMAIN outbox' = 1 .. Len(outbox') /\ Len(outbox) \in Nat
    BY <1>1, <2>1, LenProperties
  <2>3. DOMAIN outbox \subseteq DOMAIN outbox' /\ \A j \in DOMAIN outbox' : j # 0
    BY <1>1, <2>1, <2>2
  <2> QED
    BY <1>2, <2>3 DEF Writes, Queues
<1>4. late \subseteq late'
  BY <1>2 DEF Writes, Queues
<1>5. PICK k \in DOMAIN outbox' :
                 /\ outbox'[k].entity = e
                 /\ outbox'[k].status = "pending"
                 /\ outbox'[k].payload = n
                 /\ \A j \in DOMAIN outbox :
                       j # k => outbox'[j].payload = outbox[j].payload
                 /\ \A r \in Runs :
                       k \in DOMAIN outbox /\ k \in ListedBy(r) => n \in late'
  BY <1>2 DEF Writes, Queues, QueuedAt
<1>6. /\ UNCHANGED <<pc, todo, cur, readPayload, outcome, accepted>>
      /\ rows'[e].val = n
  BY <1>2 DEF Writes, runVars
<1> SUFFICES ASSUME NEW x \in Entities, Unsent(x)'
             PROVE  \E i \in DOMAIN outbox' : HeldBy(i, x)'
  BY DEF ContentHeld
<1>7. CASE x = e
  <2>1. n \notin late'
    BY <1>6, <1>7 DEF Unsent
  <2>2. ASSUME NEW r \in Runs
        PROVE  (\A s \in todo[r] : s.id # k) /\ cur[r].id # k
    <3>1. CASE k \in DOMAIN outbox
      BY <1>5, <2>1, <3>1 DEF ListedBy
    <3>2. CASE k \notin DOMAIN outbox
      <4>1. \A s \in todo[r] : s.id \in DOMAIN outbox
        BY <1>1 DEF TypeInv, IdsInTable
      <4>2. cur[r].id \in DOMAIN outbox \/ cur[r].id = 0
        BY <1>1 DEF ContentInv, UploadsAreFiles, AtEntry, TypeInv, IdsInTable
      <4> QED
        BY <1>3, <3>2, <4>1, <4>2
    <3> QED
      BY <3>1, <3>2
  <2>3. \A r \in Runs : Keeps(r, k, n)'
    BY <1>6, <2>2 DEF Keeps
  <2>4. HeldBy(k, e)'
    BY <1>5, <1>6, <2>3 DEF HeldBy
  <2> QED
    BY <1>7, <2>4
<1>8. CASE x # e
  <2>1. rows'[x] = rows[x] /\ Unsent(x)
    <3>1. TypeOf[x] \notin FileTypes
      BY DEF Unsent
    <3>2. rows'[x] = rows[x]
      BY <1>2, <1>8, <3>1 DEF Writes
    <3> QED
      BY <1>4, <1>6, <3>2 DEF Unsent
  <2>2. PICK i \in DOMAIN outbox : HeldBy(i, x)
    BY <2>1 DEF ContentInv, ContentHeld
  <2>3. i # k /\ outbox'[i].payload = outbox[i].payload
    BY <1>3, <1>5, <1>8, <2>2 DEF HeldBy
  <2>4. PICK v : v = rows[x].val
    OBVIOUS
  <2>5. \A r \in Runs : Keeps(r, i, v)'
    BY <1>6, <2>2, <2>4 DEF HeldBy, Keeps
  <2> QED
    BY <1>3, <2>1, <2>2, <2>3, <2>4, <2>5 DEF HeldBy
<1> QED
  BY <1>7, <1>8

LEMMA NextUploadsAreFiles == ContentInv /\ [Next]_vars => UploadsAreFiles'
<1> SUFFICES ASSUME ContentInv, [Next]_vars PROVE UploadsAreFiles'
  OBVIOUS
<1>1. TypeInv /\ NoSnapshot.id = 0
  BY DEF ContentInv, NoSnapshot
<1> USE DEF ContentInv, UploadsAreFiles, AtEntry, EntrySteps
<1>2. ASSUME NEW r \in Runs, RunStep(r) \/ PullFails(r),
             ~(MarkProcessingWrite(r) \/ MarkDone(r) \/ MarkConflict(r) \/ MarkFailed(r))
      PROVE  UploadsAreFiles'
  <2>1. outbox' = outbox
    BY <1>2 DEF RunStep, SyncNow, PullSomePage, PullPage, PullFails, ApplyPage, ListPending,
              MarkProcessingRead, PushListedEntry, UploadReadRow, UploadWriteRow,
              SetEntitySyncStatus, ReadEntryToMark, FinishRun, rowVars
  <2>2. \A s \in Runs : /\ pc'[s] = "upload" => outbox[cur'[s].id].op = "upload_file"
                        /\ pc'[s] \notin AtEntry => cur'[s].id = 0
    BY <1>1, <1>2 DEF RunStep, SyncNow, PullSomePage, PullPage, PullFails, ApplyPage, ListPending,
              MarkProcessingRead, PushListedEntry, UploadReadRow, UploadWriteRow,
              SetEntitySyncStatus, ReadEntryToMark, FinishRun, rowVars, TypeInv, TypeOK
  <2> QED
    BY <2>1, <2>2
<1>3. ASSUME NEW i \in DOMAIN outbox, NEW st, Restatus(i, st),
             \A x \in Runs : pc'[x] = "upload" => (pc[x] = "upload" /\ cur'[x] = cur[x]),
             \A x \in Runs : pc'[x] \notin AtEntry => cur'[x].id = 0
      PROVE  UploadsAreFiles'
  <2>1. ASSUME NEW j \in DOMAIN outbox', outbox'[j].op = "upload_file"
        PROVE  TypeOf[outbox'[j].entity] \in FileTypes
    BY <1>3, <2>1 DEF Restatus
  <2>2. ASSUME NEW s \in Runs, pc'[s] = "upload"
        PROVE  outbox'[cur'[s].id].op = "upload_file"
    <3>1. pc[s] = "upload" /\ cur'[s] = cur[s]
      BY <1>3, <2>2
    <3>2. cur[s].id \in DOMAIN outbox
      BY <1>1, <3>1 DEF TypeInv, IdsInTable
    <3> QED
      BY <1>3, <3>1, <3>2 DEF Restatus
  <2> QED
    BY <1>3, <2>1, <2>2
<1>4. ASSUME NEW r \in Runs, MarkProcessingWrite(r) PROVE UploadsAreFiles'
  <2>1. cur[r].id \in DOMAIN outbox /\ Restatus(cur[r].id, "processing")
    BY <1>1, <1>4, MarkProcessingRestatus
  <2> QED
    BY <1>1, <1>3, <1>4, <2>1 DEF MarkProcessingWrite, TypeInv, TypeOK
<1>5. ASSUME NEW r \in Runs, MarkDone(r) \/ MarkConflict(r) \/ MarkFailed(r)
      PROVE  UploadsAreFiles'
  <2>1. PICK o \in {"accepted", "conflict", "error"}, st \in EntryStatus, w \in BOOLEAN :
            WriteEntry(r, o, st, w)
    <3>1. {"done", "conflict", "failed"} \subseteq EntryStatus
      BY DEF EntryStatus
    <3> QED
      BY <1>5, <3>1 DEF MarkDone, MarkConflict, MarkFailed
  <2>2. cur[r].id \in DOMAIN outbox /\ Restatus(cur[r].id, st)
    BY <1>1, <2>1, WriteEntryRestatus
  <2> QED
    BY <1>1, <1>3, <2>1, <2>2 DEF WriteEntry, TypeInv, TypeOK
<1>6. ASSUME NEW i \in DOMAIN outbox, DelayElapses(i) PROVE UploadsAreFiles'
  <2>1. Restatus(i, outbox[i].status)
    BY <1>1, <1>6, DelayRestatus
  <2> QED
    BY <1>3, <1>6, <2>1 DEF DelayElapses, runVars
<1>7. CASE LocalWrite
  <2>1. PICK e \in Entities, n \in Nat : Writes(e, n)
    BY <1>1, <1>7, LocalWriteEffect
  <2>2. /\ \A j \in DOMAIN outbox :
              /\ outbox'[j].entity = outbox[j].entity
              /\ outbox'[j].op = outbox[j].op
        /\ \A j \in DOMAIN outbox' \ DOMAIN outbox :
              outbox'[j].op = "upload_file" => TypeOf[outbox'[j].entity] \in FileTypes
    BY <2>1 DEF Writes, Queues, QueuedAt
  <2>3. pc' = pc /\ cur' = cur
    BY <2>1 DEF Writes, runVars
  <2> QED
    BY <1>1, <2>2, <2>3 DEF TypeInv, IdsInTable
<1>8. ASSUME NEW u \in Editors, NEW e \in Entities, NEW op, ReadForEdit(u, e, op)
      PROVE  UploadsAreFiles'
  BY <1>8 DEF ReadForEdit, runVars
<1>9. CASE Crash
  BY <1>1, <1>9 DEF Crash
<1>10. CASE UNCHANGED vars
  BY <1>10 DEF vars
<1> QED
  BY <1>2, <1>4, <1>5, <1>6, <1>7, <1>8, <1>9, <1>10 DEF Next, EditorStep, LocalWrite

LEMMA NextContentHeld == ContentInv /\ [Next]_vars => ContentHeld'
<1> SUFFICES ASSUME ContentInv, [Next]_vars PROVE ContentHeld'
  OBVIOUS
<1>1. TypeInv
  BY DEF ContentInv
<1>2. ASSUME NEW r \in Runs, RunStep(r) \/ PullFails(r),
             NEW e \in Entities, Unsent(e)'
      PROVE  \E i \in DOMAIN outbox' : HeldBy(i, e)'
  <2>1. Unsent(e) /\ rows'[e].val = rows[e].val
    BY <1>2, RunRowsContent
  <2>2. PICK i \in DOMAIN outbox : HeldBy(i, e)
    BY <2>1 DEF ContentInv, ContentHeld
  <2>3. CASE MarkProcessingWrite(r) \/ MarkDone(r) \/ MarkConflict(r) \/ MarkFailed(r)
    BY <2>2, <2>3, WriteBackHolds
  <2>4. CASE ~(MarkProcessingWrite(r) \/ MarkDone(r) \/ MarkConflict(r) \/ MarkFailed(r))
    <3>1. \/ SyncNow(r) \/ PullSomePage(r) \/ PullFails(r) \/ ApplyPage(r)
          \/ ListPending(r) \/ MarkProcessingRead(r) \/ PushListedEntry(r)
          \/ UploadReadRow(r) \/ UploadWriteRow(r) \/ SetEntitySyncStatus(r)
          \/ ReadEntryToMark(r) \/ FinishRun(r)
      BY <1>2, <2>4 DEF RunStep
    <3>2. rows[e].val \notin accepted'
      BY <1>2, <2>1 DEF Unsent
    <3>3. PICK n : n = rows[e].val
      OBVIOUS
    <3>4. \A s \in Runs : Keeps(s, i, n)'
      BY <2>2, <3>1, <3>2, <3>3, RunKeeps DEF HeldBy
    <3>5. outbox' = outbox
      BY <3>1 DEF SyncNow, PullSomePage, PullPage, PullFails, ApplyPage, ListPending,
              MarkProcessingRead, PushListedEntry, UploadReadRow, UploadWriteRow,
              SetEntitySyncStatus, ReadEntryToMark, FinishRun, rowVars
    <3> QED
      BY <2>1, <2>2, <3>3, <3>4, <3>5 DEF HeldBy
  <2> QED
    BY <2>3, <2>4
<1>3. CASE LocalWrite
  BY <1>3, LocalWriteHolds
<1>4. ASSUME NEW k \in DOMAIN outbox, DelayElapses(k) PROVE ContentHeld'
  <2>1. Restatus(k, outbox[k].status) /\ Repayload(k, outbox[k].payload)
    BY <1>1, <1>4, DelayRestatus
  <2>2. UNCHANGED <<rows, runVars, accepted, late>>
    BY <1>4 DEF DelayElapses
  <2> QED
    BY <2>1, <2>2 DEF Restatus, Repayload, ContentInv, ContentHeld, Unsent, HeldBy,
                      Keeps, runVars
<1>5. ASSUME NEW u \in Editors, NEW e \in Entities, NEW op, ReadForEdit(u, e, op)
      PROVE  ContentHeld'
  BY <1>5 DEF ReadForEdit, runVars, ContentInv, ContentHeld, Unsent, HeldBy, Keeps
<1>6. CASE Crash
  <2>1. UNCHANGED <<rows, outbox, accepted, late>>
    BY <1>6 DEF Crash
  <2>2. \A i \in DOMAIN outbox : i # 0
    BY <1>1, LenProperties DEF TypeInv, TypeOK
  <2>3. \A r \in Runs, i \in DOMAIN outbox, n \in Nat : Keeps(r, i, n)'
    BY <1>6, <2>2 DEF Crash, Keeps, NoSnapshot
  <2>4. \A e \in Entities : rows[e].val \in Nat
    BY <1>1 DEF TypeInv, TypeOK, Row
  <2> QED
    BY <2>1, <2>3, <2>4 DEF ContentInv, ContentHeld, Unsent, HeldBy
<1>7. CASE UNCHANGED vars
  BY <1>7 DEF vars, ContentInv, ContentHeld, Unsent, HeldBy, Keeps
<1> QED
  BY <1>2, <1>3, <1>4, <1>5, <1>6, <1>7 DEF Next, EditorStep, LocalWrite, ContentHeld

\* However many runs and handlers interleave, through failed pulls and crashes,
\* the content of a row that nobody has accepted is in an open entry of the row,
\* unless it was merged into an entry a run had listed.
THEOREM UnsentContentStays == Spec => []UnsentContentIsQueued
<1>1. Init => ContentInv
  BY InitContentInv
<1>2. ContentInv /\ [Next]_vars => ContentInv'
  BY NextTypeInv, NextUploadsAreFiles, NextContentHeld DEF ContentInv
<1>3. ContentInv => UnsentContentIsQueued
  BY DEF ContentInv, ContentHeld, Unsent, HeldBy, UnsentContentIsQueued
<1> QED
  BY <1>1, <1>2, <1>3, PTL DEF Spec

-----------------------------------------------------------------------------
(* What an entry that is done holds.                                        *)

\* DoneWasAccepted is not inductive: a run closes an entry with the payload it
\* reads after the push, so whatever that differs in from the listed payload,
\* which is what was pushed, must be late.
RunsReadWhatTheyListed ==
    \A r \in Runs :
        /\ \A s \in todo[r] : outbox[s.id].payload \in {s.payload} \cup late
        /\ pc[r] \in AtEntry => outbox[cur[r].id].payload \in {cur[r].payload} \cup late
        /\ pc[r] \in {"mark", "writeEntry"} => readPayload[r] \in {cur[r].payload} \cup late
        /\ pc[r] \in {"setRow", "readEntry", "writeEntry"} /\ outcome[r] = "accepted"
              => cur[r].payload \in accepted

DoneInv == QueueInv /\ RunsReadWhatTheyListed /\ DoneWasAccepted

LEMMA InitDoneInv == Init => DoneInv
<1>1. Init => RunsReadWhatTheyListed /\ DoneWasAccepted
  BY DEF Init, RunsReadWhatTheyListed, DoneWasAccepted, AtEntry, EntrySteps
<1> QED
  BY <1>1, InitQueueInv DEF DoneInv

\* The steps of a run that leave the table alone.
LEMMA RunKeepsDone ==
    ASSUME SingleRun, DoneInv, NEW r \in Runs,
           \/ SyncNow(r) \/ PullSomePage(r) \/ PullFails(r) \/ ApplyPage(r)
           \/ ListPending(r) \/ MarkProcessingRead(r) \/ PushListedEntry(r)
           \/ UploadReadRow(r) \/ UploadWriteRow(r) \/ SetEntitySyncStatus(r)
           \/ ReadEntryToMark(r) \/ FinishRun(r)
    PROVE  RunsReadWhatTheyListed' /\ DoneWasAccepted'
<1>1. outbox' = outbox /\ late' = late /\ accepted \subseteq accepted'
  BY DEF SyncNow, PullSomePage, PullPage, PullFails, ApplyPage, ListPending,
         MarkProcessingRead, PushListedEntry, UploadReadRow, UploadWriteRow,
         SetEntitySyncStatus, ReadEntryToMark, FinishRun, rowVars
<1>2. DoneWasAccepted'
  BY <1>1 DEF DoneInv, DoneWasAccepted
<1>3. \A s \in Runs : s = r
  BY DEF SingleRun
<1> USE DEF DoneInv, QueueInv, TypeInv, TypeOK, RunsReadWhatTheyListed, AtEntry, EntrySteps
<1>4. CASE SyncNow(r) \/ PullSomePage(r) \/ PullFails(r) \/ ApplyPage(r) \/ FinishRun(r)
  BY <1>1, <1>2, <1>3, <1>4 DEF SyncNow, PullSomePage, PullPage, PullFails, ApplyPage,
                                FinishRun
<1>5. CASE ListPending(r)
  <2>1. \A s \in todo'[r] : outbox[s.id].payload = s.payload
    BY <1>5 DEF ListPending
  <2> QED
    BY <1>1, <1>2, <1>3, <1>5, <2>1 DEF ListPending
<1>6. CASE MarkProcessingRead(r)
  <2>1. PICK s \in todo[r] : /\ cur'[r] = s
                            /\ todo'[r] = todo[r] \ {s}
                            /\ readPayload'[r] = outbox[s.id].payload
    BY <1>6 DEF MarkProcessingRead
  <2>2. pc'[r] = "mark"
    BY <1>6 DEF MarkProcessingRead
  <2> QED
    BY <1>1, <1>2, <1>3, <2>1, <2>2
<1>7. CASE PushListedEntry(r)
  <2>1. outcome'[r] = "accepted" => cur[r].payload \in accepted'
    BY <1>7 DEF PushListedEntry
  <2> QED
    BY <1>1, <1>2, <1>3, <1>7, <2>1 DEF PushListedEntry
<1>8. CASE UploadReadRow(r) \/ UploadWriteRow(r)
  BY <1>1, <1>2, <1>3, <1>8 DEF UploadReadRow, UploadWriteRow
<1>9. CASE SetEntitySyncStatus(r) \/ ReadEntryToMark(r)
  BY <1>1, <1>2, <1>3, <1>9 DEF SetEntitySyncStatus, ReadEntryToMark
<1> QED
  BY <1>4, <1>5, <1>6, <1>7, <1>8, <1>9

\* The run writes its entry back.
LEMMA WriteBackDone ==
    ASSUME SingleRun, DoneInv, NEW r \in Runs,
           MarkProcessingWrite(r) \/ MarkDone(r) \/ MarkConflict(r) \/ MarkFailed(r)
    PROVE  RunsReadWhatTheyListed' /\ DoneWasAccepted'
<1>1. \A s \in Runs : s = r
  BY DEF SingleRun
<1>2. TypeInv
  BY DEF DoneInv, QueueInv
<1>3. \A s \in todo[r] : pc[r] \in AtEntry => s.id # cur[r].id
  BY DEF DoneInv, QueueInv, RunOwnsItsEntries, AtEntry, EntrySteps
<1> USE DEF RunsReadWhatTheyListed, AtEntry, EntrySteps
<1>4. CASE MarkProcessingWrite(r)
  <2>1. /\ cur[r].id \in DOMAIN outbox
        /\ Restatus(cur[r].id, "processing")
        /\ Repayload(cur[r].id, readPayload[r])
    BY <1>2, <1>4, MarkProcessingRestatus
  <2>2. /\ pc[r] = "mark" /\ pc'[r] = "push"
        /\ UNCHANGED <<todo, cur, readPayload, outcome, accepted, late>>
    BY <1>2, <1>4 DEF MarkProcessingWrite, TypeInv, TypeOK
  <2>3. DoneWasAccepted'
    BY <2>1, <2>2 DEF Restatus, Repayload, DoneInv, DoneWasAccepted
  <2>4. readPayload[r] \in {cur[r].payload} \cup late
    BY <2>2 DEF DoneInv
  <2>5. \A s \in todo[r] : outbox'[s.id].payload \in {s.payload} \cup late
    BY <1>2, <1>3, <2>1, <2>2 DEF Repayload, DoneInv, TypeInv, IdsInTable
  <2>6. outbox'[cur[r].id].payload = readPayload[r]
    BY <2>1 DEF Repayload
  <2> QED
    BY <1>1, <2>2, <2>3, <2>4, <2>5, <2>6
<1>5. ASSUME NEW o, NEW st \in EntryStatus, NEW w \in BOOLEAN,
             WriteEntry(r, o, st, w), st = "done" => o = "accepted"
      PROVE  RunsReadWhatTheyListed' /\ DoneWasAccepted'
  <2>1. /\ cur[r].id \in DOMAIN outbox
        /\ Restatus(cur[r].id, st)
        /\ Repayload(cur[r].id, readPayload[r])
    BY <1>2, <1>5, WriteEntryRestatus
  <2>2. /\ pc[r] = "writeEntry" /\ pc'[r] = "next" /\ outcome[r] = o
        /\ UNCHANGED <<todo, accepted, late>>
    BY <1>2, <1>5 DEF WriteEntry, TypeInv, TypeOK
  <2>3. readPayload[r] \in {cur[r].payload} \cup late
    BY <2>2 DEF DoneInv
  <2>4. st = "done" => cur[r].payload \in accepted
    BY <1>5, <2>2 DEF DoneInv
  <2>5. DoneWasAccepted'
    BY <2>1, <2>2, <2>3, <2>4 DEF Restatus, Repayload, DoneInv, DoneWasAccepted
  <2>6. \A s \in todo[r] : outbox'[s.id].payload \in {s.payload} \cup late
    BY <1>2, <1>3, <2>1, <2>2 DEF Repayload, DoneInv, TypeInv, IdsInTable
  <2> QED
    BY <1>1, <2>2, <2>5, <2>6
<1>6. CASE MarkDone(r) \/ MarkConflict(r) \/ MarkFailed(r)
  BY <1>5, <1>6 DEF MarkDone, MarkConflict, MarkFailed, EntryStatus
<1> QED
  BY <1>4, <1>6

LEMMA LocalWriteDone ==
    ASSUME DoneInv, LocalWrite
    PROVE  RunsReadWhatTheyListed' /\ DoneWasAccepted'
<1>1. TypeInv
  BY DEF DoneInv, QueueInv
<1>2. PICK e \in Entities, n \in Nat : Writes(e, n)
  BY <1>1, LocalWriteEffect
<1>3. /\ \A j \in DOMAIN outbox : outbox'[j].status = outbox[j].status
      /\ \A j \in DOMAIN outbox' \ DOMAIN outbox : outbox'[j].status = "pending"
  BY <1>2 DEF Writes, Queues, QueuedAt
<1>4. late \subseteq late'
  BY <1>2 DEF Writes, Queues
<1>5. PICK k \in DOMAIN outbox' :
                 /\ outbox'[k].status = "pending"
                 /\ outbox'[k].payload = n
                 /\ \A j \in DOMAIN outbox :
                       j # k => outbox'[j].payload = outbox[j].payload
                 /\ \A r \in Runs :
                       k \in DOMAIN outbox /\ k \in ListedBy(r) => n \in late'
  BY <1>2 DEF Writes, Queues, QueuedAt
<1>6. UNCHANGED <<pc, todo, cur, readPayload, outcome, accepted>>
  BY <1>2 DEF Writes, runVars
<1>7. DoneWasAccepted'
  BY <1>3, <1>4, <1>5, <1>6 DEF DoneInv, DoneWasAccepted
<1>8. ASSUME NEW r \in Runs, NEW j \in DOMAIN outbox, j \in ListedBy(r)
      PROVE  outbox'[j].payload \in {outbox[j].payload} \cup late'
  BY <1>5, <1>8
<1>9. ASSUME NEW r \in Runs, NEW s \in todo[r]
      PROVE  outbox'[s.id].payload \in {s.payload} \cup late'
  <2>1. s.id \in DOMAIN outbox /\ s.id \in ListedBy(r)
    BY <1>1, <1>9 DEF TypeInv, IdsInTable, ListedBy
  <2> QED
    BY <1>4, <1>8, <2>1 DEF DoneInv, RunsReadWhatTheyListed
<1>10. ASSUME NEW r \in Runs, pc[r] \in AtEntry
       PROVE  outbox'[cur[r].id].payload \in {cur[r].payload} \cup late'
  <2>1. cur[r].id \in DOMAIN outbox /\ cur[r].id \in ListedBy(r)
    BY <1>1, <1>10 DEF TypeInv, IdsInTable, ListedBy, AtEntry
  <2> QED
    BY <1>4, <1>8, <1>10, <2>1 DEF DoneInv, RunsReadWhatTheyListed
<1>11. RunsReadWhatTheyListed'
  BY <1>4, <1>6, <1>9, <1>10 DEF DoneInv, RunsReadWhatTheyListed
<1> QED
  BY <1>7, <1>11

LEMMA NextDoneInv == SingleRun /\ DoneInv /\ [Next]_vars => DoneInv'
<1> SUFFICES ASSUME SingleRun, DoneInv, [Next]_vars
             PROVE  RunsReadWhatTheyListed' /\ DoneWasAccepted'
  BY NextQueueInv DEF DoneInv
<1>1. TypeInv
  BY DEF DoneInv, QueueInv
<1>2. CASE \E r \in Runs : RunStep(r) \/ PullFails(r)
  BY <1>2, RunKeepsDone, WriteBackDone DEF RunStep
<1>3. CASE LocalWrite
  BY <1>3, LocalWriteDone
<1>4. ASSUME NEW k \in DOMAIN outbox, DelayElapses(k)
      PROVE  RunsReadWhatTheyListed' /\ DoneWasAccepted'
  <2>1. Restatus(k, outbox[k].status) /\ Repayload(k, outbox[k].payload)
    BY <1>1, <1>4, DelayRestatus
  <2>2. UNCHANGED <<runVars, accepted, late>>
    BY <1>4 DEF DelayElapses
  <2>3. \A j \in DOMAIN outbox : outbox'[j].payload = outbox[j].payload
    BY <2>1 DEF Repayload
  <2> QED
    BY <1>1, <2>1, <2>2, <2>3 DEF Restatus, DoneInv, RunsReadWhatTheyListed, runVars,
                            DoneWasAccepted, TypeInv, IdsInTable, AtEntry
<1>5. ASSUME NEW u \in Editors, NEW e \in Entities, NEW op, ReadForEdit(u, e, op)
      PROVE  RunsReadWhatTheyListed' /\ DoneWasAccepted'
  BY <1>5 DEF ReadForEdit, runVars, DoneInv, RunsReadWhatTheyListed, DoneWasAccepted
<1>6. CASE Crash
  BY <1>6 DEF Crash, DoneInv, RunsReadWhatTheyListed, DoneWasAccepted, AtEntry, EntrySteps
<1>7. CASE UNCHANGED vars
  BY <1>7 DEF vars, DoneInv, RunsReadWhatTheyListed, DoneWasAccepted
<1> QED
  BY <1>2, <1>3, <1>4, <1>5, <1>6, <1>7 DEF Next, EditorStep, LocalWrite

\* With one run at a time, through failed pulls and crashes, an entry is done
\* only with content that was accepted or merged into it after it was listed.
THEOREM DoneMeansAccepted == ASSUME SingleRun PROVE Spec => []DoneWasAccepted
<1>1. Init => DoneInv
  BY InitDoneInv
<1>2. DoneInv /\ [Next]_vars => DoneInv'
  BY NextDoneInv
<1>3. DoneInv => DoneWasAccepted
  BY DEF DoneInv
<1> QED
  BY <1>1, <1>2, <1>3, PTL DEF Spec

-----------------------------------------------------------------------------
(* Who works on an entry that is processing.                                *)

NoCrash == "crash" \notin Faults

LEMMA NextProcessingIsOwned ==
    NoCrash /\ TypeInv /\ ProcessingIsOwned /\ [Next]_vars => ProcessingIsOwned'
<1> SUFFICES ASSUME NoCrash, TypeInv, ProcessingIsOwned, [Next]_vars
             PROVE  ProcessingIsOwned'
  OBVIOUS
<1> USE DEF ProcessingIsOwned, EntrySteps
<1>1. ASSUME NEW r \in Runs, RunStep(r) \/ PullFails(r),
             ~(MarkProcessingWrite(r) \/ MarkDone(r) \/ MarkConflict(r) \/ MarkFailed(r))
      PROVE  ProcessingIsOwned'
  <2>1. outbox' = outbox
    BY <1>1 DEF RunStep, SyncNow, PullSomePage, PullPage, PullFails, ApplyPage, ListPending,
              MarkProcessingRead, PushListedEntry, UploadReadRow, UploadWriteRow,
              SetEntitySyncStatus, ReadEntryToMark, FinishRun, rowVars
  <2>2. \A s \in Runs : pc[s] \in EntrySteps => pc'[s] \in EntrySteps /\ cur'[s] = cur[s]
    BY <1>1 DEF RunStep, SyncNow, PullSomePage, PullPage, PullFails, ApplyPage, ListPending,
              MarkProcessingRead, PushListedEntry, UploadReadRow, UploadWriteRow,
              SetEntitySyncStatus, ReadEntryToMark, FinishRun, TypeInv, TypeOK
  <2> QED
    BY <2>1, <2>2
<1>2. ASSUME NEW r \in Runs, MarkProcessingWrite(r) PROVE ProcessingIsOwned'
  <2>1. cur[r].id \in DOMAIN outbox /\ Restatus(cur[r].id, "processing")
    BY <1>2, MarkProcessingRestatus
  <2>2. cur' = cur /\ pc' = [pc EXCEPT ![r] = "push"] /\ pc \in [Runs -> PcValues]
    BY <1>2 DEF MarkProcessingWrite, TypeInv, TypeOK
  <2> QED
    BY <2>1, <2>2 DEF Restatus
<1>3. ASSUME NEW r \in Runs, MarkDone(r) \/ MarkConflict(r) \/ MarkFailed(r)
      PROVE  ProcessingIsOwned'
  <2>1. PICK o \in {"accepted", "conflict", "error"}, st \in {"done", "conflict", "failed"},
             w \in BOOLEAN : WriteEntry(r, o, st, w)
    BY <1>3 DEF MarkDone, MarkConflict, MarkFailed
  <2>2. cur[r].id \in DOMAIN outbox /\ Restatus(cur[r].id, st)
    <3>1. st \in EntryStatus
      BY DEF EntryStatus
    <3> QED
      BY <2>1, <3>1, WriteEntryRestatus
  <2>3. \A s \in Runs \ {r} : pc'[s] = pc[s] /\ cur'[s] = cur[s]
    BY <2>1 DEF WriteEntry, TypeInv, TypeOK
  <2> QED
    BY <2>2, <2>3 DEF Restatus
<1>4. ASSUME NEW i \in DOMAIN outbox, DelayElapses(i) PROVE ProcessingIsOwned'
  <2>1. Restatus(i, outbox[i].status) /\ pc' = pc /\ cur' = cur
    BY <1>4, DelayRestatus DEF DelayElapses, runVars
  <2> QED
    BY <2>1 DEF Restatus
<1>5. CASE LocalWrite
  <2>1. PICK e \in Entities, n \in Nat : Writes(e, n)
    BY <1>5, LocalWriteEffect
  <2>2. /\ \A j \in DOMAIN outbox : outbox'[j].status = outbox[j].status
        /\ \A j \in DOMAIN outbox' \ DOMAIN outbox : outbox'[j].status = "pending"
    BY <2>1 DEF Writes, Queues, QueuedAt
  <2>3. pc' = pc /\ cur' = cur
    BY <2>1 DEF Writes, runVars
  <2> QED
    BY <2>2, <2>3
<1>6. ASSUME NEW u \in Editors, NEW e \in Entities, NEW op, ReadForEdit(u, e, op)
      PROVE  ProcessingIsOwned'
  BY <1>6 DEF ReadForEdit, runVars
<1>7. ~Crash
  BY DEF Crash, NoCrash
<1>8. CASE UNCHANGED vars
  BY <1>8 DEF vars
<1> QED
  BY <1>1, <1>2, <1>3, <1>4, <1>5, <1>6, <1>7, <1>8 DEF Next, EditorStep, LocalWrite

\* While the app is not killed, an entry is processing only while a run works
\* on it, for any number of overlapping runs and handlers.
THEOREM ProcessingHasOwner == ASSUME NoCrash PROVE Spec => []ProcessingIsOwned
<1>1. Init => TypeInv /\ ProcessingIsOwned
  BY InitTypeInv DEF Init, ProcessingIsOwned
<1>2. TypeInv /\ ProcessingIsOwned /\ [Next]_vars => (TypeInv /\ ProcessingIsOwned)'
  BY NextTypeInv, NextProcessingIsOwned
<1> QED
  BY <1>1, <1>2, PTL DEF Spec
=============================================================================
