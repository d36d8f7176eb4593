-------------------------- MODULE ServerPushProofs --------------------------
(***************************************************************************)
(* Proofs about ServerPush for any number of records, tenants, clients'    *)
(* entries and concurrent requests, with every fault.                      *)
(***************************************************************************)
EXTENDS ServerPush, SequenceTheorems, TLAPS

-----------------------------------------------------------------------------
(* The inductive invariant: types, what handlers remember, and the two     *)
(* promises about verdicts.  None of the parts is inductive alone.  The    *)
(* type of a row needs the row to exist while it is updated, acceptance    *)
(* needs a handler that logs to have written, and answers need the log to  *)
(* hold what handlers have collected.                                      *)

PushInv == TypeOK /\ EstablishedStays /\ AcceptedWasApplied /\ AnswersAgreeWithLog

\* What no step undoes.
Monotone ==
    /\ \A o \in OutboxIds : entry[o] # NoEntry => entry'[o] = entry[o]
    /\ \A o \in OutboxIds : log[o] # "none" => log'[o] = log[o]
    /\ \A o \in OutboxIds : applied[o] > 0 => applied'[o] > 0
    /\ \A r \in Records : records[r].version > 0 =>
          /\ records'[r].version > 0
          /\ NoRelinks => records'[r].tenant = records[r].tenant

\* EstablishedStays for one handler.
HandlerInv(h) ==
    /\ \A k \in DOMAIN batch[h] : entry[batch[h][k]] # NoEntry
    /\ pc[h] = "write" => records[entry[Head(batch[h])].record].version > 0
    /\ pc[h] = "write" /\ NoRelinks => Found(Head(batch[h]))
    /\ pc[h] = "log" => applied[Head(batch[h])] > 0
    /\ pc[h] = "auditAccepted" => log[Head(batch[h])] = "accepted"
    /\ pc[h] = "auditRejected" => log[Head(batch[h])] = "rejected"
    /\ \A a \in answers[h] : log[a.id] = a.verdict

\* The first entry of a batch, and what is left without it.
LEMMA BatchFacts ==
    ASSUME TypeOK, NEW h \in Handlers, batch[h] # << >>
    PROVE  /\ Head(batch[h]) \in OutboxIds
           /\ 1 \in DOMAIN batch[h] /\ Head(batch[h]) = batch[h][1]
           /\ Tail(batch[h]) \in Seq(OutboxIds)
           /\ \A k \in DOMAIN Tail(batch[h]) :
                 k + 1 \in DOMAIN batch[h] /\ Tail(batch[h])[k] = batch[h][k + 1]
<1> DEFINE s == batch[h]
<1>1. s \in Seq(OutboxIds) /\ s # << >>
  BY DEF TypeOK
<1> HIDE DEF s
<1>2. /\ Head(s) \in OutboxIds /\ Tail(s) \in Seq(OutboxIds)
      /\ Len(Tail(s)) = Len(s) - 1
      /\ \A i \in 1 .. Len(Tail(s)) : Tail(s)[i] = s[i + 1]
  BY <1>1, HeadTailProperties
<1>3. /\ DOMAIN s = 1 .. Len(s) /\ Len(s) \in Nat
      /\ DOMAIN Tail(s) = 1 .. Len(Tail(s)) /\ Len(Tail(s)) \in Nat
  BY <1>1, <1>2, LenProperties
<1>4. 1 \in DOMAIN s
  BY <1>2, <1>3
<1>5. Head(s) = s[1]
  BY <1>1, <1>4
<1> QED
  BY <1>2, <1>3, <1>4, <1>5 DEF s

\* The current entry of a handler exists and names a record.
LEMMA CurrentEntry ==
    ASSUME PushInv, NEW h \in Handlers, batch[h] # << >>
    PROVE  entry[Head(batch[h])] \in Entry
<1>1. Head(batch[h]) \in OutboxIds /\ entry[Head(batch[h])] # NoEntry
  BY BatchFacts DEF PushInv, EstablishedStays
<1> QED
  BY <1>1 DEF PushInv, TypeOK

\* A handler that a step does not touch keeps what it has established.
LEMMA UntouchedHandler ==
    ASSUME TypeOK, Monotone, NEW h \in Handlers, HandlerInv(h),
           pc'[h] = pc[h], batch'[h] = batch[h], answers'[h] = answers[h]
    PROVE  HandlerInv(h)'
<1>1. \A k \in DOMAIN batch[h] : batch[h][k] \in OutboxIds
  <2>1. batch[h] \in Seq(OutboxIds)
    BY DEF TypeOK
  <2> QED
    BY <2>1, ElementOfSeq, LenProperties
<1>2. \A k \in DOMAIN batch'[h] : entry'[batch'[h][k]] # NoEntry
  BY <1>1 DEF Monotone, HandlerInv
<1>3. ASSUME pc'[h] # "idle", pc'[h] # "lookup"
      PROVE  Head(batch[h]) \in OutboxIds /\ entry[Head(batch[h])] # NoEntry
  <2>1. batch[h] # << >>
    BY <1>3 DEF TypeOK
  <2> QED
    BY <2>1, BatchFacts DEF HandlerInv
<1>4. ASSUME pc'[h] = "write"
      PROVE  /\ records'[entry'[Head(batch[h])].record].version > 0
             /\ NoRelinks => Found(Head(batch[h]))'
  <2> DEFINE o == Head(batch[h])
             r == entry[o].record
  <2>1. /\ o \in OutboxIds /\ entry[o] # NoEntry
        /\ records[r].version > 0 /\ (NoRelinks => Found(o))
    BY <1>3, <1>4 DEF HandlerInv
  <2>2. entry'[o] = entry[o] /\ r \in Records
    BY <2>1 DEF Monotone, TypeOK, Entry
  <2>3. records'[r].version > 0 /\ (NoRelinks => records'[r].tenant = records[r].tenant)
    BY <2>1, <2>2 DEF Monotone
  <2> QED
    BY <2>1, <2>2, <2>3 DEF Found
<1>5. /\ pc'[h] = "log" => applied'[Head(batch'[h])] > 0
      /\ pc'[h] = "auditAccepted" => log'[Head(batch'[h])] = "accepted"
      /\ pc'[h] = "auditRejected" => log'[Head(batch'[h])] = "rejected"
  BY <1>3 DEF Monotone, HandlerInv
<1>6. \A a \in answers'[h] : log'[a.id] = a.verdict
  <2>1. \A a \in answers[h] : a.id \in OutboxIds /\ a.verdict \in Verdicts
    BY DEF TypeOK, Answer
  <2> QED
    BY <2>1 DEF Monotone, HandlerInv, Verdicts
<1> QED
  BY <1>2, <1>4, <1>5, <1>6 DEF HandlerInv

\* An idle handler has nothing to keep.
LEMMA IdleHandler ==
    ASSUME NEW h \in Handlers,
           pc'[h] = "idle", batch'[h] = << >>, answers'[h] = {}
    PROVE  HandlerInv(h)'
BY DEF HandlerInv

\* A step that touches at most one handler keeps what the others established.
LEMMA OneHandler ==
    ASSUME PushInv, Monotone, NEW h \in Handlers, HandlerInv(h)',
           \A g \in Handlers \ {h} :
              pc'[g] = pc[g] /\ batch'[g] = batch[g] /\ answers'[g] = answers[g]
    PROVE  EstablishedStays'
<1>1. ASSUME NEW g \in Handlers PROVE HandlerInv(g)'
  <2>1. CASE g = h
    BY <2>1
  <2>2. CASE g # h
    <3>1. HandlerInv(g)
      BY DEF PushInv, EstablishedStays, HandlerInv
    <3> QED
      BY <2>2, <3>1, UntouchedHandler DEF PushInv
  <2> QED
    BY <2>1, <2>2
<1> QED
  BY <1>1 DEF EstablishedStays, HandlerInv

\* What remains once the types and the handlers are settled: a new accepted
\* verdict is of a written entry, and a new answer is the stored one.
LEMMA PromisesStay ==
    ASSUME PushInv, TypeOK', Monotone, EstablishedStays',
           \A o \in OutboxIds : log'[o] = "accepted" =>
              log[o] = "accepted" \/ applied[o] > 0,
           \A a \in told' : a \in told \/ log'[a.id] = a.verdict
    PROVE  PushInv'
<1>1. AcceptedWasApplied'
  BY DEF PushInv, AcceptedWasApplied, Monotone
<1>2. ASSUME NEW a \in told' PROVE log'[a.id] = a.verdict
  <2>1. CASE a \in told
    <3>1. a.id \in OutboxIds /\ a.verdict \in Verdicts /\ log[a.id] = a.verdict
      BY <2>1 DEF PushInv, TypeOK, Answer, AnswersAgreeWithLog
    <3> QED
      BY <3>1 DEF Monotone, Verdicts
  <2> QED
    BY <1>2, <2>1
<1> QED
  BY <1>1, <1>2 DEF PushInv, AnswersAgreeWithLog

\* A step that leaves the tables alone undoes nothing.
LEMMA TablesUntouched ==
    ASSUME UNCHANGED <<records, entry, log, applied>>
    PROVE  Monotone
BY DEF Monotone

-----------------------------------------------------------------------------
(* The clients, the dispatcher, and the end of requests.                   *)

LEMMA InitPushInv == Init => PushInv
<1> SUFFICES ASSUME Init PROVE PushInv
  OBVIOUS
<1>1. records \in [Records -> Record]
  BY PushAssumption DEF Init, Record, NoRecord
<1>2. ASSUME NEW r \in Records
      PROVE  records[r].version = 0 <=> records[r].tenant = NoTenant
  <2>1. CASE Owner[r] = NoTenant
    BY <2>1 DEF Init, NoRecord
  <2>2. CASE Owner[r] # NoTenant
    <3>1. records[r] = [NoRecord EXCEPT !.version = 1, !.tenant = Owner[r]]
      BY <2>2 DEF Init
    <3>2. records[r].version = 1 /\ records[r].tenant = Owner[r]
      BY <3>1 DEF NoRecord
    <3> QED
      BY <2>2, <3>2
  <2> QED
    BY <2>1, <2>2
<1>3. << >> \in Seq(OutboxIds)
  OBVIOUS
<1>4. TypeOK
  BY <1>1, <1>2, <1>3 DEF Init, TypeOK, PcValues, Verdicts, Answer
<1>5. EstablishedStays
  <2>1. \A h \in Handlers : pc[h] = "idle" /\ batch[h] = << >> /\ answers[h] = {}
    BY DEF Init
  <2> QED
    BY <2>1 DEF EstablishedStays
<1> QED
  BY <1>4, <1>5 DEF PushInv, Init, AcceptedWasApplied, AnswersAgreeWithLog

LEMMA MakeEntryStep ==
    ASSUME PushInv, NEW o \in OutboxIds, NEW r \in Records, NEW op \in Operations,
           MakeEntry(o, r, op)
    PROVE  PushInv'
<1>1. records[r].version \in Nat /\ records[r].rev \in Nat
  BY DEF PushInv, TypeOK, Record
<1>2. entry' \in [OutboxIds -> Entry \cup {NoEntry}]
  BY <1>1 DEF PushInv, TypeOK, MakeEntry, Entry
<1>3. TypeOK'
  BY <1>2 DEF PushInv, TypeOK, MakeEntry, serverVars
<1>4. Monotone
  BY DEF PushInv, TypeOK, MakeEntry, Monotone
<1>5. ASSUME NEW h \in Handlers PROVE HandlerInv(h)'
  <2>1. HandlerInv(h)
    BY DEF PushInv, EstablishedStays, HandlerInv
  <2> QED
    BY <1>4, <2>1, UntouchedHandler DEF PushInv, MakeEntry, serverVars
<1>6. EstablishedStays'
  BY <1>5 DEF EstablishedStays, HandlerInv
<1> QED
  BY <1>3, <1>4, <1>6, PromisesStay DEF MakeEntry

LEMMA ReceiveStep ==
    ASSUME PushInv, NEW h \in Handlers, NEW b \in Batches, Receive(h, b)
    PROVE  PushInv'
<1>1. b \in Seq(OutboxIds)
  BY PushAssumption
<1>2. TypeOK'
  <2>1. batch' \in [Handlers -> Seq(OutboxIds)]
    BY <1>1 DEF PushInv, TypeOK, Receive
  <2>2. pc' \in [Handlers -> PcValues]
    BY DEF PushInv, TypeOK, Receive, PcValues
  <2>3. \A g \in Handlers : pc'[g] \notin {"idle", "lookup"} => batch'[g] # << >>
    BY DEF PushInv, TypeOK, Receive
  <2> QED
    BY <2>1, <2>2, <2>3 DEF PushInv, TypeOK, Receive
<1>3. Monotone
  BY TablesUntouched DEF Receive
<1>4. HandlerInv(h)'
  <2>1. pc'[h] = "lookup" /\ batch'[h] = b /\ answers'[h] = answers[h]
    BY DEF PushInv, TypeOK, Receive
  <2> QED
    BY <2>1 DEF PushInv, EstablishedStays, Receive, HandlerInv
<1>5. EstablishedStays'
  BY <1>3, <1>4, OneHandler DEF PushInv, TypeOK, Receive
<1> QED
  BY <1>2, <1>3, <1>5, PromisesStay DEF Receive

LEMMA UpdateWorkOrderStep ==
    ASSUME PushInv, NEW r \in Records, UpdateWorkOrder(r)
    PROVE  PushInv'
<1>1. records[r] \in Record
  BY DEF PushInv, TypeOK
<1> DEFINE new == Written(r, records[r].tenant, records[r].version, records[r].deleted,
                            "dispatcher")
<1>2. records' = [records EXCEPT ![r] = new]
  BY DEF UpdateWorkOrder
<1>3. /\ new \in Record
      /\ new.version = records[r].version /\ new.tenant = records[r].tenant
  BY <1>1 DEF Record, Written
<1>4. \A q \in Records : records'[q] = IF q = r THEN new ELSE records[q]
  BY <1>2 DEF PushInv, TypeOK
<1>5. records' \in [Records -> Record]
  BY <1>2, <1>3 DEF PushInv, TypeOK
<1> HIDE DEF new
<1>6. \A q \in Records : /\ records'[q].version = records[q].version
                         /\ records'[q].tenant = records[q].tenant
  BY <1>3, <1>4
<1>7. TypeOK'
  BY <1>5, <1>6 DEF PushInv, TypeOK, UpdateWorkOrder, serverVars
<1>8. Monotone
  BY <1>6 DEF Monotone, UpdateWorkOrder
<1>9. ASSUME NEW h \in Handlers PROVE HandlerInv(h)'
  <2>1. HandlerInv(h)
    BY DEF PushInv, EstablishedStays, HandlerInv
  <2> QED
    BY <1>8, <2>1, UntouchedHandler DEF PushInv, UpdateWorkOrder, serverVars
<1>10. EstablishedStays'
  BY <1>9 DEF EstablishedStays, HandlerInv
<1> QED
  BY <1>7, <1>8, <1>10, PromisesStay DEF UpdateWorkOrder

LEMMA CrashStep ==
    ASSUME PushInv, Crash
    PROVE  PushInv'
<1>1. TypeOK'
  BY DEF PushInv, TypeOK, Crash, PcValues
<1>2. EstablishedStays'
  BY DEF EstablishedStays, Crash
<1>3. Monotone
  BY TablesUntouched DEF Crash
<1> QED
  BY <1>1, <1>2, <1>3, PromisesStay DEF Crash

LEMMA ThrowStep ==
    ASSUME PushInv, NEW h \in Handlers, Throw(h)
    PROVE  PushInv'
<1>1. TypeOK'
  <2>1. batch' \in [Handlers -> Seq(OutboxIds)] /\ pc' \in [Handlers -> PcValues]
    BY DEF PushInv, TypeOK, Throw, GoTo, PcValues
  <2>2. \A g \in Handlers : pc'[g] \notin {"idle", "lookup"} => batch'[g] # << >>
    BY DEF PushInv, TypeOK, Throw, GoTo
  <2> QED
    BY <2>1, <2>2 DEF PushInv, TypeOK, Throw, GoTo
<1>2. Monotone
  BY TablesUntouched DEF Throw
<1>3. HandlerInv(h)'
  BY IdleHandler DEF PushInv, TypeOK, Throw, GoTo
<1>4. EstablishedStays'
  BY <1>2, <1>3, OneHandler DEF PushInv, TypeOK, Throw, GoTo
<1> QED
  BY <1>1, <1>2, <1>4, PromisesStay DEF Throw

LEMMA RespondStep ==
    ASSUME PushInv, NEW h \in Handlers, Respond(h)
    PROVE  PushInv'
<1>1. /\ answers[h] \subseteq Answer /\ told' \subseteq told \cup answers[h]
      /\ \A a \in answers[h] : log[a.id] = a.verdict
  BY DEF PushInv, TypeOK, EstablishedStays, Respond
<1>2. TypeOK'
  <2>1. pc' \in [Handlers -> PcValues]
    BY DEF PushInv, TypeOK, Respond, GoTo, PcValues
  <2>2. \A g \in Handlers : pc'[g] \notin {"idle", "lookup"} => batch'[g] # << >>
    BY DEF PushInv, TypeOK, Respond, GoTo
  <2> QED
    BY <1>1, <2>1, <2>2 DEF PushInv, TypeOK, Respond, GoTo
<1>3. Monotone
  BY TablesUntouched DEF Respond
<1>4. HandlerInv(h)'
  BY IdleHandler DEF PushInv, TypeOK, Respond, GoTo
<1>5. EstablishedStays'
  BY <1>3, <1>4, OneHandler DEF PushInv, TypeOK, Respond, GoTo
<1>6. \A a \in told' : a \in told \/ log'[a.id] = a.verdict
  BY <1>1 DEF Respond
<1> QED
  BY <1>2, <1>3, <1>5, <1>6, PromisesStay DEF Respond

-----------------------------------------------------------------------------
(* One entry of a batch.                                                   *)

\* A handler that only moves on inside the current entry.
LEMMA GoToTypes ==
    ASSUME PushInv, NEW h \in Handlers, NEW step \in PcValues, GoTo(h, step),
           UNCHANGED batch, step \in {"idle", "lookup"} \/ batch[h] # << >>
    PROVE  /\ pc' \in [Handlers -> PcValues]
           /\ pc'[h] = step
           /\ \A g \in Handlers \ {h} : pc'[g] = pc[g]
           /\ \A g \in Handlers : pc'[g] \notin {"idle", "lookup"} => batch'[g] # << >>
BY DEF PushInv, TypeOK, GoTo

\* A handler that ends the current entry: the batch gets shorter and the answer
\* is collected.
LEMMA NextEntryEffect ==
    ASSUME PushInv, NEW h \in Handlers, NEW v \in Verdicts, batch[h] # << >>,
           NextEntry(h, v)
    PROVE  /\ pc' \in [Handlers -> PcValues]
           /\ batch' \in [Handlers -> Seq(OutboxIds)]
           /\ snap' \in [Handlers -> Nat]
           /\ answers' \in [Handlers -> SUBSET Answer]
           /\ pc'[h] = "lookup"
           /\ batch'[h] = Tail(batch[h])
           /\ answers'[h] = answers[h] \cup {[id |-> Head(batch[h]), verdict |-> v]}
           /\ \A g \in Handlers \ {h} :
                 pc'[g] = pc[g] /\ batch'[g] = batch[g] /\ answers'[g] = answers[g]
           /\ \A g \in Handlers : pc'[g] \notin {"idle", "lookup"} => batch'[g] # << >>
<1>1. Tail(batch[h]) \in Seq(OutboxIds) /\ Head(batch[h]) \in OutboxIds
  BY BatchFacts DEF PushInv
<1>2. [id |-> Head(batch[h]), verdict |-> v] \in Answer
  BY <1>1 DEF Answer
<1>3. /\ pc' \in [Handlers -> PcValues]
      /\ pc'[h] = "lookup"
      /\ \A g \in Handlers \ {h} : pc'[g] = pc[g]
  BY DEF PushInv, TypeOK, NextEntry, GoTo, PcValues
<1>4. /\ batch' \in [Handlers -> Seq(OutboxIds)]
      /\ batch'[h] = Tail(batch[h])
      /\ \A g \in Handlers \ {h} : batch'[g] = batch[g]
  BY <1>1 DEF PushInv, TypeOK, NextEntry
<1>5. /\ answers' \in [Handlers -> SUBSET Answer]
      /\ answers'[h] = answers[h] \cup {[id |-> Head(batch[h]), verdict |-> v]}
      /\ \A g \in Handlers \ {h} : answers'[g] = answers[g]
  BY <1>2 DEF PushInv, TypeOK, NextEntry
<1>6. snap' \in [Handlers -> Nat]
  BY DEF PushInv, TypeOK, NextEntry
<1>7. \A g \in Handlers : pc'[g] \notin {"idle", "lookup"} => batch'[g] # << >>
  BY <1>3, <1>4 DEF PushInv, TypeOK
<1> QED
  BY <1>3, <1>4, <1>5, <1>6, <1>7

\* Ending an entry with the stored verdict establishes the handler's invariant.
LEMMA NextEntryHandler ==
    ASSUME PushInv, NEW h \in Handlers, NEW v \in Verdicts, batch[h] # << >>,
           NextEntry(h, v), log[Head(batch[h])] = v, UNCHANGED <<entry, log>>
    PROVE  HandlerInv(h)'
<1>1. /\ pc'[h] = "lookup" /\ batch'[h] = Tail(batch[h])
      /\ answers'[h] = answers[h] \cup {[id |-> Head(batch[h]), verdict |-> v]}
  BY NextEntryEffect
<1>2. \A k \in DOMAIN Tail(batch[h]) :
         k + 1 \in DOMAIN batch[h] /\ Tail(batch[h])[k] = batch[h][k + 1]
  BY BatchFacts DEF PushInv
<1>3. /\ \A k \in DOMAIN batch[h] : entry[batch[h][k]] # NoEntry
      /\ \A a \in answers[h] : log[a.id] = a.verdict
  BY DEF PushInv, EstablishedStays
<1>4. \A k \in DOMAIN batch'[h] : entry'[batch'[h][k]] # NoEntry
  BY <1>1, <1>2, <1>3
<1>5. \A a \in answers'[h] : log'[a.id] = a.verdict
  BY <1>1, <1>3
<1> QED
  BY <1>1, <1>4, <1>5 DEF HandlerInv

\* The entries of a batch stay the same inside an entry.
LEMMA BatchEntriesStay ==
    ASSUME PushInv, NEW h \in Handlers, UNCHANGED <<entry, batch>>
    PROVE  \A k \in DOMAIN batch'[h] : entry'[batch'[h][k]] # NoEntry
BY DEF PushInv, EstablishedStays

LEMMA LookupStep ==
    ASSUME PushInv, NEW h \in Handlers, LookupEntry(h)
    PROVE  PushInv'
<1> DEFINE o == Head(batch[h])
<1>1. batch[h] # << >> /\ o \in OutboxIds
  BY BatchFacts DEF PushInv, LookupEntry
<1>2. Monotone
  BY TablesUntouched DEF LookupEntry
<1>3. CASE log[o] # "none" /\ NextEntry(h, log[o])
  <2>1. log[o] \in Verdicts
    BY <1>1, <1>3 DEF PushInv, TypeOK
  <2>2. TypeOK'
    BY <1>1, <1>3, <2>1, NextEntryEffect DEF PushInv, TypeOK, LookupEntry
  <2>3. HandlerInv(h)'
    BY <1>1, <1>3, <2>1, NextEntryHandler DEF LookupEntry
  <2>4. EstablishedStays'
    BY <1>1, <1>2, <1>3, <2>1, <2>3, NextEntryEffect, OneHandler
  <2> QED
    BY <1>2, <2>2, <2>4, PromisesStay DEF LookupEntry
<1>4. CASE /\ GoTo(h, IF entry[o].op = "bogus" THEN "reject" ELSE "check")
           /\ UNCHANGED <<batch, snap, answers>>
  <2>1. PICK step \in {"reject", "check"} : GoTo(h, step)
    BY <1>4
  <2>2. step \in PcValues
    BY DEF PcValues
  <2>3. /\ pc' \in [Handlers -> PcValues] /\ pc'[h] = step
        /\ \A g \in Handlers \ {h} : pc'[g] = pc[g]
        /\ \A g \in Handlers : pc'[g] \notin {"idle", "lookup"} => batch'[g] # << >>
    BY <1>1, <1>4, <2>1, <2>2, GoToTypes
  <2>4. TypeOK'
    BY <1>4, <2>3 DEF PushInv, TypeOK, LookupEntry
  <2>5. HandlerInv(h)'
    BY <1>4, <2>3, BatchEntriesStay DEF PushInv, EstablishedStays, HandlerInv, LookupEntry
  <2>6. EstablishedStays'
    BY <1>2, <1>4, <2>3, <2>5, OneHandler
  <2> QED
    BY <1>2, <2>4, <2>6, PromisesStay DEF LookupEntry
<1> QED
  BY <1>3, <1>4 DEF LookupEntry, Lookup

LEMMA CheckVersionStep ==
    ASSUME PushInv, NEW h \in Handlers, CheckVersion(h)
    PROVE  PushInv'
<1>1. batch[h] # << >>
  BY DEF PushInv, TypeOK, CheckVersion
<1>2. Monotone
  BY TablesUntouched DEF CheckVersion
<1>3. PICK step \in {"reject", "apply"} : GoTo(h, step)
  BY DEF CheckVersion
<1>4. step \in PcValues
  BY DEF PcValues
<1>5. /\ pc' \in [Handlers -> PcValues] /\ pc'[h] = step
      /\ \A g \in Handlers \ {h} : pc'[g] = pc[g]
      /\ \A g \in Handlers : pc'[g] \notin {"idle", "lookup"} => batch'[g] # << >>
  BY <1>1, <1>3, <1>4, GoToTypes DEF CheckVersion
<1>6. TypeOK'
  BY <1>5 DEF PushInv, TypeOK, CheckVersion
<1>7. HandlerInv(h)'
  BY <1>5, BatchEntriesStay DEF PushInv, EstablishedStays, HandlerInv, CheckVersion
<1>8. EstablishedStays'
  BY <1>2, <1>5, <1>7, OneHandler DEF CheckVersion
<1> QED
  BY <1>2, <1>6, <1>8, PromisesStay DEF CheckVersion

LEMMA ApplyStep ==
    ASSUME PushInv, NEW h \in Handlers, ApplySyncMutation(h)
    PROVE  PushInv'
<1> DEFINE o == Head(batch[h])
<1>1. batch[h] # << >> /\ o \in OutboxIds /\ entry[o] \in Entry
  BY BatchFacts, CurrentEntry DEF PushInv, TypeOK, ApplySyncMutation
<1>2. CASE Throw(h)
  BY <1>2, ThrowStep
<1>3. CASE /\ Found(o)
           /\ GoTo(h, "write")
           /\ snap' = [snap EXCEPT ![h] = records[entry[o].record].version]
           /\ UNCHANGED <<records, entry, log, audits, batch, answers, told, applied>>
  <2>1. Monotone
    BY <1>3, TablesUntouched
  <2>2. snap' \in [Handlers -> Nat]
    BY <1>1, <1>3 DEF PushInv, TypeOK, Record, Entry
  <2>3. "write" \in PcValues
    BY DEF PcValues
  <2>4. /\ pc' \in [Handlers -> PcValues] /\ pc'[h] = "write"
        /\ \A g \in Handlers \ {h} : pc'[g] = pc[g]
        /\ \A g \in Handlers : pc'[g] \notin {"idle", "lookup"} => batch'[g] # << >>
    BY <1>1, <1>3, <2>3, GoToTypes
  <2>5. TypeOK'
    BY <1>3, <2>2, <2>4 DEF PushInv, TypeOK
  <2>6. /\ Found(Head(batch[h]))'
        /\ records'[entry'[Head(batch'[h])].record].version > 0
    BY <1>3 DEF Found
  <2>7. HandlerInv(h)'
    BY <1>3, <2>4, <2>6, BatchEntriesStay DEF PushInv, EstablishedStays, HandlerInv
  <2>8. EstablishedStays'
    BY <1>3, <2>1, <2>4, <2>7, OneHandler
  <2> QED
    BY <1>3, <2>1, <2>5, <2>8, PromisesStay
<1>4. CASE /\ GoTo(h, "insert")
           /\ UNCHANGED <<records, entry, log, audits, batch, snap, answers, told, applied>>
  <2>1. Monotone
    BY <1>4, TablesUntouched
  <2>2. "insert" \in PcValues
    BY DEF PcValues
  <2>3. /\ pc' \in [Handlers -> PcValues] /\ pc'[h] = "insert"
        /\ \A g \in Handlers \ {h} : pc'[g] = pc[g]
        /\ \A g \in Handlers : pc'[g] \notin {"idle", "lookup"} => batch'[g] # << >>
    BY <1>1, <1>4, <2>2, GoToTypes
  <2>4. TypeOK'
    BY <1>4, <2>3 DEF PushInv, TypeOK
  <2>5. HandlerInv(h)'
    BY <1>4, <2>3, BatchEntriesStay DEF PushInv, EstablishedStays, HandlerInv
  <2>6. EstablishedStays'
    BY <1>4, <2>1, <2>3, <2>5, OneHandler
  <2> QED
    BY <1>4, <2>1, <2>4, <2>6, PromisesStay
<1> QED
  BY <1>2, <1>3, <1>4 DEF ApplySyncMutation, ReadToApply

\* Writing the row of the current entry, by update or by insert.
LEMMA RowWritten ==
    ASSUME PushInv, NEW h \in Handlers, NEW row \in Record,
           pc[h] \in {"write", "insert"},
           row.version > 0, row.tenant \in Tenants,
           records[entry[Head(batch[h])].record].version > 0 /\ NoRelinks =>
              row.tenant = records[entry[Head(batch[h])].record].tenant,
           records' = [records EXCEPT ![entry[Head(batch[h])].record] = row],
           applied' = [applied EXCEPT ![Head(batch[h])] = @ + 1],
           GoTo(h, "log"),
           UNCHANGED <<entry, log, audits, batch, snap, answers, told>>
    PROVE  PushInv'
<1> DEFINE o == Head(batch[h])
           r == entry[o].record
<1>1. batch[h] # << >> /\ o \in OutboxIds /\ r \in Records
  BY BatchFacts, CurrentEntry DEF PushInv, TypeOK, Entry
<1>2. /\ records' \in [Records -> Record]
      /\ \A q \in Records : records'[q] = IF q = r THEN row ELSE records[q]
  BY <1>1 DEF PushInv, TypeOK
<1>3. /\ applied' \in [OutboxIds -> Nat]
      /\ applied'[o] > 0
      /\ \A p \in OutboxIds : applied[p] > 0 => applied'[p] > 0
  BY <1>1 DEF PushInv, TypeOK
<1>4. \A q \in Records : records'[q].version = 0 <=> records'[q].tenant = NoTenant
  <2>1. row.version # 0 /\ row.tenant # NoTenant
    BY PushAssumption DEF Record
  <2> QED
    BY <1>2, <2>1 DEF PushInv, TypeOK
<1>5. "log" \in PcValues
  BY DEF PcValues
<1>6. /\ pc' \in [Handlers -> PcValues] /\ pc'[h] = "log"
      /\ \A g \in Handlers \ {h} : pc'[g] = pc[g]
      /\ \A g \in Handlers : pc'[g] \notin {"idle", "lookup"} => batch'[g] # << >>
  BY <1>1, <1>5, GoToTypes
<1>7. TypeOK'
  BY <1>2, <1>3, <1>4, <1>6 DEF PushInv, TypeOK
<1>8. Monotone
  BY <1>2, <1>3 DEF Monotone
<1>9. HandlerInv(h)'
  BY <1>3, <1>6, BatchEntriesStay DEF PushInv, EstablishedStays, HandlerInv
<1>10. EstablishedStays'
  BY <1>6, <1>8, <1>9, OneHandler
<1> QED
  BY <1>7, <1>8, <1>10, PromisesStay

\* The row that WriteRecord puts in the place of the one it found.
RowAfter(h) ==
    LET o == Head(batch[h])
        r == entry[o].record
    IN  Written(r, TenantAfter(o), NewVersion(h),
                records[r].deleted \/ entry[o].op = "delete", o)

\* An update goes through, or the request ends.
LEMMA WriteRecordEffect ==
    ASSUME NEW h \in Handlers, WriteRecord(h)
    PROVE  \/ Throw(h)
           \/ /\ records' = [records EXCEPT ![entry[Head(batch[h])].record] = RowAfter(h)]
              /\ applied' = [applied EXCEPT ![Head(batch[h])] = @ + 1]
              /\ GoTo(h, "log")
              /\ UNCHANGED <<entry, log, audits, batch, snap, answers, told>>
BY DEF WriteRecord, RowAfter

\* The tenant of a row that is updated.
LEMMA TenantAfterType ==
    ASSUME TypeOK, NEW o \in OutboxIds, entry[o].record \in Records,
           records[entry[o].record].version > 0
    PROVE  /\ TenantAfter(o) \in Tenants
           /\ NoRelinks => TenantAfter(o) = records[entry[o].record].tenant
<1>1. /\ records[entry[o].record].tenant \in Tenants \cup {NoTenant}
      /\ records[entry[o].record].tenant # NoTenant
  BY DEF TypeOK, Record
<1>2. Relinks[o] \in Tenants \cup {NoTenant}
  BY PushAssumption
<1> QED
  BY <1>1, <1>2 DEF TenantAfter, Relinking, NoRelinks

LEMMA WriteRecordStep ==
    ASSUME PushInv, NEW h \in Handlers, WriteRecord(h)
    PROVE  PushInv'
<1> DEFINE o == Head(batch[h])
           r == entry[o].record
           row == RowAfter(h)
<1>1. /\ batch[h] # << >> /\ o \in OutboxIds /\ r \in Records /\ pc[h] = "write"
  BY BatchFacts, CurrentEntry DEF PushInv, TypeOK, Entry, WriteRecord
<1>2. records[r] \in Record /\ records[r].version > 0
  BY <1>1 DEF PushInv, TypeOK, EstablishedStays
<1>3. /\ TenantAfter(o) \in Tenants
      /\ NoRelinks => TenantAfter(o) = records[r].tenant
  BY <1>1, <1>2, TenantAfterType DEF PushInv
<1>4. snap[h] \in Nat
  BY DEF PushInv, TypeOK
<1>5. NewVersion(h) \in Nat /\ NewVersion(h) > 0
  BY <1>4 DEF NewVersion
<1>6. (records[r].deleted \/ entry[o].op = "delete") \in BOOLEAN
  OBVIOUS
<1>7. /\ row.version > 0 /\ row.tenant = TenantAfter(o)
  BY <1>5 DEF Written, RowAfter
<1>8. row \in Record
  BY <1>1, <1>2, <1>3, <1>5, <1>6 DEF Written, RowAfter, Record
<1>9. CASE Throw(h)
  BY <1>9, ThrowStep
<1>10. CASE /\ records' = [records EXCEPT ![r] = row]
            /\ applied' = [applied EXCEPT ![o] = @ + 1]
            /\ GoTo(h, "log")
            /\ UNCHANGED <<entry, log, audits, batch, snap, answers, told>>
  <2> HIDE DEF row
  <2> QED
    BY <1>1, <1>3, <1>7, <1>8, <1>10, RowWritten
<1> QED
  BY <1>9, <1>10, WriteRecordEffect

LEMMA InsertRecordStep ==
    ASSUME PushInv, NEW h \in Handlers, InsertRecord(h)
    PROVE  PushInv'
<1> DEFINE o == Head(batch[h])
           r == entry[o].record
           row == [version |-> 1, deleted |-> FALSE, tenant |-> TenantOf[o],
                   rev |-> records[r].rev + 1, by |-> o]
<1>1. CASE Throw(h)
  BY <1>1, ThrowStep
<1>2. CASE /\ records[r].version = 0
           /\ records' = [records EXCEPT ![r] = row]
           /\ applied' = [applied EXCEPT ![o] = @ + 1]
           /\ GoTo(h, "log")
           /\ UNCHANGED <<entry, log, audits, batch, snap, answers, told>>
  <2>1. o \in OutboxIds /\ r \in Records /\ pc[h] = "insert"
    BY BatchFacts, CurrentEntry DEF PushInv, TypeOK, Entry, InsertRecord
  <2>2. records[r].rev \in Nat /\ TenantOf[o] \in Tenants
    BY <2>1, PushAssumption DEF PushInv, TypeOK, Record
  <2>3. row \in Record /\ row.version > 0 /\ row.tenant \in Tenants
    BY <2>1, <2>2 DEF Record
  <2>4. ~(records[r].version > 0)
    BY <1>2
  <2> HIDE DEF row
  <2> QED
    BY <1>2, <2>1, <2>3, <2>4, RowWritten
<1>3. records[r] \in Record
  BY BatchFacts, CurrentEntry DEF PushInv, TypeOK, Entry, InsertRecord
<1>4. ~Uncreatable(o) => records[r].version = 0
  BY <1>3 DEF Uncreatable, Record
<1> QED
  BY <1>1, <1>2, <1>4 DEF InsertRecord, TenantData

\* The row of the outbox id: stored once, or an exception.
LEMMA StoreVerdictStep ==
    ASSUME PushInv, NEW h \in Handlers, NEW v \in Verdicts,
           NEW next \in {"auditAccepted", "auditRejected"},
           next = IF v = "accepted" THEN "auditAccepted" ELSE "auditRejected",
           batch[h] # << >>,
           v = "accepted" => applied[Head(batch[h])] > 0,
           StoreVerdict(h, Head(batch[h]), v, next)
    PROVE  PushInv'
<1> DEFINE o == Head(batch[h])
<1>1. o \in OutboxIds
  BY BatchFacts DEF PushInv
<1>2. CASE Throw(h)
  BY <1>2, ThrowStep
<1>3. CASE /\ log[o] = "none"
           /\ log' = [log EXCEPT ![o] = v]
           /\ GoTo(h, next)
           /\ UNCHANGED <<records, entry, audits, batch, snap, answers, told, applied>>
  <2>1. /\ log' \in [OutboxIds -> Verdicts \cup {"none"}]
        /\ \A p \in OutboxIds : log'[p] = IF p = o THEN v ELSE log[p]
    BY <1>1, <1>3 DEF PushInv, TypeOK
  <2>2. Monotone
    BY <1>3, <2>1 DEF Monotone
  <2>3. next \in PcValues
    BY DEF PcValues
  <2>4. /\ pc' \in [Handlers -> PcValues] /\ pc'[h] = next
        /\ \A g \in Handlers \ {h} : pc'[g] = pc[g]
        /\ \A g \in Handlers : pc'[g] \notin {"idle", "lookup"} => batch'[g] # << >>
    BY <1>3, <2>3, GoToTypes
  <2>5. TypeOK'
    BY <1>3, <2>1, <2>4 DEF PushInv, TypeOK
  <2>6. \A a \in answers[h] : log'[a.id] = a.verdict
    <3>1. \A a \in answers[h] :
             a.id \in OutboxIds /\ a.verdict \in Verdicts /\ log[a.id] = a.verdict
      BY DEF PushInv, TypeOK, EstablishedStays, Answer
    <3> QED
      BY <2>2, <3>1 DEF Monotone, Verdicts
  <2>7. log'[o] = v
    BY <1>1, <2>1
  <2>8. HandlerInv(h)'
    BY <1>3, <2>4, <2>6, <2>7, BatchEntriesStay DEF HandlerInv, Verdicts
  <2>9. EstablishedStays'
    BY <1>3, <2>2, <2>4, <2>8, OneHandler
  <2>10. \A p \in OutboxIds : log'[p] = "accepted" => log[p] = "accepted" \/ applied[p] > 0
    BY <2>1
  <2> QED
    BY <1>3, <2>2, <2>5, <2>9, <2>10, PromisesStay
<1> QED
  BY <1>2, <1>3 DEF StoreVerdict

LEMMA AuditStep ==
    ASSUME PushInv, NEW h \in Handlers, Audit(h)
    PROVE  PushInv'
<1> DEFINE o == Head(batch[h])
           v == IF pc[h] = "auditAccepted" THEN "accepted" ELSE "rejected"
<1>1. batch[h] # << >> /\ o \in OutboxIds
  BY BatchFacts DEF PushInv, TypeOK, Audit
<1>2. v \in Verdicts /\ log[o] = v /\ NextEntry(h, v)
  BY DEF PushInv, EstablishedStays, Audit, Verdicts
<1> HIDE DEF v
<1>3. audits' \in [OutboxIds -> Nat]
  BY <1>1 DEF PushInv, TypeOK, Audit
<1>4. Monotone
  BY TablesUntouched DEF Audit
<1>5. TypeOK'
  BY <1>1, <1>2, <1>3, NextEntryEffect DEF PushInv, TypeOK, Audit
<1>6. HandlerInv(h)'
  BY <1>1, <1>2, NextEntryHandler DEF Audit
<1>7. EstablishedStays'
  BY <1>1, <1>2, <1>4, <1>6, NextEntryEffect, OneHandler
<1> QED
  BY <1>4, <1>5, <1>7, PromisesStay DEF Audit

-----------------------------------------------------------------------------
(* The theorems.                                                           *)

LEMMA NextPushInv == PushInv /\ [Next]_vars => PushInv'
<1> SUFFICES ASSUME PushInv, [Next]_vars PROVE PushInv'
  OBVIOUS
<1>1. ASSUME NEW h \in Handlers, ProcessPushEntry(h) PROVE PushInv'
  <2>1. CASE LookupEntry(h)
    BY <2>1, LookupStep
  <2>2. CASE CheckVersion(h)
    BY <2>2, CheckVersionStep
  <2>3. CASE ApplySyncMutation(h)
    BY <2>3, ApplyStep
  <2>4. CASE WriteRecord(h)
    BY <2>4, WriteRecordStep
  <2>5. CASE InsertRecord(h)
    BY <2>5, InsertRecordStep
  <2>6. CASE LogAccepted(h)
    <3>1. batch[h] # << >> /\ applied[Head(batch[h])] > 0
      BY <2>6 DEF LogAccepted, PushInv, TypeOK, EstablishedStays
    <3> QED
      BY <2>6, <3>1, StoreVerdictStep DEF LogAccepted, Verdicts
  <2>7. CASE RejectEntry(h)
    <3>1. batch[h] # << >>
      BY <2>7 DEF RejectEntry, PushInv, TypeOK
    <3> QED
      BY <2>7, <3>1, StoreVerdictStep DEF RejectEntry, Verdicts
  <2>8. CASE Audit(h)
    BY <2>8, AuditStep
  <2>9. CASE Respond(h)
    BY <2>9, RespondStep
  <2> QED
    BY <1>1, <2>1, <2>2, <2>3, <2>4, <2>5, <2>6, <2>7, <2>8, <2>9 DEF ProcessPushEntry
<1>2. CASE UNCHANGED vars
  BY <1>2 DEF vars, PushInv, TypeOK, EstablishedStays, AcceptedWasApplied,
              AnswersAgreeWithLog, Found
<1> QED
  BY <1>1, <1>2, MakeEntryStep, ReceiveStep, UpdateWorkOrderStep, CrashStep DEF Next

LEMMA PushInvAlways == Spec => []PushInv
BY InitPushInv, NextPushInv, PTL DEF Spec

\* Type correctness for any number of requests, records and tenants.
THEOREM PushTypeCorrect == Spec => []TypeOK
BY PushInvAlways, PTL DEF PushInv

\* However many requests overlap, crash and are repeated, every answer a client
\* gets for an outbox id is the verdict sync_outbox_entries stores for it.
THEOREM OneVerdict == Spec => []AnswersAgreeWithLog
BY PushInvAlways, PTL DEF PushInv

\* What the server stores as accepted it has written, whatever the
\* interleaving: an accepted edit is never only an entry of the log.
THEOREM AcceptedIsWritten == Spec => []AcceptedWasApplied
BY PushInvAlways, PTL DEF PushInv

\* What a request handler has established at one await still holds when it acts
\* on it.
THEOREM EstablishedIsStable == Spec => []EstablishedStays
BY PushInvAlways, PTL DEF PushInv

\* A step that writes a row of an entity with a column tenantId.
LEMMA StepIsolated ==
    ASSUME NoRelinks, PushInv, [Next]_vars, NEW r \in Records \ TenantRecords
    PROVE  WrittenByOwner(r)
<1> SUFFICES ASSUME records[r].version > 0, records'[r] # records[r]
             PROVE  /\ records'[r].tenant = records[r].tenant
                    /\ \/ records'[r].by = "dispatcher"
                       \/ TenantOf[records'[r].by] = records[r].tenant
  BY DEF WrittenByOwner
<1> records \in [Records -> Record]
  BY DEF PushInv, TypeOK
<1>1. CASE \E h \in Handlers : WriteRecord(h)
  <2>1. PICK h \in Handlers : WriteRecord(h)
    BY <1>1
  <2> DEFINE o == Head(batch[h])
             q == entry[o].record
  <2>2. /\ batch[h] # << >> /\ q \in Records /\ o \in OutboxIds /\ Found(o)
    BY <2>1, CurrentEntry, BatchFacts
       DEF PushInv, TypeOK, EstablishedStays, WriteRecord, Entry
  <2>3. records' = [records EXCEPT ![q] = RowAfter(h)]
    BY <2>1, WriteRecordEffect DEF Throw
  <2>4. r = q
    BY <2>2, <2>3
  <2>5. TenantAfter(o) = records[r].tenant
    BY <2>2, <2>4, TenantAfterType DEF PushInv
  <2>6. records'[r].tenant = records[r].tenant /\ records'[r].by = o
    BY <2>2, <2>3, <2>4, <2>5 DEF Written, RowAfter
  <2> QED
    BY <2>2, <2>4, <2>6 DEF Found
<1>2. CASE \E h \in Handlers : InsertRecord(h)
  <2>1. PICK h \in Handlers : InsertRecord(h)
    BY <1>2
  <2> DEFINE o == Head(batch[h])
             q == entry[o].record
  <2>2. CASE Throw(h)
    BY <2>2 DEF Throw
  <2>3. CASE ~Uncreatable(o) /\ \A p \in Records \ {q} : records'[p] = records[p]
    BY <2>3 DEF Uncreatable
  <2> QED
    BY <2>1, <2>2, <2>3 DEF InsertRecord
<1>3. CASE \E q \in Records : UpdateWorkOrder(q)
  <2>1. PICK q \in Records : UpdateWorkOrder(q)
    BY <1>3
  <2>2. records' = [records EXCEPT ![q] =
                      Written(q, records[q].tenant, records[q].version,
                              records[q].deleted, "dispatcher")]
    BY <2>1 DEF UpdateWorkOrder
  <2>3. r = q
    BY <2>2
  <2> QED
    BY <2>2, <2>3 DEF Written
<1>4. CASE UNCHANGED records
  BY <1>4
<1> QED
  BY <1>1, <1>2, <1>3, <1>4
     DEF Next, vars, ProcessPushEntry, MakeEntry, Receive, Crash, LookupEntry,
         CheckVersion, ApplySyncMutation, ReadToApply, Throw, LogAccepted,
         RejectEntry, StoreVerdict, Audit, Respond

\* While no payload names the relation to the tenant, push never changes or takes
\* over a row of another tenant, of any entity but the tenants themselves.
THEOREM TenantIsolation == ASSUME NoRelinks PROVE Spec => TenantsAreIsolated
<1> DEFINE Isolated == \A r \in Records \ TenantRecords : WrittenByOwner(r)
<1>1. PushInv /\ [Next]_vars => [Isolated]_vars
  BY StepIsolated
<1> QED
  BY <1>1, PushInvAlways, PTL DEF Spec, TenantsAreIsolated

-----------------------------------------------------------------------------
(* One request at a time.  What is not true of overlapping requests: a     *)
(* handler in the middle of an entry knows that the entry has no verdict   *)
(* yet, because nobody else can have stored one since it looked.           *)

SingleHandler == \A g, h \in Handlers : g = h

EntryUndecided ==
    \A h \in Handlers :
        pc[h] \in {"check", "apply", "write", "insert", "log", "reject"} =>
            log[Head(batch[h])] = "none"

LEMMA GoToEffect ==
    ASSUME PushInv, NEW h \in Handlers, NEW step, GoTo(h, step)
    PROVE  pc'[h] = step
BY DEF PushInv, TypeOK, GoTo

\* Every step of the handler leaves the entry undecided or is done with it.
LEMMA ProcessUndecided ==
    ASSUME SingleHandler, PushInv, EntryUndecided, NEW h \in Handlers, ProcessPushEntry(h)
    PROVE  EntryUndecided'
<1> SUFFICES ASSUME pc'[h] \in {"check", "apply", "write", "insert", "log", "reject"}
             PROVE  log'[Head(batch'[h])] = "none"
  BY DEF SingleHandler, EntryUndecided
<1>1. CASE LookupEntry(h)
  BY <1>1, GoToEffect DEF LookupEntry, Lookup, NextEntry
<1>2. CASE CheckVersion(h)
  BY <1>2 DEF CheckVersion, EntryUndecided
<1>3. CASE ApplySyncMutation(h)
  <2>1. pc[h] = "apply" /\ ReadToApply(h, Head(batch[h]))
    BY <1>3 DEF ApplySyncMutation
  <2>2. ~Throw(h)
    BY GoToEffect DEF Throw
  <2>3. UNCHANGED <<log, batch>>
    BY <2>1, <2>2 DEF ReadToApply
  <2> QED
    BY <2>1, <2>3 DEF EntryUndecided
<1>4. CASE WriteRecord(h)
  <2>1. ~Throw(h)
    BY GoToEffect DEF Throw
  <2> QED
    BY <1>4, <2>1, WriteRecordEffect DEF WriteRecord, EntryUndecided
<1>5. CASE InsertRecord(h)
  <2>1. ~Throw(h)
    BY GoToEffect DEF Throw
  <2> QED
    BY <1>5, <2>1 DEF InsertRecord, EntryUndecided
<1>6. CASE LogAccepted(h) \/ RejectEntry(h)
  BY <1>6, GoToEffect DEF LogAccepted, RejectEntry, StoreVerdict, Throw
<1>7. CASE Audit(h)
  BY <1>7, GoToEffect DEF Audit, NextEntry
<1>8. CASE Respond(h)
  BY <1>8, GoToEffect DEF Respond
<1> QED
  BY <1>1, <1>2, <1>3, <1>4, <1>5, <1>6, <1>7, <1>8 DEF ProcessPushEntry

LEMMA NextUndecided ==
    ASSUME SingleHandler, PushInv, EntryUndecided, [Next]_vars
    PROVE  EntryUndecided'
<1>1. CASE \E o \in OutboxIds, r \in Records, op \in Operations : MakeEntry(o, r, op)
  BY <1>1 DEF MakeEntry, EntryUndecided, serverVars
<1>2. CASE \E h \in Handlers : ProcessPushEntry(h)
  BY <1>2, ProcessUndecided
<1>3. ASSUME NEW h \in Handlers, NEW b \in Batches, Receive(h, b) PROVE EntryUndecided'
  <2>1. pc'[h] = "lookup"
    BY <1>3 DEF Receive, PushInv, TypeOK
  <2> QED
    BY <2>1 DEF SingleHandler, EntryUndecided
<1>4. CASE \E r \in Records : UpdateWorkOrder(r)
  BY <1>4 DEF UpdateWorkOrder, EntryUndecided, serverVars
<1>5. CASE Crash
  BY <1>5 DEF Crash, EntryUndecided
<1>6. CASE UNCHANGED vars
  BY <1>6 DEF vars, EntryUndecided
<1> QED
  BY <1>1, <1>2, <1>3, <1>4, <1>5, <1>6 DEF Next

\* A step that writes an entry finds it undecided.
LEMMA StepWritesUndecided ==
    ASSUME PushInv, EntryUndecided, [Next]_vars, NEW o \in OutboxIds, log[o] # "none"
    PROVE  applied'[o] = applied[o]
<1>1. CASE \E h \in Handlers : WriteRecord(h) \/ InsertRecord(h)
  <2>1. PICK h \in Handlers : WriteRecord(h) \/ InsertRecord(h)
    BY <1>1
  <2>2. log[Head(batch[h])] = "none"
    BY <2>1 DEF EntryUndecided, WriteRecord, InsertRecord
  <2>3. \/ applied' = applied
        \/ applied' = [applied EXCEPT ![Head(batch[h])] = @ + 1]
    BY <2>1, WriteRecordEffect DEF InsertRecord, Throw
  <2> QED
    BY <2>2, <2>3 DEF PushInv, TypeOK
<1>2. CASE UNCHANGED applied
  BY <1>2
<1> QED
  BY <1>1, <1>2
     DEF Next, vars, ProcessPushEntry, MakeEntry, Receive, Crash, UpdateWorkOrder,
         LookupEntry, CheckVersion, ApplySyncMutation, ReadToApply, Throw,
         LogAccepted, RejectEntry, StoreVerdict, Audit, Respond

\* With one request at a time an entry that has a verdict is never written
\* again, however many lost replies, retries and kills come before.
THEOREM VerdictIsFinal == ASSUME SingleHandler PROVE Spec => VerdictEndsWrites
<1>1. Init => EntryUndecided
  BY DEF Init, EntryUndecided
<1>2. PushInv /\ EntryUndecided /\ [Next]_vars => EntryUndecided'
  BY NextUndecided
<1>3. PushInv /\ EntryUndecided /\ [Next]_vars =>
         [\A o \in OutboxIds : log[o] # "none" => applied'[o] = applied[o]]_vars
  BY StepWritesUndecided
<1> QED
  BY <1>1, <1>2, <1>3, PushInvAlways, PTL DEF Spec, VerdictEndsWrites

-----------------------------------------------------------------------------
(* What a version tells while the dispatcher, who changes rows without     *)
(* raising it, stays away: it counts the writes to its row, so equal       *)
(* versions are equal rows, and a handler that has compared versions may   *)
(* write.                                                                  *)

NoDispatch == "dispatch" \notin Faults

\* The version of a row before push has written to it.
FirstVersion(r) == IF Owner[r] = NoTenant THEN 0 ELSE 1

\* Versions count writes, in the rows and in what clients saw of them.
VersionsCount ==
    /\ \A r \in Records : records[r].version = records[r].rev + FirstVersion(r)
    /\ \A o \in OutboxIds : entry[o] # NoEntry =>
          /\ entry[o].base = entry[o].rev + FirstVersion(entry[o].record)
          /\ entry[o].base <= records[entry[o].record].version

\* The row a handler has found is still found, the version it has read is the
\* row's, and an entry that passed the comparison is still not behind it.
ReadUpToDate ==
    \A h \in Handlers :
        LET o == Head(batch[h])
        IN  /\ pc[h] = "write" => /\ Found(o)
                                  /\ snap[h] = records[entry[o].record].version
            /\ /\ pc[h] \in {"apply", "write"}
               /\ Found(o) /\ o \in Versioned /\ entry[o].op # "create"
               => records[entry[o].record].version <= entry[o].base

LEMMA InitVersions == Init => VersionsCount /\ ReadUpToDate
<1> SUFFICES ASSUME Init PROVE VersionsCount /\ ReadUpToDate
  OBVIOUS
<1>1. ASSUME NEW r \in Records
      PROVE  records[r].version = FirstVersion(r) /\ records[r].rev = 0
  <2>1. CASE Owner[r] = NoTenant
    <3>1. records[r] = NoRecord
      BY <2>1 DEF Init
    <3> QED
      BY <2>1, <3>1 DEF NoRecord, FirstVersion
  <2>2. CASE Owner[r] # NoTenant
    <3>1. records[r] = [NoRecord EXCEPT !.version = 1, !.tenant = Owner[r]]
      BY <2>2 DEF Init
    <3> QED
      BY <2>2, <3>1 DEF NoRecord, FirstVersion
  <2> QED
    BY <2>1, <2>2
<1>2. VersionsCount
  <2>1. \A r \in Records : records[r].version = records[r].rev + FirstVersion(r)
    BY <1>1 DEF FirstVersion
  <2>2. \A o \in OutboxIds : entry[o] = NoEntry
    BY DEF Init
  <2> QED
    BY <2>1, <2>2 DEF VersionsCount
<1>3. ReadUpToDate
  BY DEF Init, ReadUpToDate
<1> QED
  BY <1>2, <1>3

\* A step that leaves the rows alone keeps what versions count, if the entries
\* it makes are of the rows as they are.
LEMMA EntryCounts ==
    ASSUME PushInv, VersionsCount, NEW o \in OutboxIds, NEW r \in Records,
           NEW op \in Operations, MakeEntry(o, r, op)
    PROVE  VersionsCount'
<1>1. /\ records' = records /\ records[r] \in Record
      /\ \A p \in OutboxIds : entry'[p] =
            IF p = o THEN [record |-> r, op |-> op, base |-> records[r].version,
                           rev |-> records[r].rev]
            ELSE entry[p]
  BY DEF MakeEntry, PushInv, TypeOK
<1>2. records[r].version \in Nat /\ records[r].version = records[r].rev + FirstVersion(r)
  BY <1>1 DEF VersionsCount, Record
<1>3. ASSUME NEW p \in OutboxIds, entry'[p] # NoEntry
      PROVE  /\ entry'[p].base = entry'[p].rev + FirstVersion(entry'[p].record)
             /\ entry'[p].base <= records'[entry'[p].record].version
  <2>1. CASE p = o
    BY <1>1, <1>2, <2>1
  <2>2. CASE p # o
    BY <1>1, <1>3, <2>2 DEF VersionsCount
  <2> QED
    BY <2>1, <2>2
<1>4. \A q \in Records : records'[q].version = records'[q].rev + FirstVersion(q)
  BY <1>1 DEF VersionsCount
<1> QED
  BY <1>3, <1>4 DEF VersionsCount, FirstVersion

\* Writing a row of the next version, by update or by insert.
LEMMA RowCounts ==
    ASSUME PushInv, VersionsCount, NEW r \in Records, NEW row \in Record,
           row.version = records[r].version + 1, row.rev = records[r].rev + 1,
           records' = [records EXCEPT ![r] = row], entry' = entry
    PROVE  VersionsCount'
<1>1. /\ \A q \in Records : records'[q] = IF q = r THEN row ELSE records[q]
      /\ \A q \in Records : records[q] \in Record
  BY DEF PushInv, TypeOK
<1>2. \A q \in Records : /\ records[q].version \in Nat /\ records[q].rev \in Nat
                         /\ FirstVersion(q) \in Nat
                         /\ records[q].version = records[q].rev + FirstVersion(q)
  BY <1>1 DEF Record, FirstVersion, VersionsCount
<1>3. ASSUME NEW q \in Records
      PROVE  /\ records'[q].version = records'[q].rev + FirstVersion(q)
             /\ records[q].version <= records'[q].version
             /\ records'[q].version \in Nat
  <2>1. CASE q = r
    BY <1>1, <1>2, <2>1
  <2>2. CASE q # r
    BY <1>1, <1>2, <2>2
  <2> QED
    BY <2>1, <2>2
<1>4. ASSUME NEW p \in OutboxIds, entry[p] # NoEntry
      PROVE  /\ entry[p].base = entry[p].rev + FirstVersion(entry[p].record)
             /\ entry[p].base <= records'[entry[p].record].version
  <2>1. entry[p].record \in Records /\ entry[p].base \in Nat
    BY <1>4 DEF PushInv, TypeOK, Entry
  <2>2. entry[p].base <= records[entry[p].record].version
    BY <1>4 DEF VersionsCount
  <2> QED
    BY <1>2, <1>3, <1>4, <2>1, <2>2 DEF VersionsCount
<1> QED
  BY <1>3, <1>4 DEF VersionsCount, FirstVersion

LEMMA ProcessVersions ==
    ASSUME SingleHandler, PushInv, VersionsCount, ReadUpToDate,
           NEW h \in Handlers, ProcessPushEntry(h)
    PROVE  VersionsCount' /\ ReadUpToDate'
<1> DEFINE o == Head(batch[h])
           r == entry[o].record
<1>0. \A step : GoTo(h, step) => pc'[h] = step
  BY GoToEffect
<1>1. ASSUME UNCHANGED <<records, entry>> PROVE VersionsCount'
  BY <1>1 DEF VersionsCount, FirstVersion
<1>2. ASSUME pc'[h] \notin {"apply", "write"} PROVE ReadUpToDate'
  BY <1>2 DEF SingleHandler, ReadUpToDate
<1>3. CASE LookupEntry(h)
  <2>1. pc'[h] \in {"lookup", "reject", "check"} /\ UNCHANGED <<records, entry>>
    BY <1>3, <1>0 DEF LookupEntry, Lookup, NextEntry
  <2> QED
    BY <1>1, <1>2, <2>1
<1>4. CASE CheckVersion(h)
  <2>1. batch[h] # << >> /\ o \in OutboxIds /\ r \in Records
    BY <1>4, BatchFacts, CurrentEntry DEF CheckVersion, PushInv, TypeOK, Entry
  <2>2. records[r].version \in Nat /\ entry[o].base \in Nat
    BY <2>1, CurrentEntry DEF PushInv, TypeOK, Entry, Record
  <2>3. UNCHANGED <<records, entry, batch, snap>>
    BY <1>4 DEF CheckVersion
  <2>4. pc'[h] = IF Stale(o) THEN "reject" ELSE "apply"
    BY <1>4, <1>0 DEF CheckVersion
  <2>5. ASSUME pc'[h] = "apply", Found(o), o \in Versioned, entry[o].op # "create"
        PROVE  records[r].version <= entry[o].base
    BY <2>2, <2>4, <2>5 DEF Stale
  <2>6. ReadUpToDate'
    BY <2>3, <2>4, <2>5 DEF SingleHandler, ReadUpToDate, Found
  <2> QED
    BY <1>1, <2>3, <2>6
<1>5. CASE ApplySyncMutation(h)
  <2>1. pc[h] = "apply" /\ ReadToApply(h, o)
    BY <1>5 DEF ApplySyncMutation
  <2>2. UNCHANGED <<records, entry>>
    BY <2>1 DEF ReadToApply, Throw
  <2>3. CASE /\ GoTo(h, "write")
             /\ Found(o)
             /\ snap' = [snap EXCEPT ![h] = records[entry[o].record].version]
             /\ UNCHANGED <<records, entry, log, audits, batch, answers, told, applied>>
    <3>1. snap'[h] = records[r].version /\ pc'[h] = "write"
      BY <1>0, <2>3 DEF PushInv, TypeOK
    <3> QED
      BY <1>1, <2>1, <2>2, <2>3, <3>1 DEF SingleHandler, ReadUpToDate, Found
  <2>4. CASE GoTo(h, "insert") \/ Throw(h)
    BY <1>0, <1>1, <1>2, <2>2, <2>4 DEF Throw
  <2> QED
    BY <2>1, <2>3, <2>4 DEF ReadToApply
<1>6. CASE WriteRecord(h)
  <2>1. batch[h] # << >> /\ o \in OutboxIds /\ r \in Records /\ pc[h] = "write"
    BY <1>6, BatchFacts, CurrentEntry DEF WriteRecord, PushInv, TypeOK, Entry
  <2>2. /\ records[r] \in Record /\ snap[h] = records[r].version
        /\ records[r].version > 0
    BY <2>1 DEF PushInv, TypeOK, ReadUpToDate, EstablishedStays
  <2>3. (records[r].deleted \/ entry[o].op = "delete") \in BOOLEAN
    OBVIOUS
  <2>4. /\ NewVersion(h) \in Nat /\ NewVersion(h) = records[r].version + 1
        /\ TenantAfter(o) \in Tenants
    BY <2>1, <2>2, TenantAfterType DEF NewVersion, Record, PushInv
  <2>5. /\ RowAfter(h) \in Record
        /\ RowAfter(h).version = records[r].version + 1
        /\ RowAfter(h).rev = records[r].rev + 1
    BY <2>1, <2>2, <2>3, <2>4 DEF Written, RowAfter, Record
  <2>6. CASE Throw(h)
    BY <1>0, <1>1, <1>2, <2>6 DEF Throw
  <2>7. CASE records' = [records EXCEPT ![r] = RowAfter(h)] /\ entry' = entry /\ GoTo(h, "log")
    <3>1. VersionsCount'
      BY <2>1, <2>5, <2>7, RowCounts
    <3> QED
      BY <1>0, <1>2, <2>7, <3>1
  <2> QED
    BY <1>6, <2>6, <2>7, WriteRecordEffect
<1>7. CASE InsertRecord(h)
  <2> DEFINE row == [version |-> 1, deleted |-> FALSE, tenant |-> TenantData(o),
                     rev |-> records[r].rev + 1, by |-> o]
  <2>1. CASE Throw(h)
    BY <1>0, <1>1, <1>2, <2>1 DEF Throw
  <2>2. CASE /\ records[r].version = 0
             /\ records' = [records EXCEPT ![r] = row]
             /\ GoTo(h, "log")
             /\ entry' = entry
    <3>1. o \in OutboxIds /\ r \in Records
      BY <1>7, BatchFacts, CurrentEntry DEF InsertRecord, PushInv, TypeOK, Entry
    <3>2. records[r].rev \in Nat /\ TenantOf[o] \in Tenants
      BY <3>1, PushAssumption DEF PushInv, TypeOK, Record
    <3>3. /\ row \in Record
          /\ row.version = records[r].version + 1 /\ row.rev = records[r].rev + 1
      BY <2>2, <3>1, <3>2 DEF Record, TenantData
    <3>4. VersionsCount'
      <4> HIDE DEF row
      <4> QED
        BY <2>2, <3>1, <3>3, RowCounts
    <3> QED
      BY <1>0, <1>2, <2>2, <3>4
  <2>3. ~Uncreatable(o) => records[r].version = 0
    <3>1. records[r] \in Record
      BY <1>7, BatchFacts, CurrentEntry DEF InsertRecord, PushInv, TypeOK, Entry
    <3> QED
      BY <3>1 DEF Uncreatable, Record
  <2> QED
    BY <1>7, <2>1, <2>2, <2>3 DEF InsertRecord
<1>8. CASE LogAccepted(h) \/ RejectEntry(h)
  <2>1. pc'[h] \notin {"apply", "write"} /\ UNCHANGED <<records, entry>>
    BY <1>0, <1>8 DEF LogAccepted, RejectEntry, StoreVerdict, Throw
  <2> QED
    BY <1>1, <1>2, <2>1
<1>9. CASE Audit(h) \/ Respond(h)
  <2>1. pc'[h] \notin {"apply", "write"} /\ UNCHANGED <<records, entry>>
    BY <1>0, <1>9 DEF Audit, NextEntry, Respond
  <2> QED
    BY <1>1, <1>2, <2>1
<1> QED
  BY <1>3, <1>4, <1>5, <1>6, <1>7, <1>8, <1>9 DEF ProcessPushEntry

LEMMA NextVersions ==
    ASSUME SingleHandler, NoDispatch, PushInv, VersionsCount, ReadUpToDate, [Next]_vars
    PROVE  VersionsCount' /\ ReadUpToDate'
<1>1. ASSUME NEW o \in OutboxIds, NEW r \in Records, NEW op \in Operations,
             MakeEntry(o, r, op)
      PROVE  VersionsCount' /\ ReadUpToDate'
  <2>1. VersionsCount'
    BY <1>1, EntryCounts
  <2>2. ASSUME NEW h \in Handlers, pc[h] \in {"apply", "write"}
        PROVE  entry'[Head(batch[h])] = entry[Head(batch[h])]
    <3>1. batch[h] # << >>
      BY <2>2 DEF PushInv, TypeOK
    <3>2. Head(batch[h]) \in OutboxIds /\ entry[Head(batch[h])] # NoEntry
      BY <3>1, BatchFacts DEF PushInv, EstablishedStays
    <3> QED
      BY <1>1, <3>2 DEF MakeEntry
  <2>3. UNCHANGED <<records, pc, batch, snap>>
    BY <1>1 DEF MakeEntry, serverVars
  <2> QED
    BY <2>1, <2>2, <2>3 DEF ReadUpToDate, Found
<1>2. CASE \E h \in Handlers : ProcessPushEntry(h)
  BY <1>2, ProcessVersions
<1>3. ASSUME NEW h \in Handlers, NEW b \in Batches, Receive(h, b)
      PROVE  VersionsCount' /\ ReadUpToDate'
  <2>1. pc'[h] = "lookup" /\ UNCHANGED <<records, entry>>
    BY <1>3 DEF Receive, PushInv, TypeOK
  <2> QED
    BY <2>1 DEF SingleHandler, ReadUpToDate, VersionsCount, FirstVersion
<1>4. CASE Crash
  BY <1>4 DEF Crash, ReadUpToDate, VersionsCount, FirstVersion
<1>5. CASE UNCHANGED vars
  BY <1>5 DEF vars, ReadUpToDate, VersionsCount, FirstVersion, Found
<1>6. \A r \in Records : ~UpdateWorkOrder(r)
  BY DEF UpdateWorkOrder, NoDispatch
<1> QED
  BY <1>1, <1>2, <1>3, <1>4, <1>5, <1>6 DEF Next

\* What a step that writes a row has established before.
LEMMA StepOverwrites ==
    ASSUME NoDispatch, PushInv, VersionsCount, ReadUpToDate, [Next]_vars,
           NEW r \in Records, records'[r] # records[r]
    PROVE  /\ records'[r].version = records[r].version + 1
           /\ records'[r].by \in OutboxIds
           /\ entry[records'[r].by].record = r
           /\ entry[records'[r].by] \in Entry
           /\ \/ records[r].version = 0
              \/ records'[r].by \in Versioned /\ entry[records'[r].by].op # "create"
                 => records[r].version <= entry[records'[r].by].base
<1> records \in [Records -> Record]
  BY DEF PushInv, TypeOK
<1>1. CASE \E h \in Handlers : WriteRecord(h)
  <2>1. PICK h \in Handlers : WriteRecord(h)
    BY <1>1
  <2> DEFINE o == Head(batch[h])
             q == entry[o].record
  <2>2. /\ batch[h] # << >> /\ q \in Records /\ o \in OutboxIds
        /\ entry[o] \in Entry
    BY <2>1, CurrentEntry, BatchFacts DEF PushInv, TypeOK, WriteRecord, Entry
  <2>3. records' = [records EXCEPT ![q] = RowAfter(h)]
    BY <2>1, WriteRecordEffect DEF Throw
  <2>4. r = q
    BY <2>2, <2>3
  <2>5. records'[r].version = NewVersion(h) /\ records'[r].by = o
    BY <2>2, <2>3, <2>4 DEF Written, RowAfter
  <2>6. snap[h] = records[r].version
    BY <2>1, <2>4 DEF ReadUpToDate, WriteRecord
  <2>7. o \in Versioned /\ entry[o].op # "create" => records[r].version <= entry[o].base
    BY <2>1, <2>2, <2>4 DEF ReadUpToDate, WriteRecord
  <2> QED
    BY <2>2, <2>4, <2>5, <2>6, <2>7 DEF NewVersion
<1>2. CASE \E h \in Handlers : InsertRecord(h)
  <2>1. PICK h \in Handlers : InsertRecord(h)
    BY <1>2
  <2> DEFINE o == Head(batch[h])
             q == entry[o].record
  <2>2. /\ records[q].version = 0
        /\ records' = [records EXCEPT ![q] =
                         [version |-> 1, deleted |-> FALSE, tenant |-> TenantData(o),
                          rev |-> records[q].rev + 1, by |-> o]]
    <3>1. records[q] \in Record
      BY <2>1, CurrentEntry, BatchFacts DEF PushInv, TypeOK, InsertRecord, Entry
    <3>2. ~Uncreatable(o) => records[q].version = 0
      BY <3>1 DEF Uncreatable, Record
    <3> QED
      BY <2>1, <3>2 DEF InsertRecord, Throw
  <2>3. batch[h] # << >> /\ q \in Records /\ o \in OutboxIds /\ entry[o] \in Entry
    BY <2>1, CurrentEntry, BatchFacts DEF PushInv, TypeOK, InsertRecord, Entry
  <2>4. r = q
    BY <2>2, <2>3
  <2>5. /\ records'[r].version = 1 /\ records'[r].by = o
        /\ records[r].version = 0
    BY <2>2, <2>3, <2>4
  <2>6. records'[r].version = records[r].version + 1
    BY <2>5
  <2> QED
    BY <2>3, <2>4, <2>5, <2>6
<1>3. CASE UNCHANGED records
  BY <1>3
<1>4. \A q \in Records : ~UpdateWorkOrder(q)
  BY DEF UpdateWorkOrder, NoDispatch
<1> QED
  BY <1>1, <1>2, <1>3, <1>4
     DEF Next, vars, ProcessPushEntry, MakeEntry, Receive, Crash, LookupEntry,
         CheckVersion, ApplySyncMutation, ReadToApply, Throw, LogAccepted,
         RejectEntry, StoreVerdict, Audit, Respond

LEMMA VersionsAlways ==
    ASSUME SingleHandler, NoDispatch
    PROVE  Spec => [](VersionsCount /\ ReadUpToDate)
<1>1. PushInv /\ VersionsCount /\ ReadUpToDate /\ [Next]_vars
         => VersionsCount' /\ ReadUpToDate'
  BY NextVersions
<1> QED
  BY <1>1, InitVersions, PushInvAlways, PTL DEF Spec

\* With one request at a time, and while the dispatcher stays away, every write
\* raises the version of its row, through kills, lost replies and retries.
THEOREM WritesRaiseVersion ==
    ASSUME SingleHandler, NoDispatch
    PROVE  Spec => VersionCountsWrites
<1> DEFINE Counted == \A r \in Records :
              records'[r].rev > records[r].rev => records'[r].version > records[r].version
<1>1. ASSUME PushInv, VersionsCount, ReadUpToDate, [Next]_vars PROVE [Counted]_vars
  <2>1. ASSUME NEW r \in Records, records'[r].rev > records[r].rev
        PROVE  records'[r].version > records[r].version
    <3>1. records[r].rev \in Nat /\ records[r].version \in Nat
      BY <1>1 DEF PushInv, TypeOK, Record
    <3>2. records'[r] # records[r]
      BY <2>1, <3>1
    <3>3. records'[r].version = records[r].version + 1
      BY <1>1, <3>2, StepOverwrites
    <3> QED
      BY <3>1, <3>3
  <2> QED
    BY <2>1
<1>2. PushInv /\ VersionsCount /\ ReadUpToDate /\ [Next]_vars => [Counted]_vars
  BY <1>1
<1> QED
  BY <1>2, VersionsAlways, PushInvAlways, PTL DEF Spec, VersionCountsWrites

\* With one request at a time, and while the dispatcher stays away, an entry
\* with a base version overwrites only the state of the row its author had seen:
\* the comparison of versions misses no stale entry, although a kill between
\* the write and its outbox record makes a retry push the entry again.
THEOREM StaleIsNeverWritten ==
    ASSUME SingleHandler, NoDispatch
    PROVE  Spec => NoStaleWrite
<1> DEFINE Fresh == \A r \in Records :
              LET o == records'[r].by
              IN  /\ records'[r] # records[r]
                  /\ o \in Versioned
                  /\ entry[o].op # "create"
                  => records[r].rev = entry[o].rev
<1>1. ASSUME PushInv, VersionsCount, ReadUpToDate, [Next]_vars PROVE [Fresh]_vars
  <2>1. ASSUME NEW r \in Records, NEW o, o = records'[r].by,
               records'[r] # records[r], o \in Versioned, entry[o].op # "create"
        PROVE  records[r].rev = entry[o].rev
    <3>1. /\ o \in OutboxIds /\ entry[o].record = r /\ entry[o] \in Entry
          /\ records[r].version <= entry[o].base \/ records[r].version = 0
      BY <1>1, <2>1, StepOverwrites
    <3>2. entry[o].op # "none"
      BY <3>1, PushAssumption DEF Entry
    <3>3. /\ entry[o].base = entry[o].rev + FirstVersion(r)
          /\ entry[o].base <= records[r].version
      BY <1>1, <3>1, <3>2 DEF VersionsCount, NoEntry
    <3>4. records[r].version = records[r].rev + FirstVersion(r)
      BY <1>1 DEF VersionsCount
    <3>5. /\ records[r].rev \in Nat /\ entry[o].rev \in Nat /\ FirstVersion(r) \in Nat
          /\ records[r].version \in Nat /\ entry[o].base \in Nat
      BY <1>1, <3>1 DEF PushInv, TypeOK, Record, Entry, FirstVersion
    <3> QED
      BY <3>1, <3>3, <3>4, <3>5
  <2> QED
    BY <2>1
<1>2. PushInv /\ VersionsCount /\ ReadUpToDate /\ [Next]_vars => [Fresh]_vars
  BY <1>1
<1> QED
  BY <1>2, VersionsAlways, PushInvAlways, PTL DEF Spec, NoStaleWrite

=============================================================================
