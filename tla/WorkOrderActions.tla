-------------------------- MODULE WorkOrderActions --------------------------
(***************************************************************************)
(* One work order on the device: start, pause, resume, complete, the       *)
(* signature and the report, with the time entries they open and close.    *)
(*                                                                         *)
(* Each method of WorkOrderDao reads the row before its transaction and    *)
(* writes the changed copy inside it, so a handler that got in between is  *)
(* overwritten; only the version is read again.  attachSignatureLocal has  *)
(* no transaction at all: its two reads, the write of the row and the      *)
(* outbox entry are four steps.  A button is enabled by the status that is *)
(* shown, and nothing disables it while its handler runs.                  *)
(***************************************************************************)
EXTENDS Naturals, Sequences, FiniteSets

CONSTANTS
    Handlers,    \* button handlers that may be in progress together
    Operations,  \* buttons in use
    Faults,      \* what else occurs: "kill", "pull"
    MaxTaps      \* bound: buttons pressed in a behaviour

StatusOperations == {"start", "pause", "resume", "complete"}

ASSUME WorkOrderAssumption ==
    /\ Operations \subseteq StatusOperations \cup {"sign", "report"}
    /\ MaxTaps \in Nat

VARIABLES
    order,    \* the row of the work order
    entries,  \* its time entries by start time: running while end_time is null
    queued,   \* an outbox entry of the work order is waiting to be sent
    handler,  \* what each handler does, and the row it has read
    taps      \* number of buttons pressed

vars == <<order, entries, queued, handler, taps>>

Status == {"scheduled", "in_progress", "paused", "completed", "cancelled"}
Order == [status : Status, attached : SUBSET {"signature", "report"},
          version : Nat, sync : {"synced", "pending", "conflict"}]
NoOrder == [status |-> "none", attached |-> {}, version |-> 0, sync |-> "none"]
Idle == [op |-> "none", step |-> "idle", copy |-> NoOrder, version |-> 0]
Steps == {"validate", "read", "commit", "version", "replace", "enqueue"}
Busy == [op : Operations \cup {"report"}, step : Steps, copy : Order \cup {NoOrder}, version : Nat]

\* Mutant: a status the app does not know.
NewStatus_Unknown(op) ==
    CASE op \in {"start", "resume"} -> "running"
      [] op = "pause" -> "paused"
      [] op = "complete" -> "completed"

\* The status a button writes.
NewStatus(op) ==
    CASE op \in {"start", "resume"} -> "in_progress"
      [] op = "pause" -> "paused"
      [] op = "complete" -> "completed"

\* Mutant: a completed order can be resumed.
Enabled_ResumeCompleted(op, status) ==
    CASE op = "start" -> status = "scheduled"
      [] op = "resume" -> status \in {"paused", "completed"}
      [] op \in {"pause", "complete"} -> status = "in_progress"
      [] OTHER -> TRUE

\* WorkOrderStatus.canStart, canPause, canResume, canComplete.
Enabled(op, status) ==
    CASE op = "start" -> status = "scheduled"
      [] op = "resume" -> status = "paused"
      [] op \in {"pause", "complete"} -> status = "in_progress"
      [] OTHER -> TRUE

\* The open time entries, by their index.
Open == {i \in DOMAIN entries : entries[i] = "running"}

Init ==
    /\ order = [status |-> "scheduled", attached |-> {}, version |-> 1,
                sync |-> "synced"]
    /\ entries = << >>
    /\ queued = FALSE
    /\ handler = [h \in Handlers |-> Idle]
    /\ taps = 0

-----------------------------------------------------------------------------
(* A button.                                                               *)

At(h, step) == handler[h].step = step
Finish(h) == handler' = [handler EXCEPT ![h] = Idle]
Advance(h, step) == handler' = [handler EXCEPT ![h].step = step]

\* Completing goes through CompleteWorkOrder, which validates first.
Tap(h, op) ==
    /\ handler[h] = Idle
    /\ taps < MaxTaps
    /\ Enabled(op, order.status)
    /\ taps' = taps + 1
    /\ handler' = [handler EXCEPT ![h] =
                      [Idle EXCEPT !.op = op,
                                   !.step = IF op = "complete" THEN "validate" ELSE "read"]]
    /\ UNCHANGED <<order, entries, queued>>

\* CompletionValidator on the detail as it is now; the order has installations.
\* An order that is no longer in progress is not completed.
Validate(h) ==
    /\ At(h, "validate")
    /\ IF order.status = "in_progress" THEN Advance(h, "read") ELSE Finish(h)
    /\ UNCHANGED <<order, entries, queued, taps>>

\* getById before the transaction.
ReadOrder(h) ==
    /\ At(h, "read")
    /\ handler[h].op # "report"
    /\ handler' = [handler EXCEPT
                      ![h].copy = order,
                      ![h].step = IF handler[h].op = "sign" THEN "version" ELSE "commit"]
    /\ UNCHANGED <<order, entries, queued, taps>>

\* Mutant: the row is written, its outbox entry is forgotten.
EnqueueUpdate_Forgotten == queued' = queued

\* enqueueOutbox with an update of the work order.
EnqueueUpdate == queued' = TRUE

\* Mutant: the version stays.
NextVersion_Same == order.version

\* _replaceWithOutbox reads the version again, inside the transaction.
NextVersion == order.version + 1

\* Mutant: what was attached before is dropped.
Attach_Replaces(row, file) == [row EXCEPT !.attached = {file}, !.sync = "pending"]

\* The row with the id of a file in it.
Attach(row, file) == [row EXCEPT !.attached = @ \cup {file}, !.sync = "pending"]

\* Mutant: nothing is closed.
CloseOpenTimeEntry_Nothing == entries' = entries

\* _closeOpenTimeEntry: the latest open entry of the order ends.
CloseOpenTimeEntry ==
    entries' = [i \in DOMAIN entries |->
                   IF \A j \in Open : j <= i THEN "ended" ELSE entries[i]]

\* _createTimeEntry.
CreateTimeEntry == entries' = Append(entries, "running")

\* The transaction of startLocal, pauseLocal, resumeLocal and completeLocal.
CommitStatus(h) ==
    LET op == handler[h].op
    IN  /\ At(h, "commit")
        /\ order' = [handler[h].copy EXCEPT !.status = NewStatus(op),
                                            !.version = NextVersion,
                                            !.sync = "pending"]
        /\ \/ op \in {"start", "resume"} /\ CreateTimeEntry
           \/ op \in {"pause", "complete"} /\ CloseOpenTimeEntry
        /\ EnqueueUpdate
        /\ Finish(h)
        /\ UNCHANGED taps

\* createGeneratedLocal: attachReportLocal runs inside its transaction.
CreateReport(h) ==
    /\ At(h, "read")
    /\ handler[h].op = "report"
    /\ order' = [Attach(order, "report") EXCEPT !.version = NextVersion]
    /\ EnqueueUpdate
    /\ Finish(h)
    /\ UNCHANGED <<entries, taps>>

\* attachSignatureLocal: the version is read, ...
ReadVersion(h) ==
    /\ At(h, "version")
    /\ handler' = [handler EXCEPT ![h].version = order.version, ![h].step = "replace"]
    /\ UNCHANGED <<order, entries, queued, taps>>

\* ... the row is replaced ...
ReplaceOrder(h) ==
    /\ At(h, "replace")
    /\ order' = [Attach(handler[h].copy, "signature")
                    EXCEPT !.version = handler[h].version + 1]
    /\ Advance(h, "enqueue")
    /\ UNCHANGED <<entries, queued, taps>>

\* ... and the outbox entry is made, by awaits of their own.  SignatureScreen
\* goes on with the signed report.
EnqueueSignature(h) ==
    /\ At(h, "enqueue")
    /\ EnqueueUpdate
    /\ handler' = [handler EXCEPT ![h] = [Idle EXCEPT !.op = "report", !.step = "read"]]
    /\ UNCHANGED <<order, entries, taps>>

-----------------------------------------------------------------------------
(* The rest of the app, and the environment.                               *)

\* The outbox entry is pushed and accepted (OutboxSync has the details).
Pushed ==
    /\ queued
    /\ queued' = FALSE
    /\ order' = [order EXCEPT !.sync = "synced"]
    /\ UNCHANGED <<entries, handler, taps>>

\* A pull brings the order as the dispatcher has set it: _applyChange.
Pull(status) ==
    /\ "pull" \in Faults
    /\ order' = IF order.sync = "synced" THEN [order EXCEPT !.status = status]
                ELSE [order EXCEPT !.sync = "conflict"]
    /\ UNCHANGED <<entries, queued, handler, taps>>

\* The app is killed; the database is what is left.
Kill ==
    /\ "kill" \in Faults
    /\ handler' = [h \in Handlers |-> Idle]
    /\ UNCHANGED <<order, entries, queued, taps>>

HandlerStep(h) ==
    \/ Validate(h) \/ ReadOrder(h) \/ CommitStatus(h) \/ CreateReport(h)
    \/ ReadVersion(h) \/ ReplaceOrder(h) \/ EnqueueSignature(h)

Next ==
    \/ \E h \in Handlers : HandlerStep(h) \/ \E op \in Operations : Tap(h, op)
    \/ \E status \in Status : Pull(status)
    \/ Pushed
    \/ Kill

Spec == Init /\ [][Next]_vars

-----------------------------------------------------------------------------
(* Properties.                                                             *)

\* Every variable has its type, and a handler has the copy its step writes.
TypeOK ==
    /\ order \in Order
    /\ entries \in Seq({"running", "ended"})
    /\ queued \in BOOLEAN
    /\ handler \in [Handlers -> Busy \cup {Idle}]
    /\ \A h \in Handlers :
          /\ handler[h].step \in {"commit", "version", "replace"} =>
                handler[h].copy \in Order
          /\ At(h, "commit") => handler[h].op \in StatusOperations
    /\ taps \in Nat

\* One handler at a time: exactly one time entry runs while the order is in
\* progress, and none otherwise, through kills at every await.
ClockMatchesStatus ==
    Cardinality(Open) = IF order.status = "in_progress" THEN 1 ELSE 0

\* A pending order has an outbox entry, or a handler is about to make it: no
\* local change waits for a push that nobody will do.
PendingIsQueued ==
    order.sync = "pending" => queued \/ \E h \in Handlers : At(h, "enqueue")

\* The signature and the report of an order are never taken off it again.
AttachedStays == [][order.attached \subseteq order'.attached]_vars

\* Every local change raises the version above the one before.
LocalChangeRaisesVersion ==
    [][order' # order /\ order'.sync = "pending" => order'.version > order.version]_vars

\* On the device a completed order never moves back to an earlier status.
CompletedIsFinal ==
    [][order.status = "completed" => order'.status = "completed"]_vars

\* Pausing and completing leave no time entry running.
NothingRunsAtRest == order.status \in {"paused", "completed"} => Open = {}

\* A pending order always has an outbox entry, also after the app was killed.
PendingHasEntry ==
    order.sync = "pending" /\ (\A h \in Handlers : handler[h] = Idle) => queued
=============================================================================
