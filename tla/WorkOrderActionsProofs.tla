----------------------- MODULE WorkOrderActionsProofs -----------------------
(***************************************************************************)
(* Proofs about WorkOrderActions for every number of presses and every     *)
(* set of buttons.  What is true of one handler at a time is proved under  *)
(* OneHandler; the rest for any number of handlers.                        *)
(***************************************************************************)
EXTENDS WorkOrderActions, FiniteSetTheorems, SequenceTheorems, TLAPS

OneHandler == \A g, h \in Handlers : g = h

-----------------------------------------------------------------------------
(* Type correctness, for any number of handlers.                           *)

LEMMA NewStatusType ==
    ASSUME NEW op \in StatusOperations
    PROVE  NewStatus(op) \in Status
BY DEF StatusOperations, NewStatus, Status

LEMMA AttachType ==
    ASSUME NEW row \in Order, NEW file \in {"signature", "report"},
           NEW version \in Nat
    PROVE  LET new == [Attach(row, file) EXCEPT !.version = version]
           IN  /\ new \in Order
               /\ new.status = row.status
               /\ new.attached = row.attached \cup {file}
               /\ new.version = version
               /\ new.sync = "pending"
BY DEF Attach, Order

\* The entries stay a sequence when the latest open one ends.
LEMMA CloseType ==
    ASSUME entries \in Seq({"running", "ended"}), CloseOpenTimeEntry
    PROVE  entries' \in Seq({"running", "ended"})
<1>1. DOMAIN entries = 1 .. Len(entries) /\ Len(entries) \in Nat
  BY LenProperties
<1>2. \A i \in 1 .. Len(entries) : entries[i] \in {"running", "ended"}
  BY ElementOfSeq
<1>3. entries' \in [1 .. Len(entries) -> {"running", "ended"}]
  BY <1>1, <1>2 DEF CloseOpenTimeEntry
<1> QED
  BY <1>1, <1>3, SeqDef

LEMMA InitType == Init => TypeOK
<1> SUFFICES ASSUME Init PROVE TypeOK
  OBVIOUS
<1>1. order \in Order
  BY DEF Init, Order, Status
<1>2. entries \in Seq({"running", "ended"})
  BY EmptySeq DEF Init
<1> QED
  BY <1>1, <1>2 DEF Init, TypeOK, Idle, At

LEMMA NextType == TypeOK /\ [Next]_vars => TypeOK'
<1> SUFFICES ASSUME TypeOK, [Next]_vars PROVE TypeOK'
  OBVIOUS
<1> USE DEF TypeOK, At
<1>1. ASSUME NEW h \in Handlers, NEW op \in Operations, Tap(h, op)
      PROVE  TypeOK'
  <2>1. [Idle EXCEPT !.op = op, !.step = IF op = "complete" THEN "validate" ELSE "read"] \in Busy
    BY DEF Idle, Busy, Steps
  <2>2. handler' \in [Handlers -> Busy \cup {Idle}]
    BY <1>1, <2>1 DEF Tap
  <2> QED
    BY <1>1, <2>2 DEF Tap, Idle
<1>2. ASSUME NEW h \in Handlers, HandlerStep(h)
      PROVE  TypeOK'
  <2>a. handler[h].step # "idle" => handler[h] \in Busy
    BY DEF Idle
  <2>1. CASE Validate(h)
    BY <2>1, <2>a DEF Validate, Advance, Finish, Idle, Busy, Steps
  <2>2. CASE ReadOrder(h)
    <3>1. handler[h] \in Busy
      BY <2>2, <2>a DEF ReadOrder
    <3>2. handler[h].op = "sign" \/ handler[h].op \in StatusOperations
      BY <2>2, <3>1, WorkOrderAssumption DEF ReadOrder, Busy
    <3>3. handler'[h] = [handler[h] EXCEPT !.copy = order, !.step = IF handler[h].op = "sign" THEN "version" ELSE "commit"]
      BY <2>2 DEF ReadOrder
    <3>4. handler'[h] \in Busy
      BY <3>1, <3>3 DEF Busy, Steps
    <3>5. handler' = [handler EXCEPT ![h] = handler'[h]]
      BY <2>2 DEF ReadOrder
    <3>6. /\ handler'[h].copy = order
          /\ handler'[h].op = handler[h].op
          /\ handler'[h].step = IF handler[h].op = "sign" THEN "version" ELSE "commit"
      BY <3>1, <3>3 DEF Busy
    <3>7. \A g \in Handlers : g # h => handler'[g] = handler[g]
      BY <3>5
    <3>8. handler' \in [Handlers -> Busy \cup {Idle}]
      BY <3>4, <3>5
    <3>9. \A g \in Handlers :
             /\ handler'[g].step \in {"commit", "version", "replace"} => handler'[g].copy \in Order
             /\ handler'[g].step = "commit" => handler'[g].op \in StatusOperations
      BY <3>2, <3>6, <3>7
    <3> QED
      BY <2>2, <3>8, <3>9 DEF ReadOrder
  <2>3. CASE CommitStatus(h)
    <3>1. handler[h].copy \in Order /\ handler[h].op \in StatusOperations
      BY <2>3 DEF CommitStatus
    <3>2. NewStatus(handler[h].op) \in Status /\ order.version + 1 \in Nat
      BY <3>1, NewStatusType DEF Order
    <3>3. order' \in Order
      BY <2>3, <3>1, <3>2 DEF CommitStatus, NextVersion, Order
    <3>4. entries' \in Seq({"running", "ended"})
      <4>1. CASE CreateTimeEntry
        BY <4>1, AppendProperties DEF CreateTimeEntry
      <4>2. CASE CloseOpenTimeEntry
        BY <4>2, CloseType
      <4> QED
        BY <2>3, <4>1, <4>2 DEF CommitStatus
    <3> QED
      BY <2>3, <3>3, <3>4 DEF CommitStatus, EnqueueUpdate, Finish, Idle
  <2>4. CASE CreateReport(h)
    <3>1. order.version + 1 \in Nat
      BY DEF Order
    <3>2. order' \in Order
      BY <2>4, <3>1, AttachType DEF CreateReport, NextVersion
    <3> QED
      BY <2>4, <3>2 DEF CreateReport, EnqueueUpdate, Finish, Idle
  <2>5. CASE ReadVersion(h)
    <3>1. handler[h] \in Busy
      BY <2>5, <2>a DEF ReadVersion
    <3>2. handler'[h] = [handler[h] EXCEPT !.version = order.version, !.step = "replace"]
      BY <2>5 DEF ReadVersion
    <3>3. handler'[h] \in Busy /\ handler'[h].copy = handler[h].copy /\ handler'[h].step = "replace"
      BY <3>1, <3>2 DEF Busy, Steps, Order
    <3>4. handler' = [handler EXCEPT ![h] = handler'[h]]
      BY <2>5 DEF ReadVersion
    <3>5. \A g \in Handlers : g # h => handler'[g] = handler[g]
      BY <3>4
    <3>6. \A g \in Handlers :
             /\ handler'[g].step \in {"commit", "version", "replace"} => handler'[g].copy \in Order
             /\ handler'[g].step = "commit" => handler'[g].op \in StatusOperations
      BY <2>5, <3>3, <3>5 DEF ReadVersion
    <3>7. handler' \in [Handlers -> Busy \cup {Idle}]
      BY <3>3, <3>4
    <3> QED
      BY <2>5, <3>6, <3>7 DEF ReadVersion
  <2>6. CASE ReplaceOrder(h)
    <3>1. handler[h] \in Busy /\ handler[h].copy \in Order
      BY <2>6, <2>a DEF ReplaceOrder
    <3>2. handler[h].version + 1 \in Nat
      BY <3>1 DEF Busy
    <3>3. order' \in Order
      BY <2>6, <3>1, <3>2, AttachType DEF ReplaceOrder
    <3>4. handler' \in [Handlers -> Busy \cup {Idle}]
      BY <2>6, <3>1 DEF ReplaceOrder, Advance, Busy, Steps
    <3> QED
      BY <2>6, <3>3, <3>4 DEF ReplaceOrder, Advance
  <2>7. CASE EnqueueSignature(h)
    <3>1. [Idle EXCEPT !.op = "report", !.step = "read"] \in Busy
      BY DEF Idle, Busy, Steps
    <3>2. handler' \in [Handlers -> Busy \cup {Idle}]
      BY <2>7, <3>1 DEF EnqueueSignature
    <3> QED
      BY <2>7, <3>2 DEF EnqueueSignature, EnqueueUpdate, Idle
  <2> QED
    BY <1>2, <2>1, <2>2, <2>3, <2>4, <2>5, <2>6, <2>7 DEF HandlerStep
<1>3. ASSUME NEW status \in Status, Pull(status)
      PROVE  TypeOK'
  BY <1>3 DEF Pull, Order
<1>4. CASE Pushed
  BY <1>4 DEF Pushed, Order
<1>5. CASE Kill
  BY <1>5 DEF Kill, Idle
<1>6. CASE UNCHANGED vars
  BY <1>6 DEF vars
<1> QED
  BY <1>1, <1>2, <1>3, <1>4, <1>5, <1>6 DEF Next

\* The type invariant: whatever handlers overlap, each writes back a row it
\* has read, and only buttons that change the status commit one.
THEOREM OrderTypeCorrect == Spec => []TypeOK
BY InitType, NextType, PTL DEF Spec

-----------------------------------------------------------------------------
(* Every local change reaches the outbox, for any number of handlers: a    *)
(* handler that overwrites another one still makes an entry of its own.    *)
(* Only a kill between the two awaits of the signature breaks it.          *)

LEMMA NextQueued ==
    ASSUME "kill" \notin Faults, TypeOK, PendingIsQueued, [Next]_vars
    PROVE  PendingIsQueued'
<1> USE DEF PendingIsQueued, At
<1>1. ASSUME NEW h \in Handlers, NEW op \in Operations, Tap(h, op)
      PROVE  PendingIsQueued'
  BY <1>1 DEF Tap, TypeOK, Idle
<1>2. ASSUME NEW h \in Handlers, HandlerStep(h)
      PROVE  PendingIsQueued'
  <2>1. CASE Validate(h)
    BY <2>1 DEF Validate, Advance, Finish, TypeOK
  <2>2. CASE ReadOrder(h)
    BY <2>2 DEF ReadOrder, TypeOK
  <2>3. CASE CommitStatus(h)
    BY <2>3 DEF CommitStatus, EnqueueUpdate
  <2>4. CASE CreateReport(h)
    BY <2>4 DEF CreateReport, EnqueueUpdate
  <2>5. CASE ReadVersion(h)
    BY <2>5 DEF ReadVersion, TypeOK
  <2>6. CASE ReplaceOrder(h)
    <3>1. handler[h] \in Busy
      BY <2>6 DEF ReplaceOrder, TypeOK, Idle
    <3>2. handler'[h].step = "enqueue"
      BY <2>6, <3>1 DEF ReplaceOrder, Advance, TypeOK, Busy
    <3> QED
      BY <3>2
  <2>7. CASE EnqueueSignature(h)
    BY <2>7 DEF EnqueueSignature, EnqueueUpdate
  <2> QED
    BY <1>2, <2>1, <2>2, <2>3, <2>4, <2>5, <2>6, <2>7 DEF HandlerStep
<1>3. ASSUME NEW status \in Status, Pull(status)
      PROVE  PendingIsQueued'
  BY <1>3 DEF Pull, TypeOK, Order
<1>4. CASE Pushed
  BY <1>4 DEF Pushed, TypeOK, Order
<1>5. CASE Kill
  BY <1>5 DEF Kill
<1>6. CASE UNCHANGED vars
  BY <1>6 DEF vars
<1> QED
  BY <1>1, <1>2, <1>3, <1>4, <1>5, <1>6 DEF Next

\* While the app is not killed, a pending order has an outbox entry or a
\* handler is about to make it, however the handlers overlap.
THEOREM ChangesAreQueued ==
    ASSUME "kill" \notin Faults
    PROVE  Spec => []PendingIsQueued
<1>1. Init => PendingIsQueued
  BY DEF Init, PendingIsQueued
<1>2. TypeOK /\ PendingIsQueued /\ [Next]_vars => PendingIsQueued'
  BY NextQueued
<1> QED
  BY <1>1, <1>2, OrderTypeCorrect, PTL DEF Spec

-----------------------------------------------------------------------------
(* One handler at a time, with pulls: what a handler has read of the       *)
(* attachments and the version is still what the row holds when it writes. *)

CopyIsCurrent ==
    \A h \in Handlers :
       /\ handler[h].step \in {"commit", "version", "replace"} =>
             handler[h].copy.attached = order.attached
       /\ At(h, "replace") => handler[h].version = order.version

LEMMA NextCopyIsCurrent ==
    ASSUME OneHandler, TypeOK, CopyIsCurrent, [Next]_vars
    PROVE  CopyIsCurrent'
<1> USE DEF CopyIsCurrent, At
<1>1. ASSUME NEW h \in Handlers, NEW op \in Operations, Tap(h, op)
      PROVE  CopyIsCurrent'
  BY <1>1 DEF Tap, TypeOK, Idle
<1>2. ASSUME NEW h \in Handlers, HandlerStep(h)
      PROVE  CopyIsCurrent'
  <2>0. \A g \in Handlers : g = h
    BY DEF OneHandler
  <2>a. handler[h].step # "idle" => handler[h] \in Busy
    BY DEF TypeOK, Idle
  <2>1. CASE Validate(h)
    BY <2>1, <2>0, <2>a DEF Validate, Advance, Finish, TypeOK, Busy, Idle
  <2>2. CASE ReadOrder(h)
    BY <2>2, <2>0, <2>a DEF ReadOrder, TypeOK, Busy
  <2>3. CASE CommitStatus(h)
    BY <2>3, <2>0 DEF CommitStatus, Finish, TypeOK, Idle
  <2>4. CASE CreateReport(h)
    BY <2>4, <2>0 DEF CreateReport, Finish, TypeOK, Idle
  <2>5. CASE ReadVersion(h)
    <3>1. handler[h] \in Busy
      BY <2>5, <2>a DEF ReadVersion
    <3>2. /\ handler'[h].copy = handler[h].copy
          /\ handler'[h].version = order.version
      BY <2>5, <3>1 DEF ReadVersion, TypeOK, Busy
    <3> QED
      BY <2>5, <2>0, <3>2 DEF ReadVersion
  <2>6. CASE ReplaceOrder(h)
    BY <2>6, <2>0, <2>a DEF ReplaceOrder, Advance, TypeOK, Busy
  <2>7. CASE EnqueueSignature(h)
    BY <2>7, <2>0 DEF EnqueueSignature, TypeOK, Idle
  <2> QED
    BY <1>2, <2>1, <2>2, <2>3, <2>4, <2>5, <2>6, <2>7 DEF HandlerStep
<1>3. ASSUME NEW status \in Status, Pull(status)
      PROVE  CopyIsCurrent'
  BY <1>3 DEF Pull, TypeOK, Order
<1>4. CASE Pushed
  BY <1>4 DEF Pushed, TypeOK, Order
<1>5. CASE Kill
  BY <1>5 DEF Kill, Idle
<1>6. CASE UNCHANGED vars
  BY <1>6 DEF vars
<1> QED
  BY <1>1, <1>2, <1>3, <1>4, <1>5, <1>6 DEF Next

\* What a handler writes keeps the attachments and raises the version.
LEMMA WriteKeeps ==
    ASSUME TypeOK, CopyIsCurrent, NEW h \in Handlers, HandlerStep(h)
    PROVE  /\ order.attached \subseteq order'.attached
           /\ order' # order => order'.version > order.version
<1> USE DEF CopyIsCurrent, At
<1>0. order.version \in Nat
  BY DEF TypeOK, Order
<1>1. CASE CommitStatus(h)
  <2>1. handler[h].copy \in Order /\ handler[h].copy.attached = order.attached
    BY <1>1 DEF CommitStatus, TypeOK
  <2>2. order'.attached = order.attached /\ order'.version = order.version + 1
    BY <1>1, <2>1 DEF CommitStatus, NextVersion, Order
  <2> QED
    BY <1>0, <2>2
<1>2. CASE CreateReport(h)
  <2>1. order.version + 1 \in Nat
    BY <1>0
  <2>2. /\ order'.attached = order.attached \cup {"report"}
        /\ order'.version = order.version + 1
    BY <1>2, <2>1, AttachType DEF CreateReport, NextVersion, TypeOK
  <2> QED
    BY <1>0, <2>2
<1>3. CASE ReplaceOrder(h)
  <2>1. /\ handler[h].copy \in Order
        /\ handler[h].copy.attached = order.attached
        /\ handler[h].version = order.version
    BY <1>3 DEF ReplaceOrder, TypeOK
  <2>2. handler[h].version + 1 \in Nat
    BY <1>0, <2>1
  <2>3. /\ order'.attached = order.attached \cup {"signature"}
        /\ order'.version = order.version + 1
    BY <1>3, <2>1, <2>2, AttachType DEF ReplaceOrder
  <2> QED
    BY <1>0, <2>3
<1> QED
  BY <1>1, <1>2, <1>3
     DEF HandlerStep, Validate, ReadOrder, ReadVersion, EnqueueSignature

LEMMA StepKeeps ==
    ASSUME TypeOK, CopyIsCurrent, [Next]_vars
    PROVE  /\ order.attached \subseteq order'.attached
           /\ order' # order /\ order'.sync = "pending" =>
                 order'.version > order.version
<1>1. ASSUME NEW h \in Handlers, HandlerStep(h)
      PROVE  /\ order.attached \subseteq order'.attached
             /\ order' # order => order'.version > order.version
  BY <1>1, WriteKeeps
<1>2. ASSUME NEW status \in Status, Pull(status)
      PROVE  order.attached \subseteq order'.attached /\ order'.sync # "pending"
  BY <1>2 DEF Pull, TypeOK, Order
<1>3. CASE Pushed
  BY <1>3 DEF Pushed, TypeOK, Order
<1> QED
  BY <1>1, <1>2, <1>3 DEF Next, Tap, Kill, vars

LEMMA CopyStaysCurrent ==
    ASSUME OneHandler
    PROVE  Spec => [](TypeOK /\ CopyIsCurrent)
<1>1. Init => CopyIsCurrent
  BY DEF Init, CopyIsCurrent, At, Idle
<1>2. TypeOK /\ CopyIsCurrent /\ [Next]_vars => CopyIsCurrent'
  BY NextCopyIsCurrent
<1> QED
  BY <1>1, <1>2, OrderTypeCorrect, PTL DEF Spec

\* With one handler at a time nothing attached to an order is lost, through
\* pulls, pushes and kills at every await.
THEOREM AttachmentsStay ==
    ASSUME OneHandler
    PROVE  Spec => AttachedStays
<1>1. TypeOK /\ CopyIsCurrent /\ [Next]_vars => [order.attached \subseteq order'.attached]_vars
  BY StepKeeps
<1> QED
  BY <1>1, CopyStaysCurrent, PTL DEF Spec, AttachedStays

\* With one handler at a time every local change raises the version, so that
\* the server can tell it from the one before.
THEOREM VersionsRise ==
    ASSUME OneHandler
    PROVE  Spec => LocalChangeRaisesVersion
<1>1. TypeOK /\ CopyIsCurrent /\ [Next]_vars =>
         [order' # order /\ order'.sync = "pending" => order'.version > order.version]_vars
  BY StepKeeps
<1> QED
  BY <1>1, CopyStaysCurrent, PTL DEF Spec, LocalChangeRaisesVersion

-----------------------------------------------------------------------------
(* One handler at a time and no pull under its feet: the button that was   *)
(* enabled when it was pressed is still enabled when its handler writes,   *)
(* and so the time entries follow the status.                              *)

PressedIsEnabled ==
    \A h \in Handlers :
       /\ At(h, "validate") => handler[h].op = "complete"
       /\ handler[h].step \in {"read", "commit"} => Enabled(handler[h].op, order.status)
       /\ handler[h].step \in {"commit", "version", "replace"} =>
             handler[h].copy.status = order.status

RunningEntry ==
    IF order.status = "in_progress" THEN \E i \in DOMAIN entries : Open = {i}
    ELSE Open = {}

LEMMA NextPressedIsEnabled ==
    ASSUME OneHandler, "pull" \notin Faults, TypeOK, PressedIsEnabled, [Next]_vars
    PROVE  PressedIsEnabled'
<1> USE DEF PressedIsEnabled, At
<1>1. ASSUME NEW h \in Handlers, NEW op \in Operations, Tap(h, op)
      PROVE  PressedIsEnabled'
  BY <1>1 DEF Tap, TypeOK, Idle, OneHandler
<1>2. ASSUME NEW h \in Handlers, HandlerStep(h)
      PROVE  PressedIsEnabled'
  <2>0. \A g \in Handlers : g = h
    BY DEF OneHandler
  <2>a. handler[h].step # "idle" => handler[h] \in Busy
    BY DEF TypeOK, Idle
  <2>1. CASE Validate(h)
    <3>1. handler[h] \in Busy /\ handler[h].op = "complete"
      BY <2>1, <2>a DEF Validate
    <3>2. CASE order.status = "in_progress"
      BY <2>1, <2>0, <3>1, <3>2 DEF Validate, Advance, TypeOK, Busy, Enabled
    <3>3. CASE order.status # "in_progress"
      BY <2>1, <2>0, <3>3 DEF Validate, Finish, TypeOK, Idle
    <3> QED
      BY <3>2, <3>3
  <2>2. CASE ReadOrder(h)
    <3>1. handler[h] \in Busy
      BY <2>2, <2>a DEF ReadOrder
    <3>2. handler'[h].op = handler[h].op /\ handler'[h].copy = order
      BY <2>2, <3>1 DEF ReadOrder, TypeOK, Busy
    <3>3. handler'[h].step \in {"version", "commit"}
      BY <2>2, <3>1 DEF ReadOrder, TypeOK, Busy
    <3>4. Enabled(handler[h].op, order.status) /\ order' = order
      BY <2>2 DEF ReadOrder
    <3> QED
      BY <2>0, <3>2, <3>3, <3>4
  <2>3. CASE CommitStatus(h)
    BY <2>3, <2>0 DEF CommitStatus, Finish, TypeOK, Idle
  <2>4. CASE CreateReport(h)
    BY <2>4, <2>0 DEF CreateReport, Finish, TypeOK, Idle
  <2>5. CASE ReadVersion(h)
    BY <2>5, <2>0, <2>a DEF ReadVersion, TypeOK, Busy
  <2>6. CASE ReplaceOrder(h)
    BY <2>6, <2>0, <2>a DEF ReplaceOrder, Advance, TypeOK, Busy
  <2>7. CASE EnqueueSignature(h)
    <3>1. handler'[h].step = "read" /\ handler'[h].op = "report"
      BY <2>7 DEF EnqueueSignature, TypeOK, Idle
    <3> QED
      BY <2>0, <3>1 DEF Enabled
  <2> QED
    BY <1>2, <2>1, <2>2, <2>3, <2>4, <2>5, <2>6, <2>7 DEF HandlerStep
<1>3. ASSUME NEW status \in Status, Pull(status)
      PROVE  PressedIsEnabled'
  BY <1>3 DEF Pull
<1>4. CASE Pushed
  BY <1>4 DEF Pushed, TypeOK, Order
<1>5. CASE Kill
  BY <1>5 DEF Kill, Idle
<1>6. CASE UNCHANGED vars
  BY <1>6 DEF vars
<1> QED
  BY <1>1, <1>2, <1>3, <1>4, <1>5, <1>6 DEF Next

\* What a status button changes, and what the signature and the report keep.
LEMMA StatusWritten ==
    ASSUME TypeOK, PressedIsEnabled, NEW h \in Handlers, HandlerStep(h)
    PROVE  \/ /\ order.status \in {"scheduled", "paused"}
              /\ order'.status = "in_progress"
              /\ CreateTimeEntry
           \/ /\ order.status = "in_progress"
              /\ order'.status \in {"paused", "completed"}
              /\ CloseOpenTimeEntry
           \/ order'.status = order.status /\ entries' = entries
<1> USE DEF PressedIsEnabled, At
<1>1. CASE CommitStatus(h)
  <2>1. handler[h].copy \in Order /\ Enabled(handler[h].op, order.status)
    BY <1>1 DEF CommitStatus, TypeOK
  <2>2. order'.status = NewStatus(handler[h].op)
    BY <1>1, <2>1 DEF CommitStatus, Order
  <2>3. CASE handler[h].op \in {"start", "resume"} /\ CreateTimeEntry
    BY <2>1, <2>2, <2>3 DEF NewStatus, Enabled
  <2>4. CASE handler[h].op \in {"pause", "complete"} /\ CloseOpenTimeEntry
    BY <2>1, <2>2, <2>4 DEF NewStatus, Enabled
  <2> QED
    BY <1>1, <2>3, <2>4 DEF CommitStatus
<1>2. CASE CreateReport(h)
  <2>1. order.version + 1 \in Nat
    BY DEF TypeOK, Order
  <2>2. order'.status = order.status
    BY <1>2, <2>1, AttachType DEF CreateReport, NextVersion, TypeOK
  <2> QED
    BY <1>2, <2>2 DEF CreateReport
<1>3. CASE ReplaceOrder(h)
  <2>1. handler[h].copy \in Order /\ handler[h].copy.status = order.status
    BY <1>3 DEF ReplaceOrder, TypeOK
  <2>2. handler[h].version + 1 \in Nat
    BY <1>3 DEF ReplaceOrder, TypeOK, Busy, Idle
  <2>3. order'.status = order.status
    BY <1>3, <2>1, <2>2, AttachType DEF ReplaceOrder
  <2> QED
    BY <1>3, <2>3 DEF ReplaceOrder
<1> QED
  BY <1>1, <1>2, <1>3
     DEF HandlerStep, Validate, ReadOrder, ReadVersion, EnqueueSignature

\* A new entry is the one that runs; the one that ran is the one that ends.
LEMMA EntriesWritten ==
    ASSUME TypeOK
    PROVE  /\ Open = {} /\ CreateTimeEntry => \E i \in DOMAIN entries' : Open' = {i}
           /\ (\E i \in DOMAIN entries : Open = {i}) /\ CloseOpenTimeEntry => Open' = {}
<1>1. /\ DOMAIN entries = 1 .. Len(entries)
      /\ Len(entries) \in Nat
      /\ entries \in Seq({"running", "ended"})
  BY LenProperties DEF TypeOK
<1>2. ASSUME Open = {}, CreateTimeEntry
      PROVE  \E i \in DOMAIN entries' : Open' = {i}
  <2>1. /\ DOMAIN entries' = 1 .. (Len(entries) + 1)
        /\ entries'[Len(entries) + 1] = "running"
        /\ \A i \in 1 .. Len(entries) : entries'[i] = entries[i]
    BY <1>1, <1>2, AppendProperties DEF CreateTimeEntry
  <2>2. \A i \in 1 .. Len(entries) : entries[i] # "running"
    BY <1>1, <1>2 DEF Open
  <2>3. Open' = {Len(entries) + 1}
    BY <1>1, <2>1, <2>2 DEF Open
  <2> QED
    BY <1>1, <2>1, <2>3
<1>3. ASSUME NEW i \in DOMAIN entries, Open = {i}, CloseOpenTimeEntry
      PROVE  Open' = {}
  <2>1. i \in Nat
    BY <1>1
  <2>2. \A j \in DOMAIN entries : entries'[j] # "running"
    BY <1>1, <1>3, <2>1 DEF CloseOpenTimeEntry, Open
  <2> QED
    BY <1>3, <2>2 DEF CloseOpenTimeEntry, Open
<1> QED
  BY <1>2, <1>3

LEMMA NextRunningEntry ==
    ASSUME "pull" \notin Faults, TypeOK, PressedIsEnabled, RunningEntry, [Next]_vars
    PROVE  RunningEntry'
<1>1. ASSUME NEW h \in Handlers, HandlerStep(h)
      PROVE  RunningEntry'
  <2>1. CASE /\ order.status \in {"scheduled", "paused"}
             /\ order'.status = "in_progress"
             /\ CreateTimeEntry
    BY <2>1, EntriesWritten DEF RunningEntry
  <2>2. CASE /\ order.status = "in_progress"
             /\ order'.status \in {"paused", "completed"}
             /\ CloseOpenTimeEntry
    BY <2>2, EntriesWritten DEF RunningEntry
  <2>3. CASE order'.status = order.status /\ entries' = entries
    BY <2>3 DEF RunningEntry, Open
  <2> QED
    BY <1>1, <2>1, <2>2, <2>3, StatusWritten
<1>2. CASE Pushed
  BY <1>2 DEF Pushed, TypeOK, Order, RunningEntry, Open
<1>3. CASE UNCHANGED <<order, entries>>
  BY <1>3 DEF RunningEntry, Open
<1> QED
  BY <1>1, <1>2, <1>3 DEF Next, Tap, Pull, Kill, vars

LEMMA ButtonsStayEnabled ==
    ASSUME OneHandler, "pull" \notin Faults
    PROVE  Spec => [](TypeOK /\ PressedIsEnabled /\ RunningEntry)
<1>1. Init => PressedIsEnabled /\ RunningEntry
  BY DEF Init, PressedIsEnabled, RunningEntry, Open, At, Idle
<1>2. TypeOK /\ PressedIsEnabled /\ RunningEntry /\ [Next]_vars
         => (PressedIsEnabled /\ RunningEntry)'
  BY NextPressedIsEnabled, NextRunningEntry
<1> QED
  BY <1>1, <1>2, OrderTypeCorrect, PTL DEF Spec

\* With one handler at a time and no pull in between, exactly one time entry
\* runs while the order is in progress, and none otherwise, for every sequence
\* of buttons and with a kill at every await.
THEOREM ClockFollowsStatus ==
    ASSUME OneHandler, "pull" \notin Faults
    PROVE  Spec => []ClockMatchesStatus
<1>1. RunningEntry => ClockMatchesStatus
  BY FS_EmptySet, FS_Singleton DEF RunningEntry, ClockMatchesStatus
<1> QED
  BY <1>1, ButtonsStayEnabled, PTL

\* Under the same assumptions a completed order stays completed: a signature
\* or a report added to it later does not bring an earlier status back.
THEOREM CompletedOrdersStay ==
    ASSUME OneHandler, "pull" \notin Faults
    PROVE  Spec => CompletedIsFinal
<1>1. TypeOK /\ PressedIsEnabled /\ RunningEntry /\ [Next]_vars =>
         [order.status = "completed" => order'.status = "completed"]_vars
  <2>1. ASSUME TypeOK, PressedIsEnabled, NEW h \in Handlers, HandlerStep(h),
               order.status = "completed"
        PROVE  order'.status = "completed"
    BY <2>1, StatusWritten
  <2>2. TypeOK /\ Pushed => order'.status = order.status
    BY DEF Pushed, TypeOK, Order
  <2> QED
    BY <2>1, <2>2 DEF Next, Tap, Pull, Kill, vars
<1> QED
  BY <1>1, ButtonsStayEnabled, PTL DEF Spec, CompletedIsFinal
=============================================================================
