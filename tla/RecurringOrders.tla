-------------------------- MODULE RecurringOrders --------------------------
(***************************************************************************)
(* Recurring work orders on the device (WorkOrderDao.createDueRecurringLocal *)
(* and watchDueRecurringCandidates): a press on the dashboard makes an     *)
(* order for every installation that is due and moves its next service     *)
(* date on by whole intervals until it is later than today.                *)
(*                                                                         *)
(* The candidates are read before the transaction that serves them, so     *)
(* presses overlap; the transaction has the database to itself.  Notes of  *)
(* an installation are written over the whole row as it was read before.   *)
(* Pages of the server come in between (SyncPull has the pull itself).     *)
(* An installation without a date is one without an interval.              *)
(***************************************************************************)
EXTENDS Calendar, Sequences

CONSTANTS
    Installations,
    Intervals,           \* values of intervalMonths, 0 for none
    Presses,             \* presses that may overlap
    Days,                \* bound: the days on which something happens
    OfficeDates,         \* the moments the server sets as next service date
    FirstDate,           \* the date an installation starts with
    ChangesDuringPress,  \* the server's pages come while a handler is between its steps
    MaxOrders            \* bound: orders of an installation

ASSUME RecurringAssumption ==
    /\ Intervals \subseteq Nat
    /\ Days \subseteq Moment
    /\ OfficeDates \subseteq Moment
    /\ \A d \in OfficeDates : d.day <= DaysInMonth(d.year, d.month)
    /\ FirstDate \in [Installations -> OfficeDates]
    /\ ChangesDuringPress \in BOOLEAN
    /\ MaxOrders \in Nat

VARIABLES
    today,          \* the device's clock
    installations,  \* their next service date, intervalMonths and sync_status
    orders,         \* per installation its work orders, in the order they were made
    notes,          \* per installation the row a notes handler has read, or {}
    pc,             \* where each press is
    dueOn,          \* the day it was started on
    copies,         \* the candidates it has read
    plan,           \* what its transaction is about to write
    anchor          \* history: the date the server has last set

pressVars == <<pc, dueOn, copies, plan>>
vars == <<today, installations, orders, notes, pressVars, anchor>>

Row == [next : Moment, interval : Intervals, sync : {"synced", "unsent"}]
\* due is history: the dates an order was generated for, none if the office made
\* it; kept is history: nobody has moved, cancelled or deleted it since.
Order == [start : Moment, status : {"open", "cancelled", "deleted"},
          sync : {"synced", "unsent"}, due : SUBSET Moment, kept : BOOLEAN]
Candidate == [installation : Installations, interval : Intervals, due : Moment]
Plan == [installation : Installations, interval : Intervals, due : Moment, next : Moment]

Init ==
    /\ today \in Days
    /\ \E interval \in [Installations -> Intervals] :
          installations = [i \in Installations |->
              [next |-> FirstDate[i], interval |-> interval[i], sync |-> "synced"]]
    /\ orders = [i \in Installations |-> << >>]
    /\ notes = [i \in Installations |-> {}]
    /\ pc = [p \in Presses |-> "idle"]
    /\ dueOn = [p \in Presses |-> today]
    /\ copies = [p \in Presses |-> {}]
    /\ plan = [p \in Presses |-> {}]
    /\ anchor = FirstDate

-----------------------------------------------------------------------------
(* The press.                                                              *)

\* Statements of others wait while a transaction is open.
DatabaseFree == \A p \in Presses : pc[p] # "transaction"

GoTo(p, step) == pc' = [pc EXCEPT ![p] = step]

\* Mutant: an installation without an interval is due as well.
IsDue_AnyInterval(i, day) == ~After(installations[i].next, day)

IsDue(i, day) == installations[i].interval > 0 /\ ~After(installations[i].next, day)

\* Mutant: the check in the transaction is left out.
HasOrder_Never(i, due) == FALSE

\* _hasWorkOrderForInstallationDueDate: the local date of an order against the
\* UTC date of the term.
OrderStands(list, due) ==
    \E k \in DOMAIN list : list[k].status = "open" /\ SameDate(list[k].start, UtcDate(due))

HasOrder(i, due) == OrderStands(orders[i], due)

\* watchDueRecurringCandidates(...).first; without candidates nothing happens.
ReadCandidates(p) ==
    /\ pc[p] = "idle" /\ DatabaseFree
    /\ \A i \in Installations : Len(orders[i]) < MaxOrders
    /\ LET due == {i \in Installations : IsDue(i, today) /\ ~HasOrder(i, installations[i].next)}
       IN  /\ due # {}
           /\ copies' = [copies EXCEPT ![p] =
                  {[installation |-> i, interval |-> installations[i].interval,
                    due |-> installations[i].next] : i \in due}]
    /\ dueOn' = [dueOn EXCEPT ![p] = today]
    /\ GoTo(p, "candidates")
    /\ UNCHANGED <<today, installations, orders, notes, plan, anchor>>

\* The transaction begins: candidates that have got an order meanwhile are
\* left out.
BeginTransaction(p) ==
    /\ pc[p] = "candidates" /\ DatabaseFree
    /\ plan' = [plan EXCEPT ![p] =
           {[installation |-> c.installation, interval |-> c.interval,
             due |-> c.due, next |-> c.due] :
               c \in {d \in copies[p] : ~HasOrder(d.installation, d.due)}}]
    /\ copies' = [copies EXCEPT ![p] = {}]
    /\ GoTo(p, "transaction")
    /\ UNCHANGED <<today, installations, orders, notes, dueOn, anchor>>

\* _advanceRecurringInstallation, once round the loop.
Advanced(p, t) ==
    IF After(t.next, dueOn[p]) THEN t
    ELSE [t EXCEPT !.next = AddMonths(t.next, t.interval)]

AdvanceTerms(p) ==
    /\ pc[p] = "transaction"
    /\ \E t \in plan[p] : ~After(t.next, dueOn[p])
    /\ plan' = [plan EXCEPT ![p] = {Advanced(p, t) : t \in plan[p]}]
    /\ UNCHANGED <<today, installations, orders, notes, pc, dueOn, copies, anchor>>

\* _buildRecurringWorkOrder: eight in the morning of the local due date.
NewOrder(due) == [start |-> [due EXCEPT !.hour = 8], status |-> "open", sync |-> "unsent",
                  due |-> {due}, kept |-> TRUE]

\* The orders, their links and the installations with their outbox entries: the
\* installation is written as it was read, with the new date.
CommitPress(p) ==
    /\ pc[p] = "transaction"
    /\ \A t \in plan[p] : After(t.next, dueOn[p])
    /\ LET Planned(i) == {t \in plan[p] : t.installation = i}
           PlanOf(i) == CHOOSE t \in plan[p] : t.installation = i
       IN  /\ orders' = [i \in Installations |->
                  IF Planned(i) = {} THEN orders[i]
                  ELSE Append(orders[i], NewOrder(PlanOf(i).due))]
           /\ installations' = [i \in Installations |->
                  IF Planned(i) = {} THEN installations[i]
                  ELSE [next |-> PlanOf(i).next, interval |-> PlanOf(i).interval,
                        sync |-> "unsent"]]
    /\ GoTo(p, "idle")
    /\ plan' = [plan EXCEPT ![p] = {}]
    /\ UNCHANGED <<today, notes, dueOn, copies, anchor>>

PressStep(p) == BeginTransaction(p) \/ AdvanceTerms(p) \/ CommitPress(p)

-----------------------------------------------------------------------------
(* The rest of the device.                                                 *)

\* InstallationDao.updateNotesLocal: getById, then the transaction.
ReadForNotes(i) ==
    /\ DatabaseFree /\ notes[i] = {}
    /\ notes' = [notes EXCEPT ![i] = {installations[i]}]
    /\ UNCHANGED <<today, installations, orders, pressVars, anchor>>

WriteNotes(i) ==
    /\ DatabaseFree
    /\ \E row \in notes[i] :
          installations' = [installations EXCEPT ![i] = [row EXCEPT !.sync = "unsent"]]
    /\ notes' = [notes EXCEPT ![i] = {}]
    /\ UNCHANGED <<today, orders, pressVars, anchor>>

\* A push is answered: setEntitySyncStatus.
PushInstallation(i) ==
    /\ DatabaseFree
    /\ installations[i].sync = "unsent"
    /\ installations' = [installations EXCEPT ![i].sync = "synced"]
    /\ UNCHANGED <<today, orders, notes, pressVars, anchor>>

PushOrder(i, k) ==
    /\ DatabaseFree
    /\ orders[i][k].sync = "unsent"
    /\ orders' = [orders EXCEPT ![i][k].sync = "synced"]
    /\ UNCHANGED <<today, installations, notes, pressVars, anchor>>

\* When a page of the server can be applied.
MayPull ==
    /\ DatabaseFree
    /\ \/ ChangesDuringPress
       \/ (\A p \in Presses : pc[p] = "idle") /\ (\A i \in Installations : notes[i] = {})

\* _applyChange: rows with unsent changes keep them.
PullInstallation(i, date, interval) ==
    /\ MayPull
    /\ installations[i].sync = "synced"
    /\ installations' = [installations EXCEPT ![i].next = date, ![i].interval = interval]
    /\ anchor' = [anchor EXCEPT ![i] = date]
    /\ UNCHANGED <<today, orders, notes, pressVars>>

\* The office makes an order of its own.
PullNewOrder(i, date) ==
    /\ MayPull
    /\ Len(orders[i]) < MaxOrders
    /\ orders' = [orders EXCEPT ![i] =
           Append(@, [start |-> date, status |-> "open", sync |-> "synced",
                      due |-> {}, kept |-> FALSE])]
    /\ UNCHANGED <<today, installations, notes, pressVars, anchor>>

\* The office moves, cancels, reopens or deletes an order.
PullOrder(i, k, date, status) ==
    /\ MayPull
    /\ orders[i][k].sync = "synced"
    /\ orders' = [orders EXCEPT ![i][k] = [@ EXCEPT !.start = date, !.status = status,
                                                    !.kept = FALSE]]
    /\ UNCHANGED <<today, installations, notes, pressVars, anchor>>

NextDay(day) ==
    /\ After(day, today)
    /\ today' = day
    /\ UNCHANGED <<installations, orders, notes, pressVars, anchor>>

\* The app is killed; an open transaction leaves nothing behind.
Kill ==
    /\ pc' = [p \in Presses |-> "idle"]
    /\ copies' = [p \in Presses |-> {}]
    /\ plan' = [p \in Presses |-> {}]
    /\ notes' = [i \in Installations |-> {}]
    /\ UNCHANGED <<today, installations, orders, dueOn, anchor>>

Next ==
    \/ \E p \in Presses : ReadCandidates(p) \/ PressStep(p)
    \/ \E i \in Installations :
          \/ ReadForNotes(i) \/ WriteNotes(i) \/ PushInstallation(i)
          \/ \E date \in OfficeDates :
                \/ PullNewOrder(i, date)
                \/ \E interval \in Intervals : PullInstallation(i, date, interval)
          \/ \E k \in DOMAIN orders[i] :
                \/ PushOrder(i, k)
                \/ \E date \in OfficeDates, status \in {"open", "cancelled", "deleted"} :
                      PullOrder(i, k, date, status)
    \/ \E day \in Days : NextDay(day)
    \/ Kill

Spec == Init /\ [][Next]_vars

\* A transaction that has begun goes on, and those that wait for the database
\* get it in turn.
Fairness ==
    \A p \in Presses : /\ WF_vars(AdvanceTerms(p) \/ CommitPress(p))
                       /\ SF_vars(BeginTransaction(p))

LiveSpec == Spec /\ Fairness

-----------------------------------------------------------------------------
(* Properties.                                                             *)

TypeOK ==
    /\ today \in Days
    /\ installations \in [Installations -> Row]
    /\ orders \in [Installations -> Seq(Order)]
    /\ notes \in [Installations -> SUBSET Row]
    /\ pc \in [Presses -> {"idle", "candidates", "transaction"}]
    /\ dueOn \in [Presses -> Days]
    /\ copies \in [Presses -> SUBSET Candidate]
    /\ plan \in [Presses -> SUBSET Plan]
    /\ anchor \in [Installations -> OfficeDates]

\* A term has one order: however presses, notes and pages interleave, no two
\* orders that nobody has touched since are for the same date of the same
\* installation, although a stale row brings a served date back
\* (createDueRecurringLocal looks for an order again in the transaction).
OneOrderPerTerm ==
    \A i \in Installations : \A j, k \in DOMAIN orders[i] :
        /\ orders[i][j].kept /\ orders[i][k].kept
        /\ orders[i][j].due \cap orders[i][k].due # {}
        => j = k

\* A press has moved the date of an installation, neither a page nor the notes.
MovedOn(i) ==
    /\ installations'[i].next # installations[i].next
    /\ installations'[i].sync = "unsent" /\ notes' = notes

\* No date is left without its order: when a press moves a service date on,
\* there is an order on the date that is left, whichever rows the handlers have
\* read before (the installation is written as it was read with the candidates).
TermsLeaveAnOrder ==
    [][\A i \in Installations :
          MovedOn(i) => OrderStands(orders'[i], installations[i].next)]_vars

\* A date that is a whole number of intervals after start: a day of the
\* calendar, the day of start or one of the last days of a shorter month.
Follows(date, interval, start) ==
    LET months == MonthIndex(date) - MonthIndex(start)
    IN  /\ \E k \in 0 .. months : months = k * interval
        /\ date.day <= DaysInMonth(date.year, date.month)
        /\ date.day <= start.day
        /\ date.day = start.day \/ date.day >= 28

\* Every service date is a whole number of intervals after the date the office
\* has set, never in a month that was not due; its day moves to an earlier one
\* where months are short, and only there (_addMonths clamps the day each time).
TermsFollowTheInterval ==
    \A i \in Installations :
        Follows(installations[i].next, installations[i].interval, anchor[i])

\* A press ends: the loop that moves a date on comes to an end for every
\* interval and every day the press was started on.
PressEnds == \A p \in Presses : pc[p] # "idle" ~> pc[p] = "idle"
=============================================================================
