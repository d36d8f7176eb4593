----------------------- MODULE RecurringOrdersProofs -----------------------
(***************************************************************************)
(* Proofs about RecurringOrders for any installations, intervals, dates    *)
(* and number of presses.                                                  *)
(***************************************************************************)
EXTENDS RecurringOrders, SequenceTheorems, TLAPS

-----------------------------------------------------------------------------
(* The calendar.                                                           *)

LEMMA DaysOfMonths ==
    ASSUME NEW y, NEW m PROVE DaysInMonth(y, m) \in 28 .. 31
BY DEF DaysInMonth

LEMMA DivisionByTwelve ==
    \A x \in Nat : /\ x \div 12 \in Nat /\ x % 12 \in 0 .. 11
                   /\ x = 12 * (x \div 12) + (x % 12)
OBVIOUS

\* AddMonths gives a moment that is so many months later, at the same hour, on
\* the same day or the last one of the month.
LEMMA AddMonthsLater ==
    ASSUME NEW t \in Moment, NEW n \in Nat
    PROVE  LET u == AddMonths(t, n)
           IN  /\ u \in Moment
               /\ MonthIndex(u) = MonthIndex(t) + n
               /\ u.hour = t.hour
               /\ u.day <= DaysInMonth(u.year, u.month)
               /\ u.day <= t.day
               /\ u.day = t.day \/ u.day >= 28
<1> DEFINE target == t.month + n
           q == (target - 1) \div 12
           r == (target - 1) % 12
           days == DaysInMonth(t.year + q, r + 1)
           d == IF t.day <= days THEN t.day ELSE days
<1>1. t.year \in Nat /\ t.month \in 1 .. 12 /\ t.day \in 1 .. 31 /\ t.hour \in 0 .. 23
  BY DEF Moment
<1>2. q \in Nat /\ r \in 0 .. 11 /\ target - 1 = 12 * q + r
  <2>1. target - 1 \in Nat
    BY <1>1
  <2> QED
    BY <2>1, DivisionByTwelve
<1>3. days \in 28 .. 31
  BY DaysOfMonths
<1>4. d \in 1 .. 31 /\ d <= days /\ d <= t.day /\ (d = t.day \/ d >= 28)
  BY <1>1, <1>3
<1>5. AddMonths(t, n) = [t EXCEPT !.year = t.year + q, !.month = r + 1, !.day = d]
  BY DEF AddMonths
<1> HIDE DEF q, r, days, d
<1>6. AddMonths(t, n) = [year |-> t.year + q, month |-> r + 1, day |-> d, hour |-> t.hour]
  BY <1>5 DEF Moment
<1>7. AddMonths(t, n) \in Moment
  BY <1>6, <1>1, <1>2, <1>4 DEF Moment
<1>8. MonthIndex(AddMonths(t, n)) = MonthIndex(t) + n
  <2>1. AddMonths(t, n).year = t.year + q /\ AddMonths(t, n).month = r + 1
    BY <1>6
  <2>2. \A y, m, k, a, b \in Int :
           m + k - 1 = 12 * a + b => 12 * (y + a) + (b + 1) = (12 * y + m) + k
    OBVIOUS
  <2>3. t.year \in Int /\ t.month \in Int /\ n \in Int /\ q \in Int /\ r \in Int
    BY <1>1, <1>2
  <2>4. t.month + n - 1 = 12 * q + r
    BY <1>1, <1>2
  <2>5. 12 * (t.year + q) + (r + 1) = (12 * t.year + t.month) + n
    BY <2>2, <2>3, <2>4
  <2> QED
    BY <2>1, <2>5 DEF MonthIndex
<1>9. d <= DaysInMonth(t.year + q, r + 1)
  BY <1>4 DEF days
<1> QED
  BY <1>4, <1>6, <1>7, <1>8, <1>9

LEMMA OfficeDatesAreMoments ==
    /\ OfficeDates \subseteq Moment /\ Days \subseteq Moment /\ Intervals \subseteq Nat
    /\ FirstDate \in [Installations -> OfficeDates]
BY RecurringAssumption DEF RecurringAssumption

-----------------------------------------------------------------------------
(* Types.                                                                  *)

LEMMA NewOrderType == ASSUME NEW due \in Moment PROVE NewOrder(due) \in Order
BY DEF NewOrder, Order, Moment

\* What a press plans for the next round of its loop.
LEMMA AdvancedType ==
    ASSUME NEW p, NEW t \in Plan
    PROVE  Advanced(p, t) \in Plan
<1>1. t.next \in Moment /\ t.interval \in Nat
  BY OfficeDatesAreMoments DEF Plan
<1>2. AddMonths(t.next, t.interval) \in Moment
  BY <1>1, AddMonthsLater
<1> QED
  BY <1>2 DEF Advanced, Plan

LEMMA TypeInit == Init => TypeOK
<1> SUFFICES ASSUME Init PROVE TypeOK
  OBVIOUS
<1>1. installations \in [Installations -> Row]
  BY OfficeDatesAreMoments DEF Init, Row
<1>2. orders \in [Installations -> Seq(Order)]
  BY DEF Init
<1> QED
  BY <1>1, <1>2, OfficeDatesAreMoments DEF Init, TypeOK

\* The transaction that commits.
LEMMA CommitTypes ==
    ASSUME TypeOK, NEW p \in Presses, CommitPress(p)
    PROVE  /\ orders' \in [Installations -> Seq(Order)]
           /\ installations' \in [Installations -> Row]
<1> DEFINE Planned(i) == {t \in plan[p] : t.installation = i}
           PlanOf(i) == CHOOSE t \in plan[p] : t.installation = i
<1>1. \A i \in Installations : Planned(i) # {} => PlanOf(i) \in Plan
  BY DEF TypeOK
<1>2. ASSUME NEW i \in Installations
      PROVE  (IF Planned(i) = {} THEN orders[i]
              ELSE Append(orders[i], NewOrder(PlanOf(i).due))) \in Seq(Order)
  <2>1. orders[i] \in Seq(Order)
    BY DEF TypeOK
  <2>2. ASSUME Planned(i) # {} PROVE NewOrder(PlanOf(i).due) \in Order
    <3>1. PlanOf(i) \in Plan
      BY <1>1, <2>2
    <3> HIDE DEF PlanOf, Planned
    <3> QED
      BY <3>1, NewOrderType DEF Plan
  <2> HIDE DEF PlanOf, Planned
  <2> QED
    BY <2>1, <2>2
<1>3. ASSUME NEW i \in Installations
      PROVE  (IF Planned(i) = {} THEN installations[i]
              ELSE [next |-> PlanOf(i).next, interval |-> PlanOf(i).interval,
                    sync |-> "unsent"]) \in Row
  <2>1. installations[i] \in Row
    BY DEF TypeOK
  <2>2. ASSUME Planned(i) # {} PROVE PlanOf(i).next \in Moment /\ PlanOf(i).interval \in Intervals
    <3>1. PlanOf(i) \in Plan
      BY <1>1, <2>2
    <3> HIDE DEF PlanOf, Planned
    <3> QED
      BY <3>1 DEF Plan
  <2> HIDE DEF PlanOf, Planned
  <2> QED
    BY <2>1, <2>2 DEF Row
<1>4. /\ orders' = [i \in Installations |->
                 IF Planned(i) = {} THEN orders[i]
                 ELSE Append(orders[i], NewOrder(PlanOf(i).due))]
      /\ installations' = [i \in Installations |->
                 IF Planned(i) = {} THEN installations[i]
                 ELSE [next |-> PlanOf(i).next, interval |-> PlanOf(i).interval,
                       sync |-> "unsent"]]
  BY DEF CommitPress
<1> HIDE DEF Planned, PlanOf
<1> QED
  BY <1>2, <1>3, <1>4

LEMMA TypeStep == ASSUME TypeOK, [Next]_vars PROVE TypeOK'
<1> USE DEF pressVars
<1>1. ASSUME NEW p \in Presses, ReadCandidates(p) PROVE TypeOK'
  <2>1. {[installation |-> i, interval |-> installations[i].interval,
          due |-> installations[i].next] : i \in Installations} \subseteq Candidate
    BY DEF TypeOK, Row, Candidate
  <2>2. copies' \in [Presses -> SUBSET Candidate]
    BY <1>1, <2>1 DEF ReadCandidates, TypeOK
  <2> QED
    BY <1>1, <2>2 DEF ReadCandidates, GoTo, TypeOK
<1>2. ASSUME NEW p \in Presses, BeginTransaction(p) PROVE TypeOK'
  <2>1. \A c \in copies[p] : [installation |-> c.installation, interval |-> c.interval,
                              due |-> c.due, next |-> c.due] \in Plan
    BY DEF TypeOK, Candidate, Plan
  <2>2. plan' \in [Presses -> SUBSET Plan]
    BY <1>2, <2>1 DEF BeginTransaction, TypeOK
  <2> QED
    BY <1>2, <2>2 DEF BeginTransaction, GoTo, TypeOK
<1>3. ASSUME NEW p \in Presses, AdvanceTerms(p) PROVE TypeOK'
  <2>1. {Advanced(p, t) : t \in plan[p]} \subseteq Plan
    BY AdvancedType DEF TypeOK
  <2> QED
    BY <1>3, <2>1 DEF AdvanceTerms, TypeOK
<1>4. ASSUME NEW p \in Presses, CommitPress(p) PROVE TypeOK'
  BY <1>4, CommitTypes DEF CommitPress, GoTo, TypeOK
<1>5. ASSUME NEW i \in Installations, ReadForNotes(i) \/ WriteNotes(i) \/ PushInstallation(i)
      PROVE  TypeOK'
  <2>1. CASE ReadForNotes(i)
    BY <2>1 DEF ReadForNotes, TypeOK
  <2>2. CASE WriteNotes(i)
    <3>1. PICK row \in notes[i] :
             installations' = [installations EXCEPT ![i] = [row EXCEPT !.sync = "unsent"]]
      BY <2>2 DEF WriteNotes
    <3>2. row \in Row
      BY DEF TypeOK
    <3>3. [row EXCEPT !.sync = "unsent"] \in Row
      BY <3>2 DEF Row
    <3> QED
      BY <2>2, <3>1, <3>3 DEF WriteNotes, TypeOK
  <2>3. CASE PushInstallation(i)
    <3>1. [installations[i] EXCEPT !.sync = "synced"] \in Row
      BY DEF TypeOK, Row
    <3> QED
      BY <2>3, <3>1 DEF PushInstallation, TypeOK
  <2> QED
    BY <1>5, <2>1, <2>2, <2>3
<1>6. ASSUME NEW i \in Installations, NEW date \in OfficeDates, NEW interval \in Intervals,
             PullInstallation(i, date, interval)
      PROVE  TypeOK'
  <2>1. [installations[i] EXCEPT !.next = date, !.interval = interval] \in Row
    BY OfficeDatesAreMoments DEF TypeOK, Row
  <2>2. installations' = [installations EXCEPT ![i] =
                            [installations[i] EXCEPT !.next = date, !.interval = interval]]
    BY <1>6 DEF PullInstallation, TypeOK
  <2> QED
    BY <1>6, <2>1, <2>2 DEF PullInstallation, TypeOK
<1>7. ASSUME NEW i \in Installations, NEW date \in OfficeDates, PullNewOrder(i, date)
      PROVE  TypeOK'
  <2>1. [start |-> date, status |-> "open", sync |-> "synced", due |-> {}, kept |-> FALSE]
           \in Order
    BY OfficeDatesAreMoments DEF Order
  <2>2. orders[i] \in Seq(Order)
    BY DEF TypeOK
  <2>3. Append(orders[i], [start |-> date, status |-> "open", sync |-> "synced",
                           due |-> {}, kept |-> FALSE]) \in Seq(Order)
    BY <2>1, <2>2
  <2> QED
    BY <1>7, <2>3 DEF PullNewOrder, TypeOK
<1>8. ASSUME NEW i \in Installations, NEW k \in DOMAIN orders[i], PushOrder(i, k)
      PROVE  TypeOK'
  <2>1. orders[i] \in Seq(Order) /\ orders[i][k] \in Order
    BY <1>8 DEF TypeOK
  <2>2. [orders[i][k] EXCEPT !.sync = "synced"] \in Order
    BY <2>1 DEF Order
  <2>3. [orders[i] EXCEPT ![k] = [orders[i][k] EXCEPT !.sync = "synced"]] \in Seq(Order)
    BY <2>1, <2>2, ExceptSeq
  <2>4. orders' = [orders EXCEPT ![i] =
                     [orders[i] EXCEPT ![k] = [orders[i][k] EXCEPT !.sync = "synced"]]]
    BY <1>8 DEF PushOrder, TypeOK
  <2> QED
    BY <1>8, <2>3, <2>4 DEF PushOrder, TypeOK
<1>9. ASSUME NEW i \in Installations, NEW k \in DOMAIN orders[i], NEW date \in OfficeDates,
             NEW status \in {"open", "cancelled", "deleted"}, PullOrder(i, k, date, status)
      PROVE  TypeOK'
  <2> DEFINE new == [orders[i][k] EXCEPT !.start = date, !.status = status, !.kept = FALSE]
  <2>1. orders[i] \in Seq(Order) /\ orders[i][k] \in Order
    BY <1>9 DEF TypeOK
  <2>2. new \in Order
    BY <2>1, OfficeDatesAreMoments DEF Order
  <2>3. [orders[i] EXCEPT ![k] = new] \in Seq(Order)
    BY <2>1, <2>2, ExceptSeq
  <2>4. orders' = [orders EXCEPT ![i] = [orders[i] EXCEPT ![k] = new]]
    BY <1>9 DEF PullOrder, TypeOK
  <2> HIDE DEF new
  <2> QED
    BY <1>9, <2>3, <2>4 DEF PullOrder, TypeOK
<1>10. ASSUME NEW day \in Days, NextDay(day) PROVE TypeOK'
  BY <1>10 DEF NextDay, TypeOK
<1>11. ASSUME Kill PROVE TypeOK'
  BY <1>11 DEF Kill, TypeOK
<1>12. ASSUME UNCHANGED vars PROVE TypeOK'
  BY <1>12 DEF vars, TypeOK
<1> QED
  BY <1>1, <1>2, <1>3, <1>4, <1>5, <1>6, <1>7, <1>8, <1>9, <1>10, <1>11, <1>12
     DEF Next, PressStep

\* Every variable keeps its type: the dates a press works out are moments of the
\* calendar, for every interval and every day it is started on.
THEOREM RecurringTypes == Spec => []TypeOK
<1>1. TypeOK /\ [Next]_vars => TypeOK'
  BY TypeStep
<1> QED
  BY TypeInit, <1>1, PTL DEF Spec

-----------------------------------------------------------------------------
(* The presses: one transaction at a time, one plan per installation, and   *)
(* a plan only where no order stands.                                      *)

PressInv ==
    /\ \A p \in Presses : /\ pc[p] # "candidates" => copies[p] = {}
                          /\ pc[p] # "transaction" => plan[p] = {}
    /\ \A p, q \in Presses : pc[p] = "transaction" /\ pc[q] = "transaction" => p = q
    /\ \A p \in Presses :
          /\ \A c, d \in copies[p] : c.installation = d.installation => c = d
          /\ \A t, u \in plan[p] : t.installation = u.installation => t = u
          /\ \A t \in plan[p] : ~HasOrder(t.installation, t.due)

\* A round of the loop changes the new date and nothing else.
LEMMA AdvancedKeeps ==
    ASSUME NEW p, NEW t \in Plan
    PROVE  LET u == Advanced(p, t)
           IN  u.installation = t.installation /\ u.due = t.due /\ u.interval = t.interval
BY DEF Advanced, Plan

\* What a step other than those of the press leaves alone.
LEMMA PressesRest ==
    ASSUME PressInv, UNCHANGED pressVars, UNCHANGED orders \/ DatabaseFree
    PROVE  PressInv'
<1>1. UNCHANGED <<pc, copies, plan>>
  BY DEF pressVars
<1>2. ASSUME NEW p \in Presses, NEW t \in plan'[p]
      PROVE  ~HasOrder(t.installation, t.due)'
  <2>1. UNCHANGED orders
    BY <1>1, <1>2 DEF PressInv, DatabaseFree
  <2> QED
    BY <1>1, <1>2, <2>1 DEF PressInv, HasOrder
<1> QED
  BY <1>1, <1>2 DEF PressInv

LEMMA PressInit == Init => PressInv
BY DEF Init, PressInv

LEMMA PressStepKeeps == ASSUME TypeOK, PressInv, [Next]_vars PROVE PressInv'
<1>1. ASSUME NEW p \in Presses, ReadCandidates(p) PROVE PressInv'
  <2>1. \A c, d \in copies'[p] : c.installation = d.installation => c = d
    BY <1>1 DEF ReadCandidates, TypeOK
  <2>2. \A q \in Presses : q # p => copies'[q] = copies[q]
    BY <1>1 DEF ReadCandidates, TypeOK
  <2>3. UNCHANGED <<plan, orders>> /\ pc' = [pc EXCEPT ![p] = "candidates"]
    BY <1>1 DEF ReadCandidates, GoTo
  <2>4. \A q \in Presses : pc[q] # "transaction" /\ plan[q] = {}
    BY <1>1 DEF ReadCandidates, DatabaseFree, PressInv
  <2> QED
    BY <2>1, <2>2, <2>3, <2>4 DEF PressInv, TypeOK, HasOrder
<1>2. ASSUME NEW p \in Presses, BeginTransaction(p) PROVE PressInv'
  <2>1. \A q \in Presses : pc[q] # "transaction" /\ plan[q] = {}
    BY <1>2 DEF BeginTransaction, DatabaseFree, PressInv
  <2>2. /\ UNCHANGED orders /\ pc' = [pc EXCEPT ![p] = "transaction"]
        /\ copies' = [copies EXCEPT ![p] = {}]
        /\ \A q \in Presses : q # p => plan'[q] = plan[q]
    BY <1>2 DEF BeginTransaction, GoTo, TypeOK
  <2>3. plan'[p] = {[installation |-> c.installation, interval |-> c.interval,
                     due |-> c.due, next |-> c.due] :
                       c \in {d \in copies[p] : ~HasOrder(d.installation, d.due)}}
    BY <1>2 DEF BeginTransaction, TypeOK
  <2>4. \A t, u \in plan'[p] : t.installation = u.installation => t = u
    BY <2>3 DEF PressInv
  <2>5. \A t \in plan'[p] : ~HasOrder(t.installation, t.due)'
    BY <2>2, <2>3 DEF HasOrder
  <2> QED
    BY <2>1, <2>2, <2>4, <2>5 DEF PressInv, TypeOK
<1>3. ASSUME NEW p \in Presses, AdvanceTerms(p) PROVE PressInv'
  <2>1. plan'[p] = {Advanced(p, t) : t \in plan[p]} /\ \A q \in Presses : q # p => plan'[q] = plan[q]
    BY <1>3 DEF AdvanceTerms, TypeOK
  <2>2. UNCHANGED <<orders, pc, copies>> /\ pc[p] = "transaction"
    BY <1>3 DEF AdvanceTerms
  <2>3. \A t \in plan[p] : t \in Plan
    BY DEF TypeOK
  <2>4. \A t, u \in plan'[p] : t.installation = u.installation => t = u
    BY <2>1, <2>3, AdvancedKeeps DEF PressInv
  <2>5. \A t \in plan'[p] : ~HasOrder(t.installation, t.due)'
    BY <2>1, <2>2, <2>3, AdvancedKeeps DEF PressInv, HasOrder
  <2> QED
    BY <2>1, <2>2, <2>4, <2>5 DEF PressInv, HasOrder
<1>4. ASSUME NEW p \in Presses, CommitPress(p) PROVE PressInv'
  <2>1. /\ pc[p] = "transaction" /\ pc' = [pc EXCEPT ![p] = "idle"]
        /\ plan' = [plan EXCEPT ![p] = {}] /\ UNCHANGED copies
    BY <1>4 DEF CommitPress, GoTo
  <2>2. \A q \in Presses : pc'[q] # "transaction" /\ plan'[q] = {}
    BY <2>1 DEF PressInv, TypeOK
  <2> QED
    BY <2>1, <2>2 DEF PressInv, TypeOK
<1>5. ASSUME NEW i \in Installations,
             \/ ReadForNotes(i) \/ WriteNotes(i) \/ PushInstallation(i)
             \/ \E date \in OfficeDates, interval \in Intervals : PullInstallation(i, date, interval)
             \/ \E date \in OfficeDates : PullNewOrder(i, date)
             \/ \E k \in DOMAIN orders[i] :
                   \/ PushOrder(i, k)
                   \/ \E date \in OfficeDates, status \in {"open", "cancelled", "deleted"} :
                         PullOrder(i, k, date, status)
      PROVE  PressInv'
  BY <1>5, PressesRest DEF ReadForNotes, WriteNotes, PushInstallation, PullInstallation,
     PullNewOrder, PushOrder, PullOrder, MayPull
<1>6. ASSUME NEW day \in Days, NextDay(day) PROVE PressInv'
  BY <1>6, PressesRest DEF NextDay
<1>7. ASSUME Kill PROVE PressInv'
  BY <1>7 DEF Kill, PressInv
<1>8. ASSUME UNCHANGED vars PROVE PressInv'
  BY <1>8, PressesRest DEF vars
<1> QED
  BY <1>1, <1>2, <1>3, <1>4, <1>5, <1>6, <1>7, <1>8 DEF Next, PressStep
-----------------------------------------------------------------------------
(* The service dates are dates of the day in UTC as well, if those of the   *)
(* office are; the hour of a date never changes.                           *)

OfficeHours == \A d \in OfficeDates : IsDaytime(d)

DaytimeInv ==
    /\ \A i \in Installations : /\ IsDaytime(installations[i].next)
                                /\ \A row \in notes[i] : IsDaytime(row.next)
    /\ \A p \in Presses : /\ \A c \in copies[p] : IsDaytime(c.due)
                          /\ \A t \in plan[p] : IsDaytime(t.due) /\ IsDaytime(t.next)

LEMMA DaytimeInit == ASSUME OfficeHours, Init PROVE DaytimeInv
BY OfficeDatesAreMoments DEF Init, OfficeHours, DaytimeInv

LEMMA AdvancedDaytime ==
    ASSUME NEW p, NEW t \in Plan, IsDaytime(t.next)
    PROVE  IsDaytime(Advanced(p, t).next)
<1>1. t.next \in Moment /\ t.interval \in Nat
  BY OfficeDatesAreMoments DEF Plan
<1>2. AddMonths(t.next, t.interval).hour = t.next.hour
  BY <1>1, AddMonthsLater
<1>3. IsDaytime(AddMonths(t.next, t.interval))
  BY <1>2 DEF IsDaytime
<1> QED
  BY <1>3 DEF Advanced, Plan

LEMMA DaytimeStep ==
    ASSUME OfficeHours, TypeOK, DaytimeInv, [Next]_vars
    PROVE  DaytimeInv'
<1> USE DEF pressVars
<1>1. ASSUME NEW p \in Presses, ReadCandidates(p) PROVE DaytimeInv'
  BY <1>1 DEF ReadCandidates, TypeOK, DaytimeInv
<1>2. ASSUME NEW p \in Presses, BeginTransaction(p) PROVE DaytimeInv'
  BY <1>2 DEF BeginTransaction, TypeOK, DaytimeInv
<1>3. ASSUME NEW p \in Presses, AdvanceTerms(p) PROVE DaytimeInv'
  <2>1. \A t \in plan[p] : t \in Plan
    BY DEF TypeOK
  <2>2. \A t \in plan'[p] : IsDaytime(t.due) /\ IsDaytime(t.next)
    BY <1>3, <2>1, AdvancedKeeps, AdvancedDaytime DEF AdvanceTerms, TypeOK, DaytimeInv
  <2>3. /\ \A q \in Presses : q # p => plan'[q] = plan[q]
        /\ UNCHANGED <<installations, notes, copies>>
    BY <1>3 DEF AdvanceTerms, TypeOK
  <2> QED
    BY <2>2, <2>3 DEF DaytimeInv
<1>4. ASSUME NEW p \in Presses, CommitPress(p) PROVE DaytimeInv'
  <2>1. \A i \in Installations : IsDaytime(installations'[i].next)
    <3> SUFFICES ASSUME NEW i \in Installations PROVE IsDaytime(installations'[i].next)
      OBVIOUS
    <3>1. CASE {t \in plan[p] : t.installation = i} = {}
      BY <1>4, <3>1 DEF CommitPress, DaytimeInv
    <3>2. CASE {t \in plan[p] : t.installation = i} # {}
      <4>1. PICK u \in plan[p] : u = CHOOSE t \in plan[p] : t.installation = i
        BY <3>2
      <4>2. installations'[i].next = u.next
        BY <1>4, <3>2, <4>1 DEF CommitPress
      <4> QED
        BY <4>1, <4>2 DEF DaytimeInv
    <3> QED
      BY <3>1, <3>2
  <2>2. plan' = [plan EXCEPT ![p] = {}] /\ UNCHANGED <<notes, copies>>
    BY <1>4 DEF CommitPress
  <2> QED
    BY <2>1, <2>2 DEF TypeOK, DaytimeInv
<1>5. ASSUME NEW i \in Installations, ReadForNotes(i) \/ WriteNotes(i) \/ PushInstallation(i)
      PROVE  DaytimeInv'
  <2>1. CASE ReadForNotes(i)
    BY <2>1 DEF ReadForNotes, TypeOK, DaytimeInv
  <2>2. CASE WriteNotes(i)
    <3>1. PICK row \in notes[i] :
             installations' = [installations EXCEPT ![i] = [row EXCEPT !.sync = "unsent"]]
      BY <2>2 DEF WriteNotes
    <3>2. row \in Row
      BY DEF TypeOK
    <3>3. [row EXCEPT !.sync = "unsent"].next = row.next
      BY <3>2 DEF Row
    <3> QED
      BY <2>2, <3>1, <3>3 DEF WriteNotes, TypeOK, DaytimeInv
  <2>3. CASE PushInstallation(i)
    <3>1. \A j \in Installations : installations'[j].next = installations[j].next
      BY <2>3 DEF PushInstallation, TypeOK, Row
    <3> QED
      BY <2>3, <3>1 DEF PushInstallation, DaytimeInv
  <2> QED
    BY <1>5, <2>1, <2>2, <2>3
<1>6. ASSUME NEW i \in Installations, NEW date \in OfficeDates, NEW interval \in Intervals,
             PullInstallation(i, date, interval)
      PROVE  DaytimeInv'
  <2>1. \A j \in Installations : installations'[j].next \in {installations[j].next, date}
    BY <1>6 DEF PullInstallation, TypeOK, Row
  <2> QED
    BY <1>6, <2>1 DEF PullInstallation, OfficeHours, DaytimeInv
<1>7. ASSUME NEW i \in Installations,
             \/ \E date \in OfficeDates : PullNewOrder(i, date)
             \/ \E k \in DOMAIN orders[i] :
                   \/ PushOrder(i, k)
                   \/ \E date \in OfficeDates, status \in {"open", "cancelled", "deleted"} :
                         PullOrder(i, k, date, status)
      PROVE  DaytimeInv'
  BY <1>7 DEF PullNewOrder, PushOrder, PullOrder, DaytimeInv
<1>8. ASSUME NEW day \in Days, NextDay(day) PROVE DaytimeInv'
  BY <1>8 DEF NextDay, DaytimeInv
<1>9. ASSUME Kill PROVE DaytimeInv'
  BY <1>9 DEF Kill, DaytimeInv
<1>10. ASSUME UNCHANGED vars PROVE DaytimeInv'
  BY <1>10 DEF vars, DaytimeInv
<1> QED
  BY <1>1, <1>2, <1>3, <1>4, <1>5, <1>6, <1>7, <1>8, <1>9, <1>10 DEF Next, PressStep

-----------------------------------------------------------------------------
(* One order per term.                                                     *)

\* An order that nobody has touched is open, on the date it was made for.
KeptInv ==
    \A i \in Installations : \A k \in DOMAIN orders[i] :
        orders[i][k].kept =>
            /\ orders[i][k].status = "open"
            /\ \E m \in Moment : /\ IsDaytime(m) /\ orders[i][k].due = {m}
                                 /\ SameDate(orders[i][k].start, m)

LEMMA DaytimeDate ==
    ASSUME NEW m \in Moment, IsDaytime(m) PROVE UtcDate(m) = m
<1>1. m.month \in 1 .. 12 /\ m.hour \in 0 .. 23
  BY DEF Moment
<1>2. UtcOffset[m.month] \in 0 .. 12 /\ m.hour >= UtcOffset[m.month]
  BY <1>1, OffsetAssumption DEF OffsetAssumption, IsDaytime
<1> QED
  BY <1>1, <1>2 DEF UtcDate

LEMMA NewOrderIsKept ==
    ASSUME NEW due \in Moment
    PROVE  LET o == NewOrder(due)
           IN  o.status = "open" /\ o.kept /\ o.due = {due} /\ SameDate(o.start, due)
<1>1. /\ NewOrder(due).start.year = due.year /\ NewOrder(due).start.month = due.month
      /\ NewOrder(due).start.day = due.day
  BY DEF NewOrder, Moment
<1> QED
  BY <1>1 DEF NewOrder, SameDate, MonthIndex

\* What a commit does to the orders of one installation.
LEMMA CommitOrders ==
    ASSUME TypeOK, PressInv, NEW p \in Presses, CommitPress(p), NEW i \in Installations
    PROVE  \/ /\ orders'[i] = orders[i] /\ installations'[i] = installations[i]
              /\ \A t \in plan[p] : t.installation # i
           \/ \E t \in plan[p] :
                 /\ t.installation = i
                 /\ orders'[i] = Append(orders[i], NewOrder(t.due))
                 /\ installations'[i] = [next |-> t.next, interval |-> t.interval,
                                         sync |-> "unsent"]
<1>1. CASE {t \in plan[p] : t.installation = i} = {}
  BY <1>1 DEF CommitPress
<1>2. CASE {t \in plan[p] : t.installation = i} # {}
  <2>1. PICK u \in plan[p] : u.installation = i /\ u = CHOOSE t \in plan[p] : t.installation = i
    BY <1>2
  <2>2. /\ orders'[i] = Append(orders[i], NewOrder(u.due))
        /\ installations'[i] = [next |-> u.next, interval |-> u.interval, sync |-> "unsent"]
    BY <1>2, <2>1 DEF CommitPress
  <2> QED
    BY <2>1, <2>2
<1> QED
  BY <1>1, <1>2

OrderInv == KeptInv /\ OneOrderPerTerm

LEMMA OrderInit == Init => OrderInv
BY DEF Init, OrderInv, KeptInv, OneOrderPerTerm

\* Orders of which only the sync status changes, or one of which is touched.
LEMMA OrdersTouched ==
    ASSUME OrderInv, NEW i \in Installations, NEW k \in DOMAIN orders[i], NEW o,
           orders \in [Installations -> Seq(Order)],
           orders' = [orders EXCEPT ![i] = [orders[i] EXCEPT ![k] = o]],
           \/ o.kept = FALSE
           \/ /\ o.kept = orders[i][k].kept /\ o.due = orders[i][k].due
              /\ o.status = orders[i][k].status /\ o.start = orders[i][k].start
    PROVE  OrderInv'
<1>1. /\ DOMAIN orders' = DOMAIN orders
      /\ \A j \in Installations : DOMAIN orders'[j] = DOMAIN orders[j]
  OBVIOUS
<1>2. \A j \in Installations : \A m \in DOMAIN orders[j] :
         orders'[j][m] = IF j = i /\ m = k THEN o ELSE orders[j][m]
  OBVIOUS
<1>3. \A j \in Installations : \A m \in DOMAIN orders[j] :
         orders'[j][m].kept => /\ orders[j][m].kept
                               /\ orders'[j][m].due = orders[j][m].due
                               /\ orders'[j][m].status = orders[j][m].status
                               /\ orders'[j][m].start = orders[j][m].start
  BY <1>2
<1>4. KeptInv'
  <2> SUFFICES ASSUME NEW j \in Installations, NEW m \in DOMAIN orders'[j], orders'[j][m].kept
               PROVE  /\ orders'[j][m].status = "open"
                      /\ \E t \in Moment : /\ IsDaytime(t) /\ orders'[j][m].due = {t}
                                           /\ SameDate(orders'[j][m].start, t)
    BY DEF KeptInv
  <2>1. m \in DOMAIN orders[j]
    BY <1>1
  <2>2. /\ orders[j][m].status = "open"
        /\ \E t \in Moment : /\ IsDaytime(t) /\ orders[j][m].due = {t}
                             /\ SameDate(orders[j][m].start, t)
    BY <1>3, <2>1 DEF OrderInv, KeptInv
  <2> QED
    BY <1>3, <2>1, <2>2
<1>5. OneOrderPerTerm'
  <2> SUFFICES ASSUME NEW j \in Installations,
                      NEW m \in DOMAIN orders'[j], NEW l \in DOMAIN orders'[j],
                      orders'[j][m].kept, orders'[j][l].kept,
                      orders'[j][m].due \cap orders'[j][l].due # {}
               PROVE  m = l
    BY DEF OneOrderPerTerm
  <2>1. m \in DOMAIN orders[j] /\ l \in DOMAIN orders[j]
    BY <1>1
  <2> QED
    BY <1>3, <2>1 DEF OrderInv, OneOrderPerTerm
<1> QED
  BY <1>4, <1>5 DEF OrderInv

\* An order that is appended is no second one for its term.
LEMMA OrderAdded ==
    ASSUME TypeOK, OrderInv, NEW i \in Installations, NEW o \in Order,
           o.kept => \E m \in Moment : /\ IsDaytime(m) /\ o.due = {m} /\ o.status = "open"
                                       /\ SameDate(o.start, m) /\ ~HasOrder(i, m)
    PROVE  LET list == Append(orders[i], o)
           IN  /\ \A k \in DOMAIN list : list[k].kept =>
                     /\ list[k].status = "open"
                     /\ \E m \in Moment : /\ IsDaytime(m) /\ list[k].due = {m}
                                          /\ SameDate(list[k].start, m)
               /\ \A j, k \in DOMAIN list :
                     list[j].kept /\ list[k].kept /\ list[j].due \cap list[k].due # {} => j = k
<1> DEFINE list == Append(orders[i], o)
           n == Len(orders[i])
<1>1. orders[i] \in Seq(Order) /\ n \in Nat
  BY DEF TypeOK
<1>2. /\ DOMAIN list = 1 .. n + 1 /\ DOMAIN orders[i] = 1 .. n
      /\ \A k \in 1 .. n : list[k] = orders[i][k]
      /\ list[n + 1] = o
  BY <1>1
<1>3. ASSUME NEW k \in 1 .. n, orders[i][k].kept, o.kept
      PROVE  orders[i][k].due \cap o.due = {}
  <2>1. PICK m \in Moment : /\ IsDaytime(m) /\ o.due = {m} /\ ~HasOrder(i, m)
    BY <1>3
  <2>2. ~SameDate(orders[i][k].start, m)
    <3>1. UtcDate(m) = m
      BY <2>1, DaytimeDate
    <3>2. orders[i][k].status = "open"
      BY <1>2, <1>3 DEF OrderInv, KeptInv
    <3> QED
      BY <1>2, <2>1, <3>1, <3>2 DEF HasOrder, OrderStands
  <2>3. m \notin orders[i][k].due
    BY <1>2, <1>3, <2>2 DEF OrderInv, KeptInv
  <2> QED
    BY <2>1, <2>3
<1>4. ASSUME NEW k \in 1 .. n + 1, list[k].kept
      PROVE  /\ list[k].status = "open"
             /\ \E m \in Moment : /\ IsDaytime(m) /\ list[k].due = {m}
                                  /\ SameDate(list[k].start, m)
  <2>1. CASE k \in 1 .. n
    BY <1>2, <1>4, <2>1 DEF OrderInv, KeptInv
  <2>2. CASE k = n + 1
    BY <1>2, <1>4, <2>2
  <2> QED
    BY <1>1, <2>1, <2>2
<1>5. ASSUME NEW j \in 1 .. n + 1, NEW k \in 1 .. n + 1, list[j].kept, list[k].kept,
             list[j].due \cap list[k].due # {}
      PROVE  j = k
  <2>1. CASE j \in 1 .. n /\ k \in 1 .. n
    BY <1>2, <1>5, <2>1 DEF OrderInv, OneOrderPerTerm
  <2>2. CASE j \in 1 .. n /\ k = n + 1
    BY <1>2, <1>3, <1>5, <2>2
  <2>3. CASE j = n + 1 /\ k \in 1 .. n
    BY <1>2, <1>3, <1>5, <2>3
  <2> QED
    BY <1>1, <2>1, <2>2, <2>3
<1> QED
  BY <1>2, <1>4, <1>5

\* Every step: orders are appended where none stood, touched, or left alone.
LEMMA OrderStep ==
    ASSUME OfficeHours, TypeOK, PressInv, DaytimeInv, OrderInv, [Next]_vars
    PROVE  OrderInv'
<1>1. ASSUME UNCHANGED orders PROVE OrderInv'
  BY <1>1 DEF OrderInv, KeptInv, OneOrderPerTerm
<1>2. ASSUME \A i \in Installations :
                \/ orders'[i] = orders[i]
                \/ \E o \in Order :
                      /\ orders'[i] = Append(orders[i], o)
                      /\ o.kept => \E m \in Moment :
                                     /\ IsDaytime(m) /\ o.due = {m} /\ o.status = "open"
                                     /\ SameDate(o.start, m) /\ ~HasOrder(i, m)
      PROVE  OrderInv'
  <2>1. ASSUME NEW i \in Installations
        PROVE  /\ \A k \in DOMAIN orders'[i] : orders'[i][k].kept =>
                     /\ orders'[i][k].status = "open"
                     /\ \E m \in Moment : /\ IsDaytime(m) /\ orders'[i][k].due = {m}
                                          /\ SameDate(orders'[i][k].start, m)
               /\ \A j, k \in DOMAIN orders'[i] :
                     orders'[i][j].kept /\ orders'[i][k].kept
                     /\ orders'[i][j].due \cap orders'[i][k].due # {} => j = k
    <3>1. CASE orders'[i] = orders[i]
      BY <3>1 DEF OrderInv, KeptInv, OneOrderPerTerm
    <3>2. CASE orders'[i] # orders[i]
      <4>1. PICK o \in Order :
               /\ orders'[i] = Append(orders[i], o)
               /\ o.kept => \E m \in Moment :
                              /\ IsDaytime(m) /\ o.due = {m} /\ o.status = "open"
                              /\ SameDate(o.start, m) /\ ~HasOrder(i, m)
        BY <1>2, <3>2
      <4> QED
        BY <4>1, OrderAdded
    <3> QED
      BY <3>1, <3>2
  <2> QED
    BY <2>1 DEF OrderInv, KeptInv, OneOrderPerTerm
<1>3. ASSUME NEW p \in Presses, CommitPress(p) PROVE OrderInv'
  <2>1. ASSUME NEW i \in Installations, NEW t \in plan[p], t.installation = i
        PROVE  LET o == NewOrder(t.due)
               IN  /\ o \in Order
                   /\ \E m \in Moment : /\ IsDaytime(m) /\ o.due = {m} /\ o.status = "open"
                                        /\ SameDate(o.start, m) /\ ~HasOrder(i, m)
    <3>1. t.due \in Moment /\ IsDaytime(t.due) /\ ~HasOrder(i, t.due)
      BY <2>1 DEF TypeOK, Plan, DaytimeInv, PressInv
    <3> QED
      BY <3>1, NewOrderIsKept, NewOrderType
  <2>2. ASSUME NEW i \in Installations
        PROVE  \/ orders'[i] = orders[i]
               \/ \E o \in Order :
                     /\ orders'[i] = Append(orders[i], o)
                     /\ o.kept => \E m \in Moment :
                                    /\ IsDaytime(m) /\ o.due = {m} /\ o.status = "open"
                                    /\ SameDate(o.start, m) /\ ~HasOrder(i, m)
    <3>1. CASE orders'[i] = orders[i]
      BY <3>1
    <3>2. CASE orders'[i] # orders[i]
      <4>1. PICK t \in plan[p] : /\ t.installation = i
                                 /\ orders'[i] = Append(orders[i], NewOrder(t.due))
        BY <1>3, <3>2, CommitOrders
      <4> QED
        BY <4>1, <2>1
    <3> QED
      BY <3>1, <3>2
  <2> QED
    BY <1>2, <2>2
<1>4. ASSUME NEW i \in Installations, NEW date \in OfficeDates, PullNewOrder(i, date)
      PROVE  OrderInv'
  <2> DEFINE o == [start |-> date, status |-> "open", sync |-> "synced",
                   due |-> {}, kept |-> FALSE]
  <2>1. o \in Order /\ ~o.kept
    BY OfficeDatesAreMoments DEF Order
  <2>2. /\ orders'[i] = Append(orders[i], o)
        /\ \A j \in Installations : j # i => orders'[j] = orders[j]
    BY <1>4 DEF PullNewOrder, TypeOK
  <2> HIDE DEF o
  <2> QED
    BY <1>2, <2>1, <2>2
<1>5. ASSUME NEW i \in Installations, NEW k \in DOMAIN orders[i], PushOrder(i, k)
      PROVE  OrderInv'
  <2> DEFINE o == [orders[i][k] EXCEPT !.sync = "synced"]
  <2>1. orders \in [Installations -> Seq(Order)] /\ orders[i][k] \in Order
    BY <1>5 DEF TypeOK
  <2>2. /\ o.kept = orders[i][k].kept /\ o.due = orders[i][k].due
        /\ o.status = orders[i][k].status /\ o.start = orders[i][k].start
    BY <2>1 DEF Order
  <2>3. orders' = [orders EXCEPT ![i] = [orders[i] EXCEPT ![k] = o]]
    BY <1>5, <2>1 DEF PushOrder
  <2> HIDE DEF o
  <2> QED
    BY <2>1, <2>2, <2>3, OrdersTouched
<1>6. ASSUME NEW i \in Installations, NEW k \in DOMAIN orders[i], NEW date \in OfficeDates,
             NEW status \in {"open", "cancelled", "deleted"}, PullOrder(i, k, date, status)
      PROVE  OrderInv'
  <2> DEFINE o == [orders[i][k] EXCEPT !.start = date, !.status = status, !.kept = FALSE]
  <2>1. orders \in [Installations -> Seq(Order)] /\ orders[i][k] \in Order
    BY <1>6 DEF TypeOK
  <2>2. o.kept = FALSE
    BY <2>1 DEF Order
  <2>3. orders' = [orders EXCEPT ![i] = [orders[i] EXCEPT ![k] = o]]
    BY <1>6, <2>1 DEF PullOrder
  <2> HIDE DEF o
  <2> QED
    BY <2>1, <2>2, <2>3, OrdersTouched
<1>7. ASSUME NEW p \in Presses, ReadCandidates(p) \/ BeginTransaction(p) \/ AdvanceTerms(p)
      PROVE  OrderInv'
  BY <1>1, <1>7 DEF ReadCandidates, BeginTransaction, AdvanceTerms
<1>8. ASSUME NEW i \in Installations,
             \/ ReadForNotes(i) \/ WriteNotes(i) \/ PushInstallation(i)
             \/ \E date \in OfficeDates, interval \in Intervals : PullInstallation(i, date, interval)
      PROVE  OrderInv'
  BY <1>1, <1>8 DEF ReadForNotes, WriteNotes, PushInstallation, PullInstallation
<1>9. ASSUME (\E day \in Days : NextDay(day)) \/ Kill \/ UNCHANGED vars PROVE OrderInv'
  BY <1>1, <1>9 DEF NextDay, Kill, vars
<1> QED
  BY <1>3, <1>4, <1>5, <1>6, <1>7, <1>8, <1>9 DEF Next, PressStep

\* A term has one order, for any number of overlapping presses, stale rows and
\* pages, as long as the office's dates are dates of the day: a plan is made
\* only where no order stands, and the database is the press's until it commits.
THEOREM OneOrder == ASSUME OfficeHours PROVE Spec => []OneOrderPerTerm
<1> DEFINE Inv == TypeOK /\ PressInv /\ DaytimeInv /\ OrderInv
<1>1. Init => Inv
  BY TypeInit, PressInit, DaytimeInit, OrderInit
<1>2. Inv /\ [Next]_vars => Inv'
  BY TypeStep, PressStepKeeps, DaytimeStep, OrderStep
<1>3. Inv => OneOrderPerTerm
  BY DEF OrderInv
<1> QED
  BY <1>1, <1>2, <1>3, PTL DEF Spec

-----------------------------------------------------------------------------
(* Dates that are left have their order.                                   *)

\* The service dates of an installation that somebody holds.
Held(i) ==
    {installations[i].next} \cup {row.next : row \in notes[i]}
    \cup {x \in Moment : \E p \in Presses :
             \/ \E c \in copies[p] : c.installation = i /\ c.due = x
             \/ \E t \in plan[p] : t.installation = i /\ t.due = x}

\* At most one of them has no order yet.
OpenInv ==
    \A i \in Installations : \A x, y \in Held(i) : x = y \/ HasOrder(i, x) \/ HasOrder(i, y)

\* When the server's pages wait for the handlers, nothing else is held.
LEMMA HeldWhenQuiet ==
    ASSUME PressInv, MayPull, ChangesDuringPress = FALSE, NEW i \in Installations
    PROVE  Held(i) = {installations[i].next}
<1>1. notes[i] = {} /\ \A p \in Presses : copies[p] = {} /\ plan[p] = {}
  BY DEF MayPull, PressInv
<1> QED
  BY <1>1 DEF Held

LEMMA OpenInit == Init => OpenInv
BY DEF Init, OpenInv, Held

\* Nothing new is held, and orders stay where they are.
LEMMA HeldShrinks ==
    ASSUME OpenInv,
           \A i \in Installations :
               /\ Held(i)' \subseteq Held(i)
               /\ \A x \in Held(i) : HasOrder(i, x) => HasOrder(i, x)'
    PROVE  OpenInv'
BY DEF OpenInv

\* An order that is appended stands beside the others.
LEMMA AppendedStand ==
    ASSUME NEW list \in Seq(Order), NEW o \in Order, NEW x
    PROVE  /\ OrderStands(list, x) => OrderStands(Append(list, o), x)
           /\ o.status = "open" /\ SameDate(o.start, UtcDate(x)) => OrderStands(Append(list, o), x)
<1>1. /\ DOMAIN Append(list, o) = 1 .. Len(list) + 1 /\ DOMAIN list = 1 .. Len(list)
      /\ \A k \in 1 .. Len(list) : Append(list, o)[k] = list[k]
      /\ Append(list, o)[Len(list) + 1] = o /\ Len(list) \in Nat
  OBVIOUS
<1> QED
  BY <1>1 DEF OrderStands

\* A commit: every date that was held has its order now.
LEMMA CommitServes ==
    ASSUME TypeOK, PressInv, DaytimeInv, OpenInv, NEW p \in Presses, CommitPress(p),
           NEW i \in Installations
    PROVE  \/ orders'[i] = orders[i] /\ installations'[i] = installations[i]
           \/ \A x \in Held(i) : OrderStands(orders'[i], x)
<1> SUFFICES ASSUME NEW t \in plan[p], t.installation = i,
                    orders'[i] = Append(orders[i], NewOrder(t.due))
             PROVE  \A x \in Held(i) : OrderStands(orders'[i], x)
  BY CommitOrders
<1>1. t.due \in Moment /\ IsDaytime(t.due) /\ ~HasOrder(i, t.due) /\ t.due \in Held(i)
  BY DEF TypeOK, Plan, DaytimeInv, PressInv, Held
<1>2. orders[i] \in Seq(Order) /\ NewOrder(t.due) \in Order
  BY <1>1, NewOrderType DEF TypeOK
<1>3. OrderStands(orders'[i], t.due)
  <2>1. UtcDate(t.due) = t.due
    BY <1>1, DaytimeDate
  <2>2. NewOrder(t.due).status = "open" /\ SameDate(NewOrder(t.due).start, t.due)
    BY <1>1, NewOrderIsKept
  <2> QED
    BY <1>2, <2>1, <2>2, AppendedStand
<1>4. ASSUME NEW x \in Held(i), x # t.due PROVE OrderStands(orders'[i], x)
  <2>1. HasOrder(i, x)
    BY <1>1, <1>4 DEF OpenInv
  <2> QED
    BY <1>2, <2>1, AppendedStand DEF HasOrder
<1> QED
  BY <1>3, <1>4

LEMMA OpenStep ==
    ASSUME ChangesDuringPress = FALSE, TypeOK, PressInv, DaytimeInv, OpenInv, [Next]_vars
    PROVE  OpenInv'
<1> USE DEF pressVars
<1>1. ASSUME NEW p \in Presses, ReadCandidates(p) PROVE OpenInv'
  <2>1. /\ UNCHANGED <<installations, orders, notes, plan>>
        /\ \A q \in Presses : q # p => copies'[q] = copies[q]
        /\ \A c \in copies'[p] : c.due = installations[c.installation].next
    BY <1>1 DEF ReadCandidates, TypeOK
  <2>2. \A i \in Installations : Held(i)' \subseteq Held(i)
    BY <2>1 DEF Held
  <2> QED
    BY <2>1, <2>2, HeldShrinks DEF HasOrder
<1>2. ASSUME NEW p \in Presses, BeginTransaction(p) PROVE OpenInv'
  <2>1. /\ UNCHANGED <<installations, orders, notes>>
        /\ \A q \in Presses : q # p => copies'[q] = copies[q] /\ plan'[q] = plan[q]
        /\ copies'[p] = {}
        /\ \A t \in plan'[p] : \E c \in copies[p] :
              t.installation = c.installation /\ t.due = c.due
    BY <1>2 DEF BeginTransaction, TypeOK
  <2>2. \A i \in Installations : Held(i)' \subseteq Held(i)
    BY <2>1 DEF Held
  <2> QED
    BY <2>1, <2>2, HeldShrinks DEF HasOrder
<1>3. ASSUME NEW p \in Presses, AdvanceTerms(p) PROVE OpenInv'
  <2>1. \A t \in plan[p] : t \in Plan
    BY DEF TypeOK
  <2>2. /\ UNCHANGED <<installations, orders, notes, copies>>
        /\ \A q \in Presses : q # p => plan'[q] = plan[q]
        /\ \A u \in plan'[p] : \E t \in plan[p] :
              u.installation = t.installation /\ u.due = t.due
    BY <1>3, <2>1, AdvancedKeeps DEF AdvanceTerms, TypeOK
  <2>3. \A i \in Installations : Held(i)' \subseteq Held(i)
    BY <2>2 DEF Held
  <2> QED
    BY <2>2, <2>3, HeldShrinks DEF HasOrder
<1>4. ASSUME NEW p \in Presses, CommitPress(p) PROVE OpenInv'
  <2>1. /\ UNCHANGED <<notes, copies>> /\ plan'[p] = {}
        /\ \A q \in Presses : q # p => plan'[q] = plan[q]
    BY <1>4 DEF CommitPress, TypeOK
  <2> SUFFICES ASSUME NEW i \in Installations, NEW x \in Held(i)', NEW y \in Held(i)'
               PROVE  x = y \/ HasOrder(i, x)' \/ HasOrder(i, y)'
    BY DEF OpenInv
  <2>2. Held(i)' \subseteq Held(i) \cup {installations'[i].next}
    BY <2>1 DEF Held
  <2>3. CASE orders'[i] = orders[i] /\ installations'[i] = installations[i]
    <3>1. Held(i)' \subseteq Held(i)
      BY <2>2, <2>3 DEF Held
    <3> QED
      BY <2>3, <3>1 DEF OpenInv, HasOrder
  <2>4. CASE \A z \in Held(i) : OrderStands(orders'[i], z)
    BY <2>2, <2>4 DEF HasOrder
  <2> QED
    BY <1>4, <2>3, <2>4, CommitServes
<1>5. ASSUME NEW i \in Installations, ReadForNotes(i) \/ WriteNotes(i) \/ PushInstallation(i)
      PROVE  OpenInv'
  <2>1. CASE ReadForNotes(i)
    <3>1. \A j \in Installations : \A row \in notes'[j] :
             row \in notes[j] \/ row = installations[j]
      BY <2>1 DEF ReadForNotes, TypeOK
    <3>2. UNCHANGED <<installations, orders, copies, plan>>
      BY <2>1 DEF ReadForNotes
    <3>3. \A j \in Installations : Held(j)' \subseteq Held(j)
      BY <3>1, <3>2 DEF Held
    <3> QED
      BY <3>2, <3>3, HeldShrinks DEF HasOrder
  <2>2. CASE WriteNotes(i)
    <3>1. PICK row \in notes[i] :
             installations' = [installations EXCEPT ![i] = [row EXCEPT !.sync = "unsent"]]
      BY <2>2 DEF WriteNotes
    <3>2. row \in Row
      BY DEF TypeOK
    <3>3. [row EXCEPT !.sync = "unsent"].next = row.next
      BY <3>2 DEF Row
    <3>4. /\ \A j \in Installations : notes'[j] \subseteq notes[j]
          /\ UNCHANGED <<orders, copies, plan>>
      BY <2>2 DEF WriteNotes, TypeOK
    <3>5. \A j \in Installations : installations'[j].next \in Held(j)
      BY <3>1, <3>3 DEF Held, TypeOK
    <3>6. \A j \in Installations : Held(j)' \subseteq Held(j)
      BY <3>4, <3>5 DEF Held
    <3> QED
      BY <3>4, <3>6, HeldShrinks DEF HasOrder
  <2>3. CASE PushInstallation(i)
    <3>1. /\ \A j \in Installations : installations'[j].next = installations[j].next
          /\ UNCHANGED <<orders, notes, copies, plan>>
      BY <2>3 DEF PushInstallation, TypeOK, Row
    <3>2. \A j \in Installations : Held(j)' \subseteq Held(j)
      BY <3>1 DEF Held
    <3> QED
      BY <3>1, <3>2, HeldShrinks DEF HasOrder
  <2> QED
    BY <1>5, <2>1, <2>2, <2>3
<1>6. ASSUME MayPull, UNCHANGED <<notes, pressVars>> PROVE OpenInv'
  <2>1. \A i \in Installations :
           notes'[i] = {} /\ \A p \in Presses : copies'[p] = {} /\ plan'[p] = {}
    BY <1>6 DEF MayPull, PressInv
  <2>2. \A i \in Installations : Held(i)' = {installations'[i].next}
    BY <2>1 DEF Held
  <2> QED
    BY <2>2 DEF OpenInv
<1>7. ASSUME NEW i \in Installations,
             \/ \E date \in OfficeDates : PullNewOrder(i, date)
             \/ \E date \in OfficeDates, interval \in Intervals : PullInstallation(i, date, interval)
             \/ \E k \in DOMAIN orders[i], date \in OfficeDates,
                   status \in {"open", "cancelled", "deleted"} : PullOrder(i, k, date, status)
      PROVE  OpenInv'
  BY <1>6, <1>7 DEF PullNewOrder, PullInstallation, PullOrder
<1>8. ASSUME NEW i \in Installations, NEW k \in DOMAIN orders[i], PushOrder(i, k)
      PROVE  OpenInv'
  <2>1. UNCHANGED <<installations, notes, copies, plan>>
    BY <1>8 DEF PushOrder
  <2>2. ASSUME NEW j \in Installations, NEW x, HasOrder(j, x) PROVE HasOrder(j, x)'
    <3>1. orders[i] \in Seq(Order) /\ orders[i][k] \in Order
      BY <1>8 DEF TypeOK
    <3>2. /\ DOMAIN orders'[j] = DOMAIN orders[j]
          /\ \A m \in DOMAIN orders[j] : orders'[j][m].status = orders[j][m].status
                                         /\ orders'[j][m].start = orders[j][m].start
      BY <1>8, <3>1 DEF PushOrder, TypeOK, Order
    <3> QED
      BY <2>2, <3>2 DEF HasOrder, OrderStands
  <2>3. \A j \in Installations : Held(j)' \subseteq Held(j)
    BY <2>1 DEF Held
  <2> QED
    BY <2>2, <2>3, HeldShrinks
<1>9. ASSUME NEW day \in Days, NextDay(day) PROVE OpenInv'
  <2>1. UNCHANGED <<installations, orders, notes, copies, plan>>
    BY <1>9 DEF NextDay
  <2>2. \A j \in Installations : Held(j)' \subseteq Held(j)
    BY <2>1 DEF Held
  <2> QED
    BY <2>1, <2>2, HeldShrinks DEF HasOrder
<1>10. ASSUME Kill PROVE OpenInv'
  <2>1. \A j \in Installations : Held(j)' \subseteq Held(j)
    BY <1>10 DEF Kill, Held
  <2> QED
    BY <1>10, <2>1, HeldShrinks DEF Kill, HasOrder
<1>11. ASSUME UNCHANGED vars PROVE OpenInv'
  <2>1. UNCHANGED <<installations, orders, notes, copies, plan>>
    BY <1>11 DEF vars
  <2>2. \A j \in Installations : Held(j)' \subseteq Held(j)
    BY <2>1 DEF Held
  <2> QED
    BY <2>1, <2>2, HeldShrinks DEF HasOrder
<1> QED
  BY <1>1, <1>2, <1>3, <1>4, <1>5, <1>7, <1>8, <1>9, <1>10, <1>11 DEF Next, PressStep

\* Only a commit moves a date on, and it leaves an order on the date.
LEMMA MovedOnServes ==
    ASSUME TypeOK, PressInv, DaytimeInv, OpenInv, [Next]_vars,
           NEW i \in Installations, MovedOn(i)
    PROVE  OrderStands(orders'[i], installations[i].next)
<1> USE DEF pressVars
<1>1. installations'[i].next # installations[i].next /\ installations'[i].sync = "unsent"
      /\ notes' = notes
  BY DEF MovedOn
<1>2. ASSUME NEW p \in Presses, CommitPress(p)
      PROVE  OrderStands(orders'[i], installations[i].next)
  BY <1>1, <1>2, CommitServes DEF Held
<1>3. ASSUME NEW p \in Presses, ReadCandidates(p) \/ BeginTransaction(p) \/ AdvanceTerms(p)
      PROVE  FALSE
  BY <1>1, <1>3 DEF ReadCandidates, BeginTransaction, AdvanceTerms
<1>4. ASSUME NEW j \in Installations, WriteNotes(j) PROVE FALSE
  BY <1>1, <1>4 DEF WriteNotes, TypeOK
<1>5. ASSUME NEW j \in Installations, ReadForNotes(j) \/ PushInstallation(j) PROVE FALSE
  BY <1>1, <1>5 DEF ReadForNotes, PushInstallation, TypeOK, Row
<1>6. ASSUME NEW j \in Installations, NEW date \in OfficeDates, NEW interval \in Intervals,
             PullInstallation(j, date, interval)
      PROVE  FALSE
  BY <1>1, <1>6 DEF PullInstallation, TypeOK, Row
<1>7. ASSUME UNCHANGED installations PROVE FALSE
  BY <1>1, <1>7
<1> QED
  BY <1>2, <1>3, <1>4, <1>5, <1>6, <1>7
     DEF Next, PressStep, PullNewOrder, PushOrder, PullOrder, NextDay, Kill, vars

\* No date is left without its order, for any overlap of presses and notes,
\* while the server's pages wait for them: of all the dates held for an
\* installation, at most one has no order, and that is the one a press serves.
THEOREM DatesAreServed ==
    ASSUME OfficeHours, ChangesDuringPress = FALSE
    PROVE  Spec => TermsLeaveAnOrder
<1> DEFINE Inv == TypeOK /\ PressInv /\ DaytimeInv /\ OpenInv
           Served == \A i \in Installations :
                        MovedOn(i) => OrderStands(orders'[i], installations[i].next)
<1>1. Init => Inv
  BY TypeInit, PressInit, DaytimeInit, OpenInit
<1>2. Inv /\ [Next]_vars => Inv'
  BY TypeStep, PressStepKeeps, DaytimeStep, OpenStep
<1>3. Inv /\ [Next]_vars => Served
  BY MovedOnServes
<1>4. Spec => [][Served]_vars
  <2> HIDE DEF Inv, Served
  <2> QED
    BY <1>1, <1>2, <1>3, PTL DEF Spec
<1> QED
  BY <1>4 DEF TermsLeaveAnOrder

-----------------------------------------------------------------------------
(* The service dates follow the interval.                                  *)

FollowInv ==
    /\ \A i \in Installations :
          /\ Follows(installations[i].next, installations[i].interval, anchor[i])
          /\ \A row \in notes[i] : Follows(row.next, row.interval, anchor[i])
    /\ \A p \in Presses :
          /\ \A c \in copies[p] :
                c.interval > 0 /\ Follows(c.due, c.interval, anchor[c.installation])
          /\ \A t \in plan[p] :
                t.interval > 0 /\ Follows(t.next, t.interval, anchor[t.installation])

\* The date itself follows after no interval.
LEMMA FollowsItself ==
    ASSUME NEW date \in OfficeDates, NEW interval \in Intervals
    PROVE  Follows(date, interval, date)
<1>1. /\ date \in Moment /\ interval \in Nat
      /\ date.day <= DaysInMonth(date.year, date.month)
  BY RecurringAssumption DEF RecurringAssumption
<1>2. MonthIndex(date) - MonthIndex(date) = 0
  BY <1>1 DEF MonthIndex, Moment
<1>3. 0 * interval = 0 /\ 0 \in 0 .. 0
  BY <1>1
<1>4. date.day \in Nat
  BY <1>1 DEF Moment
<1> QED
  BY <1>1, <1>2, <1>3, <1>4 DEF Follows

LEMMA OneMoreInterval ==
    ASSUME NEW k \in Nat, NEW n \in Nat PROVE (k + 1) * n = k * n + n
OBVIOUS

\* One interval more, when there is one.
LEMMA FollowsOn ==
    ASSUME NEW t \in Moment, NEW n \in Nat, n > 0, NEW start \in Moment, Follows(t, n, start)
    PROVE  Follows(AddMonths(t, n), n, start)
<1> DEFINE u == AddMonths(t, n)
           months == MonthIndex(t) - MonthIndex(start)
<1>1. /\ u \in Moment /\ MonthIndex(u) = MonthIndex(t) + n
      /\ u.day <= DaysInMonth(u.year, u.month)
      /\ u.day <= t.day /\ (u.day = t.day \/ u.day >= 28)
  BY AddMonthsLater
<1>2. MonthIndex(t) \in Int /\ MonthIndex(start) \in Int /\ months \in Int
  BY DEF MonthIndex, Moment
<1>3. PICK k \in 0 .. months : months = k * n
  BY DEF Follows
<1>4. k \in Nat /\ months \in Nat
  BY <1>2, <1>3
<1>5. (k + 1) * n = months + n
  BY <1>3, <1>4, OneMoreInterval
<1>6. k + 1 \in 0 .. (months + n)
  BY <1>2, <1>3, <1>4
<1>7. MonthIndex(u) - MonthIndex(start) = months + n
  BY <1>1, <1>2
<1>8. t.day \in Int /\ u.day \in Int /\ start.day \in Int
  BY <1>1 DEF Moment
<1>9. u.day <= start.day /\ (u.day = start.day \/ u.day >= 28)
  BY <1>1, <1>8 DEF Follows
<1> HIDE DEF u, months
<1>10. \E j \in 0 .. (MonthIndex(u) - MonthIndex(start)) : MonthIndex(u) - MonthIndex(start) = j * n
  BY <1>5, <1>6, <1>7
<1> QED
  BY <1>1, <1>9, <1>10 DEF Follows, u

LEMMA FollowInit == Init => FollowInv
<1> SUFFICES ASSUME Init PROVE FollowInv
  OBVIOUS
<1>1. ASSUME NEW i \in Installations
      PROVE  Follows(installations[i].next, installations[i].interval, anchor[i])
  <2>1. /\ installations[i].next = FirstDate[i] /\ anchor[i] = FirstDate[i]
        /\ installations[i].interval \in Intervals
    BY DEF Init
  <2> QED
    BY <2>1, FollowsItself, OfficeDatesAreMoments
<1> QED
  BY <1>1 DEF Init, FollowInv

LEMMA AdvancedFollows ==
    ASSUME NEW p, NEW t \in Plan, NEW start \in Moment, t.interval > 0,
           Follows(t.next, t.interval, start)
    PROVE  Follows(Advanced(p, t).next, t.interval, start)
<1>1. t.next \in Moment /\ t.interval \in Nat
  BY OfficeDatesAreMoments DEF Plan
<1>2. Follows(AddMonths(t.next, t.interval), t.interval, start)
  BY <1>1, FollowsOn
<1> QED
  BY <1>2 DEF Advanced, Plan

LEMMA FollowStep ==
    ASSUME ChangesDuringPress = FALSE, TypeOK, PressInv, FollowInv, [Next]_vars
    PROVE  FollowInv'
<1> USE DEF pressVars
<1>1. ASSUME NEW p \in Presses, ReadCandidates(p) PROVE FollowInv'
  <2>1. \A c \in copies'[p] :
           c.interval > 0 /\ Follows(c.due, c.interval, anchor[c.installation])
    <3> SUFFICES ASSUME NEW c \in copies'[p]
                 PROVE  c.interval > 0 /\ Follows(c.due, c.interval, anchor[c.installation])
      OBVIOUS
    <3>1. PICK i \in Installations :
             /\ IsDue(i, today)
             /\ c = [installation |-> i, interval |-> installations[i].interval,
                     due |-> installations[i].next]
      BY <1>1 DEF ReadCandidates, TypeOK
    <3> QED
      BY <3>1 DEF IsDue, FollowInv
  <2>2. /\ \A q \in Presses : q # p => copies'[q] = copies[q]
        /\ UNCHANGED <<installations, notes, plan, anchor>>
    BY <1>1 DEF ReadCandidates, TypeOK
  <2> QED
    BY <2>1, <2>2 DEF FollowInv
<1>2. ASSUME NEW p \in Presses, BeginTransaction(p) PROVE FollowInv'
  <2>1. \A t \in plan'[p] : \E c \in copies[p] :
           t.installation = c.installation /\ t.interval = c.interval /\ t.next = c.due
    BY <1>2 DEF BeginTransaction, TypeOK
  <2>2. /\ \A q \in Presses : q # p => plan'[q] = plan[q] /\ copies'[q] = copies[q]
        /\ copies'[p] = {} /\ UNCHANGED <<installations, notes, anchor>>
    BY <1>2 DEF BeginTransaction, TypeOK
  <2> QED
    BY <2>1, <2>2 DEF FollowInv
<1>3. ASSUME NEW p \in Presses, AdvanceTerms(p) PROVE FollowInv'
  <2>1. /\ plan'[p] = {Advanced(p, t) : t \in plan[p]}
        /\ \A q \in Presses : q # p => plan'[q] = plan[q]
        /\ UNCHANGED <<installations, notes, copies, anchor>>
    BY <1>3 DEF AdvanceTerms, TypeOK
  <2>2. ASSUME NEW u \in plan'[p]
        PROVE  u.interval > 0 /\ Follows(u.next, u.interval, anchor[u.installation])
    <3>1. PICK t \in plan[p] : u = Advanced(p, t)
      BY <2>1
    <3>2. t \in Plan /\ anchor[t.installation] \in Moment
      BY OfficeDatesAreMoments DEF TypeOK, Plan
    <3>3. u.installation = t.installation /\ u.interval = t.interval
      BY <3>1, <3>2, AdvancedKeeps
    <3>4. t.interval > 0 /\ Follows(t.next, t.interval, anchor[t.installation])
      BY DEF FollowInv
    <3> QED
      BY <3>1, <3>2, <3>3, <3>4, AdvancedFollows
  <2> QED
    BY <2>1, <2>2 DEF FollowInv
<1>4. ASSUME NEW p \in Presses, CommitPress(p) PROVE FollowInv'
  <2>1. ASSUME NEW i \in Installations
        PROVE  Follows(installations'[i].next, installations'[i].interval, anchor[i])
    <3>1. CASE installations'[i] = installations[i]
      BY <3>1 DEF FollowInv
    <3>2. CASE installations'[i] # installations[i]
      <4>1. PICK t \in plan[p] :
               /\ t.installation = i
               /\ installations'[i] = [next |-> t.next, interval |-> t.interval, sync |-> "unsent"]
        BY <1>4, <3>2, CommitOrders
      <4> QED
        BY <4>1 DEF FollowInv
    <3> QED
      BY <3>1, <3>2
  <2>2. /\ plan'[p] = {} /\ \A q \in Presses : q # p => plan'[q] = plan[q]
        /\ UNCHANGED <<notes, copies, anchor>>
    BY <1>4 DEF CommitPress, TypeOK
  <2> QED
    BY <2>1, <2>2 DEF FollowInv
<1>5. ASSUME NEW i \in Installations, ReadForNotes(i) \/ WriteNotes(i) \/ PushInstallation(i)
      PROVE  FollowInv'
  <2>1. CASE ReadForNotes(i)
    BY <2>1 DEF ReadForNotes, TypeOK, FollowInv
  <2>2. CASE WriteNotes(i)
    <3>1. PICK row \in notes[i] :
             installations' = [installations EXCEPT ![i] = [row EXCEPT !.sync = "unsent"]]
      BY <2>2 DEF WriteNotes
    <3>2. row \in Row
      BY DEF TypeOK
    <3>3. /\ [row EXCEPT !.sync = "unsent"].next = row.next
          /\ [row EXCEPT !.sync = "unsent"].interval = row.interval
      BY <3>2 DEF Row
    <3> QED
      BY <2>2, <3>1, <3>3 DEF WriteNotes, TypeOK, FollowInv
  <2>3. CASE PushInstallation(i)
    <3>1. \A j \in Installations : /\ installations'[j].next = installations[j].next
                                   /\ installations'[j].interval = installations[j].interval
      BY <2>3 DEF PushInstallation, TypeOK, Row
    <3> QED
      BY <2>3, <3>1 DEF PushInstallation, FollowInv
  <2> QED
    BY <1>5, <2>1, <2>2, <2>3
<1>6. ASSUME NEW i \in Installations, NEW date \in OfficeDates, NEW interval \in Intervals,
             PullInstallation(i, date, interval)
      PROVE  FollowInv'
  <2>1. \A j \in Installations :
           notes'[j] = {} /\ \A p \in Presses : copies'[p] = {} /\ plan'[p] = {}
    BY <1>6 DEF PullInstallation, MayPull, PressInv
  <2>2. \A p \in Presses : copies'[p] = {} /\ plan'[p] = {}
    BY <1>6 DEF PullInstallation, MayPull, PressInv
  <2>3. /\ installations'[i].next = date /\ installations'[i].interval = interval
        /\ anchor'[i] = date
        /\ \A j \in Installations : j # i => installations'[j] = installations[j]
                                             /\ anchor'[j] = anchor[j]
    BY <1>6 DEF PullInstallation, TypeOK, Row
  <2>4. Follows(date, interval, date)
    BY FollowsItself
  <2> QED
    BY <2>1, <2>2, <2>3, <2>4 DEF FollowInv
<1>7. ASSUME NEW i \in Installations,
             \/ \E date \in OfficeDates : PullNewOrder(i, date)
             \/ \E k \in DOMAIN orders[i] :
                   \/ PushOrder(i, k)
                   \/ \E date \in OfficeDates, status \in {"open", "cancelled", "deleted"} :
                         PullOrder(i, k, date, status)
      PROVE  FollowInv'
  BY <1>7 DEF PullNewOrder, PushOrder, PullOrder, FollowInv
<1>8. ASSUME (\E day \in Days : NextDay(day)) \/ Kill \/ UNCHANGED vars PROVE FollowInv'
  BY <1>8 DEF NextDay, Kill, vars, FollowInv
<1> QED
  BY <1>1, <1>2, <1>3, <1>4, <1>5, <1>6, <1>7, <1>8 DEF Next, PressStep

\* Every service date is whole intervals after the one the office has set,
\* for every interval and date and any overlap of presses and notes, while the
\* server's pages wait for them.
THEOREM DatesFollow ==
    ASSUME ChangesDuringPress = FALSE
    PROVE  Spec => []TermsFollowTheInterval
<1> DEFINE Inv == TypeOK /\ PressInv /\ FollowInv
<1>1. Init => Inv
  BY TypeInit, PressInit, FollowInit
<1>2. Inv /\ [Next]_vars => Inv'
  BY TypeStep, PressStepKeeps, FollowStep
<1>3. Inv => TermsFollowTheInterval
  BY DEF FollowInv, TermsFollowTheInterval
<1> QED
  BY <1>1, <1>2, <1>3, PTL DEF Spec
=============================================================================
