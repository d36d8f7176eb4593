--------------------------- MODULE SyncPullProofs ---------------------------
(***************************************************************************)
(* Proofs about SyncPull for any rows, types, tenants and cursors: what is *)
(* announced, for any number of overlapping pulls and every fault, and     *)
(* what the cursor passes, for one pull at a time.                         *)
(*                                                                         *)
(* The types most proofs need are those of TypeOK without the bound of the *)
(* clock and the types a pull has left; the bounds follow at the end.      *)
(***************************************************************************)
EXTENDS SyncPull, TLAPS

Typed ==
    /\ clock \in Nat /\ clock > 0
    /\ rows \in [Rows -> [rev : Nat, at : Nat, deleted : BOOLEAN]]
    /\ writing \in [Rows -> Nat]
    /\ device \in [Rows -> [rev : Nat, status : {"none", "synced", "pending", "conflict"}]]
    /\ states \in [TypeSet -> [tenant : Tenants \cup {NoTenant}, cursor : Nat]]
    /\ session \in Tenants \cup {NoTenant}
    /\ pc \in [Pulls -> PcValues]
    /\ tenant \in [Pulls -> Tenants \cup {NoTenant}]
    /\ snap \in [Pulls -> [TypeSet -> Nat]]
    /\ page \in [Pulls -> [asof : Nat, changes : SUBSET Change]]
    /\ told \in [Rows -> Nat]

\* A page that is applied names a row once.
PageIsMap(p) ==
    pc[p] = "apply" => \A c, d \in page[p].changes : c.row = d.row => c = d

PullInv == Typed /\ \A p \in Pulls : PageIsMap(p)

LEMMA Constants ==
    /\ MaxClock \in Nat /\ TypeOf \in [Rows -> TypeSet] /\ TenantOf \in [Rows -> Tenants]
    /\ NoTenant \notin Tenants
BY PullAssumption DEF PullAssumption, TypeSet

LEMMA InitPullInv == Init => PullInv
BY Constants DEF Init, PullInv, Typed, PageIsMap, NoPage, Change, PcValues, TypeSet

\* A step that leaves the pulls alone.
LEMMA PullsUntouched ==
    ASSUME PullInv, Typed', UNCHANGED pullVars
    PROVE  PullInv'
BY DEF PullInv, PageIsMap, pullVars

LEMMA TickPullInv ==
    ASSUME PullInv, Tick
    PROVE  PullInv'
<1>1. Typed'
  BY DEF Tick, PullInv, Typed, pullVars
<1> QED
  BY <1>1, PullsUntouched DEF Tick

LEMMA WritePullInv ==
    ASSUME PullInv, NEW r \in Rows, StartWrite(r) \/ \E delete \in BOOLEAN : CommitWrite(r, delete)
    PROVE  PullInv'
<1>1. CASE StartWrite(r)
  <2>1. Typed'
    BY <1>1 DEF StartWrite, PullInv, Typed, pullVars
  <2> QED
    BY <1>1, <2>1, PullsUntouched DEF StartWrite
<1>2. ASSUME NEW delete \in BOOLEAN, CommitWrite(r, delete)
      PROVE  PullInv'
  <2>1. rows' \in [Rows -> [rev : Nat, at : Nat, deleted : BOOLEAN]]
    <3>1. rows[r] \in [rev : Nat, at : Nat, deleted : BOOLEAN] /\ writing[r] \in Nat
      BY DEF PullInv, Typed
    <3>2. (rows[r].deleted \/ delete) \in BOOLEAN
      OBVIOUS
    <3>3. PICK new : new = [rev |-> rows[r].rev + 1, at |-> writing[r],
                            deleted |-> rows[r].deleted \/ delete]
      OBVIOUS
    <3>4. new \in [rev : Nat, at : Nat, deleted : BOOLEAN]
      BY <3>1, <3>2, <3>3
    <3>5. rows' = [rows EXCEPT ![r] = new]
      BY <1>2, <3>3, Zenon DEF CommitWrite
    <3> QED
      BY <3>4, <3>5 DEF PullInv, Typed
  <2>2. Typed'
    BY <1>2, <2>1 DEF CommitWrite, PullInv, Typed, pullVars
  <2> QED
    BY <1>2, <2>2, PullsUntouched DEF CommitWrite
<1> QED
  BY <1>1, <1>2

LEMMA DevicePullInv ==
    ASSUME PullInv, NEW r \in Rows, EditLocally(r) \/ PushEdit(r)
    PROVE  PullInv'
<1>1. CASE EditLocally(r)
  <2>1. Typed'
    BY <1>1 DEF EditLocally, PullInv, Typed, pullVars
  <2> QED
    BY <1>1, <2>1, PullsUntouched DEF EditLocally
<1>2. CASE PushEdit(r)
  <2>1. /\ rows[r] \in [rev : Nat, at : Nat, deleted : BOOLEAN]
        /\ device[r] \in [rev : Nat, status : {"none", "synced", "pending", "conflict"}]
        /\ clock \in Nat
    BY DEF PullInv, Typed
  <2>2. /\ rows' \in [Rows -> [rev : Nat, at : Nat, deleted : BOOLEAN]]
        /\ device' \in [Rows -> [rev : Nat, status : {"none", "synced", "pending", "conflict"}]]
    <3>1. CASE rows[r].rev = device[r].rev
      <4>1. PICK new : new = [rev |-> rows[r].rev + 1, at |-> clock, deleted |-> rows[r].deleted]
        OBVIOUS
      <4>2. rows' = [rows EXCEPT ![r] = new]
            /\ device' = [device EXCEPT ![r] = [rev |-> device[r].rev + 1, status |-> "synced"]]
        BY <1>2, <3>1, <4>1, Zenon DEF PushEdit
      <4>3. new \in [rev : Nat, at : Nat, deleted : BOOLEAN]
        BY <2>1, <4>1
      <4> QED
        BY <2>1, <4>2, <4>3 DEF PullInv, Typed
    <3>2. CASE rows[r].rev # device[r].rev
      <4>1. rows' = rows /\ device' = [device EXCEPT ![r].status = "conflict"]
        BY <1>2, <3>2, Zenon DEF PushEdit
      <4> QED
        BY <4>1 DEF PullInv, Typed
    <3> QED
      BY <3>1, <3>2
  <2>3. Typed'
    BY <1>2, <2>2 DEF PushEdit, PullInv, Typed, pullVars
  <2> QED
    BY <1>2, <2>3, PullsUntouched DEF PushEdit
<1> QED
  BY <1>1, <1>2

LEMMA LoginPullInv ==
    ASSUME PullInv, NEW t \in Tenants, Login(t)
    PROVE  PullInv'
<1>1. Typed'
  BY DEF Login, PullInv, Typed, pullVars
<1> QED
  BY <1>1, PullsUntouched DEF Login

LEMMA KillPullInv ==
    ASSUME PullInv, Kill
    PROVE  PullInv'
<1>1. Typed'
  BY DEF Kill, PullInv, Typed, NoPage, PcValues
<1> QED
  BY <1>1 DEF Kill, PullInv, PageIsMap

\* A pull begins, fails or ends.
LEMMA RoundPullInv ==
    ASSUME PullInv, NEW p \in Pulls,
           EnsureSyncStates(p) \/ ReadStates(p) \/ PullFails(p) \/ FinishPull(p)
    PROVE  PullInv'
<1>1. CASE EnsureSyncStates(p)
  <2>1. states' \in [TypeSet -> [tenant : Tenants \cup {NoTenant}, cursor : Nat]]
    BY <1>1 DEF EnsureSyncStates, PullInv, Typed
  <2>2. Typed'
    BY <1>1, <2>1 DEF EnsureSyncStates, GoTo, PullInv, Typed, PcValues
  <2> QED
    BY <1>1, <2>2 DEF EnsureSyncStates, GoTo, PullInv, PageIsMap, Typed
<1>2. CASE ReadStates(p)
  <2>1. snap' \in [Pulls -> [TypeSet -> Nat]]
    <3>1. [t \in TypeSet |-> states[t].cursor] \in [TypeSet -> Nat]
      BY DEF PullInv, Typed
    <3> QED
      BY <1>2, <3>1 DEF ReadStates, PullInv, Typed
  <2>2. Typed'
    BY <1>2, <2>1 DEF ReadStates, GoTo, PullInv, Typed, PcValues
  <2> QED
    BY <1>2, <2>2 DEF ReadStates, GoTo, PullInv, PageIsMap, Typed
<1>3. CASE PullFails(p) \/ FinishPull(p)
  <2>1. EndPull(p) /\ UNCHANGED <<clock, rows, writing, device, states, session, told>>
    BY <1>3 DEF PullFails, FinishPull
  <2>2. Typed'
    BY <2>1 DEF EndPull, GoTo, PullInv, Typed, NoPage, PcValues
  <2> QED
    BY <2>1, <2>2 DEF EndPull, GoTo, PullInv, PageIsMap, Typed
<1> QED
  BY <1>1, <1>2, <1>3

LEMMA RequestPullInv ==
    ASSUME PullInv, NEW p \in Pulls, Request(p)
    PROVE  PullInv'
<1>1. Typed'
  BY DEF Request, GoTo, PullInv, Typed, PcValues
<1> QED
  BY <1>1 DEF Request, GoTo, PullInv, PageIsMap, Typed

LEMMA QueryPullInv ==
    ASSUME PullInv, NEW p \in Pulls, Query(p)
    PROVE  PullInv'
<1> DEFINE found == {[row |-> r, rev |-> rows[r].rev, deleted |-> rows[r].deleted] :
                         r \in {q \in Rows : Selected(p, q)}}
<1>1. found \subseteq Change /\ \A c, d \in found : c.row = d.row => c = d
  BY DEF PullInv, Typed, Change
<1>2. page' = [page EXCEPT ![p].changes = found]
  BY DEF Query
<1> HIDE DEF found
<1>3. Typed'
  BY <1>1, <1>2 DEF Query, GoTo, PullInv, Typed, PcValues
<1> QED
  BY <1>1, <1>2, <1>3 DEF Query, GoTo, PullInv, PageIsMap, Typed

\* What ApplyPage does to a row, and what stays in the page.
LEMMA ApplyFacts ==
    ASSUME PullInv, NEW p \in Pulls, ApplyPage(p)
    PROVE  /\ page' = [page EXCEPT ![p] =
                         [asof |-> 0, changes |-> {c \in page[p].changes : IsNew(p, c)}]]
           /\ DOMAIN device' = Rows
           /\ \A c \in page[p].changes : c.row \in Rows /\ device'[c.row] = Applied(device[c.row], c)
           /\ \A r \in Rows : (\A c \in page[p].changes : c.row # r) => device'[r] = device[r]
<1> DEFINE changed == {c.row : c \in page[p].changes}
           ChangeOf(r) == CHOOSE c \in page[p].changes : c.row = r
<1>1. device' = [r \in Rows |-> IF r \in changed THEN Applied(device[r], ChangeOf(r))
                                ELSE device[r]]
  BY DEF ApplyPage
<1>2. ASSUME NEW c \in page[p].changes
      PROVE  c.row \in Rows /\ ChangeOf(c.row) = c
  <2>1. c \in Change
    BY DEF PullInv, Typed
  <2>2. ChangeOf(c.row) \in page[p].changes /\ ChangeOf(c.row).row = c.row
    OBVIOUS
  <2> QED
    BY <2>1, <2>2 DEF Change, PullInv, PageIsMap, ApplyPage
<1>3. ASSUME NEW c \in page[p].changes
      PROVE  c.row \in Rows /\ device'[c.row] = Applied(device[c.row], c)
  <2>1. c.row \in changed
    OBVIOUS
  <2> HIDE DEF changed, ChangeOf
  <2> QED
    BY <1>1, <1>2, <2>1
<1>4. ASSUME NEW r \in Rows, \A c \in page[p].changes : c.row # r
      PROVE  device'[r] = device[r]
  <2>1. r \notin changed
    BY <1>4
  <2> HIDE DEF changed, ChangeOf
  <2> QED
    BY <1>1, <2>1
<1>5. DOMAIN device' = Rows
  BY <1>1
<1>6. page' = [page EXCEPT ![p] = [asof |-> 0, changes |-> {c \in page[p].changes : IsNew(p, c)}]]
  BY DEF ApplyPage
<1> QED
  BY <1>3, <1>4, <1>5, <1>6

\* The transaction that applies a page: rows of the device stay typed, and a
\* row it has it keeps.
LEMMA AppliedRow ==
    ASSUME NEW row \in [rev : Nat, status : {"none", "synced", "pending", "conflict"}],
           NEW c \in Change
    PROVE  /\ Applied(row, c) \in [rev : Nat, status : {"none", "synced", "pending", "conflict"}]
           /\ row.status # "none" => Applied(row, c).status # "none"
           /\ ~c.deleted => Applied(row, c).status # "none"
BY DEF Applied, Change

LEMMA ApplyDevice ==
    ASSUME PullInv, NEW p \in Pulls, ApplyPage(p)
    PROVE  /\ device' \in [Rows -> [rev : Nat, status : {"none", "synced", "pending", "conflict"}]]
           /\ \A r \in Rows : device[r].status # "none" => device'[r].status # "none"
           /\ \A c \in page[p].changes : ~c.deleted => device'[c.row].status # "none"
<1> DEFINE Row == [rev : Nat, status : {"none", "synced", "pending", "conflict"}]
<1>1. /\ \A r \in Rows : device[r] \in Row
      /\ \A c \in page[p].changes : c \in Change /\ c.row \in Rows
  BY DEF PullInv, Typed, Change
<1>2. ASSUME NEW c \in page[p].changes
      PROVE  /\ device'[c.row] \in Row
             /\ device[c.row].status # "none" => device'[c.row].status # "none"
             /\ ~c.deleted => device'[c.row].status # "none"
  <2>1. device[c.row] \in Row /\ c \in Change /\ device'[c.row] = Applied(device[c.row], c)
    BY <1>1, ApplyFacts
  <2> QED
    BY <2>1, AppliedRow
<1>3. ASSUME NEW r \in Rows
      PROVE  device'[r] \in Row /\ (device[r].status # "none" => device'[r].status # "none")
  <2>1. CASE \E c \in page[p].changes : c.row = r
    BY <1>2, <2>1
  <2>2. CASE \A c \in page[p].changes : c.row # r
    BY <1>1, <2>2, ApplyFacts
  <2> QED
    BY <2>1, <2>2
<1>4. device' = [r \in Rows |-> device'[r]]
  BY DEF ApplyPage
<1> QED
  BY <1>2, <1>3, <1>4

LEMMA ApplyPullInv ==
    ASSUME PullInv, NEW p \in Pulls, ApplyPage(p)
    PROVE  PullInv'
<1>1. page' \in [Pulls -> [asof : Nat, changes : SUBSET Change]]
  <2>1. {c \in page[p].changes : IsNew(p, c)} \subseteq Change
    BY DEF PullInv, Typed
  <2> QED
    BY <2>1 DEF ApplyPage, PullInv, Typed
<1>2. states' \in [TypeSet -> [tenant : Tenants \cup {NoTenant}, cursor : Nat]]
  <2>1. NextCursor(p) \in Nat /\ tenant[p] \in Tenants \cup {NoTenant}
    BY DEF NextCursor, PullInv, Typed
  <2>2. PICK state : state = [tenant |-> tenant[p], cursor |-> NextCursor(p)]
    OBVIOUS
  <2>3. states' = [states EXCEPT ![Current(p)] = state]
    BY <2>2 DEF ApplyPage
  <2> QED
    BY <2>1, <2>2, <2>3 DEF PullInv, Typed
<1>3. pc' \in [Pulls -> PcValues]
  BY DEF ApplyPage, GoTo, PullInv, Typed, PcValues
<1>4. Typed'
  BY <1>1, <1>2, <1>3, ApplyDevice DEF ApplyPage, PullInv, Typed
<1> QED
  BY <1>4 DEF ApplyPage, GoTo, PullInv, PageIsMap, Typed

LEMMA NotifyPullInv ==
    ASSUME PullInv, NEW p \in Pulls, Notify(p)
    PROVE  PullInv'
<1>1. told' \in [Rows -> Nat]
  BY DEF Notify, PullInv, Typed
<1>2. Typed'
  BY <1>1 DEF Notify, GoTo, PullInv, Typed, NoPage, PcValues
<1> QED
  BY <1>2 DEF Notify, GoTo, PullInv, PageIsMap, Typed

LEMMA NextPullInv ==
    PullInv /\ [Next]_vars => PullInv'
<1> SUFFICES ASSUME PullInv, [Next]_vars
             PROVE  PullInv'
  OBVIOUS
<1>1. CASE Tick \/ Kill
  BY <1>1, TickPullInv, KillPullInv
<1>2. ASSUME NEW r \in Rows,
             \/ StartWrite(r) \/ \E delete \in BOOLEAN : CommitWrite(r, delete)
             \/ EditLocally(r) \/ PushEdit(r)
      PROVE  PullInv'
  BY <1>2, WritePullInv, DevicePullInv
<1>3. ASSUME NEW p \in Pulls, PullStep(p) \/ PullFails(p)
      PROVE  PullInv'
  BY <1>3, RoundPullInv, RequestPullInv, QueryPullInv, ApplyPullInv, NotifyPullInv DEF PullStep
<1>4. CASE \E t \in Tenants : Login(t)
  BY <1>4, LoginPullInv
<1>5. CASE UNCHANGED vars
  BY <1>5 DEF vars, pullVars, PullInv, Typed, PageIsMap
<1> QED
  BY <1>1, <1>2, <1>3, <1>4, <1>5 DEF Next

-----------------------------------------------------------------------------
(* Announcements.  An order in the page of a pull that is about to notify  *)
(* is not new to the device any more, so that no other pull picks it up.   *)

InPage(p, r) == \E c \in page[p].changes : c.row = r

\* What is known of a row and the announcements of it.
RowAnnounced(r) ==
    /\ told[r] <= 1
    /\ device[r].status = "none" => told[r] = 0
    /\ \A p \in Pulls : pc[p] = "notify" /\ InPage(p, r) =>
          /\ told[r] = 0 /\ device[r].status # "none"
          /\ \A q \in Pulls : pc[q] = "notify" /\ InPage(q, r) => p = q

AnnouncedInv == PullInv /\ \A r \in Rows : RowAnnounced(r)

\* A step that tells nothing and brings no pull to its notifications.
LEMMA NothingTold ==
    ASSUME AnnouncedInv, PullInv', UNCHANGED told,
           \A r \in Rows : device'[r].status = "none" <=> device[r].status = "none",
           \A p \in Pulls : pc'[p] = "notify" => pc[p] = "notify" /\ page'[p] = page[p]
    PROVE  AnnouncedInv'
BY DEF AnnouncedInv, RowAnnounced, InPage

LEMMA ApplyAnnounced ==
    ASSUME AnnouncedInv, NEW p \in Pulls, ApplyPage(p)
    PROVE  AnnouncedInv'
<1>1. PullInv'
  BY ApplyPullInv DEF AnnouncedInv
<1>2. /\ told' = told
      /\ page' = [page EXCEPT ![p] =
                     [asof |-> 0, changes |-> {c \in page[p].changes : IsNew(p, c)}]]
      /\ pc' = [pc EXCEPT ![p] = "notify"] /\ pc[p] = "apply"
  BY DEF ApplyPage, GoTo
<1>3. page \in [Pulls -> [asof : Nat, changes : SUBSET Change]] /\ pc \in [Pulls -> PcValues]
  BY DEF AnnouncedInv, PullInv, Typed
<1>4. page'[p].changes = {c \in page[p].changes : IsNew(p, c)} /\ pc'[p] = "notify"
      /\ \A q \in Pulls : q # p => page'[q] = page[q] /\ pc'[q] = pc[q]
  BY <1>2, <1>3
<1>5. /\ \A r \in Rows : device[r].status # "none" => device'[r].status # "none"
      /\ \A c \in page[p].changes : ~c.deleted => device'[c.row].status # "none"
  BY ApplyDevice DEF AnnouncedInv
<1>6. ASSUME NEW r \in Rows
      PROVE  RowAnnounced(r)'
  <2>1. RowAnnounced(r)
    BY DEF AnnouncedInv
  <2>2. InPage(p, r)' => device[r].status = "none" /\ device'[r].status # "none"
    BY <1>4, <1>5 DEF InPage, IsNew
  <2>3. \A q \in Pulls : q # p => (InPage(q, r)' <=> InPage(q, r))
    BY <1>4 DEF InPage
  <2>4. told'[r] <= 1 /\ (device'[r].status = "none" => told'[r] = 0)
    BY <1>2, <1>5, <2>1 DEF RowAnnounced
  <2>5. ASSUME NEW q \in Pulls, pc'[q] = "notify", InPage(q, r)'
        PROVE  /\ told'[r] = 0 /\ device'[r].status # "none"
               /\ \A o \in Pulls : pc'[o] = "notify" /\ InPage(o, r)' => q = o
    <3>1. CASE q = p
      BY <1>2, <1>4, <2>1, <2>2, <2>3, <2>5, <3>1 DEF RowAnnounced
    <3>2. CASE q # p
      <4>1. pc[q] = "notify" /\ InPage(q, r)
        BY <1>4, <2>3, <2>5, <3>2
      <4>2. device[r].status # "none" /\ ~InPage(p, r)'
        BY <2>1, <2>2, <4>1 DEF RowAnnounced
      <4> QED
        BY <1>2, <1>4, <1>5, <2>1, <2>3, <4>1, <4>2 DEF RowAnnounced
    <3> QED
      BY <3>1, <3>2
  <2> QED
    BY <2>4, <2>5 DEF RowAnnounced
<1> QED
  BY <1>1, <1>6 DEF AnnouncedInv

LEMMA NotifyAnnounced ==
    ASSUME AnnouncedInv, NEW p \in Pulls, Notify(p)
    PROVE  AnnouncedInv'
<1>1. PullInv'
  BY NotifyPullInv DEF AnnouncedInv
<1>2. /\ page' = [page EXCEPT ![p] = NoPage] /\ pc' = [pc EXCEPT ![p] = "request"]
      /\ pc[p] = "notify" /\ device' = device
  BY DEF Notify, GoTo
<1>3. /\ page \in [Pulls -> [asof : Nat, changes : SUBSET Change]] /\ pc \in [Pulls -> PcValues]
      /\ told \in [Rows -> Nat]
  BY DEF AnnouncedInv, PullInv, Typed
<1>4. pc'[p] = "request" /\ \A q \in Pulls : q # p => page'[q] = page[q] /\ pc'[q] = pc[q]
  BY <1>2, <1>3
<1>5. ASSUME NEW r \in Rows
      PROVE  RowAnnounced(r)'
  <2>1. RowAnnounced(r)
    BY DEF AnnouncedInv
  <2>2. told'[r] = IF InPage(p, r) THEN told[r] + 1 ELSE told[r]
    BY DEF Notify, InPage
  <2>3. \A q \in Pulls : q # p => (InPage(q, r)' <=> InPage(q, r))
    BY <1>4 DEF InPage
  <2>4. CASE InPage(p, r)
    <3>1. told[r] = 0 /\ device'[r].status # "none" /\ told'[r] = 1
      BY <1>2, <1>3, <2>1, <2>2, <2>4 DEF RowAnnounced
    <3>2. \A q \in Pulls : pc'[q] = "notify" => ~InPage(q, r)'
      BY <1>2, <1>4, <2>1, <2>3, <2>4 DEF RowAnnounced
    <3> QED
      BY <3>1, <3>2 DEF RowAnnounced
  <2>5. CASE ~InPage(p, r)
    BY <1>2, <1>4, <2>1, <2>2, <2>3, <2>5 DEF RowAnnounced
  <2> QED
    BY <2>4, <2>5
<1> QED
  BY <1>1, <1>5 DEF AnnouncedInv

LEMMA NextAnnounced ==
    AnnouncedInv /\ [Next]_vars => AnnouncedInv'
<1> SUFFICES ASSUME AnnouncedInv, [Next]_vars
             PROVE  AnnouncedInv'
  OBVIOUS
<1>1. PullInv'
  BY NextPullInv DEF AnnouncedInv
<1>2. /\ pc \in [Pulls -> PcValues] /\ page \in [Pulls -> [asof : Nat, changes : SUBSET Change]]
      /\ device \in [Rows -> [rev : Nat, status : {"none", "synced", "pending", "conflict"}]]
  BY DEF AnnouncedInv, PullInv, Typed
<1>3. CASE Tick \/ Kill \/ \E t \in Tenants : Login(t)
  BY <1>1, <1>3, NothingTold DEF Tick, Kill, Login, pullVars
<1>4. ASSUME NEW r \in Rows, StartWrite(r) \/ \E delete \in BOOLEAN : CommitWrite(r, delete)
      PROVE  AnnouncedInv'
  BY <1>1, <1>4, NothingTold DEF StartWrite, CommitWrite, pullVars
<1>5. ASSUME NEW r \in Rows, EditLocally(r) \/ PushEdit(r)
      PROVE  AnnouncedInv'
  <2>1. \A x \in Rows : device'[x].status = "none" <=> device[x].status = "none"
    BY <1>2, <1>5 DEF EditLocally, PushEdit
  <2>2. UNCHANGED told /\ UNCHANGED pullVars
    BY <1>5 DEF EditLocally, PushEdit
  <2> QED
    BY <1>1, <2>1, <2>2, NothingTold DEF pullVars
<1>6. ASSUME NEW p \in Pulls, PullStep(p) \/ PullFails(p)
      PROVE  AnnouncedInv'
  <2>1. CASE ApplyPage(p) \/ Notify(p)
    BY <2>1, ApplyAnnounced, NotifyAnnounced
  <2>2. CASE EnsureSyncStates(p) \/ ReadStates(p) \/ Request(p) \/ Query(p)
             \/ PullFails(p) \/ FinishPull(p)
    <3>1. UNCHANGED <<told, device>>
      BY <2>2 DEF EnsureSyncStates, ReadStates, Request, Query, PullFails, FinishPull
    <3>2. ASSUME NEW q \in Pulls, pc'[q] = "notify"
          PROVE  pc[q] = "notify" /\ page'[q] = page[q]
      <4>1. q # p
        BY <1>2, <2>2, <3>2 DEF EnsureSyncStates, ReadStates, Request, Query, PullFails,
           FinishPull, EndPull, GoTo
      <4> QED
        BY <1>2, <2>2, <3>2, <4>1 DEF EnsureSyncStates, ReadStates, Request, Query, PullFails,
           FinishPull, EndPull, GoTo
    <3> QED
      BY <1>1, <3>1, <3>2, NothingTold
  <2> QED
    BY <1>6, <2>1, <2>2 DEF PullStep
<1>7. CASE UNCHANGED vars
  BY <1>1, <1>7, NothingTold DEF vars, pullVars
<1> QED
  BY <1>3, <1>4, <1>5, <1>6, <1>7 DEF Next

\* A new order is announced once, for any number of overlapping pulls and
\* through kills, lost replies, local edits and changes of the tenant (the
\* transaction that applies a page decides what is new).
THEOREM OrdersAnnouncedOnce == Spec => []AnnouncedOnce
<1>1. Init => AnnouncedInv
  BY InitPullInv DEF Init, AnnouncedInv, RowAnnounced
<1>2. AnnouncedInv => AnnouncedOnce
  BY DEF AnnouncedInv, RowAnnounced, AnnouncedOnce
<1> QED
  BY <1>1, <1>2, NextAnnounced, PTL DEF Spec

-----------------------------------------------------------------------------
(* What the cursor passes, for one pull at a time, one tenant on the       *)
(* device and writes that no query overtakes.                              *)

OneTenantOnePull ==
    /\ \A p, q \in Pulls : p = q
    /\ "switch" \notin Faults /\ "slow_commit" \notin Faults

\* Before the first login nothing has been pulled, later every pull is the
\* session's.
SessionInv ==
    /\ session = NoTenant => \A t \in TypeSet : states[t].cursor = 0
    /\ \A p \in Pulls : pc[p] # "idle" => session # NoTenant /\ tenant[p] = session

\* A row that was never written is nowhere.
RowInv(r) ==
    /\ rows[r].rev = 0 => device[r].rev = 0
    /\ rows[r].rev > 0 => rows[r].at > 0

\* A write that is on its way is newer than what has been pulled.
WriteInv(r) ==
    writing[r] > 0 =>
        /\ writing[r] > states[TypeOf[r]].cursor
        /\ \A p \in Pulls : pc[p] = "apply" => writing[r] > page[p].asof

GapInv(r) == TenantOf[r] = session /\ Lacks(r) => rows[r].at > states[TypeOf[r]].cursor

\* What a pull has asked with is not later than the stored cursor, which is not
\* later than the time of its page.
SnapInv(p) ==
    /\ pc[p] \in {"request", "query", "apply", "notify"} =>
          \A t \in TypeSet : snap[p][t] <= states[t].cursor
    /\ pc[p] \in {"query", "apply"} =>
          /\ page[p].asof <= clock
          /\ \A t \in TypeSet : states[t].cursor <= page[p].asof

ClockInv == \A t \in TypeSet : states[t].cursor <= clock

\* A page has every change up to its time, as it is unless it changed later.
PageInv(p) ==
    pc[p] = "apply" =>
        /\ \A c \in page[p].changes :
              /\ TypeOf[c.row] = Current(p) /\ rows[c.row].rev > 0
              /\ \/ rows[c.row].at > page[p].asof
                 \/ c.rev = rows[c.row].rev /\ c.deleted = rows[c.row].deleted
        /\ \A r \in Rows :
              /\ TypeOf[r] = Current(p) /\ TenantOf[r] = session /\ rows[r].rev > 0
              /\ rows[r].at > snap[p][TypeOf[r]]
              => rows[r].at > page[p].asof \/ InPage(p, r)

CursorInv ==
    /\ PullInv
    /\ SessionInv /\ ClockInv
    /\ \A r \in Rows : RowInv(r) /\ WriteInv(r) /\ GapInv(r)
    /\ \A p \in Pulls : SnapInv(p) /\ PageInv(p)

LEMMA TypeOfRow ==
    ASSUME NEW r \in Rows
    PROVE  TypeOf[r] \in TypeSet /\ TenantOf[r] \in Tenants /\ TenantOf[r] # NoTenant
BY Constants

LEMMA InitCursorInv == Init => CursorInv
<1> SUFFICES ASSUME Init
             PROVE  CursorInv
  OBVIOUS
<1>1. PullInv
  BY InitPullInv
<1>2. SessionInv /\ ClockInv
  BY DEF Init, SessionInv, ClockInv
<1>3. ASSUME NEW r \in Rows
      PROVE  RowInv(r) /\ WriteInv(r) /\ GapInv(r)
  BY DEF Init, RowInv, WriteInv, GapInv, Lacks
<1>4. ASSUME NEW p \in Pulls
      PROVE  SnapInv(p) /\ PageInv(p)
  BY DEF Init, SnapInv, PageInv
<1> QED
  BY <1>1, <1>2, <1>3, <1>4 DEF CursorInv

\* The types, for one row and one pull.
LEMMA RowTypes ==
    ASSUME PullInv, NEW r \in Rows
    PROVE  /\ rows[r] \in [rev : Nat, at : Nat, deleted : BOOLEAN] /\ writing[r] \in Nat
           /\ device[r] \in [rev : Nat, status : {"none", "synced", "pending", "conflict"}]
           /\ TypeOf[r] \in TypeSet /\ states[TypeOf[r]].cursor \in Nat
           /\ clock \in Nat /\ clock > 0
BY TypeOfRow DEF PullInv, Typed

LEMMA PageTypes ==
    ASSUME PullInv, NEW p \in Pulls
    PROVE  /\ page[p].asof \in Nat
           /\ \A c \in page[p].changes : c \in Change /\ c.row \in Rows /\ c.rev \in Nat
           /\ \A t \in TypeSet : snap[p][t] \in Nat /\ states[t].cursor \in Nat
BY DEF PullInv, Typed, Change

\* A row of the server is written later than everything that was pulled: the
\* gaps stay gaps and the pages stay complete.
LEMMA LaterWrite ==
    ASSUME CursorInv, PullInv', NEW r \in Rows,
           \A x \in Rows : x # r => /\ rows'[x] = rows[x] /\ device'[x] = device[x]
                                    /\ writing'[x] = writing[x],
           UNCHANGED <<clock, states, session, pullVars>>,
           writing'[r] \in {0, writing[r]},
           rows'[r].rev > 0, rows'[r].at > 0,
           rows'[r].at > states[TypeOf[r]].cursor,
           \A p \in Pulls : pc[p] = "apply" => rows'[r].at > page[p].asof
    PROVE  CursorInv'
<1>1. SessionInv' /\ ClockInv'
  BY DEF CursorInv, SessionInv, ClockInv, pullVars
<1>2. ASSUME NEW x \in Rows
      PROVE  (RowInv(x) /\ WriteInv(x) /\ GapInv(x))'
  <2>1. CASE x = r
    <3>1. RowInv(x)' /\ GapInv(x)'
      BY <2>1, RowTypes DEF RowInv, GapInv, CursorInv
    <3>2. WriteInv(x)'
      BY <2>1, RowTypes DEF WriteInv, CursorInv, pullVars, AfterQueries
    <3> QED
      BY <3>1, <3>2
  <2>2. CASE x # r
    BY <2>2 DEF CursorInv, RowInv, WriteInv, GapInv, Lacks, pullVars
  <2> QED
    BY <2>1, <2>2
<1>3. ASSUME NEW p \in Pulls
      PROVE  SnapInv(p)' /\ PageInv(p)'
  <2>1. SnapInv(p)'
    BY DEF CursorInv, SnapInv, pullVars
  <2>2. SUFFICES ASSUME pc[p] = "apply"
                 PROVE  PageInv(p)'
    BY <2>1 DEF PageInv, pullVars
  <2>3. PageInv(p) /\ rows'[r].at > page[p].asof
    BY <2>2 DEF CursorInv
  <2>4. ASSUME NEW c \in page[p].changes
        PROVE  /\ TypeOf[c.row] = Current(p) /\ rows'[c.row].rev > 0
               /\ \/ rows'[c.row].at > page[p].asof
                  \/ c.rev = rows'[c.row].rev /\ c.deleted = rows'[c.row].deleted
    <3>1. c.row \in Rows
      BY PageTypes DEF CursorInv
    <3>2. CASE c.row = r
      BY <2>2, <2>3, <3>2 DEF PageInv
    <3>3. CASE c.row # r
      BY <2>2, <2>3, <3>1, <3>3 DEF PageInv
    <3> QED
      BY <3>2, <3>3
  <2>5. ASSUME NEW x \in Rows, TypeOf[x] = Current(p), TenantOf[x] = session,
               rows'[x].rev > 0, rows'[x].at > snap[p][TypeOf[x]]
        PROVE  rows'[x].at > page[p].asof \/ InPage(p, x)
    <3>1. CASE x = r
      BY <2>3, <3>1
    <3>2. CASE x # r
      BY <2>2, <2>3, <2>5, <3>2 DEF PageInv
    <3> QED
      BY <3>1, <3>2
  <2> QED
    BY <2>4, <2>5 DEF PageInv, InPage, Current, pullVars
<1> QED
  BY <1>1, <1>2, <1>3 DEF CursorInv

LEMMA StartWriteCursor ==
    ASSUME CursorInv, NEW r \in Rows, StartWrite(r)
    PROVE  CursorInv'
<1>1. PullInv'
  BY WritePullInv DEF CursorInv
<1>2. ASSUME NEW x \in Rows
      PROVE  WriteInv(x)'
  <2>1. CASE x = r
    <3>1. clock > states[TypeOf[r]].cursor /\ \A p \in Pulls : pc[p] = "apply" => clock > page[p].asof
      BY TypeOfRow DEF StartWrite, MayWrite, AfterQueries
    <3>2. writing'[r] = clock
      BY DEF StartWrite, CursorInv, PullInv, Typed
    <3> QED
      BY <2>1, <3>1, <3>2 DEF WriteInv, StartWrite, pullVars
  <2>2. CASE x # r
    <3>1. writing'[x] = writing[x]
      BY <2>2 DEF StartWrite, CursorInv, PullInv, Typed
    <3> QED
      BY <3>1 DEF CursorInv, WriteInv, StartWrite, pullVars
  <2> QED
    BY <2>1, <2>2
<1> QED
  BY <1>1, <1>2 DEF CursorInv, SessionInv, ClockInv, RowInv, GapInv, Lacks, SnapInv, PageInv, InPage, Current,
     StartWrite, pullVars

LEMMA CommitWriteCursor ==
    ASSUME CursorInv, NEW r \in Rows, NEW delete \in BOOLEAN, CommitWrite(r, delete)
    PROVE  CursorInv'
<1>1. PullInv'
  BY WritePullInv DEF CursorInv
<1>2. rows[r].rev \in Nat /\ writing[r] \in Nat
  BY RowTypes DEF CursorInv
<1>3. /\ rows'[r].rev = rows[r].rev + 1 /\ rows'[r].at = writing[r] /\ writing'[r] = 0
      /\ \A x \in Rows : x # r => rows'[x] = rows[x] /\ writing'[x] = writing[x]
  <2>1. PICK new : new = [rev |-> rows[r].rev + 1, at |-> writing[r],
                          deleted |-> rows[r].deleted \/ delete]
    OBVIOUS
  <2>2. rows' = [rows EXCEPT ![r] = new]
    BY <2>1, Zenon DEF CommitWrite
  <2>3. new.rev = rows[r].rev + 1 /\ new.at = writing[r]
    BY <2>1
  <2> QED
    BY <2>2, <2>3 DEF CommitWrite, CursorInv, PullInv, Typed
<1>4. WriteInv(r) /\ writing[r] > 0
  BY DEF CursorInv, CommitWrite
<1>5. /\ rows'[r].rev > 0 /\ rows'[r].at > 0 /\ rows'[r].at > states[TypeOf[r]].cursor
      /\ \A p \in Pulls : pc[p] = "apply" => rows'[r].at > page[p].asof
  BY <1>2, <1>3, <1>4 DEF WriteInv
<1>6. UNCHANGED <<clock, states, session, pullVars>> /\ device' = device
  BY DEF CommitWrite
<1>7. \A x \in Rows : x # r => /\ rows'[x] = rows[x] /\ device'[x] = device[x]
                             /\ writing'[x] = writing[x]
  BY <1>3, <1>6
<1>8. writing'[r] \in {0, writing[r]}
  BY <1>3
<1> QED
  BY <1>1, <1>5, <1>6, <1>7, <1>8, LaterWrite

\* A step of the device that leaves the contents of its rows.
LEMMA DeviceStatus ==
    ASSUME CursorInv, PullInv', UNCHANGED <<rows, writing, states, session, pullVars>>,
           clock' \in {clock, clock + 1},
           \A r \in Rows : device'[r].rev = device[r].rev /\ (Lacks(r)' => Lacks(r))
    PROVE  CursorInv'
<1>1. clock \in Nat /\ \A t \in TypeSet : states[t].cursor \in Nat
  BY DEF CursorInv, PullInv, Typed
<1>2. SessionInv' /\ ClockInv'
  BY <1>1 DEF CursorInv, SessionInv, ClockInv, pullVars
<1>3. ASSUME NEW r \in Rows
      PROVE  (RowInv(r) /\ WriteInv(r) /\ GapInv(r))'
  BY DEF CursorInv, RowInv, WriteInv, GapInv, pullVars
<1>4. ASSUME NEW p \in Pulls
      PROVE  SnapInv(p)' /\ PageInv(p)'
  <2>1. page[p].asof \in Nat
    BY PageTypes DEF CursorInv
  <2>2. SnapInv(p) /\ PageInv(p)
    BY DEF CursorInv
  <2>3. SnapInv(p)'
    BY <1>1, <2>1, <2>2 DEF SnapInv, pullVars
  <2>4. PageInv(p)'
    BY <2>2 DEF PageInv, InPage, Current, pullVars
  <2> QED
    BY <2>3, <2>4
<1> QED
  BY <1>2, <1>3, <1>4 DEF CursorInv

LEMMA EditCursor ==
    ASSUME CursorInv, NEW r \in Rows, EditLocally(r)
    PROVE  CursorInv'
<1>1. PullInv'
  BY DevicePullInv DEF CursorInv
<1>2. ASSUME NEW x \in Rows
      PROVE  device'[x].rev = device[x].rev /\ (Lacks(x)' => Lacks(x))
  <2>1. device'[x].rev = device[x].rev /\ (x # r => device'[x] = device[x])
        /\ device[r].status = "synced"
    BY DEF EditLocally, CursorInv, PullInv, Typed
  <2>2. rows' = rows
    BY DEF EditLocally
  <2> QED
    BY <2>1, <2>2 DEF Lacks
<1> QED
  BY <1>1, <1>2, DeviceStatus DEF EditLocally

LEMMA PushCursor ==
    ASSUME CursorInv, NEW r \in Rows, PushEdit(r)
    PROVE  CursorInv'
<1>1. PullInv'
  BY DevicePullInv DEF CursorInv
<1>2. CASE rows[r].rev = device[r].rev
  <2>1. PICK new : new = [rev |-> rows[r].rev + 1, at |-> clock, deleted |-> rows[r].deleted]
    OBVIOUS
  <2>2. rows' = [rows EXCEPT ![r] = new]
        /\ device' = [device EXCEPT ![r] = [rev |-> device[r].rev + 1, status |-> "synced"]]
    BY <1>2, <2>1, Zenon DEF PushEdit
  <2>3. new.rev = rows[r].rev + 1 /\ new.at = clock
    BY <2>1
  <2>4. /\ rows'[r].rev = rows[r].rev + 1 /\ rows'[r].at = clock
        /\ \A x \in Rows : x # r => rows'[x] = rows[x] /\ device'[x] = device[x]
    BY <2>2, <2>3 DEF CursorInv, PullInv, Typed
  <2>5. AfterQueries /\ UNCHANGED <<clock, writing, states, session, pullVars>>
    BY DEF PushEdit, MayWrite
  <2>6. /\ rows'[r].rev > 0 /\ rows'[r].at > 0 /\ rows'[r].at > states[TypeOf[r]].cursor
        /\ \A p \in Pulls : pc[p] = "apply" => rows'[r].at > page[p].asof
    BY <2>4, <2>5, RowTypes DEF AfterQueries, CursorInv
  <2> QED
    BY <1>1, <2>4, <2>5, <2>6, LaterWrite
<1>3. CASE rows[r].rev # device[r].rev
  <2>1. rows' = rows /\ device' = [device EXCEPT ![r].status = "conflict"]
    BY <1>3, Zenon DEF PushEdit
  <2>2. ASSUME NEW x \in Rows
        PROVE  device'[x].rev = device[x].rev /\ (Lacks(x)' => Lacks(x))
    <3>1. device'[x].rev = device[x].rev /\ (x # r => device'[x] = device[x])
          /\ device'[r].status = "conflict"
      BY <2>1 DEF CursorInv, PullInv, Typed
    <3> QED
      BY <2>1, <3>1 DEF Lacks
  <2> QED
    BY <1>1, <2>1, <2>2, DeviceStatus DEF PushEdit
<1> QED
  BY <1>2, <1>3

LEMMA TickCursor ==
    ASSUME CursorInv, Tick
    PROVE  CursorInv'
<1>1. PullInv'
  BY TickPullInv DEF CursorInv
<1>2. \A r \in Rows : Lacks(r)' => Lacks(r)
  BY DEF Lacks, Tick
<1> QED
  BY <1>1, <1>2, DeviceStatus DEF Tick

\* Nothing has been pulled before the first login.
LEMMA LoginCursor ==
    ASSUME CursorInv, OneTenantOnePull, NEW t \in Tenants, Login(t)
    PROVE  CursorInv'
<1>1. PullInv'
  BY LoginPullInv DEF CursorInv
<1>2. session = NoTenant /\ session' = t /\ t # NoTenant
  BY Constants DEF Login, OneTenantOnePull
<1>3. \A p \in Pulls : pc[p] = "idle"
  BY <1>2 DEF CursorInv, SessionInv
<1>4. \A y \in TypeSet : states[y].cursor = 0
  BY <1>2 DEF CursorInv, SessionInv
<1>5. UNCHANGED <<clock, rows, writing, device, states, pullVars>>
  BY DEF Login
<1>6. SessionInv' /\ ClockInv'
  BY <1>2, <1>3, <1>5 DEF SessionInv, CursorInv, ClockInv, pullVars
<1>7. ASSUME NEW r \in Rows
      PROVE  (RowInv(r) /\ WriteInv(r) /\ GapInv(r))'
  <2>1. RowInv(r)' /\ WriteInv(r)'
    BY <1>5 DEF CursorInv, RowInv, WriteInv, pullVars
  <2>2. Lacks(r) => rows[r].at > 0
    BY RowTypes DEF CursorInv, RowInv, Lacks
  <2>3. states[TypeOf[r]].cursor = 0
    BY <1>4, TypeOfRow
  <2> QED
    BY <1>5, <2>1, <2>2, <2>3 DEF GapInv, Lacks
<1>8. ASSUME NEW p \in Pulls
      PROVE  SnapInv(p)' /\ PageInv(p)'
  BY <1>3, <1>5 DEF SnapInv, PageInv, pullVars
<1> QED
  BY <1>1, <1>6, <1>7, <1>8 DEF CursorInv

\* A step of the pull that is not about to apply a page after it, and leaves
\* the cursors.
LEMMA PullMoves ==
    ASSUME CursorInv, PullInv', UNCHANGED <<clock, rows, writing, device, session>>,
           \A t \in TypeSet : states'[t].cursor = states[t].cursor,
           \A p \in Pulls : /\ pc'[p] # "apply"
                            /\ pc'[p] # "idle" => session # NoTenant /\ tenant'[p] = session
                            /\ SnapInv(p)'
    PROVE  CursorInv'
<1>1. SessionInv' /\ ClockInv'
  BY DEF CursorInv, SessionInv, ClockInv
<1>2. ASSUME NEW r \in Rows
      PROVE  (RowInv(r) /\ WriteInv(r) /\ GapInv(r))'
  BY TypeOfRow DEF CursorInv, RowInv, WriteInv, GapInv, Lacks
<1>3. \A p \in Pulls : PageInv(p)'
  BY DEF PageInv
<1> QED
  BY <1>1, <1>2, <1>3 DEF CursorInv

LEMMA KillCursor ==
    ASSUME CursorInv, Kill
    PROVE  CursorInv'
<1>1. PullInv'
  BY KillPullInv DEF CursorInv
<1>2. \A p \in Pulls : pc'[p] = "idle" /\ SnapInv(p)'
  BY DEF Kill, SnapInv
<1> QED
  BY <1>1, <1>2, PullMoves DEF Kill

LEMMA RoundCursor ==
    ASSUME CursorInv, OneTenantOnePull, NEW p \in Pulls,
           \/ EnsureSyncStates(p) \/ ReadStates(p) \/ Request(p) \/ Notify(p)
           \/ PullFails(p) \/ FinishPull(p)
    PROVE  CursorInv'
<1>1. PullInv'
  BY RoundPullInv, RequestPullInv, NotifyPullInv DEF CursorInv
<1>2. \A q \in Pulls : q = p
  BY DEF OneTenantOnePull
<1>3. /\ pc \in [Pulls -> PcValues] /\ tenant \in [Pulls -> Tenants \cup {NoTenant}]
      /\ states \in [TypeSet -> [tenant : Tenants \cup {NoTenant}, cursor : Nat]]
      /\ snap \in [Pulls -> [TypeSet -> Nat]] /\ clock \in Nat
      /\ page \in [Pulls -> [asof : Nat, changes : SUBSET Change]]
  BY DEF CursorInv, PullInv, Typed
<1>4. CASE EnsureSyncStates(p)
  <2>1. pc'[p] = "read" /\ tenant'[p] = session /\ session # NoTenant
    BY <1>3, <1>4 DEF EnsureSyncStates, GoTo
  <2>2. \A t \in TypeSet : states'[t].cursor = states[t].cursor
    BY <1>3, <1>4 DEF EnsureSyncStates
  <2>3. SnapInv(p)'
    BY <2>1 DEF SnapInv
  <2> QED
    BY <1>1, <1>2, <1>4, <2>1, <2>2, <2>3, PullMoves DEF EnsureSyncStates
<1>5. CASE ReadStates(p)
  <2>1. pc'[p] = "request" /\ tenant'[p] = tenant[p] /\ pc[p] = "read"
        /\ snap'[p] = [t \in TypeSet |-> states[t].cursor] /\ states' = states
    BY <1>3, <1>5 DEF ReadStates, GoTo
  <2>2. SnapInv(p)'
    BY <1>3, <2>1 DEF SnapInv
  <2>3. session # NoTenant /\ tenant'[p] = session
    BY <2>1 DEF CursorInv, SessionInv
  <2> QED
    BY <1>1, <1>2, <1>5, <2>1, <2>2, <2>3, PullMoves DEF ReadStates
<1>6. CASE Request(p) \/ Notify(p)
  <2>1. /\ pc[p] \in {"request", "notify"}
        /\ \/ pc'[p] = "request"
           \/ pc'[p] = "query" /\ page'[p].asof = clock
        /\ tenant' = tenant /\ snap' = snap /\ states' = states /\ clock' = clock
    BY <1>3, <1>6 DEF Request, Notify, GoTo
  <2>2. SnapInv(p)'
    BY <1>3, <2>1 DEF SnapInv, CursorInv, ClockInv
  <2>3. session # NoTenant /\ tenant'[p] = session
    BY <2>1 DEF CursorInv, SessionInv
  <2>4. UNCHANGED <<clock, rows, writing, device, session>>
    BY <1>6 DEF Request, Notify
  <2> QED
    BY <1>1, <1>2, <2>1, <2>2, <2>3, <2>4, PullMoves
<1>7. CASE PullFails(p) \/ FinishPull(p)
  <2>1. pc'[p] = "idle" /\ UNCHANGED <<clock, rows, writing, device, states, session>>
    BY <1>3, <1>7 DEF PullFails, FinishPull, EndPull, GoTo
  <2>2. SnapInv(p)'
    BY <2>1 DEF SnapInv
  <2> QED
    BY <1>1, <1>2, <2>1, <2>2, PullMoves
<1> QED
  BY <1>4, <1>5, <1>6, <1>7

\* The query: without a statement on its way, the page has every row whose
\* last write is later than the cursor the pull has asked with.
LEMMA QueryCursor ==
    ASSUME CursorInv, OneTenantOnePull, NEW p \in Pulls, Query(p)
    PROVE  CursorInv'
<1> DEFINE found == {[row |-> r, rev |-> rows[r].rev, deleted |-> rows[r].deleted] :
                         r \in {q \in Rows : Selected(p, q)}}
<1>1. PullInv'
  BY QueryPullInv DEF CursorInv
<1>2. \A q \in Pulls : q = p
  BY DEF OneTenantOnePull
<1>3. \A r \in Rows : writing[r] = 0
  BY DEF Query, OneTenantOnePull
<1>4. /\ pc[p] = "query" /\ pc'[p] = "apply"
      /\ page'[p].changes = found /\ page'[p].asof = page[p].asof
  BY DEF Query, GoTo, CursorInv, PullInv, Typed
<1>5. UNCHANGED <<clock, rows, writing, device, states, session, tenant, left, snap>>
  BY DEF Query
<1>6. session # NoTenant /\ tenant[p] = session
  BY <1>4 DEF CursorInv, SessionInv
<1>7. SessionInv' /\ ClockInv'
  BY <1>2, <1>4, <1>5, <1>6 DEF SessionInv, CursorInv, ClockInv
<1>8. ASSUME NEW r \in Rows
      PROVE  (RowInv(r) /\ WriteInv(r) /\ GapInv(r))'
  BY <1>3, <1>5 DEF CursorInv, RowInv, WriteInv, GapInv, Lacks
<1>9. SnapInv(p)'
  BY <1>4, <1>5 DEF SnapInv, CursorInv
<1>10. PageInv(p)'
  <2>1. ASSUME NEW c \in found
        PROVE  /\ TypeOf[c.row] = Current(p) /\ rows[c.row].rev > 0
               /\ c.rev = rows[c.row].rev /\ c.deleted = rows[c.row].deleted
    BY DEF Selected
  <2>2. ASSUME NEW r \in Rows, TypeOf[r] = Current(p), TenantOf[r] = session,
               rows[r].rev > 0, rows[r].at > snap[p][TypeOf[r]]
        PROVE  \E c \in found : c.row = r
    <3>1. Selected(p, r)
      BY <1>6, <2>2 DEF Selected
    <3>2. [row |-> r, rev |-> rows[r].rev, deleted |-> rows[r].deleted] \in found
      BY <3>1
    <3> QED
      BY <3>2
  <2>3. Current(p)' = Current(p)
    BY <1>5 DEF Current
  <2> HIDE DEF found
  <2> QED
    BY <1>4, <1>5, <2>1, <2>2, <2>3 DEF PageInv, InPage
<1> QED
  BY <1>1, <1>2, <1>7, <1>8, <1>9, <1>10 DEF CursorInv

\* What an applied change leaves of a row is what the server has, nothing that
\* is missed, or a conflict.
LEMMA AppliedIsCurrent ==
    ASSUME NEW row \in [rev : Nat, status : {"none", "synced", "pending", "conflict"}],
           NEW c \in Change, Applied(row, c).rev # c.rev,
           Applied(row, c).status # "conflict"
    PROVE  c.deleted /\ Applied(row, c).status = "none"
BY DEF Applied, Change

\* The transaction: the cursor moves to the time of the page, and every change
\* up to that time is in the page.
LEMMA ApplyCursor ==
    ASSUME CursorInv, OneTenantOnePull, NEW p \in Pulls, ApplyPage(p)
    PROVE  CursorInv'
<1> DEFINE t == Current(p)
<1>1. PullInv'
  BY ApplyPullInv DEF CursorInv
<1>2. \A q \in Pulls : q = p
  BY DEF OneTenantOnePull
<1>3. pc[p] = "apply" /\ pc'[p] = "notify"
      /\ UNCHANGED <<clock, rows, writing, session, tenant, snap>>
  BY DEF ApplyPage, GoTo, CursorInv, PullInv, Typed
<1>4. states' = [states EXCEPT ![t] = [tenant |-> tenant[p], cursor |-> page[p].asof]]
  BY DEF ApplyPage, NextCursor
<1>5. session # NoTenant /\ tenant[p] = session
  BY <1>3 DEF CursorInv, SessionInv
<1>6. ASSUME NEW y \in TypeSet
      PROVE  states'[y].cursor = IF y = t THEN page[p].asof ELSE states[y].cursor
  BY <1>4 DEF CursorInv, PullInv, Typed
<1>7. SessionInv' /\ ClockInv'
  <2>1. page[p].asof <= clock /\ \A y \in TypeSet : states[y].cursor <= clock
    BY <1>3 DEF CursorInv, SnapInv, ClockInv
  <2> QED
    BY <1>2, <1>3, <1>5, <1>6, <2>1 DEF SessionInv, ClockInv
<1>8. PageInv(p)
  BY DEF CursorInv
<1> HIDE DEF t
<1>9. ASSUME NEW r \in Rows
      PROVE  RowInv(r)' /\ WriteInv(r)' /\ GapInv(r)'
  <2>1. /\ rows[r] \in [rev : Nat, at : Nat, deleted : BOOLEAN] /\ TypeOf[r] \in TypeSet
        /\ device[r] \in [rev : Nat, status : {"none", "synced", "pending", "conflict"}]
        /\ page[p].asof \in Nat
    BY RowTypes, PageTypes DEF CursorInv
  <2>2. WriteInv(r)'
    <3>1. WriteInv(r) /\ (writing[r] > 0 => writing[r] > page[p].asof)
      BY <1>3 DEF CursorInv, WriteInv
    <3> QED
      BY <1>2, <1>3, <1>6, <2>1, <3>1 DEF WriteInv
  <2>3. CASE \A c \in page[p].changes : c.row # r
    <3>1. device'[r] = device[r]
      BY <2>3, ApplyFacts DEF CursorInv
    <3>2. RowInv(r)'
      BY <1>3, <3>1 DEF CursorInv, RowInv
    <3>3. SUFFICES ASSUME TenantOf[r] = session, Lacks(r)
                   PROVE  rows[r].at > states'[TypeOf[r]].cursor
      BY <1>3, <2>2, <3>1, <3>2 DEF GapInv, Lacks
    <3>4. rows[r].at > states[TypeOf[r]].cursor
      BY <3>3 DEF CursorInv, GapInv
    <3>5. CASE TypeOf[r] # t
      BY <1>6, <2>1, <3>4, <3>5
    <3>6. CASE TypeOf[r] = t
      <4>1. rows[r].rev > 0
        BY <2>1, <3>3 DEF CursorInv, RowInv, Lacks
      <4>2. rows[r].at > snap[p][TypeOf[r]]
        BY <1>3, <2>1, <3>4, PageTypes DEF CursorInv, SnapInv
      <4>3. ~InPage(p, r)
        BY <2>3 DEF InPage
      <4>4. rows[r].at > page[p].asof
        BY <1>3, <1>8, <3>3, <3>6, <4>1, <4>2, <4>3 DEF PageInv, t
      <4> QED
        BY <1>6, <2>1, <3>6, <4>4
    <3> QED
      BY <3>5, <3>6
  <2>4. ASSUME NEW c \in page[p].changes, c.row = r
        PROVE  RowInv(r)' /\ GapInv(r)'
    <3>1. device'[r] = Applied(device[r], c) /\ c \in Change
      BY <2>4, ApplyFacts, PageTypes DEF CursorInv
    <3>2. /\ TypeOf[r] = t /\ rows[r].rev > 0
          /\ rows[r].at > page[p].asof \/ (c.rev = rows[r].rev /\ c.deleted = rows[r].deleted)
      BY <1>3, <1>8, <2>4 DEF PageInv, t
    <3>3. RowInv(r)'
      BY <1>3, <2>1, <3>2 DEF CursorInv, RowInv
    <3>4. CASE rows[r].at > page[p].asof
      BY <1>3, <1>6, <2>1, <3>2, <3>3, <3>4 DEF GapInv
    <3>5. CASE c.rev = rows[r].rev /\ c.deleted = rows[r].deleted
      <4>1. ~Lacks(r)'
        BY <1>3, <2>1, <3>1, <3>5, AppliedIsCurrent DEF Lacks
      <4> QED
        BY <3>3, <4>1 DEF GapInv
    <3> QED
      BY <3>2, <3>4, <3>5
  <2> QED
    BY <2>2, <2>3, <2>4
<1>10. SnapInv(p)'
  <2>1. ASSUME NEW y \in TypeSet
        PROVE  snap[p][y] <= states'[y].cursor
    <3>1. /\ snap[p][y] \in Nat /\ states[y].cursor \in Nat /\ page[p].asof \in Nat
          /\ snap[p][y] <= states[y].cursor /\ states[y].cursor <= page[p].asof
      BY <1>3, PageTypes DEF CursorInv, SnapInv
    <3> QED
      BY <1>6, <3>1
  <2> QED
    BY <1>3, <2>1 DEF SnapInv
<1>11. PageInv(p)'
  BY <1>3 DEF PageInv
<1> QED
  BY <1>1, <1>2, <1>7, <1>9, <1>10, <1>11 DEF CursorInv

LEMMA NextCursorInv ==
    ASSUME OneTenantOnePull
    PROVE  CursorInv /\ [Next]_vars => CursorInv'
<1> SUFFICES ASSUME CursorInv, [Next]_vars
             PROVE  CursorInv'
  OBVIOUS
<1>1. CASE Tick \/ Kill
  BY <1>1, TickCursor, KillCursor
<1>2. ASSUME NEW r \in Rows,
             \/ StartWrite(r) \/ \E delete \in BOOLEAN : CommitWrite(r, delete)
             \/ EditLocally(r) \/ PushEdit(r)
      PROVE  CursorInv'
  BY <1>2, StartWriteCursor, CommitWriteCursor, EditCursor, PushCursor
<1>3. ASSUME NEW p \in Pulls, PullStep(p) \/ PullFails(p)
      PROVE  CursorInv'
  BY <1>3, RoundCursor, QueryCursor, ApplyCursor DEF PullStep
<1>4. CASE \E t \in Tenants : Login(t)
  BY <1>4, LoginCursor
<1>5. CASE UNCHANGED vars
  <2>1. PullInv'
    BY <1>5, NextPullInv DEF CursorInv
  <2>2. \A r \in Rows : device'[r].rev = device[r].rev /\ (Lacks(r)' => Lacks(r))
    BY <1>5 DEF vars, Lacks
  <2> QED
    BY <1>5, <2>1, <2>2, DeviceStatus DEF vars
<1> QED
  BY <1>1, <1>2, <1>3, <1>4, <1>5 DEF Next

\* With one pull at a time, one tenant on the device and writes that commit
\* before a query can overtake them, the stored cursor never passes a change
\* the device lacks, through lost replies, kills at any step, local edits and
\* their pushes (PullSyncService.pull stores the time the server took before
\* its query, in the transaction that applies the page).
THEOREM CursorPassesNothing ==
    ASSUME OneTenantOnePull
    PROVE  Spec => []NothingSkipped
<1>1. CursorInv => NothingSkipped
  BY DEF CursorInv, GapInv, NothingSkipped
<1>2. CursorInv /\ [Next]_vars => CursorInv'
  BY NextCursorInv
<1> QED
  BY <1>1, <1>2, InitCursorInv, PTL DEF Spec

-----------------------------------------------------------------------------
(* The bound of the clock, and the types a pull has left.                  *)

Bounded ==
    /\ clock <= MaxClock
    /\ \A r \in Rows : rows[r].at <= MaxClock /\ writing[r] <= MaxClock
    /\ \A t \in TypeSet : states[t].cursor <= MaxClock
    /\ \A p \in Pulls : /\ page[p].asof <= MaxClock
                        /\ \A t \in TypeSet : snap[p][t] <= MaxClock
    /\ left \in [Pulls -> SUBSET TypeSet]

LEMMA InitBounded == Init => Bounded
BY PullAssumption DEF Init, Bounded, NoPage

\* The server's times are times of the clock.
LEMMA WriteBounded ==
    ASSUME PullInv, Bounded, NEW r \in Rows,
           \/ StartWrite(r) \/ \E delete \in BOOLEAN : CommitWrite(r, delete)
           \/ EditLocally(r) \/ PushEdit(r)
    PROVE  Bounded'
<1>1. UNCHANGED <<clock, states, page, snap, left>>
  BY DEF StartWrite, CommitWrite, EditLocally, PushEdit, pullVars
<1>2. /\ rows \in [Rows -> [rev : Nat, at : Nat, deleted : BOOLEAN]]
      /\ writing \in [Rows -> Nat]
  BY DEF PullInv, Typed
<1>3. \A q \in Rows : writing'[q] \in {0, clock, writing[q]}
  BY <1>2 DEF StartWrite, CommitWrite, EditLocally, PushEdit
<1>4. \A q \in Rows : rows'[q].at \in {clock, writing[q], rows[q].at}
  <2>1. CASE UNCHANGED rows
    BY <2>1
  <2>2. CASE \E at \in {clock, writing[r]} : \E rev, deleted :
                 rows' = [rows EXCEPT ![r] = [rev |-> rev, at |-> at, deleted |-> deleted]]
    BY <1>2, <2>2
  <2>3. CASE \E delete \in BOOLEAN : CommitWrite(r, delete)
    BY <2>2, <2>3, Zenon DEF CommitWrite
  <2>4. CASE PushEdit(r)
    BY <2>1, <2>2, <2>4, Zenon DEF PushEdit
  <2> QED
    BY <2>1, <2>3, <2>4 DEF StartWrite, EditLocally
<1>5. 0 <= MaxClock
  BY Constants
<1> QED
  BY <1>1, <1>3, <1>4, <1>5 DEF Bounded

\* A pull carries times it has got from the server or the states.
LEMMA PullBounded ==
    ASSUME PullInv, Bounded, NEW p \in Pulls, PullStep(p) \/ PullFails(p)
    PROVE  Bounded'
<1>1. UNCHANGED <<clock, rows, writing>>
  BY DEF PullStep, PullFails, EnsureSyncStates, ReadStates, Request, Query, ApplyPage,
         Notify, FinishPull
<1>2. /\ states \in [TypeSet -> [tenant : Tenants \cup {NoTenant}, cursor : Nat]]
      /\ snap \in [Pulls -> [TypeSet -> Nat]]
      /\ page \in [Pulls -> [asof : Nat, changes : SUBSET Change]]
      /\ 0 <= MaxClock
  BY Constants DEF PullInv, Typed
<1>3. \A t \in TypeSet : states'[t].cursor <= MaxClock
  <2>1. CASE EnsureSyncStates(p)
    BY <1>2, <2>1 DEF EnsureSyncStates, Bounded
  <2>2. CASE ApplyPage(p)
    <3>1. PICK state : state = [tenant |-> tenant[p], cursor |-> NextCursor(p)]
      OBVIOUS
    <3>2. states' = [states EXCEPT ![Current(p)] = state] /\ state.cursor = page[p].asof
      BY <2>2, <3>1 DEF ApplyPage, NextCursor
    <3> QED
      BY <1>2, <3>2 DEF Bounded
  <2> QED
    BY <2>1, <2>2
       DEF PullStep, PullFails, ReadStates, Request, Query, Notify, FinishPull, EndPull, Bounded
<1>4. \A q \in Pulls : page'[q].asof <= MaxClock
  <2>1. \A q \in Pulls : page'[q].asof \in {0, clock, page[q].asof}
    <3>1. CASE UNCHANGED page
      BY <3>1
    <3>2. CASE Query(p)
      BY <1>2, <3>2 DEF Query
    <3>3. CASE Request(p)
      BY <1>2, <3>3 DEF Request
    <3>4. CASE ApplyPage(p)
      BY <1>2, <3>4 DEF ApplyPage
    <3>5. CASE page' = [page EXCEPT ![p] = NoPage]
      BY <1>2, <3>5 DEF NoPage
    <3> QED
      BY <3>1, <3>2, <3>3, <3>4, <3>5
         DEF PullStep, PullFails, EnsureSyncStates, ReadStates, Notify, FinishPull, EndPull
  <2> QED
    BY <1>2, <2>1 DEF Bounded
<1>5. \A q \in Pulls : \A t \in TypeSet : snap'[q][t] <= MaxClock
  <2>1. CASE UNCHANGED snap
    BY <2>1 DEF Bounded
  <2>2. CASE ReadStates(p)
    BY <1>2, <2>2 DEF ReadStates, Bounded
  <2>3. CASE EndPull(p)
    BY <1>2, <2>3 DEF EndPull, Bounded
  <2> QED
    BY <2>1, <2>2, <2>3
       DEF PullStep, PullFails, EnsureSyncStates, Request, Query, ApplyPage, Notify, FinishPull
<1>6. left' \in [Pulls -> SUBSET TypeSet]
  <2>1. CASE UNCHANGED left
    BY <2>1 DEF Bounded
  <2>2. CASE ReadStates(p)
    BY <2>2 DEF ReadStates, Bounded
  <2>3. CASE ApplyPage(p)
    BY <2>3 DEF ApplyPage, Bounded
  <2>4. CASE EndPull(p)
    BY <2>4 DEF EndPull, Bounded
  <2> QED
    BY <2>1, <2>2, <2>3, <2>4
       DEF PullStep, PullFails, EnsureSyncStates, Request, Query, Notify, FinishPull
<1> QED
  BY <1>1, <1>3, <1>4, <1>5, <1>6 DEF Bounded

LEMMA NextBounded == PullInv /\ Bounded /\ [Next]_vars => Bounded'
<1> SUFFICES ASSUME PullInv, Bounded, [Next]_vars PROVE Bounded'
  OBVIOUS
<1>1. CASE Tick
  BY <1>1, Constants DEF Tick, PullInv, Typed, Bounded, pullVars
<1>2. CASE Kill
  BY <1>2, Constants DEF Kill, Bounded, NoPage
<1>3. CASE \E t \in Tenants : Login(t)
  BY <1>3 DEF Login, Bounded, pullVars
<1>4. CASE UNCHANGED vars
  BY <1>4 DEF vars, Bounded, pullVars
<1> QED
  BY <1>1, <1>2, <1>3, <1>4, WriteBounded, PullBounded DEF Next

\* Every variable keeps its type and every time that is stored anywhere is a
\* time of the clock, for any number of rows and pulls and every fault.
THEOREM PullTypeCorrect == Spec => []TypeOK
<1>1. ASSUME PullInv, Bounded PROVE TypeOK
  <2>1. clock \in Times /\ writing \in [Rows -> Times]
    BY <1>1, Constants DEF PullInv, Typed, Bounded, Times
  <2>2. rows \in [Rows -> [rev : Nat, at : Times, deleted : BOOLEAN]]
    BY <1>1, Constants DEF PullInv, Typed, Bounded, Times
  <2>3. states \in [TypeSet -> [tenant : Tenants \cup {NoTenant}, cursor : Times]]
    BY <1>1, Constants DEF PullInv, Typed, Bounded, Times
  <2>4. snap \in [Pulls -> [TypeSet -> Times]]
    <3>1. \A p \in Pulls : snap[p] \in [TypeSet -> Times]
      BY <1>1, Constants DEF PullInv, Typed, Bounded, Times
    <3> QED
      BY <1>1, <3>1 DEF PullInv, Typed
  <2>5. page \in [Pulls -> [asof : Times, changes : SUBSET Change]]
    BY <1>1, Constants DEF PullInv, Typed, Bounded, Times
  <2> QED
    BY <1>1, <2>1, <2>2, <2>3, <2>4, <2>5 DEF PullInv, Typed, Bounded, TypeOK
<1>2. PullInv /\ Bounded => TypeOK
  BY <1>1
<1> QED
  BY <1>2, InitPullInv, NextPullInv, InitBounded, NextBounded, PTL DEF Spec

=============================================================================
