--------------------------- MODULE StageTracking ----------------------------
(***************************************************************************)
(* Issue and packing of a sales order's materials: ErpMaterialDataService  *)
(* and the efficiency record it keeps (EfficiencyService).                 *)
(*                                                                         *)
(* Operators scan materials one by one, set a quantity, or accept a whole  *)
(* group; every request then reads the order's materials again and, when a *)
(* stage is complete, moves the order's status, the status stepper and the *)
(* efficiency record on.  No transaction spans these database calls (only  *)
(* the updates of one group are one), so requests on the same order        *)
(* interleave between any two of them, and a restart cuts them short.      *)
(***************************************************************************)
EXTENDS Integers, Sequences, FiniteSets

CONSTANTS
  Orders,          \* SalesOrder rows
  Materials,       \* ERP_Material_Data rows, by ID
  OrderOf,         \* the order (saleOrderNumber and FG_OBD) a material belongs to
  CodeOf,          \* what has to be scanned: Material_Code or Mapping_Barcode
  GroupOf,         \* Group
  Required,        \* Required_Qty
  PackerAssigned,  \* orders with a packingAssignedUserId
  Measured,        \* <<order, stage>> pairs for which efficiency is recorded
  Quantities,      \* quantities an operator may enter
  Requests,        \* requests the server can have running at a time
  Dispatchable,    \* bound: the orders that get onto a vehicle
  None

Stages == {"Issue", "Packing"}

ASSUME StageTrackingAssumption ==
  /\ Materials \subseteq Nat
  /\ IsFiniteSet(Requests) /\ Requests # {}
  /\ OrderOf \in [Materials -> Orders]
  /\ Required \in [Materials -> Nat]
  /\ PackerAssigned \subseteq Orders
  /\ Measured \subseteq Orders \X Stages
  /\ Quantities \subseteq Int
  /\ Dispatchable \subseteq Orders
  /\ None \notin Orders

VARIABLES
  count,     \* Issue_stage and Packing_stage of each material
  status,    \* SalesOrder.status
  stepper,   \* statuses of SO_Status_Stepper that are set
  measured,  \* stages recorded in Efficiency_PP
  req,       \* the requests running
  missed     \* history: orders changed by a request that did not go on to check them

vars == <<count, status, stepper, measured, req, missed>>

Statuses == {"R105", "W105", "F105", "Dispatched"}
Steps == {"Issued", "Under Packing", "Packed", "Dispatched"}

MaterialsOf(o) == {m \in Materials : OrderOf[m] = o}
Codes == {CodeOf[m] : m \in Materials}
Groups == {GroupOf[m] : m \in Materials}

Idle == [step |-> "idle", order |-> None, stage |-> "Issue", mats |-> {}, qty |-> 0,
         todo |-> <<>>]

\* The writes a completed stage leads to.
SetStatus(v) == [kind |-> "status", value |-> v]
SetStep(v) == [kind |-> "stepper", value |-> v]
Record(s) == [kind |-> "record", value |-> s]
Writes == {SetStatus(v) : v \in {"W105", "F105"}} \cup {SetStep(v) : v \in Steps}
            \cup {Record(s) : s \in Stages}

Request ==
  [step : {"idle", "scan", "set", "bulk", "check", "checkBoth", "current", "finish"},
   order : Orders \cup {None}, stage : Stages, mats : SUBSET Materials, qty : Nat,
   todo : Seq(Writes)]

\* A request that runs has an order, one that finishes has something left to write.
Consistent(q) == /\ q.step # "idle" => q.order \in Orders
                 /\ q.step = "finish" => q.todo # <<>>

TypeOK ==
  /\ count \in [Stages -> [Materials -> Nat]]
  /\ status \in [Orders -> Statuses]
  /\ stepper \in [Orders -> SUBSET Steps]
  /\ measured \in [Orders -> SUBSET Stages]
  /\ missed \in [Orders -> BOOLEAN]
  /\ req \in [Requests -> Request]
  /\ \A r \in Requests : Consistent(req[r])

Init ==
  /\ count = [s \in Stages |-> [m \in Materials |-> 0]]
  /\ status = [o \in Orders |-> "R105"]
  /\ stepper = [o \in Orders |-> {}]
  /\ measured = [o \in Orders |-> {}]
  /\ req = [r \in Requests |-> Idle]
  /\ missed = [o \in Orders |-> FALSE]

-----------------------------------------------------------------------------
(***************************************************************************)
(* Single scans and entered quantities                                     *)
(***************************************************************************)

\* A material can be issued up to its required quantity, and packed up to what is
\* issued of it.
Cap(s, m) ==
  IF s = "Issue" \/ Required[m] <= count["Issue"][m] THEN Required[m]
                                                     ELSE count["Issue"][m]

OpenInclusive(s, m) == count[s][m] <= Cap(s, m)
Open(s, m) == count[s][m] < Cap(s, m)

\* incrementIssueStage, incrementPackingStage: the first matching row with room.
ScanRead(r, o, c, s) ==
  LET open == {m \in MaterialsOf(o) : CodeOf[m] = c /\ Open(s, m)} IN
  /\ req[r] = Idle
  /\ \E m \in open :
       /\ \A k \in open : m <= k
       /\ req' = [req EXCEPT ![r] = [Idle EXCEPT !.step = "scan", !.order = o, !.stage = s,
                                                 !.mats = {m}]]
  /\ UNCHANGED <<count, status, stepper, measured, missed>>

\* { increment: 1 } adds to whatever is stored by now.
ScanWrite(r) ==
  LET s == req[r].stage IN
  /\ req[r].step = "scan"
  /\ count' = [count EXCEPT ![s] = [m \in Materials |->
                 IF m \in req[r].mats THEN @[m] + 1 ELSE @[m]]]
  /\ req' = [req EXCEPT ![r] = [@ EXCEPT !.step = "check", !.mats = {}]]
  /\ UNCHANGED <<status, stepper, measured, missed>>

\* An entered quantity may be negative in the version without that check.
AcceptableUnsigned(n, s, m) == n <= Cap(s, m)
Acceptable(n, s, m) == 0 <= n /\ n <= Cap(s, m)

\* updateIssueStage, updatePackingStage: a row given by its ID need not be the order's.
SetRead(r, o, m, s, n) ==
  /\ req[r] = Idle
  /\ Acceptable(n, s, m)
  /\ req' = [req EXCEPT ![r] = [Idle EXCEPT !.step = "set", !.order = o, !.stage = s,
                                            !.mats = {m}, !.qty = n]]
  /\ UNCHANGED <<count, status, stepper, measured, missed>>

\* A version that does not go on to check the order.
SetWriteOnly(r) ==
  LET s == req[r].stage IN
  /\ req[r].step = "set"
  /\ count' = [count EXCEPT ![s] = [m \in Materials |->
                 IF m \in req[r].mats THEN req[r].qty ELSE @[m]]]
  /\ req' = [req EXCEPT ![r] = Idle]
  /\ UNCHANGED <<status, stepper, measured, missed>>

SetWrite(r) ==
  LET s == req[r].stage IN
  /\ req[r].step = "set"
  /\ count' = [count EXCEPT ![s] = [m \in Materials |->
                 IF m \in req[r].mats THEN req[r].qty ELSE @[m]]]
  /\ req' = [req EXCEPT ![r] = [@ EXCEPT !.step = "check", !.mats = {}, !.qty = 0]]
  /\ missed' = [o \in Orders |-> missed[o] \/ \E m \in req[r].mats :
                                    OrderOf[m] = o /\ req[r].order # o]
  /\ UNCHANGED <<status, stepper, measured>>

AllDone(s, o) == \A m \in MaterialsOf(o) : count[s][m] >= Required[m]

UnderPacking(o) == IF o \in PackerAssigned THEN <<SetStep("Under Packing")>> ELSE <<>>

\* Completion of a single scan, and a version that forgets the packers.
AfterIssueOnly(o) == <<SetStatus("W105"), Record("Issue"), SetStep("Issued")>>
AfterIssue(o) ==
  <<SetStatus("W105"), Record("Issue"), SetStep("Issued")>> \o UnderPacking(o)
AfterPacking == <<SetStatus("F105"), Record("Packing"), SetStep("Packed")>>

\* The check every single scan ends with reads the order's materials again.
Check(r) ==
  LET o == req[r].order  s == req[r].stage IN
  /\ req[r].step = "check"
  /\ req' = [req EXCEPT ![r] =
       IF AllDone(s, o)
         THEN [Idle EXCEPT !.step = "finish", !.order = o,
                           !.todo = IF s = "Issue" THEN AfterIssue(o) ELSE AfterPacking]
         ELSE Idle]
  /\ UNCHANGED <<count, status, stepper, measured, missed>>

-----------------------------------------------------------------------------
(***************************************************************************)
(* Accepting a group, accepting everything                                 *)
(***************************************************************************)

BulkRead(r, o, items, s) ==
  /\ req[r] = Idle
  /\ items # {}
  /\ req' = [req EXCEPT ![r] = [Idle EXCEPT !.step = "bulk", !.order = o, !.stage = s,
                                  !.mats = {m \in items : count[s][m] < Required[m]}]]
  /\ UNCHANGED <<count, status, stepper, measured, missed>>

\* bulkAcceptGroup: what is issued of an item does not limit its packing here.
GroupRead(r, o, g, s) == BulkRead(r, o, {m \in MaterialsOf(o) : GroupOf[m] = g}, s)

\* acceptAllIssueStage, for admins.
AcceptAllRead(r, o) == BulkRead(r, o, MaterialsOf(o), "Issue")

\* One transaction.
BulkWrite(r) ==
  LET s == req[r].stage IN
  /\ req[r].step = "bulk"
  /\ count' = [count EXCEPT ![s] = [m \in Materials |->
                 IF m \in req[r].mats THEN Required[m] ELSE @[m]]]
  /\ req' = [req EXCEPT ![r] = [@ EXCEPT !.step = "checkBoth", !.mats = {}]]
  /\ UNCHANGED <<status, stepper, measured, missed>>

\* _checkOrderCompletion: the writes for the stages found complete.
AfterBulk(o, issued, packed) ==
  (IF issued THEN <<SetStatus("W105"), SetStep("Issued")>> \o UnderPacking(o) ELSE <<>>)
  \o (IF packed THEN <<SetStatus("F105"), SetStep("Packed")>> ELSE <<>>)
  \o (IF issued THEN <<Record("Issue")>> ELSE <<>>)
  \o (IF packed THEN <<Record("Packing")>> ELSE <<>>)

Finishing(o, todo) ==
  IF todo = <<>> THEN Idle
                 ELSE [Idle EXCEPT !.step = "finish", !.order = o, !.todo = todo]

\* It reads the materials once for both stages ...
CheckBoth(r) ==
  LET o == req[r].order  packed == AllDone("Packing", o) IN
  /\ req[r].step = "checkBoth"
  /\ req' = [req EXCEPT ![r] =
       IF AllDone("Issue", o)
         THEN [Idle EXCEPT !.step = "current", !.order = o,
                           !.stage = IF packed THEN "Packing" ELSE "Issue"]
         ELSE Finishing(o, AfterBulk(o, FALSE, packed))]
  /\ UNCHANGED <<count, status, stepper, measured, missed>>

\* ... and, if all is issued, the order's status; stage keeps what was found packed.
Current(r) ==
  LET o == req[r].order IN
  /\ req[r].step = "current"
  /\ req' = [req EXCEPT ![r] =
       Finishing(o, AfterBulk(o, status[o] \notin {"W105", "F105", "Dispatched"},
                              req[r].stage = "Packing"))]
  /\ UNCHANGED <<count, status, stepper, measured, missed>>

-----------------------------------------------------------------------------
(***************************************************************************)
(* Completion, dispatch, restart                                           *)
(***************************************************************************)

\* The next write of a completed stage.  A failing efficiency record is swallowed.
Write(r) ==
  LET o == req[r].order  w == Head(req[r].todo) IN
  /\ req[r].step = "finish"
  /\ status' = IF w.kind = "status" THEN [status EXCEPT ![o] = w.value] ELSE status
  /\ stepper' = IF w.kind = "stepper" THEN [stepper EXCEPT ![o] = @ \cup {w.value}]
                                      ELSE stepper
  /\ \/ /\ w.kind = "record" /\ <<o, w.value>> \in Measured
        /\ measured' = [measured EXCEPT ![o] = @ \cup {w.value}]
     \/ UNCHANGED measured
  /\ req' = [req EXCEPT ![r] = Finishing(o, Tail(req[r].todo))]
  /\ UNCHANGED <<count, missed>>

\* addMobileDispatchSO puts an order on a vehicle in one transaction, whatever its
\* status is.
Dispatch(o) ==
  /\ status' = [status EXCEPT ![o] = "Dispatched"]
  /\ stepper' = [stepper EXCEPT ![o] = @ \cup {"Dispatched"}]
  /\ UNCHANGED <<count, measured, req, missed>>

\* The process restarts: running requests stop where they are.
Restart ==
  /\ req' = [r \in Requests |-> Idle]
  /\ missed' = [o \in Orders |-> missed[o] \/ \E r \in Requests : req[r].order = o]
  /\ UNCHANGED <<count, status, stepper, measured>>

Next ==
  \/ \E r \in Requests :
       \/ \E o \in Orders, s \in Stages :
            \/ \E c \in Codes : ScanRead(r, o, c, s)
            \/ \E m \in Materials, n \in Quantities : SetRead(r, o, m, s, n)
            \/ \E g \in Groups : GroupRead(r, o, g, s)
       \/ \E o \in Orders : AcceptAllRead(r, o)
       \/ ScanWrite(r) \/ SetWrite(r) \/ BulkWrite(r)
       \/ Check(r) \/ CheckBoth(r) \/ Current(r)
       \/ Write(r)
  \/ \E o \in Dispatchable : Dispatch(o)
  \/ Restart

Spec == Init /\ [][Next]_vars

-----------------------------------------------------------------------------
(***************************************************************************)
(* Properties                                                              *)
(***************************************************************************)

\* Scans that read the same row before either writes may push a count above the
\* required quantity, but never by more than the requests that can run beside one
\* (incrementIssueStage, incrementPackingStage).
OverrunBounded ==
  \A s \in Stages, m \in Materials :
    count[s][m] <= Required[m] + Cardinality(Requests) - 1

Quiet(o) ==
  \A r \in Requests : req[r].order # o /\ req[r].mats \cap MaterialsOf(o) = {}

\* However scans, entered quantities and groups interleave, the request whose write
\* completes the issue finds it complete: an order does not stay open with everything
\* issued, unless a request was cut short or changed another order's row.
CompletionSeen ==
  \A o \in Orders :
    /\ Quiet(o) /\ ~missed[o]
    /\ AllDone("Issue", o) /\ \E m \in MaterialsOf(o) : Required[m] > 0
    => status[o] # "R105"

\* The status and the stepper the dashboards read (calculateStatusHubTimeline) agree
\* once the requests on the order are over, unless one was cut short.
StatusHasItsSteps ==
  \A o \in Orders : Quiet(o) /\ ~missed[o] =>
    /\ status[o] = "W105" =>
         "Issued" \in stepper[o] /\ (o \in PackerAssigned => "Under Packing" \in stepper[o])
    /\ status[o] = "F105" => "Packed" \in stepper[o]
    /\ status[o] = "Dispatched" => "Dispatched" \in stepper[o]

\* Scans are never taken back by other scans or by accepting a group: a count goes
\* down only to an entered quantity, or to the required one after an overrun.
OnlySettingLowers ==
  [][\A s \in Stages, m \in Materials : count'[s][m] < count[s][m] =>
       \/ count'[s][m] = Required[m]
       \/ \E r \in Requests : req[r].step = "set" /\ m \in req[r].mats]_vars
=============================================================================
