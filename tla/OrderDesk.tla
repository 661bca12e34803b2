------------------------------ MODULE OrderDesk ------------------------------
(***************************************************************************)
(* What the desks do with orders: AdminOrderService, SalesCrudService and  *)
(* SalesOrderService.  The administrators' update makes up to ten calls,   *)
(* one by one; a bulk assignment reads its orders before the transaction   *)
(* that writes them; the Excel import writes columns back as it read them; *)
(* creating an order makes its stepper rows in a second call.              *)
(***************************************************************************)
EXTENDS OrderTable

Request(op, o, asked, plan) ==
  [Idle EXCEPT !.op = op, !.order = o, !.asked = asked, !.plan = plan]

\* A form fills in one column; those with a user give the order another one than it has.
Assignments(o) == {Column(c, u) : c \in {"assigned", "issuer", "packer"}, u \in Users \cup {None}}
                    \ {Column(c, row[o][c]) : c \in {"assigned", "issuer", "packer"}}
NewTerms == Column("terms", "new")

\* A priority that is given to an order without a status makes it R105.
Prioritised(o, given) ==
  IF given /\ row[o].status = None THEN Column("status", "R105") ELSE Nothing

-----------------------------------------------------------------------------
(***************************************************************************)
(* The administrators' desk                                                *)
(***************************************************************************)

\* The stepper calls of an update to status s: a date at a time, then one clearing.
Dates(o, n) == [i \in 1..n |-> Date(o, {StepOrder[i]})]
IssueDates(o) == IF row[o].packer = None THEN Dates(o, 3) ELSE Dates(o, 4)

\* A version that leaves the later steps dated.
StepperPlanKeeping(o, s) ==
  CASE s = None -> <<>>
    [] s = "R105" -> Dates(o, 2)
    [] s = "W105" -> IssueDates(o)
    [] s = "F105" -> Dates(o, 5)
    [] s = "Dispatched" -> Dates(o, 8)

StepperPlan(o, s) ==
  CASE s = None -> <<Clear(o, StepsFrom(2))>>
    [] s = "R105" -> Append(Dates(o, 2), Clear(o, StepsFrom(3)))
    [] s = "W105" -> Append(IssueDates(o), Clear(o, StepsFrom(5)))
    [] s = "F105" -> Append(Dates(o, 5), Clear(o, StepsFrom(6)))
    [] s = "Dispatched" -> Dates(o, 8)

\* Columns that follow from a new status.
FollowsFrom(s) ==
  CASE s \in {None, "R105"} -> Column("stored", FALSE)
    [] s = "Dispatched" -> Over(Column("stored", FALSE), Column("assigned", None))
    [] OTHER -> Nothing

\* update with a status: the order keeps it if it is the one it has.
UpdateStatus(k, o, s) ==
  /\ o \in Present
  /\ LET changes == s # row[o].status IN
     Start(k, Request("status", o, {"status", "stored", "assigned"},
       Append(IF changes THEN StepperPlan(o, s) ELSE <<>>,
              Set(o, Over(Column("status", s), IF changes THEN FollowsFrom(s) ELSE Nothing)))))

\* The step that an assignment dates, in the stepper rows of the whole number.
AssignmentStep(o, form) ==
  CASE "issuer" \in DOMAIN form /\ row[o].issuer # form["issuer"]
         /\ row[o].status \in {None, "R105"} -> {"Under Issue"}
    [] "packer" \in DOMAIN form /\ row[o].packer # form["packer"]
         /\ row[o].status = "W105" -> {"Under Packing"}
    [] OTHER -> {}

\* update with a user: taking one away dates nothing.
UpdateUser(k, o, form) ==
  /\ o \in Present /\ form \in Assignments(o)
  /\ LET dates == IF \E c \in DOMAIN form : form[c] = None THEN {} ELSE AssignmentStep(o, form) IN
     Start(k, Request("user", o, DOMAIN form,
       IF dates = {} THEN <<Set(o, form)>> ELSE <<DateNumber(o, dates), Set(o, form)>>))

\* update with a location, the one column that users may change as well.
UpdateLocation(k, o) ==
  /\ o \in Present
  /\ Start(k, Request("location", o, {"stored"},
       <<DateNumber(o, {"WIP Storage"}), Set(o, Column("stored", TRUE))>>))

\* update with anything else, with or without a priority.
UpdateTerms(k, o, priority) ==
  /\ o \in Present
  /\ Start(k, Request("terms", o, {"terms", "status"},
       <<Set(o, Over(Prioritised(o, priority), NewTerms))>>))

\* bulkAssign: decided before the transaction, whatever has happened since.
BulkAssign(k, o, form) ==
  /\ o \in Present /\ form \in Assignments(o) \cup {Column("skipIssue", TRUE)}
  /\ Start(k, Request("bulk", o, DOMAIN form,
       <<[Set(o, form) EXCEPT !.byNumber = AssignmentStep(o, form)]>>))

BulkAssignTerms(k, o, priority) ==
  /\ o \in Present
  /\ Start(k, Request("bulk", o, {"terms", "status"},
       <<Set(o, Over(Prioritised(o, priority), NewTerms))>>))

\* bulkUpdatePriority leaves a dispatched order alone.
BulkUpdatePriority(k, o) ==
  /\ o \in Present /\ row[o].status # "Dispatched"
  /\ Start(k, Request("edit", o, {"terms"}, <<Set(o, NewTerms)>>))

\* bulkUpdateSkipStage: a stage is skipped while it is to come, the issue of materials
\* that are there; that is taken back at any time.
BulkUpdateSkipStage(k, o, skip) ==
  /\ o \in Present
  /\ skip => row[o].status = "W105" \/ (row[o].status \in {None, "R105"} /\ row[o].imported)
  /\ Start(k, Request(IF skip THEN "edit" ELSE "bulk", o, {"terms"}, <<Set(o, NewTerms)>>))

\* processExcelImport: one transaction, whose row is read, laid over and written back.
\* A version that writes the whole row back.
ExcelDataAll(o, form) == Over(form, row[o])
ExcelData(o, form) ==
  Over(form, [c \in {"assigned", "issuer", "packer", "skipIssue", "terms"} |-> row[o][c]])

ExcelImport(k, o, form) ==
  /\ o \in Present
  /\ form \in Assignments(o) \cup {NewTerms, Column("stored", TRUE)}
  /\ Start(k, Request("excel", o, DOMAIN form,
       <<[Set(o, ExcelData(o, form)) EXCEPT
            !.byNumber = IF "stored" \in DOMAIN form THEN {"WIP Storage"} ELSE {}]>>))

\* What is left of an order that is deleted: nothing, by the transaction or by cascade.
Vanish(o) ==
  /\ row' = [row EXCEPT ![o] = None]
  /\ stepper' = [stepper EXCEPT ![o] = {}] /\ dated' = [dated EXCEPT ![o] = {}]
  /\ count' = [m \in Materials |-> IF OrderOf[m] = o THEN NoCount ELSE count[m]]
  /\ loaded' = loaded \ {o}
  /\ UNCHANGED <<epoch, recorded, printed>>

\* remove, with the password.
RemoveOrder(o) ==
  /\ o \in Present
  /\ Vanish(o) /\ AtOnce(o)

-----------------------------------------------------------------------------
(***************************************************************************)
(* The sales desk                                                          *)
(***************************************************************************)

NewSteps(o) == [Blank(o) EXCEPT !.stepperRows = TRUE, !.date = {"To be Issued"}]

\* update: a dispatched order is not changed.
SalesUpdate(k, o) ==
  /\ o \in Present /\ row[o].status # "Dispatched"
  /\ Start(k, Request("edit", o, {"terms"}, <<Set(o, NewTerms)>>))

\* bulkUpdateDeliveryDate: likewise, the date or the clearance of the payment.
BulkUpdateDeliveryDate(k, o) ==
  /\ o \in Present /\ row[o].status # "Dispatched"
  /\ Start(k, Request("edit", o, {"terms"}, <<Set(o, NewTerms)>>))

SalesCreate(k, o) ==
  /\ o \notin Present
  /\ Start(k, Request("create", o, Columns, <<[Blank(o) EXCEPT !.create = TRUE], NewSteps(o)>>))

\* remove: foreign keys keep an order with materials or a dispatch.
SalesRemove(o) ==
  /\ o \in Present /\ ~row[o].imported /\ o \notin loaded
  /\ Vanish(o) /\ AtOnce(o)

\* processLabelPrint: a transaction dates the step and records the label, then it is
\* printed.
RecordLabel(o) == [Date(o, {"Ready for Dispatch"}) EXCEPT !.record = TRUE]
PrintLabel(o) == [Blank(o) EXCEPT !.print = TRUE]
LabelPlan(o) == <<RecordLabel(o), PrintLabel(o)>>

LabelPrint(k, o) ==
  /\ o \in Present
  /\ Start(k, Request("label", o, {}, LabelPlan(o)))

PrintFails(k) ==
  /\ req[k].plan # <<>> /\ Head(req[k].plan).print
  /\ req' = [req EXCEPT ![k] = Idle]
  /\ UNCHANGED <<table, started, mixed>>

\* printCustomerLabel of a label recorded before.
Reprint(o) ==
  /\ o \in recorded
  /\ printed' = printed \cup {o}
  /\ UNCHANGED <<row, stepper, dated, count, loaded, epoch, recorded>>
  /\ AtOnce(o)

-----------------------------------------------------------------------------
(***************************************************************************)
(* Import and reset of orders                                              *)
(***************************************************************************)

\* importBulkOrders: looks for the order before the transaction that makes it, with its
\* stepper rows, or updates it, whatever its status.
ImportPlan(o) ==
  IF o \in Present THEN <<Set(o, NewTerms)>>
  ELSE <<[NewSteps(o) EXCEPT !.create = TRUE]>>

ImportOrder(k, o) == Start(k, Request("import", o, Columns, ImportPlan(o)))

\* resetSalesOrder: as new, without its materials; but where it is stored and the
\* dispatch it is on stay.
Fresh(r) == [NewOrder EXCEPT !.skipIssue = r.skipIssue, !.stored = r.stored, !.terms = r.terms]

ResetOrder(o) ==
  /\ o \in Present
  /\ row' = [row EXCEPT ![o] = Fresh(@)]
  /\ stepper' = [stepper EXCEPT ![o] = @ \cup {"To be Issued"}]
  /\ dated' = [dated EXCEPT ![o] = {"To be Issued"}]
  /\ count' = [m \in Materials |-> IF OrderOf[m] = o THEN NoCount ELSE count[m]]
  /\ UNCHANGED <<loaded, epoch, recorded, printed>>
  /\ AtOnce(o)

-----------------------------------------------------------------------------
(***************************************************************************)
(* What other components do to an order                                    *)
(***************************************************************************)

\* ErpImport stores the materials of an order with an OBD: new rows, with the counts that
\* its columns Issue Stage and Packing Stage have, the same for all.
StoreMaterials(o) ==
  /\ o \in Present \ NoObd /\ MaterialsOf(o) # {}
  /\ row' = [row EXCEPT ![o].imported = TRUE]
  /\ \E c \in Counts : count' = [m \in Materials |-> IF OrderOf[m] = o THEN c ELSE count[m]]
  /\ epoch' = [epoch EXCEPT ![o] = @ + 1]
  /\ UNCHANGED <<stepper, dated, loaded, recorded, printed>>
  /\ AtOnce(o)

\* Dispatch puts the order on a vehicle, whatever its status.
Load(o) ==
  /\ o \in Present
  /\ row' = [row EXCEPT ![o].status = "Dispatched"]
  /\ stepper' = [stepper EXCEPT ![o] = @ \cup {"Dispatched"}]
  /\ dated' = [dated EXCEPT ![o] = @ \cup {"Dispatched"}]
  /\ loaded' = loaded \cup {o}
  /\ UNCHANGED <<count, epoch, recorded, printed>>
  /\ AtOnce(o)

DeskRequest(k, o) ==
  \/ \E s \in Statuses \cup {None} : UpdateStatus(k, o, s)
  \/ o \in Present /\ \E form \in Assignments(o) : UpdateUser(k, o, form)
  \/ UpdateLocation(k, o)
  \/ \E priority \in BOOLEAN : UpdateTerms(k, o, priority) \/ BulkAssignTerms(k, o, priority)
  \/ o \in Present /\ \E form \in Assignments(o) \cup {Column("skipIssue", TRUE)} : BulkAssign(k, o, form)
  \/ BulkUpdatePriority(k, o) \/ \E skip \in BOOLEAN : BulkUpdateSkipStage(k, o, skip)
  \/ o \in Present /\ \E form \in Assignments(o) \cup {NewTerms, Column("stored", TRUE)} : ExcelImport(k, o, form)
  \/ SalesUpdate(k, o) \/ BulkUpdateDeliveryDate(k, o) \/ SalesCreate(k, o) \/ LabelPrint(k, o) \/ ImportOrder(k, o)

AtOnceRequest(o) ==
  RemoveOrder(o) \/ SalesRemove(o) \/ Reprint(o) \/ ResetOrder(o) \/ StoreMaterials(o) \/ Load(o)
=============================================================================
