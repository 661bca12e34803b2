------------------------------ MODULE OrderWork ------------------------------
(***************************************************************************)
(* The desks, the order import and the handhelds working on the same       *)
(* orders: any two requests, of the same or of different components, with  *)
(* every interleaving of their database calls.                             *)
(***************************************************************************)
EXTENDS OrderDesk, HandheldSync

CONSTANTS
  InitialRows   \* the SalesOrder tables that a behaviour may start with

ASSUME OrderWorkAssumption == InitialRows \subseteq [Orders -> SalesOrder \cup {None}]

\* What the stepper and the counts of an order are when no request has gone wrong.
StepsOf(r) ==
  CASE r.status = None -> {StepOrder[1]}
    [] r.status = "R105" -> {StepOrder[i] : i \in 1..2}
    [] r.status = "W105" -> {StepOrder[i] : i \in 1..3}
    [] r.status = "F105" -> {StepOrder[i] : i \in 1..5}
    [] r.status = "Dispatched" -> Steps

CountsOf(r) ==
  IF ~r.imported THEN {NoCount}
  ELSE CASE r.status \in {None, "R105"} -> {c \in Counts : c.packed = 0}
         [] r.status = "W105" -> {c \in Counts : c.issued = 1}
         [] OTHER -> {[issued |-> 1, packed |-> 1]}

NotYetDone(o) ==
  row[o] # None /\ row[o].imported =>
    /\ row[o].status \in {None, "R105"} => \E m \in MaterialsOf(o) : count[m].issued = 0
    /\ row[o].status = "W105" => \E m \in MaterialsOf(o) : count[m].packed = 0

WorkInit ==
  /\ row \in InitialRows
  /\ stepper = [o \in Orders |-> IF row[o] = None THEN {} ELSE Steps]
  /\ dated = [o \in Orders |-> IF row[o] = None THEN {} ELSE StepsOf(row[o])]
  /\ count \in [Materials -> Counts]
  /\ \A m \in Materials :
       count[m] \in IF row[OrderOf[m]] = None THEN {NoCount} ELSE CountsOf(row[OrderOf[m]])
  /\ \A o \in Orders : MaterialsOf(o) # {} => NotYetDone(o)
  /\ loaded = {o \in Present : row[o].status = "Dispatched"}
  /\ epoch = [o \in Orders |-> 0]
  /\ recorded = {} /\ printed = {}
  /\ req = [k \in Clerks |-> Idle] /\ started = 0 /\ mixed = {}

WorkNext ==
  \/ /\ started < MaxRequests
     /\ \E o \in Orders :
          \/ \E k \in Clerks \ Active : DeskRequest(k, o) \/ HandheldRequest(k, o)
          \/ AtOnceRequest(o)
  \/ \E k \in Active : Write(k) \/ PrintFails(k) \/ HandheldStep(k)
  \/ Restart

WorkSpec == WorkInit /\ [][WorkNext]_vars

-----------------------------------------------------------------------------
(***************************************************************************)
(* Properties                                                              *)
(***************************************************************************)

Ops == {"idle", "status", "user", "location", "terms", "bulk", "edit", "excel", "create",
        "label", "import", "copy", "sync", "data"}

TablesOK ==
  /\ row \in [Orders -> SalesOrder \cup {None}]
  /\ stepper \in [Orders -> SUBSET Steps] /\ dated \in [Orders -> SUBSET Steps]
  /\ count \in [Materials -> Counts]
  /\ epoch \in [Orders -> 0..MaxRequests]
  /\ loaded \subseteq Present
  /\ recorded \subseteq Orders
  \* A label is printed only once it is recorded.
  /\ printed \subseteq recorded
  \* The stepper and the counts go with the order.
  /\ \A o \in Orders : dated[o] \subseteq stepper[o] /\ (row[o] = None => stepper[o] = {})
  /\ \A m \in Materials :
       count[m] # NoCount => row[OrderOf[m]] # None /\ row[OrderOf[m]].imported

WorkTypeOK ==
  /\ TablesOK
  /\ mixed \subseteq Orders
  /\ started \in 0..MaxRequests
  /\ \A k \in Clerks : req[k].op \in Ops /\ req[k].order \in Orders \cup {None}

\* Once no request runs on an order whose requests neither overlapped nor were cut short,
\* and that no handheld's request for another order could change, it has all its stepper
\* rows, and they date what its status says is done and nothing that it says is not.
StepperAgrees ==
  \A o \in Present \ mixed :
    ActiveOn({o}) = {} =>
      /\ stepper[o] = Steps
      /\ row[o].status \in {None, "R105"} => dated[o] \cap {"Issued", "Packed", "Dispatched"} = {}
      /\ row[o].status = "W105" => "Issued" \in dated[o]
      /\ row[o].status = "F105" => "Packed" \in dated[o]
      /\ row[o].status = "Dispatched" => "Dispatched" \in dated[o]

\* The request that takes a step: the one whose record changes otherwise than by a note.
Acting(k) == req[k] # Idle /\ (req'[k].plan # req[k].plan \/ req'[k].left # req[k].left)

Handheld == {"sync", "data"}

\* The orders whose row a request may change: its own, and for a handheld's request for an
\* order without an OBD, where it looks for a complete stage, those of the number.
Targets(q) == IF q.op \in Handheld THEN Scope(q.order) ELSE {q.order}

\* A dispatched order goes back, or gets other data, only where that was asked for by a
\* form of the administrators, an import, or a reset; by a handheld with access by
\* number, or with an order of the number that has no OBD; or by a request that decided
\* before the order changed.
DispatchedKept ==
  [][\A o \in Orders :
       row[o] # None /\ row[o].status = "Dispatched" /\ row'[o] # row[o] /\ row'[o] # None
       /\ started' = started =>
         \E k \in Clerks :
           /\ Acting(k) /\ o \in Targets(req[k])
           /\ \/ req[k].op \in {"status", "user", "location", "terms", "bulk", "excel", "import"}
              \/ req[k].asked = {"number"}
              \/ req[k].order \in NoObd
              \/ req[k].moved]_vars

\* That a row m gets the count a handheld has sent for it: under its ID, whichever order
\* the row belongs to, or under its code, where the code reaches it.
SentFor(q, m, c) ==
  /\ q.op \in Handheld
  /\ \E x \in DOMAIN q.copy :
       /\ c = q.copy[x]
       /\ IF q.by = "ID" THEN x = m ELSE CodeOf[x] = CodeOf[m] /\ OrderOf[m] \in Scope(q.order)

\* Counts change only by a handheld, to what it sent for the row, and of other orders only
\* if it sent their rows' IDs or has no OBD.  Otherwise a request does nothing to an order
\* that is not its target but date Under Issue, Under Packing or WIP Storage in the stepper
\* of an order of the same number; and of a target it changes no column that it was not
\* asked to, unless it is the Excel import, which writes back the users and the terms it
\* read before another request changed them, or the completion of a handheld's counts.
OnlyAskedChanges ==
  [][\A k \in Clerks :
       Acting(k) =>
         /\ \A m \in Materials : count'[m] # count[m] => SentFor(req[k], m, count'[m])
         /\ \A p \in Orders \ Targets(req[k]) :
              /\ row'[p] = row[p] /\ stepper'[p] = stepper[p]
              /\ dated[p] \subseteq dated'[p]
              /\ dated'[p] # dated[p] =>
                   /\ NumberOf[p] = NumberOf[req[k].order]
                   /\ dated'[p] \ dated[p] \subseteq {"Under Issue", "Under Packing", "WIP Storage"}
         /\ \A p \in Targets(req[k]) :
              row[p] # None /\ row'[p] # None =>
                \A c \in Columns : row'[p][c] # row[p][c] =>
                  \/ c \in req[k].asked
                  \/ req[k].op = "excel" /\ req[k].moved
                       /\ c \in {"assigned", "issuer", "packer", "skipIssue", "terms"}
                  \/ req[k].op \in Handheld /\ c = "status"]_vars

\* A handheld's counts take none away, unless another request has changed the material
\* since the handheld downloaded it, or it has no IDs and another row that it sends has the
\* same code: then every row of the code gets the last of their counts.
CountsFallOnlyStale ==
  [][\A k \in Clerks, m \in Materials :
       Acting(k) /\ (count'[m].issued < count[m].issued \/ count'[m].packed < count[m].packed) =>
         \/ m \in req[k].stale
         \/ req[k].by = "code" /\ \E x \in DOMAIN req[k].copy \ {m} : CodeOf[x] = CodeOf[m]]_vars

\* A handheld that ends alone on its order, which has an OBD, leaves a complete order
\* packed, and one that is issued at least issued: nothing more has to be sent for the
\* status to follow.
CompletionSeen ==
  [][\A k \in Clerks :
       LET o == req[k].order IN
       req[k].op \in Handheld /\ req'[k] = Idle /\ o \notin mixed'
       /\ row'[o] # None /\ row'[o].imported /\ MaterialsOf(o) # {} =>
         /\ Complete(MaterialsOf(o), count', "packed") =>
              row'[o].status = "F105" /\ "Packed" \in dated'[o]
         /\ Complete(MaterialsOf(o), count', "issued") => row'[o].status \in {"W105", "F105"}]_vars
=============================================================================
