----------------------------- MODULE OrderTable -----------------------------
(***************************************************************************)
(* The tables that the desks, the order import and the handhelds share:    *)
(* SalesOrder, SO_Status_Stepper, ERP_Material_Data, CustomerLabelPrint;   *)
(* and how a request works on them.  A handler reads, decides, and then    *)
(* makes its database calls one after the other: what it decides is a plan *)
(* of writes, and every write is a step.  A write is one call, or all the  *)
(* calls of a transaction.                                                 *)
(***************************************************************************)
EXTENDS Integers, Sequences, FiniteSets

CONSTANTS
  Orders,       \* SalesOrder rows, by saleOrderNumber and outboundDelivery
  NumberOf,     \* saleOrderNumber of an order
  NoObd,        \* those of them whose outboundDelivery is empty
  Materials,    \* rows of ERP_Material_Data that orders can have
  OrderOf,      \* the order a material belongs to
  CodeOf,       \* its Material_Code
  Users,        \* users with the role USER
  Clerks,       \* requests that can run at a time
  MaxRequests,  \* bound: requests and imports in a behaviour
  None

Statuses == {"R105", "W105", "F105", "Dispatched"}
StepOrder == <<"To be Issued", "Under Issue", "Issued", "Under Packing", "Packed",
               "WIP Storage", "Ready for Dispatch", "Dispatched">>
Steps == {StepOrder[i] : i \in 1..8}
StepsFrom(n) == {StepOrder[i] : i \in n..8}

\* The columns the handlers decide on; "terms" stands for delivery date, payment,
\* priority, remarks and the other data that is only stored.
SalesOrder == [status : Statuses \cup {None}, assigned : Users \cup {None},
               issuer : Users \cup {None}, packer : Users \cup {None},
               skipIssue : BOOLEAN, stored : BOOLEAN, imported : BOOLEAN,
               terms : {"old", "new"}]
Columns == {"status", "assigned", "issuer", "packer", "skipIssue", "stored", "imported",
            "terms"}

ASSUME OrderTableAssumption ==
  /\ OrderOf \in [Materials -> Orders \ NoObd] /\ NoObd \subseteq Orders
  /\ MaxRequests \in Nat
  /\ None \notin Orders \cup Users \cup Clerks \cup Statuses \cup SalesOrder

NewOrder == [status |-> None, assigned |-> None, issuer |-> None, packer |-> None,
             skipIssue |-> FALSE, stored |-> FALSE, imported |-> FALSE, terms |-> "old"]

\* Every material is required once: a count is 0 or 1.
Counts == [issued : 0..1, packed : 0..1]
NoCount == [issued |-> 0, packed |-> 0]

VARIABLES
  row,        \* the SalesOrder rows, None where there is none
  stepper,    \* the SO_Status_Stepper rows of an order
  dated,      \* those with a createdDateTime
  count,      \* Issue_stage and Packing_stage of the materials of imported orders
  loaded,     \* orders with a Dispatch_SO row
  epoch,      \* how often an order's materials have been replaced: it tells their IDs
  recorded,   \* orders with a CustomerLabelPrintEntry
  printed,    \* orders the printer has printed a label of
  req,        \* the requests running
  started,    \* how many have been started
  mixed       \* history: orders with requests that overlapped or were cut short, or
              \* that a handheld's request for another order, or for one without an
              \* OBD, can change

table == <<row, stepper, dated, count, loaded, epoch, recorded, printed>>
vars == <<table, req, started, mixed>>

MaterialsOf(o) == {m \in Materials : OrderOf[m] = o}
Siblings(o) == {p \in Orders : NumberOf[p] = NumberOf[o]}
Present == {o \in Orders : row[o] # None}

\* The materials there are now.
InTable(m) == OrderOf[m] \in Present /\ row[OrderOf[m]].imported

\* A function g over a function f, as Prisma's data object over a row.
Over(g, f) == [x \in DOMAIN f \cup DOMAIN g |-> IF x \in DOMAIN g THEN g[x] ELSE f[x]]
Nothing == [x \in {} |-> None]
Column(c, v) == [x \in {c} |-> v]

-----------------------------------------------------------------------------
(***************************************************************************)
(* Writes                                                                  *)
(***************************************************************************)

\* What a write does to the order it names: create the row, upsert a date in stepper
\* rows, clear dates, set columns, set counts, record a label, or print one.  byNumber is
\* the one update that is not by ID: a date in the stepper rows of the whole number.
Blank(o) == [order |-> o, create |-> FALSE, stepperRows |-> FALSE, date |-> {}, clear |-> {},
             byNumber |-> {}, set |-> Nothing, counts |-> Nothing, by |-> "ID",
             of |-> Nothing, record |-> FALSE, print |-> FALSE]

Date(o, S) == [Blank(o) EXCEPT !.date = S]
Clear(o, S) == [Blank(o) EXCEPT !.clear = S]
DateNumber(o, S) == [Blank(o) EXCEPT !.byNumber = S]
Set(o, data) == [Blank(o) EXCEPT !.set = data]

\* An insert finds no row of that key, an upsert or update by ID finds its row, and an
\* update of a material by ID the material of that import, whatever its order.
Possible(w) ==
  LET there == row[w.order] # None IN
  /\ w.create => ~there
  /\ w.date # {} \/ DOMAIN w.set # {} \/ w.stepperRows => there \/ w.create
  /\ w.by = "ID" =>
       \A m \in DOMAIN w.counts : InTable(m) /\ epoch[OrderOf[m]] = w.of[OrderOf[m]]

\* Materials a write sets: those that are there (a faulty version does not care).
SetMaterialsOnly(w) == DOMAIN w.counts
SetMaterials(w) == {m \in DOMAIN w.counts : InTable(m)}

Perform(w) ==
  LET o == w.order IN
  /\ row' = [row EXCEPT ![o] = IF w.create THEN Over(w.set, NewOrder)
                               ELSE IF @ = None THEN None ELSE Over(w.set, @)]
  /\ stepper' = [stepper EXCEPT ![o] = IF w.stepperRows THEN Steps ELSE @ \cup w.date]
  /\ dated' = [p \in Orders |->
       ((IF p = o THEN dated[p] \cup w.date ELSE dated[p]) \ (IF p = o THEN w.clear ELSE {}))
         \cup (IF p \in Siblings(o) THEN w.byNumber \cap stepper[p] ELSE {})]
  /\ count' = [m \in Materials |-> IF m \in SetMaterials(w) THEN w.counts[m] ELSE count[m]]
  /\ recorded' = IF w.record THEN recorded \cup {o} ELSE recorded
  /\ printed' = IF w.print THEN printed \cup {o} ELSE printed
  /\ UNCHANGED <<loaded, epoch>>

-----------------------------------------------------------------------------
(***************************************************************************)
(* Requests                                                                *)
(***************************************************************************)

\* What a request was asked for, its order and writes left, and for a handheld its copy
\* of the counts; "moved" says that the order's row, "stale" which materials, others have
\* changed since it read them.
Idle == [op |-> "idle", order |-> None, asked |-> {}, plan |-> <<>>, user |-> None,
         by |-> "ID", copy |-> Nothing, left |-> {}, of |-> Nothing, moved |-> FALSE,
         stale |-> {}]

Active == {k \in Clerks : req[k] # Idle}
ActiveOn(S) == {k \in Active : req[k].order \in S}

\* Requests on orders of one number overlap when one starts while another runs.
Overlapping(o) == IF ActiveOn(Siblings(o)) # {} THEN mixed \cup Siblings(o) ELSE mixed

Changed(o) == row'[o] # row[o]
Recounted == {m \in Materials : count'[m] # count[m]} \cup
             {m \in Materials : epoch'[OrderOf[m]] # epoch[OrderOf[m]]}

\* The running requests other than k after a step that changes the tables.
Noted(k, q) == [c \in Clerks |->
  IF c = k THEN q
  ELSE IF req[c] = Idle THEN Idle
  ELSE [req[c] EXCEPT !.moved = @ \/ Changed(req[c].order), !.stale = @ \cup Recounted]]

\* A handler that has read what it decides on.
Start(k, q) ==
  /\ req[k] = Idle /\ started < MaxRequests
  /\ started' = started + 1
  /\ mixed' = Overlapping(q.order)
  /\ req' = [req EXCEPT ![k] = q]
  /\ UNCHANGED table

\* ... whose work is one transaction, or one call, that reads and writes.
AtOnce(o) ==
  /\ started < MaxRequests
  /\ started' = started + 1
  /\ mixed' = Overlapping(o)
  /\ req' = Noted(None, Idle)

Rest(q) == IF Len(q.plan) = 1 THEN Idle ELSE [q EXCEPT !.plan = Tail(@)]

\* The next write of a request; if it is refused, the request ends with an error.
Write(k) ==
  /\ req[k].plan # <<>>
  /\ LET w == Head(req[k].plan) IN
       IF Possible(w)
       THEN /\ Perform(w)
            /\ req' = Noted(k, Rest(req[k]))
            /\ UNCHANGED mixed
       ELSE /\ req' = [req EXCEPT ![k] = Idle]
            /\ mixed' = mixed \cup Siblings(req[k].order)
            /\ UNCHANGED table
  /\ UNCHANGED started

\* The process ends, and with it the requests running.
Restart ==
  /\ Active # {}
  /\ req' = [k \in Clerks |-> Idle]
  /\ mixed' = mixed \cup UNION {Siblings(req[k].order) : k \in Active}
  /\ UNCHANGED <<table, started>>
=============================================================================
