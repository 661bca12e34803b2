--------------------------- MODULE OrderWork_proofs --------------------------
(***************************************************************************)
(* Theorems about the desks and handhelds on orders, for any number of     *)
(* orders, materials, users and requests that run at a time.               *)
(***************************************************************************)
EXTENDS OrderWork, SequenceTheorems, TLAPS

-----------------------------------------------------------------------------
(***************************************************************************)
(* What a request may be                                                   *)
(***************************************************************************)

NumberSteps == {"Under Issue", "Under Packing", "WIP Storage"}
ExcelColumns == {"assigned", "issuer", "packer", "skipIssue", "terms"}
HandheldOps == {"copy", "sync", "data"}
Fields == {"op", "order", "asked", "plan", "user", "by", "copy", "left", "of", "moved", "stale"}

Values(c) ==
  CASE c = "status" -> Statuses \cup {None}
    [] c \in {"assigned", "issuer", "packer"} -> Users \cup {None}
    [] c \in {"skipIssue", "stored", "imported"} -> BOOLEAN
    [] c = "terms" -> {"old", "new"}

\* A write to order o.
WriteOK(w, o) ==
  /\ w.order = o
  /\ w.create \in BOOLEAN /\ w.stepperRows \in BOOLEAN
  /\ w.record \in BOOLEAN /\ w.print \in BOOLEAN
  /\ w.date \subseteq Steps /\ w.clear \subseteq Steps /\ w.byNumber \subseteq NumberSteps
  /\ DOMAIN w.set \subseteq Columns \ {"imported"}
  /\ \A c \in DOMAIN w.set : w.set[c] \in Values(c)
  /\ DOMAIN w.counts \subseteq Materials
  /\ \A m \in DOMAIN w.counts : w.counts[m] \in Counts

\* Columns that a request may set though it was not asked to.
Besides(q) ==
  IF q.op = "excel" THEN ExcelColumns ELSE IF q.op \in Handheld THEN {"status"} ELSE {}

IsPlan(P) == P \in Seq({P[i] : i \in DOMAIN P})

PlanOK(q) ==
  /\ IsPlan(q.plan)
  /\ \A i \in DOMAIN q.plan :
       /\ q.plan[i].order \in Targets(q) /\ WriteOK(q.plan[i], q.plan[i].order)
       /\ DOMAIN q.plan[i].set \subseteq q.asked \cup Besides(q)
       /\ q.op \in {"create", "label"} => DOMAIN q.plan[i].set = {}
       /\ q.op = "edit" => "status" \notin DOMAIN q.plan[i].set
       /\ q.plan[i].print =>
            /\ q.op = "label" /\ i = Len(q.plan) /\ q.plan[i] = PrintLabel(q.order)
            /\ q.order \in recorded \/ \E j \in DOMAIN q.plan : j < i /\ q.plan[j].record

\* What a handheld sends are the counts of its copy.
CopyOK(q) ==
  /\ DOMAIN q.copy \subseteq Materials /\ q.left \subseteq DOMAIN q.copy
  /\ \A m \in DOMAIN q.copy : q.copy[m] \in Counts
  /\ q.op = "copy" => q.plan = <<>> /\ q.by = "ID"
  /\ q.op = "data" /\ q.plan # <<>> => q.left = {}
  /\ \A i \in DOMAIN q.plan :
       /\ "status" \in DOMAIN q.plan[i].set => q.plan[i].set["status"] \in {"W105", "F105"}
       /\ \A m \in DOMAIN q.plan[i].counts : SentFor(q, m, q.plan[i].counts[m])

RequestOK(q) ==
  /\ DOMAIN q = Fields
  /\ q.op \in Ops \ {"idle"} /\ q.order \in Orders /\ q.moved \in BOOLEAN /\ q.by \in {"ID", "code"}
  /\ PlanOK(q)
  /\ IF q.op \in HandheldOps THEN CopyOK(q)
     ELSE q.left = {} /\ q.plan # <<>> /\ \A i \in DOMAIN q.plan : DOMAIN q.plan[i].counts = {}

\* The rows of a copy that a handheld sends by a code that another of them has.
Shared(q) ==
  {m \in DOMAIN q.copy : q.by = "code" /\ \E x \in DOMAIN q.copy \ {m} : CodeOf[x] = CodeOf[m]}

\* What a request has read is still so, unless it is noted that it has changed.
ReadOK(q) ==
  /\ q.op \in HandheldOps => \A m \in DOMAIN q.copy \ (q.stale \cup Shared(q)) :
       count[m].issued <= q.copy[m].issued /\ count[m].packed <= q.copy[m].packed
  /\ q.op = "excel" /\ ~q.moved =>
       /\ row[q.order] # None
       /\ \A i \in DOMAIN q.plan : \A c \in DOMAIN q.plan[i].set \ q.asked :
            q.plan[i].set[c] = row[q.order][c]
  /\ (q.op = "edit" \/ (q.op \in HandheldOps /\ q.asked # {"number"})) /\ ~q.moved =>
       row[q.order] # None /\ row[q.order].status # "Dispatched"

RequestsOK == DOMAIN req = Clerks /\ \A k \in Active : RequestOK(req[k])
ReadsOK == \A k \in Active : ReadOK(req[k])

WorkInv ==
  /\ WorkTypeOK
  /\ \A o \in Orders : epoch[o] <= started
  /\ RequestsOK /\ ReadsOK

-----------------------------------------------------------------------------
(***************************************************************************)
(* Rows, plans and notes                                                   *)
(***************************************************************************)

LEMMA StepNames ==
  Steps = {"To be Issued", "Under Issue", "Issued", "Under Packing", "Packed", "WIP Storage",
           "Ready for Dispatch", "Dispatched"}
<1>1. 1..8 = {1, 2, 3, 4, 5, 6, 7, 8}
  OBVIOUS
<1>2. /\ StepOrder[1] = "To be Issued" /\ StepOrder[2] = "Under Issue"
      /\ StepOrder[3] = "Issued" /\ StepOrder[4] = "Under Packing"
      /\ StepOrder[5] = "Packed" /\ StepOrder[6] = "WIP Storage"
      /\ StepOrder[7] = "Ready for Dispatch" /\ StepOrder[8] = "Dispatched"
  BY DEF StepOrder
<1>3. Steps = {StepOrder[i] : i \in {1, 2, 3, 4, 5, 6, 7, 8}}
  BY <1>1 DEF Steps
<1> HIDE DEF StepOrder
<1> QED BY <1>2, <1>3

LEMMA RowValues ==
  ASSUME NEW r \in SalesOrder
  PROVE  DOMAIN r = Columns /\ \A c \in Columns : r[c] \in Values(c)
  BY DEF SalesOrder, Columns, Values

LEMMA RowFromValues ==
  ASSUME NEW r, r = [c \in Columns |-> r[c]], \A c \in Columns : r[c] \in Values(c)
  PROVE  r \in SalesOrder
<1>1. r = [status |-> r.status, assigned |-> r.assigned, issuer |-> r.issuer,
           packer |-> r.packer, skipIssue |-> r.skipIssue, stored |-> r.stored,
           imported |-> r.imported, terms |-> r.terms]
  BY DEF Columns
<1> QED BY <1>1 DEF Columns, Values, SalesOrder

\* Data laid over a row is a row with that data in it.
LEMMA OverRow ==
  ASSUME NEW r \in SalesOrder, NEW g, DOMAIN g \subseteq Columns, \A c \in DOMAIN g : g[c] \in Values(c)
  PROVE  /\ Over(g, r) \in SalesOrder
         /\ \A c \in Columns : Over(g, r)[c] = IF c \in DOMAIN g THEN g[c] ELSE r[c]
         /\ DOMAIN g = {} => Over(g, r) = r
<1>1. DOMAIN r = Columns /\ \A c \in Columns : r[c] \in Values(c)
  BY RowValues
<1>2. Over(g, r) = [c \in Columns |-> IF c \in DOMAIN g THEN g[c] ELSE r[c]]
  BY <1>1 DEF Over
<1>3. Over(g, r) \in SalesOrder
  BY <1>1, <1>2, RowFromValues
<1>4. r = [c \in Columns |-> r[c]]
  BY <1>1 DEF SalesOrder
<1> QED BY <1>2, <1>3, <1>4

LEMMA NewOrderIsRow == NewOrder \in SalesOrder /\ NewOrder # None
<1>1. NewOrder \in SalesOrder
  BY DEF NewOrder, SalesOrder, Statuses
<1> QED BY <1>1, OrderTableAssumption

LEMMA SequenceIsPlan ==
  ASSUME NEW S, NEW s \in Seq(S)
  PROVE  IsPlan(s)
<1> DEFINE R == {s[i] : i \in DOMAIN s}
<1>1. Len(s) \in Nat /\ DOMAIN s = 1..Len(s) /\ s \in [1..Len(s) -> S]
  BY LenProperties
<1>2. s \in [1..Len(s) -> R]
  BY <1>1
<1>3. s \in Seq(R)
  BY <1>1, <1>2, SMTT(40)
<1> QED BY <1>3 DEF IsPlan

\* What is left of a plan after its first write.
LEMMA RestOfPlan ==
  ASSUME NEW P, IsPlan(P), P # <<>>
  PROVE  /\ 1 \in DOMAIN P /\ Head(P) = P[1] /\ Len(P) \in Nat \ {0} /\ DOMAIN P = 1..Len(P)
         /\ IsPlan(Tail(P)) /\ DOMAIN Tail(P) = 1..(Len(P) - 1) /\ Len(Tail(P)) = Len(P) - 1
         /\ \A i \in DOMAIN Tail(P) : i + 1 \in DOMAIN P /\ Tail(P)[i] = P[i + 1]
         /\ Tail(P) = <<>> <=> Len(P) = 1
<1> DEFINE S == {P[i] : i \in DOMAIN P}
<1>1. P \in Seq(S)
  BY DEF IsPlan
<1> HIDE DEF S
<1>2. Len(P) \in Nat \ {0} /\ DOMAIN P = 1..Len(P)
  BY <1>1, EmptySeq, LenProperties
<1>3. Head(P) = P[1] /\ 1 \in DOMAIN P
  BY <1>1, <1>2
<1>4. Tail(P) \in Seq(S) /\ Len(Tail(P)) = Len(P) - 1 /\ \A i \in 1..(Len(P) - 1) : Tail(P)[i] = P[i + 1]
  BY <1>1, HeadTailProperties
<1>5. DOMAIN Tail(P) = 1..(Len(P) - 1) /\ IsPlan(Tail(P))
  BY <1>4, LenProperties, SequenceIsPlan
<1>6. Tail(P) = <<>> <=> Len(P) = 1
  <2>1. Len(<<>>) = 0 /\ \A t \in Seq(S) : t # <<>> => Len(t) \in Nat \ {0}
    BY EmptySeq
  <2>2. Tail(P) = <<>> => Len(Tail(P)) = 0
    BY <2>1
  <2>3. Len(Tail(P)) = 0 => Tail(P) = <<>>
    BY <1>4, <2>1
  <2> QED BY <1>2, <1>4, <2>2, <2>3
<1>7. \A i \in DOMAIN Tail(P) : i + 1 \in DOMAIN P /\ Tail(P)[i] = P[i + 1]
  BY <1>2, <1>4, <1>5
<1> QED BY <1>2, <1>3, <1>4, <1>5, <1>6, <1>7

LEMMA EmptyPlan == IsPlan(<<>>) /\ DOMAIN <<>> = {}
  BY DEF IsPlan

LEMMA IdleFields == DOMAIN Idle = Fields /\ Idle.op = "idle" /\ Idle.plan = <<>> /\ Idle.left = {} /\ Idle.order = None
  BY DEF Idle, Fields

-----------------------------------------------------------------------------
(***************************************************************************)
(* Steps of running requests                                               *)
(***************************************************************************)

LEMMA InvParts ==
  ASSUME WorkInv
  PROVE  /\ TablesOK /\ mixed \subseteq Orders /\ started \in 0..MaxRequests
         /\ row \in [Orders -> SalesOrder \cup {None}] /\ count \in [Materials -> Counts]
         /\ DOMAIN req = Clerks
         /\ \A k \in Clerks : req[k] # Idle => RequestOK(req[k]) /\ ReadOK(req[k])
         /\ \A k \in Clerks : DOMAIN req[k] = Fields
  BY IdleFields DEF WorkInv, WorkTypeOK, TablesOK, RequestsOK, ReadsOK, Active, RequestOK

\* The invariant from its parts after a step.
LEMMA InvFromParts ==
  ASSUME TablesOK', (mixed \subseteq Orders)', (started \in 0..MaxRequests)',
         \A o \in Orders : epoch'[o] <= started',
         DOMAIN req' = Clerks,
         \A k \in Clerks : req'[k] # Idle => RequestOK(req[k])' /\ ReadOK(req[k])'
  PROVE  WorkInv'
<1>1. \A k \in Clerks : req'[k].op \in Ops /\ req'[k].order \in Orders \cup {None}
  BY IdleFields DEF RequestOK, Ops
<1>2. WorkTypeOK'
  BY <1>1 DEF WorkTypeOK
<1> QED BY <1>2 DEF WorkInv, RequestsOK, ReadsOK, Active

\* The other requests note what a step changes, and stay what they were.
LEMMA OthersKeep ==
  ASSUME WorkInv, NEW k, NEW q, req' = Noted(k, q), recorded \subseteq recorded',
         NEW c \in Clerks, c # k
  PROVE  /\ req'[c] = Idle <=> req[c] = Idle
         /\ req[c] # Idle => RequestOK(req[c])' /\ ReadOK(req[c])'
<1>1. CASE req[c] = Idle
  BY <1>1 DEF Noted
<1>2. CASE req[c] # Idle
  <2>1. DOMAIN req[c] = Fields /\ RequestOK(req[c]) /\ ReadOK(req[c]) /\ req[c].moved \in BOOLEAN
    BY <1>2, InvParts DEF RequestOK
  <2>2. /\ DOMAIN req'[c] = Fields
        /\ \A f \in Fields \ {"moved", "stale"} : req'[c][f] = req[c][f]
        /\ req'[c].moved \in BOOLEAN
        /\ ~req'[c].moved => ~req[c].moved /\ row'[req[c].order] = row[req[c].order]
        /\ req'[c].stale = req[c].stale \cup Recounted
    BY <1>2, <2>1 DEF Noted, Fields, Changed
  <2>3. /\ req'[c].op = req[c].op /\ req'[c].order = req[c].order /\ req'[c].asked = req[c].asked
        /\ req'[c].plan = req[c].plan /\ req'[c].copy = req[c].copy /\ req'[c].left = req[c].left
        /\ req'[c].by = req[c].by
    BY <2>2 DEF Fields
  <2>4. req'[c] # Idle
    BY <2>1, <2>3, IdleFields DEF RequestOK
  <2>5. PlanOK(req[c])'
    BY <2>1, <2>3 DEF RequestOK, PlanOK, Besides, Targets
  <2>6. req[c].op \in HandheldOps => CopyOK(req[c])'
    BY <2>1, <2>3 DEF RequestOK, CopyOK, SentFor
  <2>7. RequestOK(req[c])'
    BY <2>1, <2>2, <2>3, <2>5, <2>6 DEF RequestOK
  <2>8. ReadOK(req[c])'
    <3>1. req[c].op \in HandheldOps => DOMAIN req[c].copy \subseteq Materials
      BY <2>1 DEF RequestOK, CopyOK
    <3>2. \A m \in Materials : m \notin req'[c].stale => m \notin req[c].stale /\ count'[m] = count[m]
      BY <2>2 DEF Recounted
    <3>3. ~req'[c].moved => ~req[c].moved /\ row'[req[c].order] = row[req[c].order]
      BY <2>2
    <3>4. Shared(req[c])' = Shared(req[c])
      BY <2>3 DEF Shared
    <3> QED BY <2>1, <2>3, <3>1, <3>2, <3>3, <3>4 DEF ReadOK
  <2> QED BY <1>2, <2>4, <2>7, <2>8
<1> QED BY <1>1, <1>2

\* A new request, or a request that goes on without touching the tables.
LEMMA ReplaceKeeps ==
  ASSUME WorkInv, NEW k \in Clerks, NEW q, q # Idle => RequestOK(q) /\ ReadOK(q),
         req' = [req EXCEPT ![k] = q], UNCHANGED table,
         mixed' \subseteq Orders, started' \in started..MaxRequests
  PROVE  WorkInv'
<1>1. TablesOK' /\ row' = row /\ count' = count /\ recorded' = recorded /\ epoch' = epoch
  BY InvParts DEF table, TablesOK, Present
<1>2. DOMAIN req' = Clerks /\ \A c \in Clerks : req'[c] = IF c = k THEN q ELSE req[c]
  BY InvParts
<1>3. \A c \in Clerks : req'[c] # Idle => RequestOK(req'[c]) /\ ReadOK(req'[c])
  BY <1>2, InvParts
<1>4. \A c \in Clerks : req'[c] # Idle => RequestOK(req[c])' /\ ReadOK(req[c])'
  <2> SUFFICES ASSUME NEW c \in Clerks, req'[c] # Idle
               PROVE  RequestOK(req[c])' /\ ReadOK(req[c])'
    OBVIOUS
  <2>1. RequestOK(req'[c]) /\ ReadOK(req'[c])
    BY <1>3
  <2>2. PlanOK(req'[c]) => PlanOK(req[c])'
    BY <1>1 DEF PlanOK, Besides, Targets
  <2>3. CopyOK(req'[c]) => CopyOK(req[c])'
    BY DEF CopyOK, SentFor
  <2>4. RequestOK(req[c])'
    BY <2>1, <2>2, <2>3 DEF RequestOK
  <2>5. ReadOK(req[c])'
    BY <1>1, <2>1 DEF ReadOK, Shared
  <2> QED BY <2>4, <2>5
<1>5. \A o \in Orders : epoch'[o] <= started'
  <2>1. started \in Nat /\ MaxRequests \in Nat /\ \A o \in Orders : epoch[o] \in Nat /\ epoch[o] <= started
    BY InvParts, OrderTableAssumption DEF WorkInv, TablesOK
  <2> QED BY <1>1, <2>1
<1>6. started' \in 0..MaxRequests
  BY InvParts, OrderTableAssumption
<1> QED BY <1>1, <1>2, <1>4, <1>5, <1>6, InvFromParts

\* What a write does to the rows, the counts and the stepper, an order at a time.
LEMMA PerformEffect ==
  ASSUME TablesOK, NEW o \in Orders, NEW w, WriteOK(w, o), Possible(w), Perform(w)
  PROVE  /\ row' \in [Orders -> SalesOrder \cup {None}] /\ \A p \in Orders \ {o} : row'[p] = row[p]
         /\ row[o] # None => row'[o] = Over(w.set, row[o]) /\ row'[o] # None /\ ~w.create
         /\ row[o] = None /\ w.create => row'[o] = Over(w.set, NewOrder) /\ row'[o] # None
         /\ row[o] = None /\ ~w.create => row'[o] = None /\ w.date = {} /\ ~w.stepperRows /\ DOMAIN w.set = {}
         /\ row[o] # None => row'[o].imported = row[o].imported
         /\ row[o] = None /\ row'[o] # None => ~row'[o].imported
         /\ count' = [m \in Materials |-> IF m \in SetMaterials(w) THEN w.counts[m] ELSE count[m]]
         /\ SetMaterials(w) \subseteq DOMAIN w.counts /\ \A m \in SetMaterials(w) : InTable(m)
         /\ (w.stepperRows => stepper'[o] = Steps) /\ (~w.stepperRows => stepper'[o] = stepper[o] \cup w.date)
         /\ stepper' \in [Orders -> SUBSET Steps] /\ \A p \in Orders \ {o} : stepper'[p] = stepper[p]
         /\ dated'[o] = ((dated[o] \cup w.date) \ w.clear) \cup
                        (IF o \in Siblings(o) THEN w.byNumber \cap stepper[o] ELSE {})
         /\ \A p \in Orders \ {o} :
              dated'[p] = dated[p] \cup (IF p \in Siblings(o) THEN w.byNumber \cap stepper[p] ELSE {})
<1>1. w.order = o /\ DOMAIN w.set \subseteq Columns /\ "imported" \notin DOMAIN w.set
      /\ (\A c \in DOMAIN w.set : w.set[c] \in Values(c)) /\ w.create \in BOOLEAN
      /\ w.stepperRows \in BOOLEAN
  BY DEF WriteOK
<1>2. /\ row' = [row EXCEPT ![o] = IF w.create THEN Over(w.set, NewOrder)
                                   ELSE IF @ = None THEN None ELSE Over(w.set, @)]
      /\ row \in [Orders -> SalesOrder \cup {None}]
  BY <1>1 DEF Perform, TablesOK
<1>3. w.create => row[o] = None
  BY <1>1 DEF Possible
<1>4. row[o] = None /\ ~w.create => w.date = {} /\ ~w.stepperRows /\ DOMAIN w.set = {}
  BY <1>1 DEF Possible
<1>5. ASSUME NEW r \in SalesOrder
      PROVE  Over(w.set, r) \in SalesOrder /\ Over(w.set, r).imported = r.imported /\ Over(w.set, r) # None
  <2>1. Over(w.set, r) \in SalesOrder /\ Over(w.set, r)["imported"] = r["imported"]
    BY <1>1, OverRow DEF Columns
  <2> QED BY <2>1, OrderTableAssumption
<1>6. NewOrder \in SalesOrder /\ NewOrder.imported = FALSE
  BY NewOrderIsRow DEF NewOrder
<1>7. row' \in [Orders -> SalesOrder \cup {None}]
      /\ (w.create => row'[o] = Over(w.set, NewOrder))
      /\ (~w.create /\ row[o] = None => row'[o] = None)
      /\ (~w.create /\ row[o] # None => row'[o] = Over(w.set, row[o]))
      /\ \A p \in Orders \ {o} : row'[p] = row[p]
  <2> DEFINE new == IF w.create THEN Over(w.set, NewOrder)
                    ELSE IF row[o] = None THEN None ELSE Over(w.set, row[o])
  <2>1. row[o] # None => row[o] \in SalesOrder
    BY <1>2
  <2>2. new \in SalesOrder \cup {None}
    <3>1. CASE w.create
      BY <1>5, <1>6, <3>1
    <3>2. CASE ~w.create /\ row[o] = None
      BY <3>2
    <3>3. CASE ~w.create /\ row[o] # None
      BY <1>5, <2>1, <3>3
    <3> QED BY <3>1, <3>2, <3>3
  <2>3. row' = [row EXCEPT ![o] = new]
    BY <1>2
  <2> HIDE DEF new
  <2>4. row' \in [Orders -> SalesOrder \cup {None}] /\ row'[o] = new /\ \A p \in Orders \ {o} : row'[p] = row[p]
    BY <1>2, <2>2, <2>3
  <2>5. /\ w.create => new = Over(w.set, NewOrder)
        /\ ~w.create /\ row[o] = None => new = None
        /\ ~w.create /\ row[o] # None => new = Over(w.set, row[o])
    BY DEF new
  <2> QED BY <2>4, <2>5
<1>8. (row[o] # None => row'[o] = Over(w.set, row[o]) /\ row'[o] # None /\ row'[o].imported = row[o].imported)
      /\ (row[o] = None /\ w.create => row'[o] = Over(w.set, NewOrder) /\ row'[o] # None)
      /\ (row[o] = None /\ ~w.create => row'[o] = None)
      /\ (row[o] = None /\ row'[o] # None => ~row'[o].imported)
  <2>1. CASE row[o] # None
    BY <1>2, <1>3, <1>5, <1>7, <2>1
  <2>2. CASE row[o] = None /\ w.create
    BY <1>5, <1>6, <1>7, <2>2
  <2>3. CASE row[o] = None /\ ~w.create
    BY <1>7, <2>3
  <2> QED BY <1>1, <2>1, <2>2, <2>3
<1>9. SetMaterials(w) \subseteq DOMAIN w.counts /\ \A m \in SetMaterials(w) : InTable(m)
  BY DEF SetMaterials
<1>10. count' = [m \in Materials |-> IF m \in SetMaterials(w) THEN w.counts[m] ELSE count[m]]
       /\ stepper' = [stepper EXCEPT ![o] = IF w.stepperRows THEN Steps ELSE @ \cup w.date]
  BY <1>1 DEF Perform
<1>13. stepper \in [Orders -> SUBSET Steps] /\ w.date \subseteq Steps
  BY DEF TablesOK, WriteOK
<1>14. (w.stepperRows => stepper'[o] = Steps) /\ (~w.stepperRows => stepper'[o] = stepper[o] \cup w.date)
       /\ stepper' \in [Orders -> SUBSET Steps] /\ \A p \in Orders \ {o} : stepper'[p] = stepper[p]
  BY <1>1, <1>10, <1>13
<1>11. dated' = [p \in Orders |->
          ((IF p = o THEN dated[p] \cup w.date ELSE dated[p]) \ (IF p = o THEN w.clear ELSE {}))
            \cup (IF p \in Siblings(o) THEN w.byNumber \cap stepper[p] ELSE {})]
  BY <1>1 DEF Perform
<1>12. dated'[o] = ((dated[o] \cup w.date) \ w.clear) \cup
                    (IF o \in Siblings(o) THEN w.byNumber \cap stepper[o] ELSE {})
       /\ \A p \in Orders \ {o} :
            dated'[p] = dated[p] \cup (IF p \in Siblings(o) THEN w.byNumber \cap stepper[p] ELSE {})
  BY <1>11
<1>15. row[o] = None /\ ~w.create => row'[o] = None /\ w.date = {} /\ ~w.stepperRows /\ DOMAIN w.set = {}
  BY <1>4, <1>8
<1>16. row[o] # None => row'[o] = Over(w.set, row[o]) /\ row'[o] # None /\ ~w.create
  BY <1>3, <1>8
<1> QED BY <1>7, <1>8, <1>9, <1>10, <1>12, <1>14, <1>15, <1>16

LEMMA PerformTables ==
  ASSUME TablesOK, NEW o \in Orders, NEW w, WriteOK(w, o), Possible(w), Perform(w),
         w.print => o \in recorded
  PROVE  TablesOK' /\ recorded \subseteq recorded' /\ epoch' = epoch
<1>0. w.order = o /\ w.date \subseteq Steps /\ w.clear \subseteq Steps /\ w.byNumber \subseteq NumberSteps
      /\ (\A m \in DOMAIN w.counts : w.counts[m] \in Counts)
  BY DEF WriteOK
<1>1. recorded' = (IF w.record THEN recorded \cup {o} ELSE recorded)
      /\ printed' = (IF w.print THEN printed \cup {o} ELSE printed) /\ loaded' = loaded /\ epoch' = epoch
  BY <1>0 DEF Perform
<1>2. (recorded \subseteq Orders /\ printed \subseteq recorded)' /\ recorded \subseteq recorded'
  BY <1>1 DEF TablesOK
<1>3. row' \in [Orders -> SalesOrder \cup {None}] /\ (\A p \in Orders : row[p] # None => row'[p] # None)
  BY PerformEffect
<1>4. (loaded \subseteq Present)'
  BY <1>1, <1>3 DEF TablesOK, Present
<1>5. NumberSteps \subseteq Steps
  BY StepNames DEF NumberSteps
<1>6. stepper' \in [Orders -> SUBSET Steps]
  BY <1>0, PerformEffect DEF TablesOK
<1>7. dated' \in [Orders -> SUBSET Steps]
  <2>1. DOMAIN dated' = Orders /\ dated' = [p \in Orders |-> dated'[p]]
    BY <1>0 DEF Perform
  <2>2. \A p \in Orders : dated[p] \subseteq Steps /\ stepper[p] \subseteq Steps
    BY DEF TablesOK
  <2>3. \A p \in Orders : dated'[p] \subseteq Steps
    BY <1>0, <1>5, <2>2, PerformEffect
  <2> QED BY <2>1, <2>3
<1>8. \A p \in Orders : dated'[p] \subseteq stepper'[p]
  <2>1. \A p \in Orders : dated[p] \subseteq stepper[p] /\ stepper[p] \subseteq Steps
    BY DEF TablesOK
  <2>2. \A p \in Orders : p # o => stepper'[p] = stepper[p]
    BY PerformEffect DEF TablesOK
  <2>3. stepper[o] \cup w.date \subseteq stepper'[o]
    BY <1>0, <2>1, PerformEffect DEF TablesOK
  <2>4. \A p \in Orders : p # o => dated'[p] \subseteq dated[p] \cup stepper[p]
    BY PerformEffect
  <2>5. dated'[o] \subseteq dated[o] \cup w.date \cup stepper[o]
    BY PerformEffect
  <2> QED BY <2>1, <2>2, <2>3, <2>4, <2>5
<1>9. \A p \in Orders : row'[p] = None => stepper'[p] = {}
  <2>1. \A p \in Orders : row[p] = None => stepper[p] = {}
    BY DEF TablesOK
  <2>2. row'[o] = None => row[o] = None /\ w.date = {} /\ ~w.stepperRows
    BY PerformEffect DEF WriteOK
  <2>3. \A p \in Orders : p # o => stepper'[p] = stepper[p] /\ row'[p] = row[p]
    BY PerformEffect DEF TablesOK
  <2>4. ~w.stepperRows => stepper'[o] = stepper[o] \cup w.date
    BY PerformEffect
  <2> QED BY <2>1, <2>2, <2>3, <2>4
<1>10. count' \in [Materials -> Counts]
  <2>1. SetMaterials(w) \subseteq DOMAIN w.counts
    BY DEF SetMaterials
  <2> QED BY <1>0, <2>1, PerformEffect DEF TablesOK
<1>11. \A m \in Materials : count'[m] # NoCount => row'[OrderOf[m]] # None /\ row'[OrderOf[m]].imported
  <2> SUFFICES ASSUME NEW m \in Materials, count'[m] # NoCount
               PROVE  row'[OrderOf[m]] # None /\ row'[OrderOf[m]].imported
    OBVIOUS
  <2>1. OrderOf[m] \in Orders
    BY OrderTableAssumption
  <2>2. row[OrderOf[m]] # None /\ row[OrderOf[m]].imported
    <3>1. m \in SetMaterials(w) => row[OrderOf[m]] # None /\ row[OrderOf[m]].imported
      BY DEF SetMaterials, InTable, Present
    <3>2. m \notin SetMaterials(w) => count'[m] = count[m]
      BY PerformEffect
    <3> QED BY <3>1, <3>2 DEF TablesOK
  <2>3. CASE OrderOf[m] = o
    BY <2>2, <2>3, PerformEffect
  <2>4. CASE OrderOf[m] # o
    BY <2>1, <2>2, <2>4, PerformEffect
  <2> QED BY <2>3, <2>4
<1> QED BY <1>1, <1>2, <1>3, <1>4, <1>6, <1>7, <1>8, <1>9, <1>10, <1>11 DEF TablesOK

LEMMA TargetOrders ==
  ASSUME NEW q, q.order \in Orders
  PROVE  Targets(q) \subseteq Orders /\ (q.op \notin Handheld => Targets(q) = {q.order})
BY DEF Targets, Scope, Siblings

\* A row that no other row sent has the code of gets the count of its copy.
LEMMA SentIsCopy ==
  ASSUME NEW q, NEW m \in DOMAIN q.copy, NEW c, SentFor(q, m, c), m \notin Shared(q), q.by \in {"ID", "code"}
  PROVE  c = q.copy[m]
BY DEF SentFor, Shared

\* What is left of a request after its first write is a request that may follow it.
LEMMA RestKeeps ==
  ASSUME WorkInv, NEW k \in Clerks, req[k].plan # <<>>, Len(req[k].plan) # 1,
         WriteOK(Head(req[k].plan), Head(req[k].plan).order), Possible(Head(req[k].plan)),
         Perform(Head(req[k].plan)), req' = Noted(k, Rest(req[k]))
  PROVE  RequestOK(req[k])' /\ ReadOK(req[k])'
<1> DEFINE q == req[k]
           P == q.plan
           w == Head(q.plan)
           o == q.order
           p == w.order
<1>1. RequestOK(q) /\ ReadOK(q) /\ DOMAIN q = Fields /\ PlanOK(q) /\ IsPlan(P) /\ o \in Orders
      /\ q.by \in {"ID", "code"}
  BY InvParts, IdleFields DEF RequestOK, PlanOK
<1>2. 1 \in DOMAIN P /\ w = P[1] /\ Len(P) \in Nat \ {0} /\ DOMAIN P = 1..Len(P)
      /\ IsPlan(Tail(P)) /\ DOMAIN Tail(P) = 1..(Len(P) - 1) /\ Len(Tail(P)) = Len(P) - 1
      /\ \A i \in DOMAIN Tail(P) : i + 1 \in DOMAIN P /\ Tail(P)[i] = P[i + 1]
  BY <1>1, RestOfPlan
<1>3. /\ DOMAIN req'[k] = Fields /\ req'[k].plan = Tail(P)
      /\ req'[k].op = q.op /\ req'[k].order = o /\ req'[k].asked = q.asked
      /\ req'[k].copy = q.copy /\ req'[k].left = q.left /\ req'[k].by = q.by
      /\ req'[k].moved = q.moved /\ req'[k].stale = q.stale
  BY <1>1 DEF Noted, Rest, Fields
<1>4. Tail(P) # <<>>
  BY <1>1, RestOfPlan
<1>5. TablesOK /\ recorded' = (IF w.record THEN recorded \cup {p} ELSE recorded)
  BY InvParts DEF Perform
<1>15. p \in Targets(q) /\ p \in Orders /\ (q.op \notin Handheld => p = o)
  BY <1>1, <1>2, TargetOrders DEF PlanOK
<1>6. PlanOK(req[k])'
  <2>1. \A i \in DOMAIN Tail(P) :
          /\ Tail(P)[i].order \in Targets(q) /\ WriteOK(Tail(P)[i], Tail(P)[i].order)
          /\ DOMAIN Tail(P)[i].set \subseteq q.asked \cup Besides(q)
          /\ q.op \in {"create", "label"} => DOMAIN Tail(P)[i].set = {}
          /\ q.op = "edit" => "status" \notin DOMAIN Tail(P)[i].set
    BY <1>1, <1>2 DEF PlanOK
  <2>2. ASSUME NEW i \in DOMAIN Tail(P), Tail(P)[i].print
        PROVE  /\ q.op = "label" /\ i = Len(Tail(P)) /\ Tail(P)[i] = PrintLabel(o)
               /\ o \in recorded' \/ \E j \in DOMAIN Tail(P) : j < i /\ Tail(P)[j].record
    <3>4. q.op = "label" /\ i = Len(Tail(P)) /\ Tail(P)[i] = PrintLabel(o)
      BY <1>1, <1>2, <2>2, SMTT(40) DEF PlanOK
    <3>1. o \in recorded \/ \E j \in DOMAIN P : j < i + 1 /\ P[j].record
      BY <1>1, <1>2, <2>2 DEF PlanOK
    <3>2. (o \in recorded => o \in recorded') /\ p = o
      BY <1>5, <1>15, <3>4 DEF Handheld
    <3>3. ASSUME NEW j \in DOMAIN P, j < i + 1, P[j].record
          PROVE  o \in recorded' \/ \E l \in DOMAIN Tail(P) : l < i /\ Tail(P)[l].record
      <4>1. CASE j = 1
        BY <1>2, <1>5, <3>2, <3>3, <4>1
      <4>2. CASE j # 1
        <5>1. j - 1 \in DOMAIN Tail(P) /\ j - 1 < i
          BY <1>2, <3>3, <4>2
        <5>2. Tail(P)[j - 1] = P[(j - 1) + 1] /\ (j - 1) + 1 = j
          <6>1. (j - 1) + 1 = j
            BY <1>2
          <6> QED BY <1>2, <5>1, <6>1
        <5> QED BY <3>3, <5>1, <5>2
      <4> QED BY <4>1, <4>2
    <3> QED BY <3>1, <3>2, <3>3, <3>4
  <2>3. Besides(req[k])' = Besides(q) /\ Targets(req[k])' = Targets(q)
    BY <1>3 DEF Besides, Targets
  <2>4. IsPlan(req'[k].plan) /\ DOMAIN req'[k].plan = DOMAIN Tail(P)
    BY <1>2, <1>3
  <2>5. \A i \in DOMAIN Tail(P) : DOMAIN Tail(P)[i].set \subseteq req'[k].asked \cup Besides(req[k])'
    BY <1>3, <2>1, <2>3
  <2>6. \A i \in DOMAIN Tail(P) : Tail(P)[i].print =>
          /\ q.op = "label" /\ i = Len(Tail(P)) /\ Tail(P)[i] = PrintLabel(o)
          /\ o \in recorded' \/ \E j \in DOMAIN Tail(P) : j < i /\ Tail(P)[j].record
    BY <2>2
  <2> DEFINE T == Tail(P)
  <2> HIDE DEF q, o, T
  <2> QED BY <1>3, <2>1, <2>3, <2>4, <2>5, <2>6, ZenonT(60) DEF PlanOK
<1>7. q.op \in HandheldOps => CopyOK(req[k])'
  <2> SUFFICES ASSUME q.op \in HandheldOps PROVE CopyOK(req[k])'
    OBVIOUS
  <2>1. CopyOK(q)
    BY <1>1 DEF RequestOK
  <2>2. /\ DOMAIN q.copy \subseteq Materials /\ q.left \subseteq DOMAIN q.copy
        /\ \A m \in DOMAIN q.copy : q.copy[m] \in Counts
        /\ q.op # "copy" /\ (q.op = "data" => q.left = {})
    BY <1>2, <2>1 DEF CopyOK
  <2>3. \A i \in DOMAIN Tail(P) :
          /\ "status" \in DOMAIN Tail(P)[i].set => Tail(P)[i].set["status"] \in {"W105", "F105"}
          /\ \A m \in DOMAIN Tail(P)[i].counts : SentFor(q, m, Tail(P)[i].counts[m])
    BY <1>2, <2>1 DEF CopyOK
  <2>4. \A m, c : SentFor(q, m, c) => SentFor(req[k], m, c)'
    BY <1>3 DEF SentFor
  <2> DEFINE T == Tail(P)
  <2> HIDE DEF q, o, T
  <2> QED BY <1>3, <2>2, <2>3, <2>4 DEF CopyOK
<1>8. RequestOK(req[k])'
  BY <1>1, <1>2, <1>3, <1>4, <1>6, <1>7 DEF RequestOK
<1>9. row[o] # None => row[o] \in SalesOrder /\ row'[o] # None
        /\ row'[o] = IF p = o THEN Over(w.set, row[o]) ELSE row[o]
  BY <1>1, <1>15, InvParts, PerformEffect
<1>10. row[o] # None => \A c \in Columns :
         row'[o][c] = row[o][c] \/ (c \in DOMAIN w.set /\ row'[o][c] = w.set[c])
  <2>1. DOMAIN w.set \subseteq Columns /\ \A c \in DOMAIN w.set : w.set[c] \in Values(c)
    BY DEF WriteOK
  <2> HIDE DEF w, o, p
  <2>2. CASE p = o
    BY <1>9, <2>1, <2>2, OverRow
  <2>3. CASE p # o
    BY <1>9, <2>3
  <2> QED BY <2>2, <2>3
<1>11. q.op \in HandheldOps => \A m \in DOMAIN q.copy \ (q.stale \cup Shared(q)) :
         count'[m].issued <= q.copy[m].issued /\ count'[m].packed <= q.copy[m].packed
  <2> SUFFICES ASSUME q.op \in HandheldOps, NEW m \in DOMAIN q.copy \ (q.stale \cup Shared(q))
               PROVE  count'[m].issued <= q.copy[m].issued /\ count'[m].packed <= q.copy[m].packed
    OBVIOUS
  <2>1. CopyOK(q) /\ m \in Materials /\ q.copy[m] \in Counts
    BY <1>1 DEF RequestOK, CopyOK
  <2>2. count'[m] = count[m] \/ count'[m] = q.copy[m]
    <3>1. count' = [x \in Materials |-> IF x \in SetMaterials(w) THEN w.counts[x] ELSE count[x]]
      BY <1>5, <1>15, PerformEffect
    <3>2. m \in DOMAIN w.counts => w.counts[m] = q.copy[m]
      BY <1>1, <1>2, <2>1, SentIsCopy DEF CopyOK
    <3> QED BY <2>1, <3>1, <3>2 DEF SetMaterials
  <2>3. count[m].issued <= q.copy[m].issued /\ count[m].packed <= q.copy[m].packed
    BY <1>1 DEF ReadOK
  <2> QED BY <2>1, <2>2, <2>3 DEF Counts
<1>12. q.op = "excel" /\ ~q.moved =>
         /\ row'[o] # None
         /\ \A i \in DOMAIN Tail(P) : \A c \in DOMAIN Tail(P)[i].set \ q.asked :
              Tail(P)[i].set[c] = row'[o][c]
  <2> SUFFICES ASSUME q.op = "excel", ~q.moved
               PROVE  /\ row'[o] # None
                      /\ \A i \in DOMAIN Tail(P) : \A c \in DOMAIN Tail(P)[i].set \ q.asked :
                           Tail(P)[i].set[c] = row'[o][c]
    OBVIOUS
  <2>1. row[o] # None /\ \A i \in DOMAIN P : \A c \in DOMAIN P[i].set \ q.asked : P[i].set[c] = row[o][c]
    BY <1>1 DEF ReadOK
  <2>2. \A c \in Columns \ q.asked : row'[o][c] = row[o][c]
    BY <1>2, <1>10, <2>1
  <2>3. \A i \in DOMAIN P : DOMAIN P[i].set \subseteq Columns
    BY <1>1 DEF PlanOK, WriteOK
  <2> QED BY <1>2, <1>9, <2>1, <2>2, <2>3
<1>13. (q.op = "edit" \/ (q.op \in HandheldOps /\ q.asked # {"number"})) /\ ~q.moved =>
         row'[o] # None /\ row'[o].status # "Dispatched"
  <2> SUFFICES ASSUME q.op = "edit" \/ (q.op \in HandheldOps /\ q.asked # {"number"}), ~q.moved
               PROVE  row'[o] # None /\ row'[o].status # "Dispatched"
    OBVIOUS
  <2>1. row[o] # None /\ row[o].status # "Dispatched"
    BY <1>1 DEF ReadOK
  <2>2. "status" \in DOMAIN w.set => w.set["status"] # "Dispatched"
    BY <1>1, <1>2 DEF PlanOK, RequestOK, CopyOK
  <2>3. row'[o]["status"] # "Dispatched"
    BY <1>10, <2>1, <2>2 DEF Columns
  <2> QED BY <1>9, <2>1, <2>3
<1>14. ReadOK(req[k])'
  <2> DEFINE T == Tail(P)
  <2>1. Shared(req[k])' = Shared(q)
    BY <1>3 DEF Shared
  <2> HIDE DEF q, o, T
  <2> QED BY <1>3, <1>11, <1>12, <1>13, <2>1 DEF ReadOK
<1> QED BY <1>8, <1>14

LEMMA WriteKeepsInv ==
  ASSUME WorkInv, NEW k \in Active, Write(k)
  PROVE  WorkInv'
<1> DEFINE q == req[k]
           w == Head(q.plan)
<1>1. k \in Clerks /\ q # Idle /\ RequestOK(q) /\ q.order \in Orders /\ q.plan # <<>>
  BY InvParts DEF Active, Write, RequestOK
<1>2. w.order \in Orders /\ WriteOK(w, w.order) /\ (w.print => w.order \in recorded)
  <2>1. PlanOK(q) /\ IsPlan(q.plan)
    BY <1>1 DEF RequestOK, PlanOK
  <2>2. 1 \in DOMAIN q.plan /\ w = q.plan[1] /\ Len(q.plan) \in Nat /\ DOMAIN q.plan = 1..Len(q.plan)
    BY <1>1, <2>1, RestOfPlan
  <2>3. w.order \in Targets(q) /\ WriteOK(w, w.order) /\ (w.print => q.op = "label" /\ q.order \in recorded)
    BY <2>1, <2>2 DEF PlanOK
  <2> QED BY <1>1, <2>3, TargetOrders DEF Handheld
<1>3. CASE Possible(w)
  <2>1. Perform(w) /\ req' = Noted(k, Rest(q)) /\ UNCHANGED <<mixed, started>>
    BY <1>3 DEF Write
  <2>2. TablesOK' /\ recorded \subseteq recorded' /\ epoch' = epoch
    BY <1>1, <1>2, <1>3, <2>1, InvParts, PerformTables
  <2>3. \A c \in Clerks \ {k} : req'[c] # Idle => RequestOK(req[c])' /\ ReadOK(req[c])'
    BY <2>1, <2>2, OthersKeep
  <2>4. DOMAIN req' = Clerks /\ req'[k] = Rest(q)
    BY <1>1, <2>1 DEF Noted
  <2>5. req'[k] # Idle => RequestOK(req[k])' /\ ReadOK(req[k])'
    <3>1. req'[k] # Idle => Len(q.plan) # 1
      BY <2>4 DEF Rest
    <3> QED BY <1>1, <1>2, <1>3, <2>1, <3>1, RestKeeps
  <2> QED BY <2>1, <2>2, <2>3, <2>4, <2>5, InvParts, InvFromParts DEF WorkInv
<1>4. CASE ~Possible(w)
  <2>1. req' = [req EXCEPT ![k] = Idle] /\ mixed' = mixed \cup Siblings(q.order) /\ UNCHANGED <<table, started>>
    BY <1>4 DEF Write
  <2>2. mixed' \subseteq Orders /\ started' \in started..MaxRequests
    BY <2>1, InvParts, OrderTableAssumption DEF Siblings
  <2> QED BY <1>1, <2>1, <2>2, ReplaceKeeps
<1> QED BY <1>3, <1>4

-----------------------------------------------------------------------------
(***************************************************************************)
(* Requests that start                                                     *)
(***************************************************************************)

DeskOps == Ops \ (HandheldOps \cup {"idle"})

LEMMA OnePlan ==
  ASSUME NEW v
  PROVE  IsPlan(<<v>>) /\ DOMAIN <<v>> = {1} /\ <<v>>[1] = v /\ <<v>> # <<>>
<1>1. <<v>> \in Seq({v}) /\ DOMAIN <<v>> = {1} /\ <<v>>[1] = v /\ <<v>> # <<>>
  OBVIOUS
<1> QED BY <1>1, SequenceIsPlan

LEMMA TwoPlan ==
  ASSUME NEW v, NEW w
  PROVE  IsPlan(<<v, w>>) /\ DOMAIN <<v, w>> = {1, 2} /\ <<v, w>>[1] = v /\ <<v, w>>[2] = w
         /\ <<v, w>> # <<>>
<1>1. <<v, w>> \in Seq({v, w}) /\ DOMAIN <<v, w>> = {1, 2} /\ <<v, w>>[1] = v /\ <<v, w>>[2] = w
      /\ <<v, w>> # <<>>
  OBVIOUS
<1> QED BY <1>1, SequenceIsPlan

LEMMA AppendPlan ==
  ASSUME NEW P, IsPlan(P), NEW v
  PROVE  /\ IsPlan(Append(P, v)) /\ Len(P) \in Nat /\ DOMAIN P = 1..Len(P)
         /\ DOMAIN Append(P, v) = 1..(Len(P) + 1) /\ Append(P, v)[Len(P) + 1] = v
         /\ \A i \in DOMAIN P : Append(P, v)[i] = P[i]
         /\ Append(P, v) # <<>>
<1> DEFINE S == {P[i] : i \in DOMAIN P} \cup {v}
<1>1. P \in Seq(S) /\ v \in S
  BY DEF IsPlan
<1> HIDE DEF S
<1>2. Append(P, v) \in Seq(S)
  BY <1>1
<1>3. DOMAIN Append(P, v) = 1..(Len(P) + 1) /\ Len(P) \in Nat /\ DOMAIN P = 1..Len(P)
      /\ Append(P, v)[Len(P) + 1] = v /\ \A i \in 1..Len(P) : Append(P, v)[i] = P[i]
  BY <1>1, AppendProperties, LenProperties
<1>4. Append(P, v) # <<>>
  BY <1>1, AppendProperties
<1>5. DOMAIN P = 1..Len(P) /\ \A i \in DOMAIN P : Append(P, v)[i] = P[i]
  BY <1>3
<1>6. IsPlan(Append(P, v))
  BY <1>2, SequenceIsPlan
<1> QED BY <1>3, <1>4, <1>5, <1>6

LEMMA DatesPlan ==
  ASSUME NEW o, NEW n \in 0..8
  PROVE  IsPlan(Dates(o, n)) /\ DOMAIN Dates(o, n) = 1..n
         /\ \A i \in 1..n : Dates(o, n)[i] = Date(o, {StepOrder[i]}) /\ StepOrder[i] \in Steps
<1>1. Dates(o, n) \in Seq({Date(o, {StepOrder[i]}) : i \in 1..n})
  BY DEF Dates
<1>2. DOMAIN Dates(o, n) = 1..n /\ \A i \in 1..n : Dates(o, n)[i] = Date(o, {StepOrder[i]})
  BY DEF Dates
<1>3. \A i \in 1..n : StepOrder[i] \in Steps
  BY DEF Steps
<1> QED BY <1>1, <1>2, <1>3, SequenceIsPlan

\* The calls on the stepper of an update touch nothing else.
LEMMA StepperWrites ==
  ASSUME NEW o, NEW S \in SUBSET Steps, NEW w, w = Date(o, S) \/ w = Clear(o, S)
  PROVE  WriteOK(w, o) /\ DOMAIN w.set = {} /\ DOMAIN w.counts = {} /\ ~w.print /\ ~w.create
         /\ ~w.stepperRows /\ w.byNumber = {}
<1>1. CASE w = Date(o, S)
  BY <1>1 DEF WriteOK, Date, Blank, Nothing
<1>2. CASE w = Clear(o, S)
  BY <1>2 DEF WriteOK, Clear, Blank, Nothing
<1> QED BY <1>1, <1>2

LEMMA StepperPlanWrites ==
  ASSUME NEW o, NEW s \in Statuses \cup {None}
  PROVE  IsPlan(StepperPlan(o, s))
         /\ \A i \in DOMAIN StepperPlan(o, s) : \E S \in SUBSET Steps :
              StepperPlan(o, s)[i] \in {Date(o, S), Clear(o, S)}
<1> DEFINE Is(P) == IsPlan(P) /\ \A i \in DOMAIN P : \E S \in SUBSET Steps : P[i] \in {Date(o, S), Clear(o, S)}
<1>1. ASSUME NEW n \in 0..8
      PROVE  Is(Dates(o, n))
  BY DatesPlan
<1>2. ASSUME NEW P, Is(P), NEW S \in SUBSET Steps
      PROVE  Is(Append(P, Clear(o, S)))
  <2>1. \A i \in DOMAIN Append(P, Clear(o, S)) : i = Len(P) + 1 \/ i \in DOMAIN P
    BY <1>2, AppendPlan
  <2> QED BY <1>2, <2>1, AppendPlan
<1>3. \A n \in {2, 3, 5, 6} : StepsFrom(n) \in SUBSET Steps
  BY DEF StepsFrom, Steps
<1>4. Is(<<Clear(o, StepsFrom(2))>>)
  BY <1>3, OnePlan
<1>5. Is(IssueDates(o))
  BY <1>1 DEF IssueDates
<1>6. Is(Append(Dates(o, 2), Clear(o, StepsFrom(3)))) /\ Is(Append(Dates(o, 5), Clear(o, StepsFrom(6))))
      /\ Is(Append(IssueDates(o), Clear(o, StepsFrom(5))))
  <2> HIDE DEF Is
  <2>1. Is(Dates(o, 2)) /\ Is(Dates(o, 5))
    BY <1>1
  <2> QED BY <1>2, <1>3, <1>5, <2>1
<1>7. Is(Dates(o, 8))
  BY <1>1
<1> HIDE DEF Is
<1>8. s = None \/ s = "R105" \/ s = "W105" \/ s = "F105" \/ s = "Dispatched"
  BY DEF Statuses
<1>9. None \notin Statuses
  BY OrderTableAssumption
<1>10. Is(StepperPlan(o, s))
  BY <1>4, <1>6, <1>7, <1>8, <1>9 DEF StepperPlan, Statuses
<1> QED BY <1>10 DEF Is

LEMMA StartKeeps ==
  ASSUME WorkInv, NEW k \in Clerks, NEW q, Start(k, q), RequestOK(q), ReadOK(q)
  PROVE  WorkInv'
<1>1. req' = [req EXCEPT ![k] = q] /\ UNCHANGED table /\ mixed' = Overlapping(q.order)
      /\ started' = started + 1 /\ started < MaxRequests
  BY DEF Start
<1>2. mixed' \subseteq Orders
  BY <1>1, InvParts DEF Overlapping, Siblings
<1>3. started' \in started..MaxRequests
  BY <1>1, InvParts, OrderTableAssumption
<1> QED BY <1>1, <1>2, <1>3, ReplaceKeeps

\* What the plan of a desk has to be like.
DeskPlan(op, o, asked, P) ==
  \A i \in DOMAIN P :
    /\ WriteOK(P[i], o) /\ DOMAIN P[i].counts = {}
    /\ DOMAIN P[i].set \subseteq asked \cup (IF op = "excel" THEN ExcelColumns ELSE {})
    /\ op \in {"create", "label"} => DOMAIN P[i].set = {}
    /\ op = "edit" => "status" \notin DOMAIN P[i].set
    /\ P[i].print =>
         /\ op = "label" /\ i = Len(P) /\ P[i] = PrintLabel(o)
         /\ o \in recorded \/ \E j \in DOMAIN P : j < i /\ P[j].record

\* A request of a desk keeps the invariant if its plan is as it has to be.
LEMMA DeskKeeps ==
  ASSUME WorkInv, NEW k \in Clerks, NEW o \in Orders, NEW op \in DeskOps, NEW asked, NEW P,
         IsPlan(P), P # <<>>, Start(k, Request(op, o, asked, P)),
         DeskPlan(op, o, asked, P),
         op = "excel" =>
           row[o] # None /\ \A i \in DOMAIN P : \A c \in DOMAIN P[i].set \ asked : P[i].set[c] = row[o][c],
         op = "edit" => row[o] # None /\ row[o].status # "Dispatched"
  PROVE  WorkInv'
<1> DEFINE q == Request(op, o, asked, P)
<1>1. DOMAIN q = Fields /\ q.op = op /\ q.order = o /\ q.asked = asked /\ q.plan = P
      /\ q.left = {} /\ q.moved = FALSE /\ q.by = "ID"
  BY DEF Request, Idle, Fields
<1>2. op \notin HandheldOps /\ op \in Ops \ {"idle"}
  BY DEF DeskOps
<1> HIDE DEF q
<1>3. Besides(q) = (IF op = "excel" THEN ExcelColumns ELSE {})
  BY <1>1, <1>2 DEF Besides, HandheldOps, Handheld
<1>4. PlanOK(q)
  <2>1. Targets(q) = {o} /\ \A i \in DOMAIN P : WriteOK(P[i], o) /\ P[i].order = o
    BY <1>1, <1>2 DEF Targets, Handheld, HandheldOps, DeskPlan, WriteOK
  <2> QED BY <1>1, <1>3, <2>1 DEF PlanOK, DeskPlan
<1>5. RequestOK(q)
  BY <1>1, <1>2, <1>4 DEF RequestOK, DeskPlan
<1>6. ReadOK(q)
  BY <1>1, <1>2 DEF ReadOK
<1> QED BY <1>5, <1>6, StartKeeps DEF q

LEMMA ColumnIs ==
  ASSUME NEW c, NEW v
  PROVE  DOMAIN Column(c, v) = {c} /\ Column(c, v)[c] = v
BY DEF Column

LEMMA OverIs ==
  ASSUME NEW g, NEW f
  PROVE  /\ DOMAIN Over(g, f) = DOMAIN g \cup DOMAIN f
         /\ \A c \in DOMAIN g : Over(g, f)[c] = g[c]
         /\ \A c \in DOMAIN f \ DOMAIN g : Over(g, f)[c] = f[c]
BY DEF Over

\* A form with an assignment sets one column, to a user or to none.
LEMMA AssignmentForm ==
  ASSUME NEW o, NEW form \in Assignments(o)
  PROVE  \E c \in {"assigned", "issuer", "packer"}, u \in Users \cup {None} : form = Column(c, u)
BY DEF Assignments

\* A write that sets columns, and dates a step for the whole number.
LEMMA SetWrite ==
  ASSUME NEW o, NEW f, DOMAIN f \subseteq Columns \ {"imported"}, \A c \in DOMAIN f : f[c] \in Values(c),
         NEW S \in SUBSET NumberSteps
  PROVE  /\ WriteOK(Set(o, f), o) /\ Set(o, f).set = f /\ DOMAIN Set(o, f).counts = {}
         /\ ~Set(o, f).print
         /\ WriteOK([Set(o, f) EXCEPT !.byNumber = S], o) /\ [Set(o, f) EXCEPT !.byNumber = S].set = f
         /\ DOMAIN [Set(o, f) EXCEPT !.byNumber = S].counts = {}
         /\ ~[Set(o, f) EXCEPT !.byNumber = S].print
         /\ WriteOK(DateNumber(o, S), o) /\ DOMAIN DateNumber(o, S).set = {}
         /\ DOMAIN DateNumber(o, S).counts = {} /\ ~DateNumber(o, S).print
<1>1. WriteOK(Set(o, f), o) /\ Set(o, f).set = f /\ DOMAIN Set(o, f).counts = {} /\ ~Set(o, f).print
  BY DEF WriteOK, Set, Blank, Nothing
<1>2. WriteOK([Set(o, f) EXCEPT !.byNumber = S], o) /\ [Set(o, f) EXCEPT !.byNumber = S].set = f
      /\ DOMAIN [Set(o, f) EXCEPT !.byNumber = S].counts = {} /\ ~[Set(o, f) EXCEPT !.byNumber = S].print
  BY DEF WriteOK, Set, Blank, Nothing
<1>3. WriteOK(DateNumber(o, S), o) /\ DOMAIN DateNumber(o, S).set = {}
      /\ DOMAIN DateNumber(o, S).counts = {} /\ ~DateNumber(o, S).print
  BY DEF WriteOK, DateNumber, Blank, Nothing
<1> QED BY <1>1, <1>2, <1>3

LEMMA FormValues ==
  ASSUME NEW o, NEW form \in Assignments(o) \cup {Column("skipIssue", TRUE), NewTerms, Column("stored", TRUE)}
  PROVE  DOMAIN form \subseteq Columns \ {"imported", "status"} /\ \A c \in DOMAIN form : form[c] \in Values(c)
<1>1. CASE form \in Assignments(o)
  <2>1. PICK c \in {"assigned", "issuer", "packer"}, u \in Users \cup {None} : form = Column(c, u)
    BY <1>1, AssignmentForm
  <2>2. DOMAIN form = {c} /\ form[c] = u
    BY <2>1, ColumnIs
  <2>3. c \in Columns \ {"imported", "status"} /\ u \in Values(c)
    BY DEF Columns, Values
  <2> QED BY <2>2, <2>3
<1>2. CASE form \in {Column("skipIssue", TRUE), NewTerms, Column("stored", TRUE)}
  <2>1. PICK c, v : form = Column(c, v) /\ <<c, v>> \in {<<"skipIssue", TRUE>>, <<"terms", "new">>, <<"stored", TRUE>>}
    BY <1>2 DEF NewTerms
  <2>2. DOMAIN form = {c} /\ form[c] = v
    BY <2>1, ColumnIs
  <2>3. c \in Columns \ {"imported", "status"} /\ v \in Values(c)
    BY <2>1 DEF Columns, Values
  <2> QED BY <2>2, <2>3
<1> QED BY <1>1, <1>2

LEMMA AssignmentSteps ==
  ASSUME NEW o, NEW form
  PROVE  AssignmentStep(o, form) \subseteq NumberSteps
BY DEF AssignmentStep, NumberSteps

LEMMA PriorityForm ==
  ASSUME NEW o, NEW given
  PROVE  LET f == Over(Prioritised(o, given), NewTerms) IN
         /\ DOMAIN f \subseteq {"status", "terms"} /\ \A c \in DOMAIN f : f[c] \in Values(c)
         /\ DOMAIN f \subseteq Columns \ {"imported"}
<1>1. DOMAIN Prioritised(o, given) \subseteq {"status"}
      /\ \A c \in DOMAIN Prioritised(o, given) : Prioritised(o, given)[c] = "R105"
  BY ColumnIs, ZenonT(60) DEF Prioritised, Nothing
<1>2. DOMAIN NewTerms = {"terms"} /\ NewTerms["terms"] = "new"
  BY ColumnIs DEF NewTerms
<1>3. "R105" \in Values("status") /\ "new" \in Values("terms") /\ {"status", "terms"} \subseteq Columns \ {"imported"}
  BY DEF Values, Statuses, Columns
<1> DEFINE f == Over(Prioritised(o, given), NewTerms)
<1>4. DOMAIN f = DOMAIN Prioritised(o, given) \cup {"terms"}
      /\ (\A c \in DOMAIN Prioritised(o, given) : f[c] = Prioritised(o, given)[c])
      /\ (\A c \in {"terms"} \ DOMAIN Prioritised(o, given) : f[c] = NewTerms[c])
  BY <1>2 DEF Over
<1> HIDE DEF f
<1>5. \A c \in DOMAIN f : f[c] \in Values(c)
  BY <1>1, <1>2, <1>3, <1>4
<1>6. DOMAIN f \subseteq {"status", "terms"} /\ DOMAIN f \subseteq Columns \ {"imported"}
  BY <1>1, <1>3, <1>4
<1> QED BY <1>5, <1>6 DEF f

LEMMA StatusForm ==
  ASSUME NEW s \in Statuses \cup {None}, NEW b \in BOOLEAN
  PROVE  LET f == Over(Column("status", s), IF b THEN FollowsFrom(s) ELSE Nothing) IN
         /\ DOMAIN f \subseteq {"status", "stored", "assigned"} /\ \A c \in DOMAIN f : f[c] \in Values(c)
         /\ f["status"] = s /\ "status" \in DOMAIN f
         /\ DOMAIN f \subseteq Columns \ {"imported"}
<1> DEFINE g == IF b THEN FollowsFrom(s) ELSE Nothing
<1>1. DOMAIN g \subseteq {"stored", "assigned"} /\ \A c \in DOMAIN g : g[c] \in Values(c)
  <2>1. DOMAIN Nothing = {}
    BY DEF Nothing
  <2>2. DOMAIN Column("stored", FALSE) = {"stored"} /\ Column("stored", FALSE)["stored"] \in Values("stored")
    BY ColumnIs DEF Values
  <2>3. DOMAIN Column("assigned", None) = {"assigned"} /\ Column("assigned", None)["assigned"] \in Values("assigned")
    BY ColumnIs DEF Values
  <2> DEFINE h == Over(Column("stored", FALSE), Column("assigned", None))
  <2>4. DOMAIN h = {"stored", "assigned"} /\ h["stored"] = Column("stored", FALSE)["stored"]
        /\ h["assigned"] = Column("assigned", None)["assigned"]
    BY <2>2, <2>3 DEF Over
  <2>5. g \in {Nothing, Column("stored", FALSE), h}
    BY DEF FollowsFrom
  <2> HIDE DEF g, h
  <2> QED BY <2>1, <2>2, <2>3, <2>4, <2>5
<1> HIDE DEF g
<1>2. DOMAIN Column("status", s) = {"status"} /\ Column("status", s)["status"] = s /\ s \in Values("status")
  BY ColumnIs DEF Values
<1>3. {"status", "stored", "assigned"} \subseteq Columns \ {"imported"}
  BY DEF Columns
<1> DEFINE f == Over(Column("status", s), g)
<1>4. DOMAIN f = DOMAIN g \cup {"status"} /\ f["status"] = s
      /\ (\A c \in DOMAIN g \ {"status"} : f[c] = g[c])
  BY <1>2 DEF Over
<1> HIDE DEF f
<1>5. \A c \in DOMAIN f : f[c] \in Values(c)
  BY <1>1, <1>2, <1>4
<1>6. DOMAIN f \subseteq {"status", "stored", "assigned"} /\ DOMAIN f \subseteq Columns \ {"imported"}
  BY <1>1, <1>3, <1>4
<1> QED BY <1>4, <1>5, <1>6 DEF f, g

\* A plan of one write keeps the invariant, if the write is as it has to be.
LEMMA OneWriteKeeps ==
  ASSUME WorkInv, NEW k \in Clerks, NEW o \in Orders, NEW op \in DeskOps, NEW asked, NEW w,
         Start(k, Request(op, o, asked, <<w>>)),
         WriteOK(w, o), DOMAIN w.counts = {}, ~w.print,
         DOMAIN w.set \subseteq asked \cup (IF op = "excel" THEN ExcelColumns ELSE {}),
         op \in {"create", "label"} => DOMAIN w.set = {},
         op = "edit" => "status" \notin DOMAIN w.set /\ row[o] # None /\ row[o].status # "Dispatched",
         op = "excel" => row[o] # None /\ \A c \in DOMAIN w.set \ asked : w.set[c] = row[o][c]
  PROVE  WorkInv'
<1> DEFINE P == <<w>>
<1>1. IsPlan(P) /\ DOMAIN P = {1} /\ P[1] = w /\ P # <<>>
  BY OnePlan
<1>2. Start(k, Request(op, o, asked, P))
  OBVIOUS
<1> HIDE DEF P
<1>3. DeskPlan(op, o, asked, P)
  BY <1>1 DEF DeskPlan
<1> QED BY <1>1, <1>2, <1>3, DeskKeeps

LEMMA TwoWritesKeep ==
  ASSUME WorkInv, NEW k \in Clerks, NEW o \in Orders, NEW op \in DeskOps \ {"edit", "excel"}, NEW asked,
         NEW v, NEW w, Start(k, Request(op, o, asked, <<v, w>>)),
         WriteOK(v, o), DOMAIN v.counts = {}, ~v.print, WriteOK(w, o), DOMAIN w.counts = {},
         DOMAIN v.set \subseteq asked, DOMAIN w.set \subseteq asked,
         op \in {"create", "label"} => DOMAIN v.set = {} /\ DOMAIN w.set = {},
         w.print => op = "label" /\ v.record /\ w = PrintLabel(o)
  PROVE  WorkInv'
<1> DEFINE P == <<v, w>>
<1>1. IsPlan(P) /\ DOMAIN P = {1, 2} /\ P[1] = v /\ P[2] = w /\ P # <<>>
  BY TwoPlan
<1>2. Start(k, Request(op, o, asked, P))
  OBVIOUS
<1>4. Len(P) = 2
  OBVIOUS
<1> HIDE DEF P
<1>3. \A i \in DOMAIN P : P[i].print =>
        /\ op = "label" /\ i = Len(P) /\ P[i] = PrintLabel(o)
        /\ \E j \in DOMAIN P : j < i /\ P[j].record
  BY <1>1, <1>4
<1>5. \A i \in DOMAIN P : WriteOK(P[i], o) /\ DOMAIN P[i].counts = {} /\ DOMAIN P[i].set \subseteq asked
        /\ (op \in {"create", "label"} => DOMAIN P[i].set = {})
  BY <1>1
<1>6. DeskPlan(op, o, asked, P)
  BY <1>3, <1>5 DEF DeskPlan
<1>7. op \in DeskOps /\ op # "edit" /\ op # "excel"
  OBVIOUS
<1> QED BY <1>1, <1>2, <1>6, <1>7, DeskKeeps

LEMMA DeskNames ==
  DeskOps = {"status", "user", "location", "terms", "bulk", "edit", "excel", "create", "label", "import"}
BY DEF DeskOps, Ops, HandheldOps

LEMMA UpdateStatusKeeps ==
  ASSUME WorkInv, NEW k \in Clerks, NEW o \in Orders, NEW s \in Statuses \cup {None}, UpdateStatus(k, o, s)
  PROVE  WorkInv'
<1> DEFINE changes == s # row[o].status
           R == IF changes THEN StepperPlan(o, s) ELSE <<>>
           f == Over(Column("status", s), IF changes THEN FollowsFrom(s) ELSE Nothing)
           P == Append(R, Set(o, f))
           asked == {"status", "stored", "assigned"}
<1>1. Start(k, Request("status", o, asked, P))
  BY DEF UpdateStatus
<1>2. IsPlan(R) /\ \A i \in DOMAIN R : \E S \in SUBSET Steps : R[i] \in {Date(o, S), Clear(o, S)}
  BY StepperPlanWrites, EmptyPlan
<1>3. DOMAIN f \subseteq asked /\ DOMAIN f \subseteq Columns \ {"imported"} /\ \A c \in DOMAIN f : f[c] \in Values(c)
  BY StatusForm
<1> HIDE DEF R, f
<1>4. WriteOK(Set(o, f), o) /\ Set(o, f).set = f /\ DOMAIN Set(o, f).counts = {} /\ ~Set(o, f).print
  BY <1>3, SetWrite
<1>5. IsPlan(P) /\ P # <<>> /\ \A i \in DOMAIN P : P[i] = Set(o, f) \/ \E j \in DOMAIN R : P[i] = R[j]
  <2>1. DOMAIN P = 1..(Len(R) + 1) /\ Len(R) \in Nat /\ DOMAIN R = 1..Len(R) /\ P[Len(R) + 1] = Set(o, f)
        /\ (\A i \in DOMAIN R : P[i] = R[i]) /\ IsPlan(P) /\ P # <<>>
    BY <1>2, AppendPlan
  <2> HIDE DEF P
  <2>2. \A i \in DOMAIN P : i = Len(R) + 1 \/ i \in DOMAIN R
    BY <2>1
  <2> QED BY <2>1, <2>2
<1>6. \A i \in DOMAIN P : WriteOK(P[i], o) /\ DOMAIN P[i].counts = {} /\ DOMAIN P[i].set \subseteq asked /\ ~P[i].print
  BY <1>2, <1>3, <1>4, <1>5, StepperWrites
<1> HIDE DEF P
<1>7. DeskPlan("status", o, asked, P)
  BY <1>6 DEF DeskPlan
<1> QED BY <1>1, <1>5, <1>7, DeskKeeps, DeskNames

LEMMA DeskRequestKeeps ==
  ASSUME WorkInv, NEW k \in Clerks, NEW o \in Orders, DeskRequest(k, o)
  PROVE  WorkInv'
<1> USE DeskNames
<1>0. row[o] # None => row[o] \in SalesOrder /\ DOMAIN row[o] = Columns /\ \A c \in Columns : row[o][c] \in Values(c)
  BY InvParts, RowValues
<1>1. ASSUME NEW s \in Statuses \cup {None}, UpdateStatus(k, o, s)
      PROVE  WorkInv'
  BY <1>1, UpdateStatusKeeps
<1>2. ASSUME NEW form \in Assignments(o), UpdateUser(k, o, form)
      PROVE  WorkInv'
  <2>1. DOMAIN form \subseteq Columns \ {"imported"} /\ \A c \in DOMAIN form : form[c] \in Values(c)
    BY FormValues
  <2>2. WriteOK(Set(o, form), o) /\ Set(o, form).set = form /\ DOMAIN Set(o, form).counts = {} /\ ~Set(o, form).print
    BY <2>1, SetWrite
  <2>3. CASE Start(k, Request("user", o, DOMAIN form, <<Set(o, form)>>))
    BY <2>2, <2>3, OneWriteKeeps
  <2>4. ASSUME NEW S \in SUBSET NumberSteps,
               Start(k, Request("user", o, DOMAIN form, <<DateNumber(o, S), Set(o, form)>>))
        PROVE  WorkInv'
    <3>1. WriteOK(DateNumber(o, S), o) /\ DOMAIN DateNumber(o, S).set = {}
          /\ DOMAIN DateNumber(o, S).counts = {} /\ ~DateNumber(o, S).print
      BY <2>1, SetWrite
    <3> QED BY <2>2, <2>4, <3>1, TwoWritesKeep
  <2>5. AssignmentStep(o, form) \in SUBSET NumberSteps
    BY AssignmentSteps
  <2> QED BY <1>2, <2>3, <2>4, <2>5 DEF UpdateUser
<1>3. CASE UpdateLocation(k, o)
  <2> DEFINE f == Column("stored", TRUE)
             v == DateNumber(o, {"WIP Storage"})
  <2>1. DOMAIN f = {"stored"} /\ f["stored"] \in Values("stored") /\ "stored" \in Columns \ {"imported"}
    BY ColumnIs DEF Values, Columns
  <2>2. Start(k, Request("location", o, {"stored"}, <<v, Set(o, f)>>))
    BY <1>3 DEF UpdateLocation
  <2> HIDE DEF f
  <2>3. WriteOK(Set(o, f), o) /\ Set(o, f).set = f /\ DOMAIN Set(o, f).counts = {} /\ ~Set(o, f).print
    BY <2>1, SetWrite
  <2>4. WriteOK(v, o) /\ DOMAIN v.set = {} /\ DOMAIN v.counts = {} /\ ~v.print
    BY <2>1, SetWrite DEF NumberSteps
  <2> QED BY <2>1, <2>2, <2>3, <2>4, TwoWritesKeep
<1>4. ASSUME NEW priority \in BOOLEAN, UpdateTerms(k, o, priority) \/ BulkAssignTerms(k, o, priority)
      PROVE  WorkInv'
  <2> DEFINE f == Over(Prioritised(o, priority), NewTerms)
  <2>1. DOMAIN f \subseteq {"status", "terms"} /\ (\A c \in DOMAIN f : f[c] \in Values(c))
        /\ DOMAIN f \subseteq Columns \ {"imported"}
    BY PriorityForm
  <2>2. Start(k, Request("terms", o, {"terms", "status"}, <<Set(o, f)>>))
        \/ Start(k, Request("bulk", o, {"terms", "status"}, <<Set(o, f)>>))
    BY <1>4 DEF UpdateTerms, BulkAssignTerms
  <2> HIDE DEF f
  <2>3. WriteOK(Set(o, f), o) /\ Set(o, f).set = f /\ DOMAIN Set(o, f).counts = {} /\ ~Set(o, f).print
    BY <2>1, SetWrite
  <2>4. CASE Start(k, Request("terms", o, {"terms", "status"}, <<Set(o, f)>>))
    BY <2>1, <2>3, <2>4, OneWriteKeeps
  <2>5. CASE Start(k, Request("bulk", o, {"terms", "status"}, <<Set(o, f)>>))
    BY <2>1, <2>3, <2>5, OneWriteKeeps
  <2> QED BY <2>2, <2>4, <2>5
<1>5. ASSUME NEW form \in Assignments(o) \cup {Column("skipIssue", TRUE)}, BulkAssign(k, o, form)
      PROVE  WorkInv'
  <2> DEFINE w == [Set(o, form) EXCEPT !.byNumber = AssignmentStep(o, form)]
  <2>1. DOMAIN form \subseteq Columns \ {"imported"} /\ \A c \in DOMAIN form : form[c] \in Values(c)
    BY FormValues
  <2>2. AssignmentStep(o, form) \in SUBSET NumberSteps
    BY AssignmentSteps
  <2>3. WriteOK(w, o) /\ w.set = form /\ DOMAIN w.counts = {} /\ ~w.print
    BY <2>1, <2>2, SetWrite
  <2>4. Start(k, Request("bulk", o, DOMAIN form, <<w>>))
    BY <1>5 DEF BulkAssign
  <2> HIDE DEF w
  <2> QED BY <2>3, <2>4, OneWriteKeeps
<1>6. ASSUME NEW op \in {"edit", "bulk"}, Start(k, Request(op, o, {"terms"}, <<Set(o, NewTerms)>>)),
             op = "edit" => row[o] # None /\ row[o].status # "Dispatched"
      PROVE  WorkInv'
  <2>1. DOMAIN NewTerms = {"terms"} /\ NewTerms["terms"] \in Values("terms") /\ "terms" \in Columns \ {"imported"}
    BY ColumnIs DEF NewTerms, Values, Columns
  <2>2. WriteOK(Set(o, NewTerms), o) /\ Set(o, NewTerms).set = NewTerms
        /\ DOMAIN Set(o, NewTerms).counts = {} /\ ~Set(o, NewTerms).print
    BY <2>1, SetWrite
  <2> QED BY <1>6, <2>1, <2>2, OneWriteKeeps
<1>7. CASE BulkUpdatePriority(k, o) \/ SalesUpdate(k, o) \/ BulkUpdateDeliveryDate(k, o)
           \/ \E skip \in BOOLEAN : BulkUpdateSkipStage(k, o, skip)
  <2>1. CASE BulkUpdatePriority(k, o) \/ SalesUpdate(k, o) \/ BulkUpdateDeliveryDate(k, o)
    BY <1>6, <2>1 DEF BulkUpdatePriority, SalesUpdate, BulkUpdateDeliveryDate, Present
  <2>2. CASE \E skip \in BOOLEAN : BulkUpdateSkipStage(k, o, skip)
    <3>1. "W105" # "Dispatched" /\ "R105" # "Dispatched" /\ None # "Dispatched"
      BY OrderTableAssumption DEF Statuses
    <3> QED BY <1>6, <2>2, <3>1 DEF BulkUpdateSkipStage, Present
  <2> QED BY <1>7, <2>1, <2>2
<1>8. ASSUME NEW form \in Assignments(o) \cup {NewTerms, Column("stored", TRUE)}, ExcelImport(k, o, form)
      PROVE  WorkInv'
  <2> DEFINE S == IF "stored" \in DOMAIN form THEN {"WIP Storage"} ELSE {}
             f == ExcelData(o, form)
             w == [Set(o, f) EXCEPT !.byNumber = S]
  <2>1. row[o] # None /\ Start(k, Request("excel", o, DOMAIN form, <<w>>))
    BY <1>8 DEF ExcelImport, Present
  <2>2. DOMAIN form \subseteq Columns \ {"imported"} /\ \A c \in DOMAIN form : form[c] \in Values(c)
    BY FormValues
  <2>3. f = Over(form, [c \in ExcelColumns |-> row[o][c]])
    BY DEF ExcelData, ExcelColumns
  <2>4. DOMAIN f = DOMAIN form \cup ExcelColumns /\ (\A c \in DOMAIN form : f[c] = form[c])
        /\ (\A c \in ExcelColumns \ DOMAIN form : f[c] = row[o][c])
    BY <2>3 DEF Over
  <2>5. ExcelColumns \subseteq Columns \ {"imported"}
    BY DEF ExcelColumns, Columns
  <2>6. S \in SUBSET NumberSteps
    BY DEF NumberSteps
  <2> HIDE DEF f, S
  <2>7. DOMAIN f \subseteq Columns \ {"imported"} /\ \A c \in DOMAIN f : f[c] \in Values(c)
    BY <1>0, <2>1, <2>2, <2>4, <2>5
  <2>8. WriteOK(w, o) /\ w.set = f /\ DOMAIN w.counts = {} /\ ~w.print
    BY <2>6, <2>7, SetWrite
  <2> HIDE DEF w
  <2> QED BY <2>1, <2>4, <2>8, OneWriteKeeps
<1>9. CASE SalesCreate(k, o)
  <2> DEFINE v == [Blank(o) EXCEPT !.create = TRUE]
             w == NewSteps(o)
  <2>1. WriteOK(v, o) /\ DOMAIN v.counts = {} /\ ~v.print /\ DOMAIN v.set = {}
    BY DEF WriteOK, Blank, Nothing
  <2>2. WriteOK(w, o) /\ DOMAIN w.counts = {} /\ ~w.print /\ DOMAIN w.set = {}
    BY StepNames DEF NewSteps, WriteOK, Blank, Nothing
  <2>3. Start(k, Request("create", o, Columns, <<v, w>>))
    BY <1>9 DEF SalesCreate
  <2> HIDE DEF v, w
  <2> QED BY <2>1, <2>2, <2>3, TwoWritesKeep
<1>10. CASE LabelPrint(k, o)
  <2> DEFINE v == RecordLabel(o)
             w == PrintLabel(o)
  <2>1. WriteOK(v, o) /\ DOMAIN v.counts = {} /\ ~v.print /\ DOMAIN v.set = {} /\ v.record
    BY StepNames DEF RecordLabel, WriteOK, Date, Blank, Nothing
  <2>2. WriteOK(w, o) /\ DOMAIN w.counts = {} /\ DOMAIN w.set = {}
    BY DEF PrintLabel, WriteOK, Blank, Nothing
  <2>3. Start(k, Request("label", o, {}, <<v, w>>))
    BY <1>10 DEF LabelPrint, LabelPlan
  <2>4. w = PrintLabel(o)
    OBVIOUS
  <2> HIDE DEF v, w
  <2> QED BY <2>1, <2>2, <2>3, <2>4, TwoWritesKeep
<1>11. CASE ImportOrder(k, o)
  <2> DEFINE w == [NewSteps(o) EXCEPT !.create = TRUE]
  <2>1. WriteOK(w, o) /\ DOMAIN w.counts = {} /\ ~w.print /\ DOMAIN w.set = {}
    BY StepNames DEF NewSteps, WriteOK, Blank, Nothing
  <2>2. DOMAIN NewTerms = {"terms"} /\ NewTerms["terms"] \in Values("terms") /\ "terms" \in Columns \ {"imported"}
    BY ColumnIs DEF NewTerms, Values, Columns
  <2>3. WriteOK(Set(o, NewTerms), o) /\ Set(o, NewTerms).set = NewTerms
        /\ DOMAIN Set(o, NewTerms).counts = {} /\ ~Set(o, NewTerms).print
    BY <2>2, SetWrite
  <2>4. Start(k, Request("import", o, Columns, <<Set(o, NewTerms)>>))
        \/ Start(k, Request("import", o, Columns, <<w>>))
    BY <1>11 DEF ImportOrder, ImportPlan
  <2> HIDE DEF w
  <2> QED BY <2>1, <2>2, <2>3, <2>4, OneWriteKeeps
<1> QED BY <1>1, <1>2, <1>3, <1>4, <1>5, <1>7, <1>8, <1>9, <1>10, <1>11 DEF DeskRequest

\* Requests that are one call or transaction.
LEMMA AtOnceKeeps ==
  ASSUME WorkInv, NEW o \in Orders, AtOnce(o), TablesOK', recorded \subseteq recorded',
         \A p \in Orders : epoch'[p] <= started + 1
  PROVE  WorkInv'
<1>1. started < MaxRequests /\ started' = started + 1 /\ mixed' = Overlapping(o) /\ req' = Noted(None, Idle)
  BY DEF AtOnce
<1>2. mixed' \subseteq Orders /\ started' \in 0..MaxRequests
  <2>1. mixed \subseteq Orders /\ started \in 0..MaxRequests
    BY InvParts
  <2>2. mixed' \subseteq Orders
    BY <1>1, <2>1 DEF Overlapping, Siblings
  <2>3. started' \in 0..MaxRequests
    BY <1>1, <2>1, OrderTableAssumption
  <2> QED BY <2>2, <2>3
<1>3. DOMAIN req' = Clerks
  BY <1>1 DEF Noted
<1>4. None \notin Clerks
  BY OrderTableAssumption
<1>5. \A c \in Clerks : req'[c] # Idle => RequestOK(req[c])' /\ ReadOK(req[c])'
  BY <1>1, <1>4, OthersKeep
<1>6. \A p \in Orders : epoch'[p] <= started'
  BY <1>1
<1> QED BY <1>2, <1>3, <1>5, <1>6, InvFromParts

LEMMA AtOnceTables ==
  ASSUME TablesOK, started \in 0..MaxRequests, \A p \in Orders : epoch[p] <= started,
         NEW o \in Orders, AtOnceRequest(o)
  PROVE  TablesOK' /\ recorded \subseteq recorded' /\ (\A p \in Orders : epoch'[p] <= started + 1) /\ AtOnce(o)
<1>0. (\A p \in Orders : epoch[p] \in Nat /\ epoch[p] <= started) /\ started \in Nat /\ MaxRequests \in Nat
      /\ \A m \in Materials : OrderOf[m] \in Orders
  BY OrderTableAssumption DEF TablesOK
<1>1. CASE RemoveOrder(o) \/ SalesRemove(o)
  <2>1. Vanish(o) /\ AtOnce(o)
    BY <1>1 DEF RemoveOrder, SalesRemove
  <2>2. row' \in [Orders -> SalesOrder \cup {None}] /\ stepper' \in [Orders -> SUBSET Steps]
        /\ dated' \in [Orders -> SUBSET Steps] /\ count' \in [Materials -> Counts]
    BY <2>1 DEF Vanish, TablesOK, NoCount, Counts
  <2>3. /\ row'[o] = None /\ stepper'[o] = {} /\ dated'[o] = {} /\ epoch' = epoch
        /\ recorded' = recorded /\ printed' = printed
        /\ \A p \in Orders \ {o} : row'[p] = row[p] /\ stepper'[p] = stepper[p] /\ dated'[p] = dated[p]
        /\ \A m \in Materials : count'[m] = IF OrderOf[m] = o THEN NoCount ELSE count[m]
    BY <2>1 DEF Vanish, TablesOK
  <2>4. (loaded \subseteq Present)'
    BY <2>1, <2>3 DEF Vanish, TablesOK, Present
  <2>5. \A m \in Materials : count'[m] # NoCount => row'[OrderOf[m]] # None /\ row'[OrderOf[m]].imported
    BY <1>0, <2>3 DEF TablesOK
  <2> QED BY <1>0, <2>1, <2>2, <2>3, <2>4, <2>5 DEF TablesOK
<1>2. CASE Reprint(o)
  BY <1>0, <1>2 DEF Reprint, TablesOK, Present
<1>3. CASE ResetOrder(o)
  <2>1. row[o] # None /\ row[o] \in SalesOrder /\ Fresh(row[o]) \in SalesOrder /\ Fresh(row[o]) # None
    <3>1. row[o] # None /\ row[o] \in SalesOrder
      BY <1>3 DEF ResetOrder, Present, TablesOK
    <3>2. Fresh(row[o]) \in SalesOrder
      BY <3>1 DEF Fresh, NewOrder, SalesOrder
    <3> QED BY <3>1, <3>2, OrderTableAssumption
  <2>2. row' \in [Orders -> SalesOrder \cup {None}] /\ stepper' \in [Orders -> SUBSET Steps]
        /\ dated' \in [Orders -> SUBSET Steps] /\ count' \in [Materials -> Counts]
    <3>1. "To be Issued" \in Steps
      BY StepNames
    <3>2. row' \in [Orders -> SalesOrder \cup {None}]
      BY <1>3, <2>1 DEF ResetOrder, TablesOK
    <3>3. stepper' \in [Orders -> SUBSET Steps] /\ dated' \in [Orders -> SUBSET Steps]
      BY <1>3, <3>1 DEF ResetOrder, TablesOK
    <3>4. count' \in [Materials -> Counts]
      <4>1. count' = [m \in Materials |-> IF OrderOf[m] = o THEN NoCount ELSE count[m]]
        BY <1>3 DEF ResetOrder
      <4>2. NoCount \in Counts /\ count \in [Materials -> Counts]
        BY DEF NoCount, Counts, TablesOK
      <4> QED BY <4>1, <4>2
    <3> QED BY <3>2, <3>3, <3>4
  <2>3. /\ row'[o] # None /\ stepper'[o] = stepper[o] \cup {"To be Issued"} /\ dated'[o] = {"To be Issued"}
        /\ epoch' = epoch /\ recorded' = recorded /\ printed' = printed /\ loaded' = loaded
        /\ \A p \in Orders \ {o} : row'[p] = row[p] /\ stepper'[p] = stepper[p] /\ dated'[p] = dated[p]
        /\ \A m \in Materials : count'[m] = IF OrderOf[m] = o THEN NoCount ELSE count[m]
    BY <1>3, <2>1 DEF ResetOrder, TablesOK
  <2>4. (loaded \subseteq Present)'
    BY <2>3, ZenonT(60) DEF TablesOK, Present
  <2>5. \A m \in Materials : count'[m] # NoCount => row'[OrderOf[m]] # None /\ row'[OrderOf[m]].imported
    BY <1>0, <2>3, ZenonT(60) DEF TablesOK
  <2>6. \A p \in Orders : dated'[p] \subseteq stepper'[p] /\ (row'[p] = None => stepper'[p] = {})
    BY <2>3 DEF TablesOK
  <2>7. AtOnce(o) /\ epoch' = epoch /\ recorded' = recorded /\ printed' = printed
    BY <1>3, <2>3 DEF ResetOrder
  <2>8. TablesOK'
    BY <2>2, <2>4, <2>5, <2>6, <2>7 DEF TablesOK
  <2> QED BY <1>0, <2>7, <2>8
<1>4. CASE StoreMaterials(o)
  <2>1. row[o] # None /\ row[o] \in SalesOrder /\ [row[o] EXCEPT !.imported = TRUE] \in SalesOrder
        /\ [row[o] EXCEPT !.imported = TRUE] # None
    <3>1. row[o] # None /\ row[o] \in SalesOrder
      BY <1>4 DEF StoreMaterials, Present, TablesOK
    <3>2. [row[o] EXCEPT !.imported = TRUE] \in SalesOrder
      BY <3>1 DEF SalesOrder
    <3> QED BY <3>1, <3>2, OrderTableAssumption
  <2>2. PICK c \in Counts : count' = [m \in Materials |-> IF OrderOf[m] = o THEN c ELSE count[m]]
    BY <1>4 DEF StoreMaterials
  <2>3. /\ row' = [row EXCEPT ![o] = [row[o] EXCEPT !.imported = TRUE]]
        /\ epoch' = [epoch EXCEPT ![o] = epoch[o] + 1]
        /\ UNCHANGED <<stepper, dated, loaded, recorded, printed>> /\ AtOnce(o)
    BY <1>4 DEF StoreMaterials
  <2>4. row' \in [Orders -> SalesOrder \cup {None}] /\ row'[o] # None
        /\ \A p \in Orders \ {o} : row'[p] = row[p]
    BY <2>1, <2>3 DEF TablesOK
  <2>5. row'[o].imported
    BY <2>1, <2>3 DEF TablesOK, SalesOrder
  <2>6. epoch' \in [Orders -> 0..MaxRequests] /\ \A p \in Orders : epoch'[p] <= started + 1
    <3>1. started < MaxRequests
      BY <2>3 DEF AtOnce
    <3> QED BY <1>0, <2>3, <3>1 DEF TablesOK
  <2>7. count' \in [Materials -> Counts] /\ (loaded \subseteq Present)'
    BY <2>2, <2>3, <2>4 DEF TablesOK, Present
  <2>8. \A m \in Materials : count'[m] # NoCount => row'[OrderOf[m]] # None /\ row'[OrderOf[m]].imported
    BY <1>0, <2>2, <2>4, <2>5 DEF TablesOK
  <2>9. \A p \in Orders : dated'[p] \subseteq stepper'[p] /\ (row'[p] = None => stepper'[p] = {})
    BY <2>3, <2>4 DEF TablesOK
  <2> QED BY <2>3, <2>4, <2>6, <2>7, <2>8, <2>9 DEF TablesOK
<1>5. CASE Load(o)
  <2>1. row[o] # None /\ row[o] \in SalesOrder /\ [row[o] EXCEPT !.status = "Dispatched"] \in SalesOrder
        /\ [row[o] EXCEPT !.status = "Dispatched"] # None
    <3>1. row[o] # None /\ row[o] \in SalesOrder
      BY <1>5 DEF Load, Present, TablesOK
    <3>2. [row[o] EXCEPT !.status = "Dispatched"] \in SalesOrder
      BY <3>1 DEF SalesOrder, Statuses
    <3> QED BY <3>1, <3>2, OrderTableAssumption
  <2>2. /\ row' = [row EXCEPT ![o] = [row[o] EXCEPT !.status = "Dispatched"]]
        /\ stepper' = [stepper EXCEPT ![o] = stepper[o] \cup {"Dispatched"}]
        /\ dated' = [dated EXCEPT ![o] = dated[o] \cup {"Dispatched"}]
        /\ loaded' = loaded \cup {o} /\ UNCHANGED <<count, epoch, recorded, printed>> /\ AtOnce(o)
    BY <1>5 DEF Load
  <2>3. row' \in [Orders -> SalesOrder \cup {None}] /\ row'[o] # None
        /\ \A p \in Orders \ {o} : row'[p] = row[p]
    BY <2>1, <2>2 DEF TablesOK
  <2>4. row'[o].imported = row[o].imported
    BY <2>1, <2>2 DEF TablesOK, SalesOrder
  <2>5. stepper' \in [Orders -> SUBSET Steps] /\ dated' \in [Orders -> SUBSET Steps]
    BY <2>2, StepNames DEF TablesOK
  <2>6. (loaded \subseteq Present)'
    BY <2>2, <2>3 DEF TablesOK, Present
  <2>7. \A m \in Materials : count'[m] # NoCount => row'[OrderOf[m]] # None /\ row'[OrderOf[m]].imported
    BY <1>0, <2>2, <2>3, <2>4 DEF TablesOK
  <2>8. \A p \in Orders : dated'[p] \subseteq stepper'[p] /\ (row'[p] = None => stepper'[p] = {})
    BY <2>2, <2>3 DEF TablesOK
  <2> QED BY <1>0, <2>2, <2>3, <2>5, <2>6, <2>7, <2>8 DEF TablesOK
<1> QED BY <1>1, <1>2, <1>3, <1>4, <1>5 DEF AtOnceRequest

LEMMA AtOnceRequestKeeps ==
  ASSUME WorkInv, NEW o \in Orders, AtOnceRequest(o)
  PROVE  WorkInv'
<1>1. TablesOK /\ started \in 0..MaxRequests /\ \A p \in Orders : epoch[p] <= started
  BY InvParts DEF WorkInv
<1> QED BY <1>1, AtOnceTables, AtOnceKeeps

LEMMA DownloadKeeps ==
  ASSUME WorkInv, NEW k \in Clerks, NEW o \in Orders, HandheldRequest(k, o)
  PROVE  WorkInv'
<1>1. PICK access \in Access, u \in Users : Download(k, access, u, o)
  BY DEF HandheldRequest
<1>9. PICK S \in SUBSET {m \in Materials : InTable(m)} : \E c \in Scanned([m \in S |-> count[m]]) :
        Start(k, [Idle EXCEPT !.op = "copy", !.order = o, !.user = u, !.asked = {access},
                              !.copy = c, !.of = [p \in {OrderOf[m] : m \in S} |-> epoch[p]]])
  BY <1>1 DEF Download
<1>2. PICK c \in Scanned([m \in S |-> count[m]]) :
        Start(k, [Idle EXCEPT !.op = "copy", !.order = o, !.user = u, !.asked = {access},
                              !.copy = c, !.of = [p \in {OrderOf[m] : m \in S} |-> epoch[p]]])
  BY <1>9
<1> DEFINE q == [Idle EXCEPT !.op = "copy", !.order = o, !.user = u, !.asked = {access},
                             !.copy = c, !.of = [p \in {OrderOf[m] : m \in S} |-> epoch[p]]]
<1>3. DOMAIN q = Fields /\ q.op = "copy" /\ q.order = o /\ q.asked = {access} /\ q.copy = c
      /\ q.plan = <<>> /\ q.left = {} /\ q.moved = FALSE /\ q.by = "ID"
  BY DEF Idle, Fields
<1> HIDE DEF q
<1>4. DOMAIN c = S /\ \A m \in S :
        c[m] \in Counts /\ c[m].issued >= count[m].issued /\ c[m].packed >= count[m].packed
  BY <1>2 DEF Scanned
<1>5. S \subseteq Materials /\ \A m \in S : count[m] \in Counts
  BY InvParts
<1>6. RequestOK(q)
  <2>1. PlanOK(q)
    BY <1>3, EmptyPlan DEF PlanOK
  <2>2. CopyOK(q)
    BY <1>3, <1>4, <1>5, EmptyPlan DEF CopyOK
  <2> QED BY <1>3, <2>1, <2>2 DEF RequestOK, HandheldOps, Ops
<1>7. ReadOK(q)
  <2>1. \A m \in DOMAIN q.copy : count[m].issued <= q.copy[m].issued /\ count[m].packed <= q.copy[m].packed
    BY <1>3, <1>4, <1>5 DEF Counts
  <2>2. access = "id" \/ access = "number"
    BY DEF Access
  <2>3. access = "id" => row[o] # None /\ row[o].status # "Dispatched"
    <3>1. None # "Dispatched"
      BY OrderTableAssumption DEF Statuses
    <3> QED BY <1>1, <3>1 DEF Download, MayAccess, Present, Visible
  <2>4. q.asked # {"number"} => access = "id"
    BY <1>3, <2>2
  <2> QED BY <1>3, <2>1, <2>3, <2>4 DEF ReadOK
<1> QED BY <1>2, <1>6, <1>7, StartKeeps DEF q

-----------------------------------------------------------------------------
(***************************************************************************)
(* Handhelds                                                               *)
(***************************************************************************)

SetIssued(o) == Set(o, Column("status", "W105"))
SetPacked(o) == Set(o, Column("status", "F105"))
DateIssued(o) == Date(o, {"Issued"})
DateUnder(o) == Date(o, {"Under Packing"})
DatePacked(o) == Date(o, {"Packed"})

IssuePlans(o) == {<<SetIssued(o), DateIssued(o)>>, <<SetIssued(o), DateIssued(o), DateUnder(o)>>}
PackPlans(o) ==
  {<<SetPacked(o), DatePacked(o)>>,
   <<SetIssued(o), DateIssued(o), SetPacked(o), DatePacked(o)>>,
   <<SetIssued(o), DateIssued(o), DateUnder(o), SetPacked(o), DatePacked(o)>>}

LEMMA ConcatAny ==
  ASSUME NEW a, NEW b
  PROVE  <<a, b>> \o <<>> = <<a, b>> /\ <<>> \o <<a, b>> = <<a, b>>
OBVIOUS

LEMMA Concat21 ==
  ASSUME NEW a, NEW b, NEW c
  PROVE  <<a, b>> \o <<c>> = <<a, b, c>>
<1> DEFINE S == {a, b, c}
<1>1. <<a, b>> \in Seq(S) /\ <<c>> \in Seq(S) /\ Len(<<a, b>>) = 2 /\ Len(<<c>>) = 1
  OBVIOUS
<1>2. <<a, b>> \o <<c>> \in Seq(S) /\ Len(<<a, b>> \o <<c>>) = 3
  BY <1>1, ConcatProperties
<1>3. \A i \in 1..3 : (<<a, b>> \o <<c>>)[i] = <<a, b, c>>[i]
  BY <1>1, ConcatProperties
<1>4. <<a, b, c>> \in Seq(S) /\ Len(<<a, b, c>>) = 3
  OBVIOUS
<1> QED BY <1>2, <1>3, <1>4, SeqEqual

LEMMA Concat22 ==
  ASSUME NEW a, NEW b, NEW c, NEW d
  PROVE  <<a, b>> \o <<c, d>> = <<a, b, c, d>>
<1> DEFINE S == {a, b, c, d}
<1>1. <<a, b>> \in Seq(S) /\ <<c, d>> \in Seq(S) /\ Len(<<a, b>>) = 2 /\ Len(<<c, d>>) = 2
  OBVIOUS
<1>2. <<a, b>> \o <<c, d>> \in Seq(S) /\ Len(<<a, b>> \o <<c, d>>) = 4
  BY <1>1, ConcatProperties
<1>3. \A i \in 1..4 : (<<a, b>> \o <<c, d>>)[i] = <<a, b, c, d>>[i]
  BY <1>1, ConcatProperties
<1>4. <<a, b, c, d>> \in Seq(S) /\ Len(<<a, b, c, d>>) = 4
  OBVIOUS
<1> QED BY <1>2, <1>3, <1>4, SeqEqual

LEMMA Concat32 ==
  ASSUME NEW a, NEW b, NEW c, NEW d, NEW e
  PROVE  <<a, b, c>> \o <<d, e>> = <<a, b, c, d, e>>
<1> DEFINE S == {a, b, c, d, e}
<1>1. <<a, b, c>> \in Seq(S) /\ <<d, e>> \in Seq(S) /\ Len(<<a, b, c>>) = 3 /\ Len(<<d, e>>) = 2
  OBVIOUS
<1>2. <<a, b, c>> \o <<d, e>> \in Seq(S) /\ Len(<<a, b, c>> \o <<d, e>>) = 5
  BY <1>1, ConcatProperties
<1>3. \A i \in 1..5 : (<<a, b, c>> \o <<d, e>>)[i] = <<a, b, c, d, e>>[i]
  BY <1>1, ConcatProperties
<1>4. <<a, b, c, d, e>> \in Seq(S) /\ Len(<<a, b, c, d, e>>) = 5
  OBVIOUS
<1> QED BY <1>2, <1>3, <1>4, SeqEqual

\* What completes an order, and when it does.
LEMMA CompletionShape ==
  ASSUME NEW o, NEW S, NEW c
  PROVE  /\ CompletionWrites(o, S, c) \in {<<>>} \cup IssuePlans(o) \cup PackPlans(o)
         /\ o \in Present /\ S # {} =>
              /\ Complete(S, c, "packed") => CompletionWrites(o, S, c) \in PackPlans(o)
              /\ Complete(S, c, "issued") /\ ~Complete(S, c, "packed") =>
                   \/ CompletionWrites(o, S, c) \in IssuePlans(o)
                   \/ row[o].status \in {"W105", "F105"} /\ CompletionWrites(o, S, c) = <<>>
              /\ ~Complete(S, c, "issued") /\ ~Complete(S, c, "packed") => CompletionWrites(o, S, c) = <<>>
<1> DEFINE P == PackingWrites(o, S, c)
           I == IssueWrites(o, S, c)
<1>1. /\ Complete(S, c, "packed") => P = <<SetPacked(o), DatePacked(o)>>
      /\ ~Complete(S, c, "packed") => P = <<>>
  BY DEF PackingWrites, SetPacked, DatePacked
<1>2. /\ Complete(S, c, "issued") /\ row[o].status \notin {"W105", "F105"} => I \in IssuePlans(o)
      /\ ~(Complete(S, c, "issued") /\ row[o].status \notin {"W105", "F105"}) => I = <<>>
  BY Concat21, ConcatAny DEF IssueWrites, SetIssued, DateIssued, DateUnder, IssuePlans
<1>3. /\ I \in IssuePlans(o) => I \o <<>> = I /\ I \o <<SetPacked(o), DatePacked(o)>> \in PackPlans(o)
      /\ <<>> \o <<SetPacked(o), DatePacked(o)>> \in PackPlans(o)
      /\ <<>> \o <<>> = <<>>
  <2> DEFINE a == SetIssued(o)
             b == DateIssued(o)
             u == DateUnder(o)
             d == SetPacked(o)
             e == DatePacked(o)
  <2>1. <<a, b>> \o <<>> = <<a, b>> /\ <<a, b, u>> \o <<>> = <<a, b, u>> /\ <<>> \o <<>> = <<>>
        /\ <<>> \o <<d, e>> = <<d, e>> /\ <<a, b>> \o <<d, e>> = <<a, b, d, e>>
        /\ <<a, b, u>> \o <<d, e>> = <<a, b, u, d, e>>
    <3> HIDE DEF a, b, u, d, e
    <3>1. <<a, b>> \o <<>> = <<a, b>> /\ <<>> \o <<d, e>> = <<d, e>>
      BY ConcatAny
    <3>2. <<a, b, u>> \o <<>> = <<a, b, u>> /\ <<>> \o <<>> = <<>>
      OBVIOUS
    <3>3. <<a, b>> \o <<d, e>> = <<a, b, d, e>>
      BY Concat22
    <3>4. <<a, b, u>> \o <<d, e>> = <<a, b, u, d, e>>
      BY Concat32
    <3> QED BY <3>1, <3>2, <3>3, <3>4
  <2>2. IssuePlans(o) = {<<a, b>>, <<a, b, u>>}
        /\ PackPlans(o) = {<<d, e>>, <<a, b, d, e>>, <<a, b, u, d, e>>}
    BY DEF IssuePlans, PackPlans
  <2> HIDE DEF a, b, u, d, e
  <2>3. I \in IssuePlans(o) => I \o <<>> = I /\ I \o <<d, e>> \in PackPlans(o)
    <3> HIDE DEF I
    <3> QED BY <2>1, <2>2
  <2>4. <<>> \o <<d, e>> \in PackPlans(o) /\ <<>> \o <<>> = <<>>
    BY <2>1, <2>2
  <2> QED BY <2>3, <2>4 DEF d, e
<1> HIDE DEF P, I
<1>4. CompletionWrites(o, S, c) = IF o \notin Present \/ S = {} THEN <<>> ELSE I \o P
  BY DEF CompletionWrites, P, I
<1>5. CompletionWrites(o, S, c) \in {<<>>} \cup IssuePlans(o) \cup PackPlans(o)
  BY <1>1, <1>2, <1>3, <1>4
<1>6. ASSUME o \in Present, S # {}
      PROVE  /\ Complete(S, c, "packed") => CompletionWrites(o, S, c) \in PackPlans(o)
             /\ Complete(S, c, "issued") /\ ~Complete(S, c, "packed") =>
                  \/ CompletionWrites(o, S, c) \in IssuePlans(o)
                  \/ row[o].status \in {"W105", "F105"} /\ CompletionWrites(o, S, c) = <<>>
             /\ ~Complete(S, c, "issued") /\ ~Complete(S, c, "packed") => CompletionWrites(o, S, c) = <<>>
  <2>1. CompletionWrites(o, S, c) = I \o P
    BY <1>4, <1>6
  <2>2. CASE Complete(S, c, "packed")
    BY <1>1, <1>2, <1>3, <2>1, <2>2
  <2>3. CASE ~Complete(S, c, "packed")
    <3>1. CompletionWrites(o, S, c) = I
      BY <1>1, <1>2, <1>3, <2>1, <2>3
    <3>2. CASE row[o].status \in {"W105", "F105"}
      BY <1>2, <2>3, <3>1, <3>2
    <3>3. CASE row[o].status \notin {"W105", "F105"}
      <4>1. Complete(S, c, "issued") => I \in IssuePlans(o)
        BY <1>2, <3>3
      <4>2. ~Complete(S, c, "issued") => I = <<>>
        BY <1>2
      <4> QED BY <2>3, <3>1, <4>1, <4>2
    <3> QED BY <3>2, <3>3
  <2> QED BY <2>2, <2>3
<1> QED BY <1>5, <1>6

\* The writes that complete an order.
LEMMA CompletionWrite ==
  ASSUME NEW o, NEW w \in {SetIssued(o), DateIssued(o), DateUnder(o), SetPacked(o), DatePacked(o)}
  PROVE  /\ WriteOK(w, o) /\ DOMAIN w.counts = {} /\ ~w.print /\ ~w.create /\ ~w.stepperRows
         /\ w.clear = {} /\ DOMAIN w.set \subseteq {"status"}
         /\ "status" \in DOMAIN w.set => w.set["status"] \in {"W105", "F105"}
<1>1. ASSUME NEW v \in {"W105", "F105"}, w = Set(o, Column("status", v))
      PROVE  WriteOK(w, o) /\ DOMAIN w.counts = {} /\ ~w.print /\ ~w.create /\ ~w.stepperRows
             /\ w.clear = {} /\ DOMAIN w.set = {"status"} /\ w.set["status"] = v
  <2> DEFINE f == Column("status", v)
  <2>1. DOMAIN f = {"status"} /\ f["status"] = v /\ "status" \in Columns \ {"imported"} /\ v \in Values("status")
    BY ColumnIs DEF Values, Columns, Statuses
  <2> HIDE DEF f
  <2>2. w = Set(o, f)
    BY <1>1 DEF f
  <2>3. WriteOK(w, o) /\ w.set = f /\ DOMAIN w.counts = {} /\ ~w.print
    BY <2>1, <2>2, SetWrite, ZenonT(60)
  <2>4. ~w.create /\ ~w.stepperRows /\ w.clear = {}
    BY <2>2 DEF Set, Blank
  <2> QED BY <2>1, <2>3, <2>4
<1>2. ASSUME NEW S \in SUBSET Steps, w = Date(o, S)
      PROVE  WriteOK(w, o) /\ DOMAIN w.counts = {} /\ ~w.print /\ ~w.create /\ ~w.stepperRows
             /\ w.clear = {} /\ DOMAIN w.set = {}
  <2>1. w.clear = {}
    BY <1>2 DEF Date, Blank
  <2> QED BY <1>2, <2>1, StepperWrites
<1>3. {"Issued"} \in SUBSET Steps /\ {"Under Packing"} \in SUBSET Steps /\ {"Packed"} \in SUBSET Steps
  BY StepNames
<1>4. CASE w \in {SetIssued(o), SetPacked(o)}
  BY <1>1, <1>4 DEF SetIssued, SetPacked
<1>5. CASE w \in {DateIssued(o), DateUnder(o), DatePacked(o)}
  BY <1>2, <1>3, <1>5 DEF DateIssued, DateUnder, DatePacked
<1> QED BY <1>4, <1>5

LEMMA CompletionPlan ==
  ASSUME NEW o, NEW P \in {<<>>} \cup IssuePlans(o) \cup PackPlans(o)
  PROVE  /\ IsPlan(P)
         /\ \A i \in DOMAIN P :
              P[i] \in {SetIssued(o), DateIssued(o), DateUnder(o), SetPacked(o), DatePacked(o)}
<1> DEFINE W == {SetIssued(o), DateIssued(o), DateUnder(o), SetPacked(o), DatePacked(o)}
<1>1. P \in Seq(W)
  <2>1. \A a, b \in W : <<a, b>> \in Seq(W)
    OBVIOUS
  <2>2. \A a, b, c \in W : <<a, b, c>> \in Seq(W)
    OBVIOUS
  <2>3. \A a, b, c, d \in W : <<a, b, c, d>> \in Seq(W)
    OBVIOUS
  <2>4. \A a, b, c, d, e \in W : <<a, b, c, d, e>> \in Seq(W)
    OBVIOUS
  <2>5. <<>> \in Seq(W)
    OBVIOUS
  <2>6. SetIssued(o) \in W /\ DateIssued(o) \in W /\ DateUnder(o) \in W /\ SetPacked(o) \in W
        /\ DatePacked(o) \in W
    OBVIOUS
  <2> HIDE DEF W
  <2>7. CASE P \in IssuePlans(o)
    BY <2>1, <2>2, <2>6, <2>7 DEF IssuePlans
  <2>8. CASE P \in PackPlans(o)
    <3>1. <<SetPacked(o), DatePacked(o)>> \in Seq(W)
      BY <2>1, <2>6
    <3>2. <<SetIssued(o), DateIssued(o), SetPacked(o), DatePacked(o)>> \in Seq(W)
      BY <2>3, <2>6
    <3>3. <<SetIssued(o), DateIssued(o), DateUnder(o), SetPacked(o), DatePacked(o)>> \in Seq(W)
      BY <2>4, <2>6
    <3> QED BY <2>8, <3>1, <3>2, <3>3 DEF PackPlans
  <2> QED BY <2>5, <2>7, <2>8
<1>2. \A i \in DOMAIN P : P[i] \in W
  BY <1>1
<1> QED BY <1>1, <1>2, SequenceIsPlan

\* All the writes of a completion as one.
LEMMA CompletionAsOne ==
  ASSUME NEW o, NEW P \in {<<>>} \cup IssuePlans(o) \cup PackPlans(o)
  PROVE  /\ Dated(P) \subseteq Steps
         /\ P = <<>> => LastStatus(P) = Nothing /\ Dated(P) = {}
         /\ P \in IssuePlans(o) => LastStatus(P) = Column("status", "W105") /\ "Issued" \in Dated(P)
         /\ P \in PackPlans(o) => LastStatus(P) = Column("status", "F105") /\ "Packed" \in Dated(P)
<1> DEFINE a == SetIssued(o)
           b == DateIssued(o)
           u == DateUnder(o)
           d == SetPacked(o)
           e == DatePacked(o)
           setting(Q) == {i \in DOMAIN Q : DOMAIN Q[i].set # {}}
<1>1. /\ DOMAIN a.set # {} /\ a.set = Column("status", "W105") /\ a.date = {}
      /\ DOMAIN d.set # {} /\ d.set = Column("status", "F105") /\ d.date = {}
  BY DEF SetIssued, SetPacked, Set, Blank, Column
<1>2. /\ DOMAIN b.set = {} /\ b.date = {"Issued"} /\ DOMAIN u.set = {} /\ u.date = {"Under Packing"}
      /\ DOMAIN e.set = {} /\ e.date = {"Packed"}
  BY DEF DateIssued, DateUnder, DatePacked, Date, Blank, Nothing
<1>3. {"Issued", "Under Packing", "Packed"} \subseteq Steps
  BY StepNames
<1>4. IssuePlans(o) = {<<a, b>>, <<a, b, u>>}
      /\ PackPlans(o) = {<<d, e>>, <<a, b, d, e>>, <<a, b, u, d, e>>}
  BY DEF IssuePlans, PackPlans
<1> HIDE DEF a, b, u, d, e
<1>5. ASSUME NEW Q, NEW m, setting(Q) # {}, m \in setting(Q), \A j \in setting(Q) : j <= m,
             setting(Q) \subseteq Nat
      PROVE  LastStatus(Q) = Q[m].set
  <2>1. ASSUME NEW i \in setting(Q), \A j \in setting(Q) : j <= i
        PROVE  i = m
    BY <1>5, <2>1
  <2>2. (CHOOSE i \in setting(Q) : \A j \in setting(Q) : j <= i) = m
    BY <1>5, <2>1
  <2> QED BY <1>5, <2>2 DEF LastStatus
<1>6. CASE P = <<>>
  <2>1. DOMAIN P = {}
    BY <1>6
  <2>2. LastStatus(P) = Nothing /\ Dated(P) = {}
    BY <2>1 DEF LastStatus, Dated
  <2>3. P \notin IssuePlans(o) /\ P \notin PackPlans(o)
    BY <1>4, <1>6
  <2> QED BY <2>2, <2>3
<1>7. CASE P = <<a, b>>
  <2>1. DOMAIN P = {1, 2} /\ P[1] = a /\ P[2] = b
    BY <1>7
  <2>2. setting(P) = {1}
    BY <1>1, <1>2, <2>1
  <2>3. LastStatus(P) = Column("status", "W105")
    BY <1>1, <1>5, <2>1, <2>2
  <2>4. Dated(P) = {"Issued"}
    <3>1. Dated(P) = UNION {P[i].date : i \in DOMAIN P}
      BY DEF Dated
    <3>2. \A x : x \in Dated(P) <=> \E i \in DOMAIN P : x \in P[i].date
      BY <3>1
    <3>3. \A x : x \in Dated(P) <=> x \in P[1].date \cup P[2].date
      BY <2>1, <3>2
    <3> QED BY <1>1, <1>2, <2>1, <3>3
  <2>5. P \notin PackPlans(o) /\ P # <<>>
    BY <1>1, <1>2, <1>4, <1>7
  <2> QED BY <1>3, <2>3, <2>4, <2>5
<1>8. CASE P = <<a, b, u>>
  <2>1. DOMAIN P = {1, 2, 3} /\ P[1] = a /\ P[2] = b /\ P[3] = u
    BY <1>8
  <2>2. setting(P) = {1}
    BY <1>1, <1>2, <2>1
  <2>3. LastStatus(P) = Column("status", "W105")
    BY <1>1, <1>5, <2>1, <2>2
  <2>4. Dated(P) = {"Issued", "Under Packing"}
    <3>1. Dated(P) = UNION {P[i].date : i \in DOMAIN P}
      BY DEF Dated
    <3>2. \A x : x \in Dated(P) <=> \E i \in DOMAIN P : x \in P[i].date
      BY <3>1
    <3>3. \A x : x \in Dated(P) <=> x \in P[1].date \cup P[2].date \cup P[3].date
      BY <2>1, <3>2
    <3> QED BY <1>1, <1>2, <2>1, <3>3
  <2>5. P \notin PackPlans(o) /\ P # <<>>
    BY <1>4, <1>8
  <2> QED BY <1>3, <2>3, <2>4, <2>5
<1>9. CASE P = <<d, e>>
  <2>1. DOMAIN P = {1, 2} /\ P[1] = d /\ P[2] = e
    BY <1>9
  <2>2. setting(P) = {1}
    BY <1>1, <1>2, <2>1
  <2>3. LastStatus(P) = Column("status", "F105")
    BY <1>1, <1>5, <2>1, <2>2
  <2>4. Dated(P) = {"Packed"}
    <3>1. Dated(P) = UNION {P[i].date : i \in DOMAIN P}
      BY DEF Dated
    <3>2. \A x : x \in Dated(P) <=> \E i \in DOMAIN P : x \in P[i].date
      BY <3>1
    <3>3. \A x : x \in Dated(P) <=> x \in P[1].date \cup P[2].date
      BY <2>1, <3>2
    <3> QED BY <1>1, <1>2, <2>1, <3>3
  <2>5. P \notin IssuePlans(o) /\ P # <<>>
    BY <1>1, <1>2, <1>4, <1>9
  <2> QED BY <1>3, <2>3, <2>4, <2>5
<1>10. CASE P = <<a, b, d, e>>
  <2>1. DOMAIN P = {1, 2, 3, 4} /\ P[1] = a /\ P[2] = b /\ P[3] = d /\ P[4] = e
    BY <1>10
  <2>2. setting(P) = {1, 3}
    BY <1>1, <1>2, <2>1
  <2>3. LastStatus(P) = Column("status", "F105")
    BY <1>1, <1>5, <2>1, <2>2
  <2>4. Dated(P) = {"Issued", "Packed"}
    <3>1. Dated(P) = UNION {P[i].date : i \in DOMAIN P}
      BY DEF Dated
    <3>2. \A x : x \in Dated(P) <=> \E i \in DOMAIN P : x \in P[i].date
      BY <3>1
    <3>3. \A x : x \in Dated(P) <=> x \in P[1].date \cup P[2].date \cup P[3].date \cup P[4].date
      BY <2>1, <3>2
    <3> QED BY <1>1, <1>2, <2>1, <3>3
  <2>5. P \notin IssuePlans(o) /\ P # <<>>
    BY <1>4, <1>10
  <2> QED BY <1>3, <2>3, <2>4, <2>5
<1>11. CASE P = <<a, b, u, d, e>>
  <2>1. DOMAIN P = {1, 2, 3, 4, 5} /\ P[1] = a /\ P[2] = b /\ P[3] = u /\ P[4] = d /\ P[5] = e
    BY <1>11
  <2>2. setting(P) = {1, 4}
    BY <1>1, <1>2, <2>1
  <2>3. LastStatus(P) = Column("status", "F105")
    BY <1>1, <1>5, <2>1, <2>2
  <2>4. Dated(P) = {"Issued", "Under Packing", "Packed"}
    <3>1. Dated(P) = UNION {P[i].date : i \in DOMAIN P}
      BY DEF Dated
    <3>2. \A x : x \in Dated(P) <=> \E i \in DOMAIN P : x \in P[i].date
      BY <3>1
    <3>3. \A x : x \in Dated(P) <=> x \in P[1].date \cup P[2].date \cup P[3].date \cup P[4].date \cup P[5].date
      BY <2>1, <3>2
    <3> QED BY <1>1, <1>2, <2>1, <3>3
  <2>5. P \notin IssuePlans(o) /\ P # <<>>
    BY <1>4, <1>11
  <2> QED BY <1>3, <2>3, <2>4, <2>5
<1> QED BY <1>4, <1>6, <1>7, <1>8, <1>9, <1>10, <1>11

\* The rows that a handheld writes get counts that it sent for them.
LEMMA SourceSent ==
  ASSUME NEW k, RequestOK(req[k]), req[k].op \in Handheld,
         NEW S \in SUBSET DOMAIN req[k].copy, NEW src \in Sources(k, S)
  PROVE  DOMAIN src \subseteq Materials /\ \A m \in DOMAIN src :
           src[m] \in DOMAIN req[k].copy /\ SentFor(req[k], m, req[k].copy[src[m]])
<1>1. CopyOK(req[k])
  BY DEF RequestOK, Handheld, HandheldOps
<1>2. CASE req[k].by = "ID"
  <2>1. src = [m \in S |-> m]
    BY <1>2 DEF Sources
  <2>2. DOMAIN src = S /\ \A m \in S : src[m] = m
    BY <2>1
  <2> QED BY <1>1, <1>2, <2>2 DEF CopyOK, SentFor
<1>3. CASE req[k].by # "ID"
  <2>1. PICK l \in Lasts(S) :
          src = [m \in {x \in Reached(req[k].order) : CodeOf[x] \in DOMAIN l} |-> l[CodeOf[m]]]
    BY <1>3 DEF Sources
  <2>2. \A c \in DOMAIN l : l[c] \in S /\ CodeOf[l[c]] = c
    BY DEF Lasts
  <2>3. \A m \in DOMAIN src : m \in Reached(req[k].order) /\ CodeOf[m] \in DOMAIN l /\ src[m] = l[CodeOf[m]]
    BY <2>1
  <2>4. \A m \in DOMAIN src :
          m \in Materials /\ OrderOf[m] \in Scope(req[k].order) /\ src[m] \in S /\ CodeOf[src[m]] = CodeOf[m]
    BY <2>2, <2>3 DEF Reached
  <2> QED BY <1>3, <2>4 DEF SentFor
<1> QED BY <1>2, <1>3

\* The write of a handheld's counts.
LEMMA CountingWrite ==
  ASSUME NEW k, RequestOK(req[k]), req[k].op \in Handheld,
         NEW S \in SUBSET DOMAIN req[k].copy, NEW src \in Sources(k, S)
  PROVE  /\ WriteOK(Counting(k, src), req[k].order)
         /\ \A m \in DOMAIN Counting(k, src).counts : SentFor(req[k], m, Counting(k, src).counts[m])
         /\ DOMAIN Counting(k, src).set = {} /\ ~Counting(k, src).print /\ ~Counting(k, src).create
         /\ DOMAIN Counting(k, src).counts = DOMAIN src
<1> DEFINE c == Sent(k, src)
<1>1. DOMAIN c = DOMAIN src /\ \A m \in DOMAIN src : c[m] = req[k].copy[src[m]]
  BY DEF Sent
<1>2. DOMAIN c \subseteq Materials /\ \A m \in DOMAIN c : c[m] \in Counts /\ SentFor(req[k], m, c[m])
  <2>1. \A m \in DOMAIN req[k].copy : req[k].copy[m] \in Counts
    BY DEF RequestOK, CopyOK, Handheld, HandheldOps
  <2>2. DOMAIN src \subseteq Materials /\ \A m \in DOMAIN src :
          src[m] \in DOMAIN req[k].copy /\ SentFor(req[k], m, req[k].copy[src[m]])
    BY SourceSent
  <2> HIDE DEF c
  <2> QED BY <1>1, <2>1, <2>2
<1> HIDE DEF c
<1>3. Counting(k, src) = [Blank(req[k].order) EXCEPT !.counts = c, !.by = req[k].by, !.of = req[k].of]
  BY DEF Counting, c
<1>4. WriteOK(Counting(k, src), req[k].order)
  BY <1>1, <1>2, <1>3 DEF WriteOK, Blank, Nothing
<1>5. Counting(k, src).counts = c /\ DOMAIN Counting(k, src).set = {} /\ ~Counting(k, src).print
      /\ ~Counting(k, src).create
  BY <1>3 DEF Blank, Nothing
<1> QED BY <1>1, <1>2, <1>4, <1>5

\* The order whose stages a handheld's request completes is one of its targets.
LEMMA FoundTarget ==
  ASSUME NEW q, q.op \in Handheld, q.order \in Orders, NEW o \in Found(q.order)
  PROVE  o \in Targets(q) /\ o \in Orders /\ (q.order \notin NoObd => o = q.order)
BY DEF Found, Targets, Scope, Siblings, Present

\* A request goes on with its record, or ends.
LEMMA GoesOnKeeps ==
  ASSUME WorkInv, NEW k \in Clerks, NEW q, q # Idle => RequestOK(q) /\ ReadOK(q),
         req' = [req EXCEPT ![k] = q], UNCHANGED <<table, started>>, mixed' \subseteq Orders
  PROVE  WorkInv'
<1>1. started' \in started..MaxRequests
  BY InvParts, OrderTableAssumption
<1> QED BY <1>1, ReplaceKeeps

LEMMA EndsKeeps ==
  ASSUME WorkInv, NEW k \in Clerks, req' = [req EXCEPT ![k] = Idle], UNCHANGED <<table, started>>,
         NEW o, mixed' = mixed \/ mixed' = mixed \cup Siblings(o)
  PROVE  WorkInv'
<1>1. mixed' \subseteq Orders
  BY InvParts DEF Siblings
<1> QED BY <1>1, GoesOnKeeps

\* What a request touches of other orders: orders, with those of its own number when it
\* has no OBD, and those of the number of every other order it has rows of.
LEMMA ForeignOrders ==
  ASSUME NEW q
  PROVE  Foreign(q) \subseteq Orders
<1> SUFFICES ASSUME NEW x \in Foreign(q) PROVE x \in Orders
  OBVIOUS
<1>1. \E p : x \in Siblings(p)
  <2> DEFINE A == UNION {Siblings(p) : p \in {OrderOf[m] : m \in DOMAIN q.copy} \ {q.order}}
             B == IF q.order \in NoObd THEN Siblings(q.order) ELSE {}
  <2>1. Foreign(q) = A \cup B
    BY DEF Foreign
  <2>2. x \in A => \E p : x \in Siblings(p)
    OBVIOUS
  <2>3. x \in B => x \in Siblings(q.order)
    OBVIOUS
  <2> HIDE DEF A, B
  <2> QED BY <2>1, <2>2, <2>3
<1> QED BY <1>1 DEF Siblings

LEMMA ForeignParts ==
  ASSUME NEW q
  PROVE  /\ q.order \in NoObd => Siblings(q.order) \subseteq Foreign(q)
         /\ \A m \in DOMAIN q.copy :
              OrderOf[m] # q.order => Siblings(OrderOf[m]) \subseteq Foreign(q)
<1> DEFINE A == UNION {Siblings(p) : p \in {OrderOf[m] : m \in DOMAIN q.copy} \ {q.order}}
           B == IF q.order \in NoObd THEN Siblings(q.order) ELSE {}
<1>1. Foreign(q) = A \cup B
  BY DEF Foreign
<1>2. ASSUME NEW m \in DOMAIN q.copy, OrderOf[m] # q.order, NEW x \in Siblings(OrderOf[m])
      PROVE  x \in A
  <2>1. OrderOf[m] \in {OrderOf[n] : n \in DOMAIN q.copy} \ {q.order}
    BY <1>2
  <2> QED BY <1>2, <2>1
<1>3. q.order \in NoObd => B = Siblings(q.order)
  OBVIOUS
<1> HIDE DEF A, B
<1> QED BY <1>1, <1>2, <1>3

LEMMA SendKeeps ==
  ASSUME WorkInv, NEW k \in Active, NEW op \in Handheld, NEW by \in {"ID", "code"}, Send(k, op, by)
  PROVE  WorkInv'
<1> DEFINE q == req[k]
           r == [q EXCEPT !.op = op, !.by = by, !.left = DOMAIN q.copy]
<1>1. k \in Clerks /\ RequestOK(q) /\ ReadOK(q) /\ q.op = "copy" /\ DOMAIN q = Fields
      /\ UNCHANGED <<table, started>> /\ (mixed' = mixed \/ mixed' = mixed \cup Foreign(q))
  BY InvParts DEF Active, Send
<1>2. req' = [req EXCEPT ![k] = r] \/ req' = [req EXCEPT ![k] = Idle]
  BY DEF Send
<1>3. DOMAIN r = Fields /\ r.op = op /\ r.order = q.order /\ r.asked = q.asked /\ r.copy = q.copy
      /\ r.plan = q.plan /\ r.left = DOMAIN q.copy /\ r.moved = q.moved /\ r.stale = q.stale
      /\ r.by = by
  BY <1>1 DEF Fields
<1> HIDE DEF r
<1>4. CopyOK(q) /\ q.plan = <<>>
  BY <1>1 DEF RequestOK, CopyOK, HandheldOps
<1>5. RequestOK(r)
  <2>1. PlanOK(r)
    BY <1>3, <1>4, EmptyPlan DEF PlanOK
  <2>2. CopyOK(r)
    BY <1>3, <1>4, EmptyPlan DEF CopyOK, Handheld
  <2> QED BY <1>1, <1>3, <2>1, <2>2 DEF RequestOK, Handheld, HandheldOps, Ops
<1>6. ReadOK(r)
  <2>1. \A m \in DOMAIN q.copy \ q.stale :
          count[m].issued <= q.copy[m].issued /\ count[m].packed <= q.copy[m].packed
    <3>1. q.by = "ID"
      BY <1>1, <1>4 DEF CopyOK
    <3> QED BY <1>1, <3>1 DEF ReadOK, HandheldOps, Shared
  <2> QED BY <1>1, <1>3, <2>1 DEF ReadOK, Handheld, HandheldOps
<1>7. mixed' \subseteq Orders
  <2>1. Foreign(q) \subseteq Orders
    BY ForeignOrders
  <2> QED BY <1>1, <2>1, InvParts
<1> QED BY <1>1, <1>2, <1>5, <1>6, <1>7, GoesOnKeeps

LEMMA WriteMaterialKeeps ==
  ASSUME WorkInv, NEW k \in Active, NEW m \in req[k].left, WriteMaterial(k, m)
  PROVE  WorkInv'
<1>0. PICK src \in Sources(k, {m}) :
        LET w == Counting(k, src) IN
        IF Possible(w)
        THEN Perform(w) /\ req' = Noted(k, [req[k] EXCEPT !.left = @ \ {m}]) /\ UNCHANGED mixed
        ELSE /\ req' = [req EXCEPT ![k] = Idle]
             /\ mixed' = mixed \cup Siblings(req[k].order)
             /\ UNCHANGED table
  BY DEF WriteMaterial
<1> DEFINE q == req[k]
           w == Counting(k, src)
           r == [q EXCEPT !.left = @ \ {m}]
<1>1. k \in Clerks /\ RequestOK(q) /\ ReadOK(q) /\ q.op = "data" /\ DOMAIN q = Fields /\ q.order \in Orders
      /\ started' = started /\ q.by \in {"ID", "code"}
  BY InvParts DEF Active, WriteMaterial, RequestOK
<1>2. CopyOK(q) /\ m \in DOMAIN q.copy
  BY <1>1 DEF RequestOK, CopyOK, HandheldOps
<1>3. WriteOK(w, q.order) /\ DOMAIN w.set = {} /\ ~w.print /\ ~w.create
      /\ \A x \in DOMAIN w.counts : SentFor(q, x, w.counts[x])
  BY <1>1, <1>2, CountingWrite DEF Handheld
<1>4. CASE ~Possible(w)
  <2>1. req' = [req EXCEPT ![k] = Idle] /\ mixed' = mixed \cup Siblings(q.order) /\ UNCHANGED <<table, started>>
    BY <1>0, <1>1, <1>4
  <2> QED BY <1>1, <2>1, EndsKeeps
<1>5. CASE Possible(w)
  <2>1. Perform(w) /\ req' = Noted(k, r) /\ mixed' = mixed
    BY <1>0, <1>5
  <2> HIDE DEF w
  <2>2. TablesOK' /\ recorded \subseteq recorded' /\ epoch' = epoch
    BY <1>1, <1>3, <1>5, <2>1, InvParts, PerformTables
  <2>3. DOMAIN req' = Clerks /\ req'[k] = r
    BY <1>1, <2>1 DEF Noted
  <2>4. DOMAIN r = Fields /\ r.op = q.op /\ r.order = q.order /\ r.asked = q.asked /\ r.copy = q.copy
        /\ r.plan = q.plan /\ r.left = q.left \ {m} /\ r.moved = q.moved /\ r.stale = q.stale
        /\ r.by = q.by
    BY <1>1 DEF Fields
  <2>5. \A c \in Clerks \ {k} : req'[c] # Idle => RequestOK(req[c])' /\ ReadOK(req[c])'
    BY <2>1, <2>2, OthersKeep
  <2> HIDE DEF r
  <2>6. PlanOK(req[k])'
    BY <1>1, <2>2, <2>3, <2>4 DEF RequestOK, PlanOK, Besides, Targets
  <2>7. CopyOK(req[k])'
    BY <1>2, <2>3, <2>4 DEF CopyOK, SentFor
  <2>8. RequestOK(req[k])'
    BY <1>1, <2>3, <2>4, <2>6, <2>7 DEF RequestOK, HandheldOps
  <2>9. row[q.order] # None => row'[q.order] = row[q.order]
    <3>1. row[q.order] # None => row[q.order] \in SalesOrder /\ row'[q.order] = Over(w.set, row[q.order])
      BY <1>1, <1>3, <1>5, <2>1, InvParts, PerformEffect
    <3> QED BY <1>3, <3>1, OverRow
  <2>10. \A x \in DOMAIN q.copy \ Shared(q) : count'[x] = count[x] \/ count'[x] = q.copy[x]
    <3>1. count' = [x \in Materials |-> IF x \in SetMaterials(w) THEN w.counts[x] ELSE count[x]]
          /\ SetMaterials(w) \subseteq DOMAIN w.counts
      BY <1>1, <1>3, <1>5, <2>1, InvParts, PerformEffect
    <3>2. \A x \in DOMAIN q.copy \ Shared(q) : x \in DOMAIN w.counts => w.counts[x] = q.copy[x]
      BY <1>1, <1>3, SentIsCopy
    <3>3. DOMAIN q.copy \subseteq Materials
      BY <1>2 DEF CopyOK
    <3> QED BY <3>1, <3>2, <3>3
  <2>11. \A x \in DOMAIN q.copy \ (q.stale \cup Shared(q)) :
           count'[x].issued <= q.copy[x].issued /\ count'[x].packed <= q.copy[x].packed
    <3>1. \A x \in DOMAIN q.copy : q.copy[x] \in Counts
      BY <1>2 DEF CopyOK
    <3>2. \A x \in DOMAIN q.copy \ (q.stale \cup Shared(q)) :
            count[x].issued <= q.copy[x].issued /\ count[x].packed <= q.copy[x].packed
      BY <1>1 DEF ReadOK, HandheldOps
    <3> QED BY <2>10, <3>1, <3>2 DEF Counts
  <2>12. ReadOK(req[k])'
    <3>1. q.asked # {"number"} /\ ~q.moved => row[q.order] # None /\ row[q.order].status # "Dispatched"
      BY <1>1 DEF ReadOK, HandheldOps
    <3>2. Shared(req[k])' = Shared(q)
      BY <2>3, <2>4 DEF Shared
    <3> QED BY <1>1, <2>3, <2>4, <2>9, <2>11, <3>1, <3>2 DEF ReadOK
  <2> QED BY <1>1, <2>1, <2>2, <2>3, <2>5, <2>8, <2>12, InvParts, InvFromParts DEF WorkInv
<1> QED BY <1>4, <1>5

LEMMA CheckKeeps ==
  ASSUME WorkInv, NEW k \in Active, Check(k)
  PROVE  WorkInv'
<1>0. PICK o \in Found(req[k].order) :
        LET writes == CompletionWrites(o, Reached(req[k].order), count) IN
        req' = [req EXCEPT ![k] = IF writes = <<>> THEN Idle ELSE [@ EXCEPT !.plan = writes]]
  BY DEF Check
<1> DEFINE q == req[k]
           P == CompletionWrites(o, Reached(q.order), count)
           r == [q EXCEPT !.plan = P]
<1>1. k \in Clerks /\ RequestOK(q) /\ ReadOK(q) /\ q.op = "data" /\ DOMAIN q = Fields /\ q.left = {}
      /\ UNCHANGED <<table, started, mixed>> /\ CopyOK(q)
  BY InvParts DEF Active, Check, RequestOK, HandheldOps
<1>2. req' = [req EXCEPT ![k] = r] \/ req' = [req EXCEPT ![k] = Idle]
  BY <1>0
<1>11. o \in Targets(q)
  BY <1>1, FoundTarget DEF RequestOK, Handheld
<1>3. DOMAIN r = Fields /\ r.op = "data" /\ r.order = q.order /\ r.asked = q.asked /\ r.copy = q.copy
      /\ r.plan = P /\ r.left = {} /\ r.moved = q.moved /\ r.stale = q.stale /\ r.by = q.by
  BY <1>1 DEF Fields
<1>4. P \in {<<>>} \cup IssuePlans(o) \cup PackPlans(o)
  BY CompletionShape
<1> HIDE DEF P, r
<1>5. IsPlan(P) /\ \A i \in DOMAIN P :
        P[i] \in {SetIssued(o), DateIssued(o), DateUnder(o), SetPacked(o), DatePacked(o)}
  BY <1>4, CompletionPlan
<1>6. \A i \in DOMAIN P :
        /\ WriteOK(P[i], o) /\ DOMAIN P[i].counts = {} /\ ~P[i].print /\ DOMAIN P[i].set \subseteq {"status"}
        /\ "status" \in DOMAIN P[i].set => P[i].set["status"] \in {"W105", "F105"}
  BY <1>5, CompletionWrite
<1>7. PlanOK(r)
  <2>1. Targets(r) = Targets(q) /\ Besides(r) = {"status"}
    BY <1>1, <1>3 DEF Targets, Besides, Handheld
  <2>2. \A i \in DOMAIN P : P[i].order = o
    BY <1>6 DEF WriteOK
  <2> QED BY <1>3, <1>5, <1>6, <1>11, <2>1, <2>2 DEF PlanOK
<1>8. CopyOK(r)
  BY <1>1, <1>3, <1>6 DEF CopyOK
<1>9. RequestOK(r)
  BY <1>1, <1>3, <1>7, <1>8 DEF RequestOK, HandheldOps
<1>10. ReadOK(r)
  BY <1>1, <1>3 DEF ReadOK, HandheldOps, Shared
<1> QED BY <1>1, <1>2, <1>9, <1>10, InvParts, GoesOnKeeps

LEMMA SyncReadKeeps ==
  ASSUME WorkInv, NEW k \in Active, SyncRead(k)
  PROVE  WorkInv'
<1>0. PICK src \in Sources(k, DOMAIN req[k].copy), o \in Found(req[k].order) :
        LET v == Counting(k, src)
            ws == CompletionWrites(o, Reached(req[k].order), Over(v.counts, count)) IN
        IF Possible(v)
        THEN /\ req' = [req EXCEPT ![k].plan = <<[v EXCEPT !.order = o, !.set = LastStatus(ws), !.date = Dated(ws)]>>,
                                   ![k].left = {}]
             /\ UNCHANGED mixed
        ELSE req' = [req EXCEPT ![k] = Idle] /\ mixed' = mixed \cup Siblings(req[k].order)
  BY DEF SyncRead
<1> DEFINE q == req[k]
           v == Counting(k, src)
           ws == CompletionWrites(o, Reached(q.order), Over(v.counts, count))
           f == LastStatus(ws)
           S == Dated(ws)
           w == [v EXCEPT !.order = o, !.set = f, !.date = S]
           r == [q EXCEPT !.plan = <<w>>, !.left = {}]
<1>1. k \in Clerks /\ RequestOK(q) /\ ReadOK(q) /\ q.op = "sync" /\ DOMAIN q = Fields
      /\ UNCHANGED <<table, started>> /\ CopyOK(q)
  BY InvParts DEF Active, SyncRead, RequestOK, HandheldOps
<1>2. \/ req' = [req EXCEPT ![k] = r] /\ UNCHANGED mixed
      \/ req' = [req EXCEPT ![k] = Idle] /\ mixed' = mixed \cup Siblings(q.order)
  BY <1>0, <1>1
<1>17. mixed' \subseteq Orders
  BY <1>2, InvParts DEF Siblings
<1>3. DOMAIN r = Fields /\ r.op = "sync" /\ r.order = q.order /\ r.asked = q.asked /\ r.copy = q.copy
      /\ r.plan = <<w>> /\ r.left = {} /\ r.moved = q.moved /\ r.stale = q.stale /\ r.by = q.by
  BY <1>1 DEF Fields
<1>4. ws \in {<<>>} \cup IssuePlans(o) \cup PackPlans(o)
  BY CompletionShape
<1>5. WriteOK(v, q.order) /\ (\A m \in DOMAIN v.counts : SentFor(q, m, v.counts[m])) /\ ~v.print
  BY <1>1, CountingWrite DEF Handheld
<1>16. o \in Targets(q)
  BY <1>1, FoundTarget DEF RequestOK, Handheld
<1> HIDE DEF ws
<1>6. S \subseteq Steps /\ f \in {Nothing, Column("status", "W105"), Column("status", "F105")}
  BY <1>4, CompletionAsOne
<1>7. DOMAIN f \subseteq {"status"} /\ ("status" \in DOMAIN f => f["status"] \in {"W105", "F105"})
  BY <1>6, ColumnIs DEF Nothing
<1> HIDE DEF f, S
<1>8. w.set = f /\ w.date = S /\ w.counts = v.counts /\ w.order = o /\ w.create = v.create
      /\ w.stepperRows = v.stepperRows /\ w.record = v.record /\ w.print = v.print /\ w.clear = v.clear
      /\ w.byNumber = v.byNumber
  BY DEF Counting, Blank
<1> HIDE DEF v, w, r
<1>9. {"status"} \subseteq Columns \ {"imported"} /\ {"W105", "F105"} \subseteq Values("status")
  BY DEF Columns, Values, Statuses
<1>10. WriteOK(w, o)
  BY <1>5, <1>6, <1>7, <1>8, <1>9 DEF WriteOK
<1>11. IsPlan(<<w>>) /\ DOMAIN <<w>> = {1} /\ <<w>>[1] = w
  BY OnePlan
<1>12. PlanOK(r)
  <2>1. Targets(r) = Targets(q) /\ Besides(r) = {"status"}
    BY <1>1, <1>3 DEF Targets, Besides, Handheld
  <2> QED BY <1>3, <1>5, <1>7, <1>8, <1>10, <1>11, <1>16, <2>1 DEF PlanOK
<1>13. CopyOK(r)
  BY <1>1, <1>3, <1>5, <1>7, <1>8, <1>11 DEF CopyOK, SentFor
<1>14. RequestOK(r)
  BY <1>1, <1>3, <1>12, <1>13 DEF RequestOK, HandheldOps
<1>15. ReadOK(r)
  BY <1>1, <1>3 DEF ReadOK, HandheldOps, Shared
<1> QED BY <1>1, <1>2, <1>14, <1>15, <1>17, GoesOnKeeps

LEMMA HandheldStepKeeps ==
  ASSUME WorkInv, NEW k \in Active, HandheldStep(k)
  PROVE  WorkInv'
<1>1. ASSUME NEW op \in {"sync", "data"}, NEW by \in {"ID", "code"}, Send(k, op, by)
      PROVE  WorkInv'
  BY <1>1, SendKeeps DEF Handheld
<1>2. ASSUME NEW m \in req[k].left, WriteMaterial(k, m)
      PROVE  WorkInv'
  BY <1>2, WriteMaterialKeeps
<1>3. CASE SyncFails(k)
  BY <1>3, EndsKeeps DEF SyncFails, Active
<1> QED BY <1>1, <1>2, <1>3, CheckKeeps, SyncReadKeeps DEF HandheldStep

LEMMA WorkInvInit ==
  ASSUME WorkInit
  PROVE  WorkInv
<1>1. row \in [Orders -> SalesOrder \cup {None}]
  BY OrderWorkAssumption DEF WorkInit
<1>2. stepper \in [Orders -> SUBSET Steps] /\ dated \in [Orders -> SUBSET Steps]
      /\ \A o \in Orders : dated[o] \subseteq stepper[o] /\ (row[o] = None => stepper[o] = {})
  <2>1. \A r : StepsOf(r) \subseteq Steps \/ r.status \notin Statuses \cup {None}
    <3>1. StepOrder[1] \in Steps /\ {StepOrder[i] : i \in 1..2} \subseteq Steps
          /\ {StepOrder[i] : i \in 1..3} \subseteq Steps /\ {StepOrder[i] : i \in 1..5} \subseteq Steps
      BY DEF Steps
    <3> HIDE DEF Steps
    <3>2. None \notin Statuses
      BY OrderTableAssumption
    <3> QED BY <3>1, <3>2 DEF StepsOf, Statuses
  <2>2. \A o \in Orders : row[o] # None => StepsOf(row[o]) \subseteq Steps
    BY <1>1, <2>1 DEF SalesOrder
  <2>3. stepper = [o \in Orders |-> IF row[o] = None THEN {} ELSE Steps]
        /\ dated = [o \in Orders |-> IF row[o] = None THEN {} ELSE StepsOf(row[o])]
    BY DEF WorkInit
  <2> QED BY <2>2, <2>3
<1>3. count \in [Materials -> Counts] /\ \A m \in Materials :
        count[m] # NoCount => row[OrderOf[m]] # None /\ row[OrderOf[m]].imported
  <2>1. count \in [Materials -> Counts] /\ \A m \in Materials :
          count[m] \in IF row[OrderOf[m]] = None THEN {NoCount} ELSE CountsOf(row[OrderOf[m]])
    BY DEF WorkInit
  <2>2. \A r : ~r.imported => CountsOf(r) = {NoCount}
    BY DEF CountsOf
  <2>3. \A m \in Materials : count[m] # NoCount => row[OrderOf[m]] # None
    BY <2>1
  <2>4. \A m \in Materials : row[OrderOf[m]] # None /\ ~row[OrderOf[m]].imported => count[m] = NoCount
    BY <2>1, <2>2
  <2> QED BY <2>1, <2>3, <2>4
<1>4. epoch \in [Orders -> 0..MaxRequests] /\ \A o \in Orders : epoch[o] <= started
  BY OrderTableAssumption DEF WorkInit
<1>5. loaded \subseteq Present /\ recorded \subseteq Orders /\ printed \subseteq recorded /\ mixed \subseteq Orders
      /\ started \in 0..MaxRequests
  BY OrderTableAssumption DEF WorkInit, Present
<1>6. req = [k \in Clerks |-> Idle] /\ \A k \in Clerks : req[k].op \in Ops /\ req[k].order \in Orders \cup {None}
  BY IdleFields DEF WorkInit, Ops
<1>7. WorkTypeOK
  BY <1>1, <1>2, <1>3, <1>4, <1>5, <1>6 DEF WorkTypeOK, TablesOK
<1>8. Active = {}
  BY <1>6 DEF Active
<1> QED BY <1>4, <1>6, <1>7, <1>8 DEF WorkInv, RequestsOK, ReadsOK

LEMMA WorkInvNext ==
  ASSUME WorkInv, [WorkNext]_vars
  PROVE  WorkInv'
<1>1. ASSUME NEW o \in Orders, NEW k \in Clerks \ Active, DeskRequest(k, o) \/ HandheldRequest(k, o)
      PROVE  WorkInv'
  BY <1>1, DeskRequestKeeps, DownloadKeeps
<1>2. ASSUME NEW o \in Orders, AtOnceRequest(o)
      PROVE  WorkInv'
  BY <1>2, AtOnceRequestKeeps
<1>3. ASSUME NEW k \in Active, Write(k)
      PROVE  WorkInv'
  BY <1>3, WriteKeepsInv
<1>4. ASSUME NEW k \in Active, PrintFails(k)
      PROVE  WorkInv'
  BY <1>4, EndsKeeps DEF PrintFails, Active
<1>5. ASSUME NEW k \in Active, HandheldStep(k)
      PROVE  WorkInv'
  BY <1>5, HandheldStepKeeps
<1>6. CASE Restart
  <2>1. req' = [k \in Clerks |-> Idle] /\ UNCHANGED <<table, started>>
        /\ mixed' = mixed \cup UNION {Siblings(req[k].order) : k \in Active}
    BY <1>6 DEF Restart
  <2>2. TablesOK' /\ \A o \in Orders : epoch'[o] <= started'
    BY <2>1, InvParts DEF table, TablesOK, Present, WorkInv
  <2>3. mixed' \subseteq Orders /\ started' \in 0..MaxRequests
    BY <2>1, InvParts DEF Siblings
  <2> QED BY <2>1, <2>2, <2>3, InvFromParts
<1>7. CASE UNCHANGED vars
  <2>1. UNCHANGED <<row, stepper, dated, count, loaded, epoch, recorded, printed, req, started, mixed>>
    BY <1>7 DEF vars, table
  <2>2. (\A k \in Clerks : req'[k] # Idle => RequestOK(req[k])' /\ ReadOK(req[k])')
    <3>1. \A k \in Clerks : req'[k] # Idle => RequestOK(req[k]) /\ ReadOK(req[k])
      BY <2>1, InvParts
    <3> QED BY <2>1, <3>1 DEF RequestOK, ReadOK, PlanOK, CopyOK, Besides
  <2>3. TablesOK' /\ \A o \in Orders : epoch'[o] <= started'
    BY <2>1, InvParts DEF TablesOK, Present, WorkInv
  <2> QED BY <2>1, <2>2, <2>3, InvParts, InvFromParts
<1> QED BY <1>1, <1>2, <1>3, <1>4, <1>5, <1>6, <1>7 DEF WorkNext

\* Whatever interleaving of the requests' calls: the tables keep their form, the stepper
\* and the counts go with their order, and a label is printed only once it is recorded.
THEOREM WorkTypeCorrect == WorkSpec => []WorkTypeOK
<1>1. WorkInit => WorkInv
  BY WorkInvInit
<1>2. WorkInv /\ [WorkNext]_vars => WorkInv'
  BY WorkInvNext
<1>3. WorkInv => WorkTypeOK
  BY DEF WorkInv
<1> QED BY <1>1, <1>2, <1>3, PTL DEF WorkSpec


-----------------------------------------------------------------------------
(***************************************************************************)
(* What a step may never do                                                *)
(***************************************************************************)

\* The write that request k makes in a step: its next one, or a material of its copy.
MakesWrite(k, w) ==
  /\ Perform(w) /\ Possible(w) /\ w.order \in Targets(req[k]) /\ WriteOK(w, w.order)
  /\ \/ 1 \in DOMAIN req[k].plan /\ w = req[k].plan[1]
     \/ /\ req[k].op = "data" /\ w.order = req[k].order /\ DOMAIN w.set = {} /\ ~w.create
        /\ \A m \in DOMAIN w.counts : SentFor(req[k], m, w.counts[m])

LEMMA NextWrite ==
  ASSUME WorkInv, NEW k \in Active, Write(k)
  PROVE  /\ UNCHANGED table \/ (MakesWrite(k, Head(req[k].plan)) /\ req' = Noted(k, Rest(req[k])))
         /\ started' = started /\ req'[k].plan # req[k].plan
<1> DEFINE P == req[k].plan
<1>1. k \in Clerks /\ RequestOK(req[k]) /\ IsPlan(P) /\ P # <<>> /\ PlanOK(req[k]) /\ DOMAIN req[k] = Fields
  BY InvParts DEF Active, Write, RequestOK, PlanOK
<1>2. 1 \in DOMAIN P /\ Head(P) = P[1] /\ Len(P) \in Nat \ {0} /\ DOMAIN P = 1..Len(P)
      /\ DOMAIN Tail(P) = 1..(Len(P) - 1)
  BY <1>1, RestOfPlan
<1>3. Head(P).order \in Targets(req[k]) /\ WriteOK(Head(P), Head(P).order)
  BY <1>1, <1>2 DEF PlanOK
<1>4. Tail(P) # P
  <2>1. Len(P) \in DOMAIN P /\ Len(P) \notin DOMAIN Tail(P)
    BY <1>2
  <2> QED BY <2>1
<1>5. CASE Possible(Head(P))
  <2>1. Perform(Head(P)) /\ req' = Noted(k, Rest(req[k])) /\ started' = started
    BY <1>5 DEF Write
  <2>2. req'[k] = Rest(req[k])
    BY <1>1, <2>1 DEF Noted
  <2>3. req'[k].plan # P
    BY <1>1, <1>4, <2>2, IdleFields DEF Rest, Fields
  <2> QED BY <1>2, <1>3, <1>5, <2>1, <2>3 DEF MakesWrite
<1>6. CASE ~Possible(Head(P))
  <2>1. req' = [req EXCEPT ![k] = Idle] /\ UNCHANGED <<table, started>>
    BY <1>6 DEF Write
  <2>2. req'[k] = Idle
    BY <1>1, <2>1, InvParts
  <2>3. req'[k].plan # P /\ started' = started
    BY <1>1, <2>1, <2>2, IdleFields
  <2> QED BY <2>1, <2>3
<1> QED BY <1>5, <1>6

LEMMA MaterialWrite ==
  ASSUME WorkInv, NEW k \in Active, NEW m \in req[k].left, WriteMaterial(k, m)
  PROVE  /\ UNCHANGED table \/ \E src \in Sources(k, {m}) :
              /\ MakesWrite(k, Counting(k, src)) /\ req[k].op = "data"
              /\ req' = Noted(k, [req[k] EXCEPT !.left = @ \ {m}])
         /\ started' = started
<1>1. k \in Clerks /\ RequestOK(req[k]) /\ CopyOK(req[k]) /\ m \in DOMAIN req[k].copy
      /\ req[k].op = "data" /\ req[k].order \in Orders
  BY InvParts DEF Active, WriteMaterial, RequestOK, HandheldOps, CopyOK
<1>2. ASSUME NEW src \in Sources(k, {m})
      PROVE  /\ WriteOK(Counting(k, src), req[k].order) /\ DOMAIN Counting(k, src).set = {}
             /\ ~Counting(k, src).create /\ Counting(k, src).order = req[k].order
             /\ \A x \in DOMAIN Counting(k, src).counts : SentFor(req[k], x, Counting(k, src).counts[x])
  BY <1>1, CountingWrite DEF Handheld, WriteOK
<1>3. req[k].order \in Targets(req[k])
  BY <1>1 DEF Targets, Scope, Siblings
<1>4. ASSUME NEW src \in Sources(k, {m}), Possible(Counting(k, src)), Perform(Counting(k, src))
      PROVE  MakesWrite(k, Counting(k, src))
  BY <1>1, <1>2, <1>3, <1>4 DEF MakesWrite
<1> QED BY <1>1, <1>4 DEF WriteMaterial

\* A request that only notes what another has changed does not act.
LEMMA NotedDoesNotAct ==
  ASSUME WorkInv, NEW j, NEW q, req' = Noted(j, q), NEW c \in Clerks, c # j
  PROVE  ~Acting(c)
<1>1. CASE req[c] = Idle
  BY <1>1 DEF Acting
<1>2. CASE req[c] # Idle
  <2>1. DOMAIN req[c] = Fields
    BY InvParts
  <2>2. req'[c] = [req[c] EXCEPT !.moved = @ \/ Changed(req[c].order), !.stale = @ \cup Recounted]
    BY <1>2 DEF Noted
  <2> QED BY <2>1, <2>2 DEF Acting, Fields
<1> QED BY <1>1, <1>2

\* Only a write of its own changes the tables in a step that a request takes.
LEMMA ActingWrites ==
  ASSUME WorkInv, [WorkNext]_vars, NEW k \in Clerks, Acting(k)
  PROVE  /\ RequestOK(req[k]) /\ ReadOK(req[k])
         /\ UNCHANGED table \/ \E w : MakesWrite(k, w)
<1>1. RequestOK(req[k]) /\ ReadOK(req[k])
  BY InvParts DEF Acting
<1>2. ASSUME NEW o \in Orders, NEW c \in Clerks \ Active, DeskRequest(c, o) \/ HandheldRequest(c, o)
      PROVE  UNCHANGED table
  <2>1. \A q : Start(c, q) => UNCHANGED table
    BY DEF Start
  <2> HIDE DEF table
  <2>2. CASE DeskRequest(c, o)
    BY <2>1, <2>2 DEF DeskRequest, UpdateStatus, UpdateUser, UpdateLocation, UpdateTerms, BulkAssignTerms,
         BulkAssign, BulkUpdatePriority, BulkUpdateSkipStage, ExcelImport, SalesUpdate,
         BulkUpdateDeliveryDate, SalesCreate, LabelPrint, ImportOrder
  <2>3. CASE HandheldRequest(c, o)
    BY <2>1, <2>3 DEF HandheldRequest, Download
  <2> QED BY <1>2, <2>2, <2>3
<1>3. ASSUME NEW o \in Orders, AtOnceRequest(o)
      PROVE  FALSE
  <2>1. req' = Noted(None, Idle)
    BY <1>3 DEF AtOnceRequest, RemoveOrder, SalesRemove, Reprint, ResetOrder, StoreMaterials, Load, AtOnce
  <2> QED BY <2>1, OrderTableAssumption, NotedDoesNotAct
<1>4. ASSUME NEW c \in Active, Write(c)
      PROVE  UNCHANGED table \/ \E w : MakesWrite(k, w)
  BY <1>4, NextWrite, NotedDoesNotAct
<1>5. ASSUME NEW c \in Active, HandheldStep(c)
      PROVE  UNCHANGED table \/ \E w : MakesWrite(k, w)
  <2>1. ASSUME NEW m \in req[c].left, WriteMaterial(c, m)
        PROVE  UNCHANGED table \/ \E w : MakesWrite(k, w)
    BY <2>1, MaterialWrite, NotedDoesNotAct
  <2>2. CASE ~\E m \in req[c].left : WriteMaterial(c, m)
    BY <1>5, <2>2 DEF HandheldStep, Send, Check, SyncRead, SyncFails
  <2> QED BY <2>1, <2>2
<1>6. CASE (\E c \in Active : PrintFails(c)) \/ Restart \/ UNCHANGED vars
  <2>1. ASSUME NEW c \in Active, PrintFails(c)
        PROVE  UNCHANGED table
    BY <2>1 DEF PrintFails
  <2>2. CASE Restart
    BY <1>1, <2>2 DEF Restart
  <2>3. CASE UNCHANGED vars
    BY <1>1, <2>3 DEF vars
  <2> QED BY <1>1, <1>6, <2>1, <2>2, <2>3
<1> QED BY <1>1, <1>2, <1>3, <1>4, <1>5, <1>6 DEF WorkNext

\* A count changes only to what was sent for its row.
LEMMA CountsAreSent ==
  ASSUME WorkInv, [WorkNext]_vars, NEW k \in Clerks, NEW m \in Materials, Acting(k), count'[m] # count[m]
  PROVE  SentFor(req[k], m, count'[m])
<1>1. RequestOK(req[k]) /\ TablesOK /\ req[k].order \in Orders
  BY ActingWrites, InvParts DEF RequestOK
<1>2. PICK w : MakesWrite(k, w)
  BY ActingWrites DEF table
<1>3. m \in DOMAIN w.counts /\ count'[m] = w.counts[m]
  <2>1. w.order \in Orders
    BY <1>1, <1>2, TargetOrders DEF MakesWrite
  <2>2. count' = [x \in Materials |-> IF x \in SetMaterials(w) THEN w.counts[x] ELSE count[x]]
        /\ SetMaterials(w) \subseteq DOMAIN w.counts
    BY <1>1, <1>2, <2>1, PerformEffect DEF MakesWrite
  <2> QED BY <2>2
<1> QED BY <1>1, <1>2, <1>3 DEF MakesWrite, RequestOK, CopyOK

LEMMA CountsFallStep ==
  ASSUME WorkInv, [WorkNext]_vars, NEW k \in Clerks, NEW m \in Materials, Acting(k),
         count'[m].issued < count[m].issued \/ count'[m].packed < count[m].packed
  PROVE  \/ m \in req[k].stale
         \/ req[k].by = "code" /\ \E x \in DOMAIN req[k].copy \ {m} : CodeOf[x] = CodeOf[m]
<1>1. RequestOK(req[k]) /\ ReadOK(req[k]) /\ count[m] \in Counts
      /\ req[k].by \in {"ID", "code"}
  BY ActingWrites, InvParts DEF RequestOK
<1>2. count'[m] # count[m]
  BY <1>1 DEF Counts
<1>3. SentFor(req[k], m, count'[m])
  BY <1>2, CountsAreSent
<1>4. req[k].op \in HandheldOps /\ CopyOK(req[k])
  BY <1>1, <1>3 DEF SentFor, RequestOK, Handheld, HandheldOps
<1>5. CASE m \in DOMAIN req[k].copy /\ m \notin Shared(req[k])
  <2>1. count'[m] = req[k].copy[m] /\ req[k].copy[m] \in Counts
    BY <1>1, <1>3, <1>4, <1>5, SentIsCopy DEF CopyOK
  <2>2. m \notin req[k].stale =>
          count[m].issued <= req[k].copy[m].issued /\ count[m].packed <= req[k].copy[m].packed
    BY <1>1, <1>4, <1>5 DEF ReadOK
  <2> QED BY <1>1, <2>1, <2>2 DEF Counts
<1>6. CASE m \in Shared(req[k])
  BY <1>1, <1>6 DEF Shared
<1>7. CASE m \notin DOMAIN req[k].copy
  BY <1>1, <1>3, <1>7 DEF SentFor
<1> QED BY <1>5, <1>6, <1>7

\* A handheld takes counts away only where another request has changed the material since
\* it was downloaded, or where it sends two rows of a code without their IDs: whatever else
\* it sends late, in part, by ID or by code.
THEOREM CountsFallStaleOnly == WorkSpec => CountsFallOnlyStale
<1>1. WorkInit => WorkInv
  BY WorkInvInit
<1>2. WorkInv /\ [WorkNext]_vars => WorkInv'
  BY WorkInvNext
<1>3. WorkInv /\ [WorkNext]_vars =>
        [\A k \in Clerks, m \in Materials :
           Acting(k) /\ (count'[m].issued < count[m].issued \/ count'[m].packed < count[m].packed) =>
             \/ m \in req[k].stale
             \/ req[k].by = "code" /\ \E x \in DOMAIN req[k].copy \ {m} : CodeOf[x] = CodeOf[m]]_vars
  BY CountsFallStep
<1> QED BY <1>1, <1>2, <1>3, PTL DEF WorkSpec, CountsFallOnlyStale

\* What a request's write does to the rows.
LEMMA OwnWrite ==
  ASSUME WorkInv, NEW k \in Clerks, RequestOK(req[k]), NEW w, MakesWrite(k, w)
  PROVE  LET o == w.order IN
         /\ o \in Orders /\ (\A p \in Orders \ {o} : row'[p] = row[p])
         /\ row[o] # None => \A c \in Columns : row'[o][c] = IF c \in DOMAIN w.set THEN w.set[c] ELSE row[o][c]
         /\ row[o] # None /\ DOMAIN w.set = {} => row'[o] = row[o]
         /\ DOMAIN w.set # {} => 1 \in DOMAIN req[k].plan /\ w = req[k].plan[1]
         /\ DOMAIN w.set \subseteq Columns
<1> DEFINE o == w.order
<1>1. o \in Orders /\ TablesOK /\ WriteOK(w, o) /\ Possible(w) /\ Perform(w)
  BY InvParts, TargetOrders DEF RequestOK, MakesWrite
<1>2. (\A p \in Orders \ {o} : row'[p] = row[p]) /\ (row[o] # None => row'[o] = Over(w.set, row[o]))
  BY <1>1, PerformEffect
<1>3. row[o] # None => row[o] \in SalesOrder
  BY <1>1, InvParts
<1>4. DOMAIN w.set \subseteq Columns /\ \A c \in DOMAIN w.set : w.set[c] \in Values(c)
  BY <1>1 DEF WriteOK
<1>5. row[o] # None => \A c \in Columns : row'[o][c] = IF c \in DOMAIN w.set THEN w.set[c] ELSE row[o][c]
  BY <1>2, <1>3, <1>4, OverRow
<1>6. row[o] # None /\ DOMAIN w.set = {} => row'[o] = row[o]
  BY <1>2, <1>3, <1>4, OverRow
<1>7. DOMAIN w.set # {} => 1 \in DOMAIN req[k].plan /\ w = req[k].plan[1]
  BY DEF MakesWrite
<1> QED BY <1>1, <1>2, <1>4, <1>5, <1>6, <1>7

LEMMA DispatchedStep ==
  ASSUME WorkInv, [WorkNext]_vars, NEW o \in Orders, row[o] # None, row[o].status = "Dispatched",
         row'[o] # row[o], started' = started
  PROVE  \E k \in Clerks :
           /\ Acting(k) /\ o \in Targets(req[k])
           /\ \/ req[k].op \in {"status", "user", "location", "terms", "bulk", "excel", "import"}
              \/ req[k].asked = {"number"}
              \/ req[k].order \in NoObd
              \/ req[k].moved
<1>1. started \in Nat
  BY InvParts, OrderTableAssumption
<1>2. ASSUME NEW p \in Orders, NEW c \in Clerks \ Active, DeskRequest(c, p) \/ HandheldRequest(c, p)
      PROVE  FALSE
  <2>1. \A q : ~Start(c, q)
    BY <1>1 DEF Start
  <2>2. CASE DeskRequest(c, p)
    BY <2>1, <2>2 DEF DeskRequest, UpdateStatus, UpdateUser, UpdateLocation, UpdateTerms, BulkAssignTerms,
         BulkAssign, BulkUpdatePriority, BulkUpdateSkipStage, ExcelImport, SalesUpdate,
         BulkUpdateDeliveryDate, SalesCreate, LabelPrint, ImportOrder
  <2>3. CASE HandheldRequest(c, p)
    BY <2>1, <2>3 DEF HandheldRequest, Download
  <2> QED BY <1>2, <2>2, <2>3
<1>3. ASSUME NEW p \in Orders, AtOnceRequest(p)
      PROVE  FALSE
  <2>1. started' = started + 1
    BY <1>3 DEF AtOnceRequest, RemoveOrder, SalesRemove, Reprint, ResetOrder, StoreMaterials, Load, AtOnce
  <2> QED BY <1>1, <2>1
<1>4. ASSUME NEW k \in Active, Write(k)
      PROVE  \E c \in Clerks :
               /\ Acting(c) /\ o \in Targets(req[c])
               /\ \/ req[c].op \in {"status", "user", "location", "terms", "bulk", "excel", "import"}
                  \/ req[c].asked = {"number"}
                  \/ req[c].order \in NoObd
                  \/ req[c].moved
  <2>1. k \in Clerks /\ req[k] # Idle /\ RequestOK(req[k]) /\ ReadOK(req[k])
    BY InvParts DEF Active
  <2>2. Acting(k)
    BY <1>4, <2>1, NextWrite DEF Acting
  <2>3. PICK w : MakesWrite(k, w)
    BY <1>4, NextWrite DEF table
  <2>4. w.order = o /\ o \in Targets(req[k])
    BY <2>1, <2>3, OwnWrite DEF MakesWrite
  <2>5. DOMAIN w.set # {} /\ 1 \in DOMAIN req[k].plan /\ w = req[k].plan[1]
    BY <2>1, <2>3, <2>4, OwnWrite
  <2>6. req[k].op \in {"status", "user", "location", "terms", "bulk", "edit", "excel", "import", "sync", "data"}
    <3>1. req[k].op \in Ops \ {"idle"} /\ PlanOK(req[k])
      BY <2>1 DEF RequestOK
    <3>2. req[k].op \notin {"create", "label"}
      BY <2>5, <3>1 DEF PlanOK
    <3>3. req[k].op # "copy"
      BY <2>1, <2>5, EmptyPlan DEF RequestOK, CopyOK, HandheldOps
    <3> QED BY <3>1, <3>2, <3>3 DEF Ops
  <2>7. req[k].op \in {"edit", "sync", "data"} =>
          req[k].asked = {"number"} \/ req[k].moved \/ req[k].order \in NoObd
    <3>1. req[k].order # o => req[k].order \in NoObd
      BY <2>4 DEF Targets, Scope
    <3> QED BY <2>1, <3>1 DEF ReadOK, RequestOK, HandheldOps
  <2> QED BY <2>1, <2>2, <2>4, <2>6, <2>7
<1>5. ASSUME NEW k \in Active, HandheldStep(k)
      PROVE  FALSE
  <2>1. k \in Clerks /\ RequestOK(req[k])
    BY InvParts DEF Active
  <2>2. ASSUME NEW m \in req[k].left, WriteMaterial(k, m)
        PROVE  FALSE
    <3>1. CASE UNCHANGED table
      BY <3>1 DEF table
    <3>2. ASSUME NEW src \in Sources(k, {m}), MakesWrite(k, Counting(k, src))
          PROVE  FALSE
      <4>1. DOMAIN Counting(k, src).set = {}
        BY DEF Counting, Blank, Nothing
      <4>2. \A p \in Orders : row[p] # None => row'[p] = row[p]
        BY <2>1, <3>2, <4>1, OwnWrite, SMTT(40)
      <4> QED BY <4>2
    <3> QED BY <2>2, <3>1, <3>2, MaterialWrite
  <2>3. CASE ~\E m \in req[k].left : WriteMaterial(k, m)
    <3>1. UNCHANGED table
      BY <1>5, <2>3 DEF HandheldStep, Send, Check, SyncRead, SyncFails
    <3> QED BY <3>1 DEF table
  <2> QED BY <2>2, <2>3
<1>6. ASSUME UNCHANGED table
      PROVE  FALSE
  BY <1>6 DEF table
<1>7. (\A c \in Active : ~PrintFails(c)) /\ ~Restart /\ ~UNCHANGED vars
  BY <1>6 DEF PrintFails, Restart, vars
<1> QED BY <1>2, <1>3, <1>4, <1>5, <1>7 DEF WorkNext

\* An order that has been dispatched changes only where a form of the administrators, an
\* import or access by number asks for it, a handheld completes another order that has no
\* OBD, or a request acts on what it read before.
THEOREM DispatchedStays == WorkSpec => DispatchedKept
<1>1. WorkInit => WorkInv
  BY WorkInvInit
<1>2. WorkInv /\ [WorkNext]_vars => WorkInv'
  BY WorkInvNext
<1>3. WorkInv /\ [WorkNext]_vars =>
        [\A o \in Orders :
           row[o] # None /\ row[o].status = "Dispatched" /\ row'[o] # row[o] /\ row'[o] # None
           /\ started' = started =>
             \E k \in Clerks :
               /\ Acting(k) /\ o \in Targets(req[k])
               /\ \/ req[k].op \in {"status", "user", "location", "terms", "bulk", "excel", "import"}
                  \/ req[k].asked = {"number"}
                  \/ req[k].order \in NoObd
                  \/ req[k].moved]_vars
  BY DispatchedStep
<1> QED BY <1>1, <1>2, <1>3, PTL DEF WorkSpec, DispatchedKept

LEMMA OnlyAskedStep ==
  ASSUME WorkInv, [WorkNext]_vars, NEW k \in Clerks, Acting(k)
  PROVE  /\ \A m \in Materials : count'[m] # count[m] => SentFor(req[k], m, count'[m])
         /\ \A p \in Orders \ Targets(req[k]) :
              /\ row'[p] = row[p] /\ stepper'[p] = stepper[p]
              /\ dated[p] \subseteq dated'[p]
              /\ dated'[p] # dated[p] =>
                   /\ NumberOf[p] = NumberOf[req[k].order]
                   /\ dated'[p] \ dated[p] \subseteq NumberSteps
         /\ \A p \in Targets(req[k]) :
              row[p] # None /\ row'[p] # None =>
                \A c \in Columns : row'[p][c] # row[p][c] =>
                  \/ c \in req[k].asked
                  \/ req[k].op = "excel" /\ req[k].moved /\ c \in ExcelColumns
                  \/ req[k].op \in Handheld /\ c = "status"
<1> DEFINE o == req[k].order
<1>1. RequestOK(req[k]) /\ ReadOK(req[k]) /\ o \in Orders /\ TablesOK /\ PlanOK(req[k])
  BY ActingWrites, InvParts DEF RequestOK
<1>2. \A m \in Materials : count'[m] # count[m] => SentFor(req[k], m, count'[m])
  BY CountsAreSent
<1>3. CASE UNCHANGED table
  BY <1>2, <1>3 DEF table
<1>4. ASSUME NEW w, MakesWrite(k, w)
      PROVE  /\ \A p \in Orders \ Targets(req[k]) :
                  /\ row'[p] = row[p] /\ stepper'[p] = stepper[p]
                  /\ dated[p] \subseteq dated'[p]
                  /\ dated'[p] # dated[p] =>
                       /\ NumberOf[p] = NumberOf[o]
                       /\ dated'[p] \ dated[p] \subseteq NumberSteps
             /\ \A p \in Targets(req[k]) :
                  row[p] # None =>
                    \A c \in Columns : row'[p][c] # row[p][c] =>
                      \/ c \in req[k].asked
                      \/ req[k].op = "excel" /\ req[k].moved /\ c \in ExcelColumns
                      \/ req[k].op \in Handheld /\ c = "status"
  <2> DEFINE t == w.order
  <2>1. t \in Targets(req[k]) /\ WriteOK(w, t) /\ Possible(w) /\ Perform(w) /\ w.byNumber \subseteq NumberSteps
    BY <1>4 DEF MakesWrite, WriteOK
  <2>2. t \in Orders /\ Targets(req[k]) \subseteq Orders /\ NumberOf[t] = NumberOf[o]
        /\ (req[k].op \notin Handheld => t = o)
    BY <1>1, <2>1 DEF Targets, Scope, Siblings
  <2>3. ASSUME NEW p \in Orders \ Targets(req[k])
        PROVE  /\ row'[p] = row[p] /\ stepper'[p] = stepper[p]
               /\ dated[p] \subseteq dated'[p]
               /\ dated'[p] # dated[p] => NumberOf[p] = NumberOf[o] /\ dated'[p] \ dated[p] \subseteq NumberSteps
    <3>1. p # t /\ row'[p] = row[p] /\ stepper'[p] = stepper[p]
      BY <1>1, <2>1, <2>2, PerformEffect
    <3>2. dated'[p] = dated[p] \cup (IF p \in Siblings(t) THEN w.byNumber \cap stepper[p] ELSE {})
      BY <1>1, <2>1, <2>2, <3>1, PerformEffect
    <3>3. dated'[p] # dated[p] => p \in Siblings(t) /\ dated'[p] \ dated[p] \subseteq NumberSteps
      BY <2>1, <3>2
    <3>4. dated[p] \subseteq dated'[p]
      BY <3>2
    <3> QED BY <2>2, <3>1, <3>3, <3>4 DEF Siblings
  <2>4. ASSUME NEW p \in Targets(req[k]), row[p] # None, NEW c \in Columns, row'[p][c] # row[p][c]
        PROVE  \/ c \in req[k].asked
               \/ req[k].op = "excel" /\ req[k].moved /\ c \in ExcelColumns
               \/ req[k].op \in Handheld /\ c = "status"
    <3>1. p = t
      BY <1>1, <1>4, <2>2, <2>4, OwnWrite
    <3>2. c \in DOMAIN w.set /\ w.set[c] # row[t][c] /\ 1 \in DOMAIN req[k].plan /\ w = req[k].plan[1]
      BY <1>1, <1>4, <2>4, <3>1, OwnWrite
    <3>3. c \in req[k].asked \/ c \in Besides(req[k])
      BY <1>1, <3>2 DEF PlanOK
    <3>4. req[k].op = "excel" /\ c \notin req[k].asked => req[k].moved
      BY <1>1, <2>2, <3>2 DEF ReadOK, Handheld
    <3> QED BY <3>3, <3>4 DEF Besides
  <2> QED BY <2>3, <2>4
<1> QED BY <1>2, <1>3, <1>4, ActingWrites

\* Counts change only to what a handheld sent for the row, under its ID or its code; a
\* request changes an order that is not its target in nothing but the dates that go by
\* number, and a target in nothing it was not asked for, but for what the Excel import
\* writes back stale and what a handheld's counts complete.
THEOREM OnlyAskedIsWritten == WorkSpec => OnlyAskedChanges
<1>1. WorkInit => WorkInv
  BY WorkInvInit
<1>2. WorkInv /\ [WorkNext]_vars => WorkInv'
  BY WorkInvNext
<1>3. WorkInv /\ [WorkNext]_vars =>
        [\A k \in Clerks :
           Acting(k) =>
             /\ \A m \in Materials : count'[m] # count[m] => SentFor(req[k], m, count'[m])
             /\ \A p \in Orders \ Targets(req[k]) :
                  /\ row'[p] = row[p] /\ stepper'[p] = stepper[p]
                  /\ dated[p] \subseteq dated'[p]
                  /\ dated'[p] # dated[p] =>
                       /\ NumberOf[p] = NumberOf[req[k].order]
                       /\ dated'[p] \ dated[p] \subseteq {"Under Issue", "Under Packing", "WIP Storage"}
             /\ \A p \in Targets(req[k]) :
                  row[p] # None /\ row'[p] # None =>
                    \A c \in Columns : row'[p][c] # row[p][c] =>
                      \/ c \in req[k].asked
                      \/ req[k].op = "excel" /\ req[k].moved
                           /\ c \in {"assigned", "issuer", "packer", "skipIssue", "terms"}
                      \/ req[k].op \in Handheld /\ c = "status"]_vars
  BY OnlyAskedStep DEF NumberSteps, ExcelColumns
<1> QED BY <1>1, <1>2, <1>3, PTL DEF WorkSpec, OnlyAskedChanges


-----------------------------------------------------------------------------
(***************************************************************************)
(* Where a request that is alone on its order leads it                     *)
(***************************************************************************)

Milestones == {"Issued", "Packed", "Dispatched"}

Status(o) == IF row[o] = None THEN None ELSE row[o].status
Sets(w) == "status" \in DOMAIN w.set

\* After the writes P, order o has status s; step v is dated; step v is not.
Ends(o, P, s) ==
  \/ \E i \in DOMAIN P : Sets(P[i]) /\ P[i].set["status"] = s /\ \A j \in DOMAIN P : j > i => ~Sets(P[j])
  \/ s = Status(o) /\ \A j \in DOMAIN P : ~Sets(P[j])
Done(o, P, v) ==
  /\ v \in dated[o] \/ \E i \in DOMAIN P : v \in P[i].date
  /\ \A i \in DOMAIN P : v \notin P[i].clear
Undone(o, P, v) ==
  /\ v \notin dated[o] \/ \E i \in DOMAIN P : v \in P[i].clear
  /\ \A i \in DOMAIN P : v \notin P[i].date

\* ... and its stepper agrees with its status.
Kept(o, P, s) ==
  /\ stepper[o] = Steps \/ \E i \in DOMAIN P : P[i].stepperRows
  /\ s \in {None, "R105"} => \A v \in Milestones : Undone(o, P, v)
  /\ s = "W105" => Done(o, P, "Issued")
  /\ s = "F105" => Done(o, P, "Packed")
  /\ s = "Dispatched" => Done(o, P, "Dispatched")
Led(o, P) == \E s \in Statuses \cup {None} : Ends(o, P, s) /\ Kept(o, P, s)

\* ... and a stage that the counts c of its materials complete is completed.
HasRows(o) == row[o] # None /\ row[o].imported /\ MaterialsOf(o) # {}
Finished(o, P, c) ==
  HasRows(o) =>
    /\ Complete(MaterialsOf(o), c, "packed") => Ends(o, P, "F105") /\ Done(o, P, "Packed")
    /\ Complete(MaterialsOf(o), c, "issued") => Ends(o, P, "W105") \/ Ends(o, P, "F105")

\* What a handheld that is alone on its order has seen of it.
Sees(o, q) ==
  /\ q.op = "sync" /\ q.plan # <<>> =>
       Len(q.plan) = 1 /\ Finished(o, q.plan, Over(q.plan[1].counts, count))
  /\ q.op = "data" /\ q.plan # <<>> =>
       Finished(o, q.plan, count) /\ \A i \in DOMAIN q.plan : DOMAIN q.plan[i].counts = {}

Made(o, P) == row[o] # None \/ \E i \in DOMAIN P : P[i].create
Fits(o, q) == Led(o, q.plan) /\ Made(o, q.plan) /\ Sees(o, q)

On(k, o) == req[k] # Idle /\ req[k].order = o
Settled(o) ==
  /\ \A k \in Clerks : \A q : On(k, o) /\ q = req[k] => Fits(o, q) /\ \A c \in Clerks : On(c, o) => c = k
  /\ (\A k \in Clerks : ~On(k, o)) /\ row[o] # None => Led(o, <<>>)
SettledInv == \A o \in Orders \ mixed : Settled(o)

\* The other orders that a handheld's request can change are not judged.
ForeignMixed == \A k \in Clerks : req[k].op \in Handheld => Foreign(req[k]) \subseteq mixed

LEMMA NoMilestone == NumberSteps \cap Milestones = {}
BY DEF NumberSteps, Milestones

\* A step that only dates steps that are no milestones leads nowhere else.
LEMMA LedQuiet ==
  ASSUME NEW p \in Orders, row'[p] = row[p], stepper'[p] = stepper[p], dated[p] \subseteq dated'[p],
         dated'[p] \ dated[p] \subseteq NumberSteps, NEW P
  PROVE  /\ Led(p, P) => Led(p, P)'
         /\ \A s : Ends(p, P, s) => Ends(p, P, s)'
         /\ \A v \in Milestones : Done(p, P, v) => Done(p, P, v)'
<1>1. \A s : Ends(p, P, s) => Ends(p, P, s)'
  BY DEF Ends, Status
<1>2. \A v \in Milestones : v \in dated'[p] <=> v \in dated[p]
  BY NoMilestone
<1>3. \A v \in Milestones : (Done(p, P, v) => Done(p, P, v)') /\ (Undone(p, P, v) => Undone(p, P, v)')
  BY <1>2 DEF Done, Undone
<1>4. \A s : Kept(p, P, s) => Kept(p, P, s)'
  BY <1>3 DEF Kept, Milestones
<1> QED BY <1>1, <1>3, <1>4 DEF Led

LEMMA FitsQuiet ==
  ASSUME NEW p \in Orders, row'[p] = row[p], stepper'[p] = stepper[p], dated[p] \subseteq dated'[p],
         dated'[p] \ dated[p] \subseteq NumberSteps,
         DOMAIN count = Materials, DOMAIN count' = Materials,
         \A m \in MaterialsOf(p) : count'[m] = count[m],
         NEW q, NEW r, r.op = q.op, r.plan = q.plan, Fits(p, q)
  PROVE  Fits(p, r)'
<1>1. Led(p, q.plan)' /\ Made(p, q.plan)'
  BY LedQuiet DEF Fits, Made
<1>2. ASSUME NEW c, NEW d, \A m \in MaterialsOf(p) : c[m] = d[m], Finished(p, q.plan, c)
      PROVE  Finished(p, q.plan, d)'
  <2>1. \A stage : Complete(MaterialsOf(p), c, stage) <=> Complete(MaterialsOf(p), d, stage)
    BY <1>2 DEF Complete
  <2>2. \A s : Ends(p, q.plan, s) => Ends(p, q.plan, s)'
    BY LedQuiet
  <2>3. Done(p, q.plan, "Packed") => Done(p, q.plan, "Packed")'
    BY LedQuiet DEF Milestones
  <2>4. (HasRows(p) <=> HasRows(p)') /\ MaterialsOf(p)' = MaterialsOf(p)
    BY DEF HasRows, MaterialsOf
  <2>5. \A stage : Complete(MaterialsOf(p), d, stage)' <=> Complete(MaterialsOf(p), d, stage)
    BY <2>4 DEF Complete
  <2> QED BY <1>2, <2>1, <2>2, <2>3, <2>4 DEF Finished
<1>3. \A g : \A m \in MaterialsOf(p) : Over(g, count)[m] = Over(g, count')[m]
  BY DEF Over, MaterialsOf
<1>4. Sees(p, r)'
  <2>1. Sees(p, q)
    BY DEF Fits
  <2>2. Finished(p, q.plan, count) => Finished(p, q.plan, count)'
    <3>1. PICK c : c = count
      OBVIOUS
    <3>2. PICK d : d = count'
      OBVIOUS
    <3>3. Finished(p, q.plan, c) => Finished(p, q.plan, d)'
      BY <1>2, <3>1, <3>2
    <3> QED BY <3>1, <3>2, <3>3 DEF Finished
  <2>3. \A g : Finished(p, q.plan, Over(g, count)) => Finished(p, q.plan, Over(g, count))'
    <3> TAKE g
    <3>1. PICK c : c = Over(g, count)
      OBVIOUS
    <3>2. PICK d : d = Over(g, count')
      OBVIOUS
    <3>3. Finished(p, q.plan, c) => Finished(p, q.plan, d)'
      BY <1>2, <1>3, <3>1, <3>2
    <3> QED BY <3>1, <3>2, <3>3 DEF Finished
  <2> QED BY <2>1, <2>2, <2>3 DEF Sees
<1> QED BY <1>1, <1>4 DEF Fits

\* A write made goes from what is to come to what is so.
LEMMA StatusAfter ==
  ASSUME TablesOK, NEW o \in Orders, NEW w, WriteOK(w, o), Possible(w), Perform(w)
  PROVE  /\ Sets(w) => Status(o)' = w.set["status"]
         /\ ~Sets(w) => Status(o)' = Status(o)
         /\ w.create => row'[o] # None
         /\ row[o] # None => row'[o] # None
<1>1. DOMAIN w.set \subseteq Columns /\ (\A c \in DOMAIN w.set : w.set[c] \in Values(c)) /\ w.order = o
  BY DEF WriteOK
<1>2. CASE row[o] # None
  <2>1. row[o] \in SalesOrder /\ row'[o] = Over(w.set, row[o]) /\ row'[o] # None /\ ~w.create
    BY <1>2, PerformEffect DEF TablesOK
  <2>2. row'[o]["status"] = IF "status" \in DOMAIN w.set THEN w.set["status"] ELSE row[o]["status"]
    BY <1>1, <2>1, OverRow DEF Columns
  <2> QED BY <1>2, <2>1, <2>2 DEF Status, Sets
<1>3. CASE row[o] = None /\ w.create
  <2>1. row'[o] = Over(w.set, NewOrder) /\ row'[o] # None
    BY <1>3, PerformEffect
  <2>2. row'[o]["status"] = IF "status" \in DOMAIN w.set THEN w.set["status"] ELSE NewOrder["status"]
    BY <1>1, <2>1, NewOrderIsRow, OverRow DEF Columns
  <2>3. NewOrder["status"] = None
    BY DEF NewOrder
  <2> QED BY <1>3, <2>1, <2>2, <2>3 DEF Status, Sets
<1>4. CASE row[o] = None /\ ~w.create
  <2>1. row'[o] = None /\ DOMAIN w.set = {}
    BY <1>4, PerformEffect
  <2> QED BY <1>4, <2>1 DEF Status, Sets
<1> QED BY <1>1, <1>2, <1>3, <1>4 DEF WriteOK

LEMMA LedStep ==
  ASSUME TablesOK, NEW o \in Orders, NEW w, WriteOK(w, o), Possible(w), Perform(w),
         NEW P, IsPlan(P), P # <<>>, P[1] = w, NEW T, T = Tail(P)
  PROVE  /\ \A s : Ends(o, P, s) => Ends(o, T, s)'
         /\ \A v \in Milestones : Done(o, P, v) => Done(o, T, v)'
         /\ Led(o, P) => Led(o, T)'
         /\ Made(o, P) => Made(o, T)'
<1>1. /\ DOMAIN P = 1..Len(P) /\ Len(P) \in Nat \ {0} /\ DOMAIN T = 1..(Len(P) - 1)
      /\ 1 \in DOMAIN P /\ \A i \in DOMAIN T : i + 1 \in DOMAIN P /\ T[i] = P[i + 1]
  BY RestOfPlan
<1>2. \A i \in DOMAIN P : i # 1 => i - 1 \in DOMAIN T /\ T[i - 1] = P[i]
  <2> SUFFICES ASSUME NEW i \in DOMAIN P, i # 1
               PROVE  i - 1 \in DOMAIN T /\ T[i - 1] = P[i]
    OBVIOUS
  <2>1. i - 1 \in DOMAIN T /\ (i - 1) + 1 = i
    BY <1>1
  <2> QED BY <1>1, <2>1
<1>3. (Sets(w) => Status(o)' = w.set["status"]) /\ (~Sets(w) => Status(o)' = Status(o))
  BY StatusAfter
<1>4. ASSUME NEW s, Ends(o, P, s)
      PROVE  Ends(o, T, s)'
  <2>1. ASSUME NEW i \in DOMAIN P, Sets(P[i]), P[i].set["status"] = s, \A j \in DOMAIN P : j > i => ~Sets(P[j])
        PROVE  Ends(o, T, s)'
    <3>1. CASE i = 1
      <4>1. \A j \in DOMAIN T : ~Sets(T[j])
        BY <1>1, <2>1, <3>1
      <4>2. s = Status(o)'
        BY <1>3, <2>1, <3>1
      <4> QED BY <4>1, <4>2 DEF Ends
    <3>2. CASE i # 1
      <4>1. i - 1 \in DOMAIN T /\ T[i - 1] = P[i]
        BY <1>2, <3>2
      <4>2. \A j \in DOMAIN T : j > i - 1 => ~Sets(T[j])
        BY <1>1, <2>1
      <4> QED BY <2>1, <4>1, <4>2 DEF Ends
    <3> QED BY <3>1, <3>2
  <2>2. CASE s = Status(o) /\ \A j \in DOMAIN P : ~Sets(P[j])
    <3>1. \A j \in DOMAIN T : ~Sets(T[j])
      BY <1>1, <2>2
    <3>2. s = Status(o)'
      BY <1>1, <1>3, <2>2
    <3> QED BY <3>1, <3>2 DEF Ends
  <2> QED BY <1>4, <2>1, <2>2 DEF Ends
<1>5. \A v \in Milestones : v \in dated'[o] <=> (v \in dated[o] \/ v \in w.date) /\ v \notin w.clear
  <2>1. dated'[o] = ((dated[o] \cup w.date) \ w.clear) \cup
                    (IF o \in Siblings(o) THEN w.byNumber \cap stepper[o] ELSE {})
    BY PerformEffect
  <2>2. \A v \in Milestones : v \notin w.byNumber
    BY NoMilestone DEF WriteOK
  <2> QED BY <2>1, <2>2
<1>6. ASSUME NEW v \in Milestones, Done(o, P, v)
      PROVE  Done(o, T, v)'
  <2>1. \A i \in DOMAIN P : v \notin P[i].clear
    BY <1>6 DEF Done
  <2>2. \A i \in DOMAIN T : v \notin T[i].clear
    BY <1>1, <2>1
  <2>3. v \in dated'[o] \/ \E i \in DOMAIN T : v \in T[i].date
    <3>1. CASE v \in dated[o]
      BY <1>1, <1>5, <2>1, <3>1
    <3>2. ASSUME NEW i \in DOMAIN P, v \in P[i].date
          PROVE  v \in dated'[o] \/ \E j \in DOMAIN T : v \in T[j].date
      <4>1. CASE i = 1
        BY <1>1, <1>5, <2>1, <3>2, <4>1
      <4>2. CASE i # 1
        BY <1>2, <3>2, <4>2
      <4> QED BY <4>1, <4>2
    <3> QED BY <1>6, <3>1, <3>2 DEF Done
  <2> QED BY <2>2, <2>3 DEF Done
<1>7. ASSUME NEW v \in Milestones, Undone(o, P, v)
      PROVE  Undone(o, T, v)'
  <2>1. \A i \in DOMAIN P : v \notin P[i].date
    BY <1>7 DEF Undone
  <2>2. \A i \in DOMAIN T : v \notin T[i].date
    BY <1>1, <2>1
  <2>3. v \notin dated'[o] \/ \E i \in DOMAIN T : v \in T[i].clear
    <3>1. CASE v \notin dated[o]
      BY <1>1, <1>5, <2>1, <3>1
    <3>2. ASSUME NEW i \in DOMAIN P, v \in P[i].clear
          PROVE  v \notin dated'[o] \/ \E j \in DOMAIN T : v \in T[j].clear
      <4>1. CASE i = 1
        BY <1>5, <3>2, <4>1
      <4>2. CASE i # 1
        BY <1>2, <3>2, <4>2
      <4> QED BY <4>1, <4>2
    <3> QED BY <1>7, <3>1, <3>2 DEF Undone
  <2> QED BY <2>2, <2>3 DEF Undone
<1>8. (stepper[o] = Steps \/ \E i \in DOMAIN P : P[i].stepperRows) =>
        (stepper'[o] = Steps \/ \E i \in DOMAIN T : T[i].stepperRows)
  <2>1. stepper[o] = Steps => stepper'[o] = Steps
    <3>1. w.date \subseteq Steps /\ w.stepperRows \in BOOLEAN
      BY DEF WriteOK
    <3>2. (w.stepperRows => stepper'[o] = Steps) /\ (~w.stepperRows => stepper'[o] = stepper[o] \cup w.date)
      BY PerformEffect
    <3> QED BY <3>1, <3>2
  <2>2. ASSUME NEW i \in DOMAIN P, P[i].stepperRows
        PROVE  stepper'[o] = Steps \/ \E j \in DOMAIN T : T[j].stepperRows
    <3>1. CASE i = 1
      BY <2>2, <3>1, PerformEffect
    <3>2. CASE i # 1
      BY <1>2, <2>2, <3>2
    <3> QED BY <3>1, <3>2
  <2> QED BY <2>1, <2>2
<1>9. ASSUME NEW s, Kept(o, P, s)
      PROVE  Kept(o, T, s)'
  <2>1. "Issued" \in Milestones /\ "Packed" \in Milestones /\ "Dispatched" \in Milestones
    BY DEF Milestones
  <2> QED BY <1>6, <1>7, <1>8, <1>9, <2>1 DEF Kept
<1>10. Led(o, P) => Led(o, T)'
  BY <1>4, <1>9 DEF Led
<1>11. Made(o, P) => Made(o, T)'
  <2>1. (row[o] # None \/ P[1].create) => row'[o] # None
    BY StatusAfter
  <2>2. \A i \in DOMAIN P : P[i].create => P[1].create \/ \E j \in DOMAIN T : T[j].create
    BY <1>2
  <2> QED BY <2>1, <2>2 DEF Made
<1> QED BY <1>4, <1>6, <1>10, <1>11


\* A step does nothing to order p that its stepper would have to follow; and the requests
\* on it stay what they are.
Quiet(p) ==
  /\ row'[p] = row[p] /\ stepper'[p] = stepper[p]
  /\ dated[p] \subseteq dated'[p] /\ dated'[p] \ dated[p] \subseteq NumberSteps
  /\ \A m \in MaterialsOf(p) : count'[m] = count[m]
Same(q, r) == r.op = q.op /\ r.order = q.order /\ r.plan = q.plan /\ r.copy = q.copy
SameRequests(p) ==
  \A k \in Clerks : (On(k, p)' <=> On(k, p)) /\ (On(k, p) => Same(req[k], req'[k]))

LEMMA SettledFrame ==
  ASSUME TablesOK, TablesOK', NEW p \in Orders, Quiet(p), SameRequests(p), Settled(p)
  PROVE  Settled(p)'
<1>1. DOMAIN count = Materials /\ DOMAIN count' = Materials
  BY DEF TablesOK
<1>2. ASSUME NEW q, NEW r, Same(q, r), Fits(p, q)
      PROVE  Fits(p, r)'
  BY <1>1, <1>2, FitsQuiet DEF Quiet, Same
<1>3. ASSUME NEW k \in Clerks, NEW r, On(k, p)', r = req'[k]
      PROVE  Fits(p, r)' /\ \A c \in Clerks : On(c, p)' => c = k
  <2>1. On(k, p) /\ Same(req[k], r)
    BY <1>3 DEF SameRequests
  <2>2. PICK q : q = req[k]
    OBVIOUS
  <2>3. Fits(p, q) /\ \A c \in Clerks : On(c, p) => c = k
    BY <2>1, <2>2 DEF Settled
  <2>4. Fits(p, r)'
    BY <1>2, <2>1, <2>2, <2>3
  <2> QED BY <2>3, <2>4 DEF SameRequests
<1>4. (\A k \in Clerks : ~On(k, p)') /\ row'[p] # None => Led(p, <<>>)'
  <2>1. (\A k \in Clerks : ~On(k, p)') => \A k \in Clerks : ~On(k, p)
    BY DEF SameRequests
  <2>2. Led(p, <<>>) => Led(p, <<>>)'
    BY LedQuiet DEF Quiet
  <2> QED BY <2>1, <2>2 DEF Settled, Quiet
<1> QED BY <1>3, <1>4 DEF Settled

\* The requests other than the one that takes a step stay what they are.
LEMMA NotedSame ==
  ASSUME WorkInv, NEW k, NEW q, req' = Noted(k, q), NEW c \in Clerks, c # k
  PROVE  (req'[c] = Idle <=> req[c] = Idle) /\ Same(req[c], req'[c])
<1>1. CASE req[c] = Idle
  BY <1>1 DEF Noted, Same
<1>2. CASE req[c] # Idle
  <2>1. /\ \A f \in Fields \ {"moved", "stale"} : req'[c][f] = req[c][f]
        /\ req'[c] = [req[c] EXCEPT !.moved = @ \/ Changed(req[c].order), !.stale = @ \cup Recounted]
    BY <1>2, InvParts DEF Noted, Fields
  <2>2. Same(req[c], req'[c])
    BY <2>1 DEF Same, Fields
  <2>3. req[c].order \in Orders /\ Idle.order \notin Orders
    BY <1>2, InvParts, IdleFields, OrderTableAssumption DEF RequestOK
  <2> QED BY <1>2, <2>2, <2>3 DEF Same
<1> QED BY <1>1, <1>2

\* A request alone on its order is replaced, while the tables stay.
LEMMA ReplaceSettles ==
  ASSUME WorkInv, SettledInv, NEW k \in Clerks, NEW q, req' = [req EXCEPT ![k] = q],
         UNCHANGED table, mixed \subseteq mixed', NEW o \in Orders,
         q # Idle => q.order = o, req[k] # Idle => req[k].order = o,
         o \notin mixed' =>
           /\ q # Idle => Fits(o, q) /\ \A c \in Clerks \ {k} : ~On(c, o)
           /\ q = Idle /\ (\A c \in Clerks \ {k} : ~On(c, o)) /\ row[o] # None => Led(o, <<>>)
  PROVE  SettledInv'
<1>1. UNCHANGED <<row, stepper, dated, count, loaded, epoch, recorded, printed>>
  BY DEF table
<1>2. TablesOK /\ TablesOK' /\ DOMAIN req = Clerks
  BY <1>1, InvParts DEF TablesOK, Present
<1>3. \A c \in Clerks : req'[c] = IF c = k THEN q ELSE req[c]
  BY <1>2
<1>4. ASSUME NEW p \in Orders, p # o, p \notin mixed'
      PROVE  Settled(p)'
  <2>1. Settled(p)
    BY <1>4 DEF SettledInv
  <2>2. Quiet(p)
    BY <1>1 DEF Quiet
  <2>3. SameRequests(p)
    BY <1>3, <1>4 DEF SameRequests, On, Same
  <2> QED BY <1>2, <2>1, <2>2, <2>3, SettledFrame
<1>5. ASSUME o \notin mixed'
      PROVE  Settled(o)'
  <2>1. Settled(o)
    BY <1>5 DEF SettledInv
  <2>2. \A c \in Clerks \ {k} : On(c, o)' <=> On(c, o)
    BY <1>3 DEF On
  <2>3. (On(k, o)' <=> q # Idle) /\ (On(k, o) <=> req[k] # Idle)
    BY <1>3 DEF On
  <2>4. \A r : (Fits(o, r) => Fits(o, r)') /\ (Led(o, <<>>) => Led(o, <<>>)')
    <3>1. Quiet(o)
      BY <1>1 DEF Quiet
    <3>2. DOMAIN count = Materials /\ DOMAIN count' = Materials
      BY <1>2 DEF TablesOK
    <3> QED BY <3>1, <3>2, FitsQuiet, LedQuiet DEF Quiet
  <2>5. ASSUME q # Idle
        PROVE  Settled(o)'
    <3>1. Fits(o, q)' /\ \A c \in Clerks \ {k} : ~On(c, o)'
      BY <1>5, <2>2, <2>4, <2>5
    <3>2. On(k, o)' /\ req'[k] = q
      BY <1>3, <2>3, <2>5
    <3> QED BY <3>1, <3>2 DEF Settled
  <2>6. ASSUME q = Idle
        PROVE  Settled(o)'
    <3>1. ~On(k, o)'
      BY <2>3, <2>6
    <3>2. ASSUME NEW c \in Clerks, NEW r, On(c, o)', r = req'[c]
          PROVE  Fits(o, r)' /\ \A d \in Clerks : On(d, o)' => d = c
      <4>1. c # k /\ On(c, o) /\ req'[c] = req[c]
        BY <1>3, <2>2, <3>1, <3>2
      <4>2. r = req[c]
        BY <3>2, <4>1
      <4>3. Fits(o, r) /\ \A d \in Clerks : On(d, o) => d = c
        BY <2>1, <4>1, <4>2 DEF Settled
      <4> QED BY <2>2, <2>4, <3>1, <4>3
    <3>3. (\A c \in Clerks : ~On(c, o)') /\ row'[o] # None => Led(o, <<>>)'
      BY <1>1, <1>5, <2>2, <2>4, <2>6
    <3> QED BY <3>2, <3>3 DEF Settled
  <2> QED BY <2>5, <2>6
<1> QED BY <1>4, <1>5 DEF SettledInv

LEMMA WriteQuiet ==
  ASSUME TablesOK, NEW o \in Orders, NEW w, WriteOK(w, o), Possible(w), Perform(w), NEW p \in Orders \ {o},
         \A m \in DOMAIN w.counts : OrderOf[m] # p
  PROVE  Quiet(p)
<1>1. row'[p] = row[p] /\ stepper'[p] = stepper[p]
  BY PerformEffect
<1>2. dated'[p] = dated[p] \cup (IF p \in Siblings(o) THEN w.byNumber \cap stepper[p] ELSE {})
  BY PerformEffect
<1>3. w.byNumber \subseteq NumberSteps
  BY DEF WriteOK
<1>4. ASSUME NEW m \in MaterialsOf(p)
      PROVE  count'[m] = count[m]
  <2>1. m \in Materials /\ OrderOf[m] = p
    BY DEF MaterialsOf
  <2>2. SetMaterials(w) \subseteq DOMAIN w.counts
        /\ count' = [x \in Materials |-> IF x \in SetMaterials(w) THEN w.counts[x] ELSE count[x]]
    BY PerformEffect
  <2> QED BY <2>1, <2>2
<1> QED BY <1>1, <1>2, <1>3, <1>4 DEF Quiet

\* A handheld's request for an order that is judged changes that one alone.
LEMMA AloneTargets ==
  ASSUME ForeignMixed, NEW k \in Clerks, req[k].order \in Orders \ mixed
  PROVE  /\ Targets(req[k]) = {req[k].order}
         /\ req[k].op \in Handheld =>
              /\ req[k].order \notin NoObd /\ Scope(req[k].order) = {req[k].order}
              /\ Found(req[k].order) = {req[k].order}
<1>1. req[k].order \in Siblings(req[k].order)
  BY DEF Siblings
<1>2. req[k].op \in Handheld => req[k].order \notin NoObd
  <2>1. req[k].op \in Handheld => Foreign(req[k]) \subseteq mixed
    BY DEF ForeignMixed
  <2> QED BY <1>1, <2>1, ForeignParts
<1>3. req[k].op \in Handheld => Scope(req[k].order) = {req[k].order}
  BY <1>2 DEF Scope
<1> QED BY <1>2, <1>3 DEF Targets, Found

\* What a write changes of other orders is not judged.
LEMMA ForeignRows ==
  ASSUME WorkInv, ForeignMixed, NEW k \in Clerks, req[k] # Idle, NEW w, MakesWrite(k, w),
         NEW x \in Orders \ mixed, x # req[k].order
  PROVE  w.order # x /\ \A m \in DOMAIN w.counts : OrderOf[m] # x
<1> DEFINE q == req[k]
<1>1. RequestOK(q) /\ q.order \in Orders /\ w.order \in Targets(q)
  BY InvParts DEF RequestOK, MakesWrite
<1>2. \A p \in Orders : p \in Siblings(p)
  BY DEF Siblings
<1>7. q.op \in Handheld => Foreign(q) \subseteq mixed
  BY DEF ForeignMixed
<1>3. q.op \in Handheld /\ q.order \in NoObd => Siblings(q.order) \subseteq mixed
  BY <1>7, ForeignParts
<1>4. q.op \in Handheld => x \notin Scope(q.order)
  BY <1>3 DEF Scope
<1>5. w.order # x
  BY <1>1, <1>4 DEF Targets
<1>6. ASSUME NEW m \in DOMAIN w.counts
      PROVE  OrderOf[m] # x
  <2>1. q.op \in Handheld /\ SentFor(q, m, w.counts[m])
    <3>1. CASE 1 \in DOMAIN q.plan /\ w = q.plan[1]
      BY <1>1, <1>6, <3>1, EmptyPlan DEF RequestOK, CopyOK, HandheldOps, Handheld, SentFor
    <3>2. CASE q.op = "data" /\ \A y \in DOMAIN w.counts : SentFor(q, y, w.counts[y])
      BY <1>6, <3>2 DEF Handheld
    <3> QED BY <3>1, <3>2 DEF MakesWrite
  <2>2. CASE m \in DOMAIN q.copy
    <3>1. m \in Materials /\ OrderOf[m] \in Orders
      BY <1>1, <2>1, <2>2, OrderTableAssumption DEF RequestOK, CopyOK, HandheldOps, Handheld
    <3>2. OrderOf[m] # q.order => Siblings(OrderOf[m]) \subseteq mixed
      BY <1>7, <2>1, <2>2, ForeignParts
    <3> QED BY <1>2, <3>1, <3>2
  <2>3. CASE m \notin DOMAIN q.copy
    BY <1>4, <2>1, <2>3 DEF SentFor
  <2> QED BY <2>2, <2>3
<1> QED BY <1>5, <1>6

\* A request alone on its order makes a write.
LEMMA WriteSettles ==
  ASSUME WorkInv, TablesOK', SettledInv, ForeignMixed, NEW k \in Clerks, NEW w, MakesWrite(k, w), NEW q,
         req[k] # Idle, req' = Noted(k, q), mixed' = mixed, NEW o \in Orders, req[k].order = o,
         q # Idle => q.order = o,
         o \notin mixed => (q # Idle => Fits(o, q)') /\ (q = Idle => Led(o, <<>>)')
  PROVE  SettledInv'
<1>1. TablesOK /\ DOMAIN req = Clerks /\ WriteOK(w, w.order) /\ Possible(w) /\ Perform(w)
      /\ w.order \in Orders
  BY InvParts, TargetOrders DEF MakesWrite
<1>2. req'[k] = q
  BY DEF Noted
<1>3. ASSUME NEW c \in Clerks \ {k}
      PROVE  (req'[c] = Idle <=> req[c] = Idle) /\ Same(req[c], req'[c])
  BY NotedSame
<1>4. \A c \in Clerks \ {k}, p \in Orders : On(c, p)' <=> On(c, p)
  BY <1>3 DEF On, Same
<1>5. ASSUME NEW p \in Orders, p # o, p \notin mixed'
      PROVE  Settled(p)'
  <2>1. Settled(p)
    BY <1>5 DEF SettledInv
  <2>2. Quiet(p)
    <3>1. w.order # p /\ \A m \in DOMAIN w.counts : OrderOf[m] # p
      BY <1>5, ForeignRows
    <3> QED BY <1>1, <3>1, WriteQuiet
  <2>3. ~On(k, p) /\ ~On(k, p)'
    BY <1>2, <1>5 DEF On
  <2>4. SameRequests(p)
    BY <1>3, <1>4, <2>3 DEF SameRequests
  <2> QED BY <1>1, <2>1, <2>2, <2>4, SettledFrame
<1>6. ASSUME o \notin mixed'
      PROVE  Settled(o)'
  <2>1. Settled(o) /\ On(k, o)
    BY <1>6 DEF SettledInv, On
  <2>2. \A c \in Clerks \ {k} : ~On(c, o)
    BY <2>1 DEF Settled
  <2>3. \A c \in Clerks \ {k} : ~On(c, o)'
    BY <1>4, <2>2
  <2>4. On(k, o)' <=> q # Idle
    BY <1>2 DEF On
  <2>5. CASE q # Idle
    BY <1>2, <1>6, <2>3, <2>4, <2>5 DEF Settled
  <2>6. CASE q = Idle
    BY <1>6, <2>3, <2>4, <2>6 DEF Settled
  <2> QED BY <2>5, <2>6
<1> QED BY <1>5, <1>6 DEF SettledInv


LEMMA StartSettles ==
  ASSUME WorkInv, SettledInv, NEW k \in Clerks, NEW q, Start(k, q), NEW o \in Orders, q.order = o, q # Idle,
         o \notin mixed' /\ (row[o] # None => Led(o, <<>>)) => Fits(o, q)
  PROVE  SettledInv'
<1>1. req[k] = Idle /\ req' = [req EXCEPT ![k] = q] /\ UNCHANGED table /\ mixed' = Overlapping(o)
  BY DEF Start
<1>2. mixed \subseteq mixed'
  BY <1>1 DEF Overlapping
<1>3. o \notin mixed' => \A c \in Clerks : ~On(c, o)
  <2>1. o \in Siblings(o)
    BY DEF Siblings
  <2> QED BY <1>1, <2>1 DEF Overlapping, ActiveOn, Active, On
<1>4. o \notin mixed' => Fits(o, q)
  BY <1>2, <1>3 DEF SettledInv, Settled
<1> QED BY <1>1, <1>2, <1>3, <1>4, ReplaceSettles

\* What it is to have been led somewhere with nothing left to write.
LEMMA LedNow ==
  ASSUME NEW o \in Orders, row[o] # None, TablesOK
  PROVE  /\ Status(o) = row[o].status /\ Status(o) \in Statuses \cup {None}
         /\ Led(o, <<>>) <=>
              /\ stepper[o] = Steps
              /\ row[o].status \in {None, "R105"} => \A v \in Milestones : v \notin dated[o]
              /\ row[o].status = "W105" => "Issued" \in dated[o]
              /\ row[o].status = "F105" => "Packed" \in dated[o]
              /\ row[o].status = "Dispatched" => "Dispatched" \in dated[o]
<1>1. Status(o) = row[o].status /\ Status(o) \in Statuses \cup {None}
  BY DEF Status, TablesOK, SalesOrder
<1>2. \A s : Ends(o, <<>>, s) <=> s = Status(o)
  BY EmptyPlan DEF Ends
<1>3. \A v : (Done(o, <<>>, v) <=> v \in dated[o]) /\ (Undone(o, <<>>, v) <=> v \notin dated[o])
  BY EmptyPlan DEF Done, Undone
<1>4. \A s : Kept(o, <<>>, s) <=>
         /\ stepper[o] = Steps
         /\ s \in {None, "R105"} => \A v \in Milestones : v \notin dated[o]
         /\ s = "W105" => "Issued" \in dated[o]
         /\ s = "F105" => "Packed" \in dated[o]
         /\ s = "Dispatched" => "Dispatched" \in dated[o]
  BY <1>3, EmptyPlan DEF Kept
<1> QED BY <1>1, <1>2, <1>4 DEF Led

\* Writes that set no status and touch no milestone lead nowhere else.
Plain(w) == ~Sets(w) /\ w.date \cap Milestones = {} /\ w.clear = {}

LEMMA LedPlain ==
  ASSUME NEW o \in Orders, row[o] # None, TablesOK, Led(o, <<>>), NEW P, \A i \in DOMAIN P : Plain(P[i])
  PROVE  Led(o, P) /\ Made(o, P)
<1>1. Status(o) \in Statuses \cup {None} /\ Status(o) = row[o].status
  BY LedNow
<1>2. Ends(o, P, Status(o))
  BY DEF Ends, Plain
<1>3. \A v \in Milestones : (v \in dated[o] => Done(o, P, v)) /\ (v \notin dated[o] => Undone(o, P, v))
  BY DEF Plain, Done, Undone
<1>4. Kept(o, P, Status(o))
  <2>1. "Issued" \in Milestones /\ "Packed" \in Milestones /\ "Dispatched" \in Milestones
    BY DEF Milestones
  <2> QED BY <1>1, <1>3, <2>1, LedNow DEF Kept
<1> QED BY <1>1, <1>2, <1>4 DEF Led, Made

\* A desk's request that starts on an order without any other.
LEMMA DeskFits ==
  ASSUME WorkInv, SettledInv, NEW k \in Clerks, NEW o \in Orders, NEW op \in DeskOps, NEW asked, NEW P,
         Start(k, Request(op, o, asked, P)),
         (row[o] # None => Led(o, <<>>)) => Led(o, P) /\ Made(o, P)
  PROVE  SettledInv'
<1> DEFINE q == Request(op, o, asked, P)
<1>1. q.op = op /\ q.order = o /\ q.plan = P
  BY DEF Request, Idle
<1>2. q # Idle
  BY <1>1, IdleFields, DeskNames
<1> HIDE DEF q
<1>3. Sees(o, q)
  BY <1>1 DEF Sees, DeskOps, HandheldOps
<1>4. (row[o] # None => Led(o, <<>>)) => Fits(o, q)
  BY <1>1, <1>3 DEF Fits
<1> QED BY <1>1, <1>2, <1>4, StartSettles DEF q

LEMMA PlainFits ==
  ASSUME WorkInv, SettledInv, NEW k \in Clerks, NEW o \in Orders, NEW op \in DeskOps, NEW asked, NEW P,
         Start(k, Request(op, o, asked, P)), row[o] # None, \A i \in DOMAIN P : Plain(P[i])
  PROVE  SettledInv'
BY InvParts, LedPlain, DeskFits


\* The writes R date step v, or take its date away.
Puts(R, v) == (\E i \in DOMAIN R : v \in R[i].date) /\ \A i \in DOMAIN R : v \notin R[i].clear
Takes(R, v) == (\E i \in DOMAIN R : v \in R[i].clear) /\ \A i \in DOMAIN R : v \notin R[i].date

LEMMA AppendElements ==
  ASSUME NEW P, IsPlan(P), NEW w
  PROVE  /\ \A i \in DOMAIN P : i \in DOMAIN Append(P, w) /\ Append(P, w)[i] = P[i]
         /\ \E i \in DOMAIN Append(P, w) : Append(P, w)[i] = w /\ \A j \in DOMAIN Append(P, w) : j <= i
         /\ \A i \in DOMAIN Append(P, w) : Append(P, w)[i] = w \/ \E j \in DOMAIN P : Append(P, w)[i] = P[j]
<1> DEFINE A == Append(P, w)
<1>1. Len(P) \in Nat /\ DOMAIN P = 1..Len(P) /\ DOMAIN A = 1..(Len(P) + 1) /\ A[Len(P) + 1] = w
      /\ \A i \in DOMAIN P : A[i] = P[i]
  BY AppendPlan
<1> HIDE DEF A
<1>2. \A i \in DOMAIN A : i = Len(P) + 1 \/ i \in DOMAIN P
  BY <1>1
<1>3. \A i \in DOMAIN P : i \in DOMAIN A
  BY <1>1
<1>4. Len(P) + 1 \in DOMAIN A /\ \A j \in DOMAIN A : j <= Len(P) + 1
  BY <1>1
<1> QED BY <1>1, <1>2, <1>3, <1>4 DEF A

LEMMA StepIndex ==
  /\ \A i \in 1..8 : (StepOrder[i] = "Issued" <=> i = 3) /\ (StepOrder[i] = "Packed" <=> i = 5)
                     /\ (StepOrder[i] = "Dispatched" <=> i = 8)
  /\ \A n \in 1..8 : ("Issued" \in StepsFrom(n) <=> n <= 3) /\ ("Packed" \in StepsFrom(n) <=> n <= 5)
                     /\ "Dispatched" \in StepsFrom(n)
<1>1. /\ StepOrder[1] = "To be Issued" /\ StepOrder[2] = "Under Issue" /\ StepOrder[3] = "Issued"
      /\ StepOrder[4] = "Under Packing" /\ StepOrder[5] = "Packed" /\ StepOrder[6] = "WIP Storage"
      /\ StepOrder[7] = "Ready for Dispatch" /\ StepOrder[8] = "Dispatched"
  BY DEF StepOrder
<1> HIDE DEF StepOrder
<1>2. \A i \in 1..8 : i = 1 \/ i = 2 \/ i = 3 \/ i = 4 \/ i = 5 \/ i = 6 \/ i = 7 \/ i = 8
  OBVIOUS
<1>3. \A i \in 1..8 : (StepOrder[i] = "Issued" <=> i = 3) /\ (StepOrder[i] = "Packed" <=> i = 5)
                      /\ (StepOrder[i] = "Dispatched" <=> i = 8)
  BY <1>1, <1>2
<1>4. \A n \in 1..8 : \A v : v \in StepsFrom(n) <=> \E i \in n..8 : v = StepOrder[i]
  BY DEF StepsFrom
<1>5. \A n \in 1..8 : n..8 \subseteq 1..8 /\ 8 \in n..8 /\ (3 \in n..8 <=> n <= 3) /\ (5 \in n..8 <=> n <= 5)
  OBVIOUS
<1> HIDE DEF StepsFrom
<1>6. ASSUME NEW n \in 1..8
      PROVE  /\ "Issued" \in StepsFrom(n) <=> n <= 3
             /\ "Packed" \in StepsFrom(n) <=> n <= 5
             /\ "Dispatched" \in StepsFrom(n)
  <2>1. \A i \in n..8 : i \in 1..8
    BY <1>5
  <2>2. \A v : v \in StepsFrom(n) <=> \E i \in n..8 : v = StepOrder[i]
    BY <1>4
  <2>3. "Issued" \in StepsFrom(n) <=> 3 \in n..8
    <3>1. StepOrder[3] = "Issued" /\ \A i \in n..8 : StepOrder[i] = "Issued" => i = 3
      BY <1>1, <1>3, <2>1
    <3> QED BY <2>2, <3>1
  <2>4. "Packed" \in StepsFrom(n) <=> 5 \in n..8
    <3>1. StepOrder[5] = "Packed" /\ \A i \in n..8 : StepOrder[i] = "Packed" => i = 5
      BY <1>1, <1>3, <2>1
    <3> QED BY <2>2, <3>1
  <2>5. "Dispatched" \in StepsFrom(n)
    BY <1>1, <1>5, <2>2
  <2> QED BY <1>5, <2>3, <2>4, <2>5
<1> QED BY <1>3, <1>6

LEMMA StepperPlanLeads ==
  ASSUME NEW o, NEW s \in Statuses \cup {None}
  PROVE  /\ s \in {None, "R105"} => \A v \in Milestones : Takes(StepperPlan(o, s), v)
         /\ s = "W105" => Puts(StepperPlan(o, s), "Issued")
         /\ s = "F105" => Puts(StepperPlan(o, s), "Packed")
         /\ s = "Dispatched" => Puts(StepperPlan(o, s), "Dispatched")
<1>0. None \notin Statuses
  BY OrderTableAssumption
<1>1. ASSUME NEW n \in 0..8
      PROVE  IsPlan(Dates(o, n)) /\ DOMAIN Dates(o, n) = 1..n
             /\ \A i \in 1..n : Dates(o, n)[i].date = {StepOrder[i]} /\ Dates(o, n)[i].clear = {}
  <2>1. \A i \in 1..n : Dates(o, n)[i] = Date(o, {StepOrder[i]})
    BY DatesPlan
  <2>2. \A S : Date(o, S).date = S /\ Date(o, S).clear = {}
    BY DEF Date, Blank
  <2> QED BY <2>1, <2>2, DatesPlan
<1>2. \A S : Clear(o, S).clear = S /\ Clear(o, S).date = {}
  BY DEF Clear, Blank
<1>3. ASSUME NEW n \in 0..8, NEW S, NEW v,
             \E i \in 1..n : StepOrder[i] = v, v \notin S
      PROVE  Puts(Append(Dates(o, n), Clear(o, S)), v) /\ Puts(Dates(o, n), v)
  <2> DEFINE D == Dates(o, n)
             A == Append(D, Clear(o, S))
  <2>1. IsPlan(D) /\ (\E i \in DOMAIN D : v \in D[i].date) /\ \A i \in DOMAIN D : v \notin D[i].clear
    <3>1. PICK i \in 1..n : StepOrder[i] = v
      BY <1>3
    <3>2. IsPlan(D) /\ DOMAIN D = 1..n /\ \A j \in 1..n : D[j].date = {StepOrder[j]} /\ D[j].clear = {}
      BY <1>1
    <3> HIDE DEF D
    <3>3. i \in DOMAIN D /\ v \in D[i].date
      BY <3>1, <3>2
    <3>4. \A j \in DOMAIN D : v \notin D[j].clear
      BY <3>2
    <3> QED BY <3>2, <3>3, <3>4
  <2>2. /\ \A i \in DOMAIN D : i \in DOMAIN A /\ A[i] = D[i]
        /\ \A i \in DOMAIN A : A[i] = Clear(o, S) \/ \E j \in DOMAIN D : A[i] = D[j]
    BY <2>1, AppendElements
  <2> HIDE DEF D, A
  <2>3. Puts(A, v)
    BY <1>2, <1>3, <2>1, <2>2 DEF Puts
  <2> QED BY <2>1, <2>3 DEF Puts, A, D
<1>4. ASSUME s = "R105"
      PROVE  \A v \in Milestones : Takes(StepperPlan(o, s), v)
  <2> DEFINE D == Dates(o, 2)
             A == Append(D, Clear(o, StepsFrom(3)))
  <2>1. StepperPlan(o, s) = A
    BY <1>0, <1>4 DEF StepperPlan, Statuses
  <2>2. IsPlan(D) /\ \A i \in DOMAIN D : \A v \in Milestones : v \notin D[i].date
    BY <1>1, StepIndex DEF Milestones
  <2>3. /\ \E i \in DOMAIN A : A[i] = Clear(o, StepsFrom(3))
        /\ \A i \in DOMAIN A : A[i] = Clear(o, StepsFrom(3)) \/ \E j \in DOMAIN D : A[i] = D[j]
    <3> HIDE DEF D
    <3>1. IsPlan(D)
      BY <2>2
    <3> QED BY <3>1, AppendElements
  <2> HIDE DEF D, A
  <2>4. \A v \in Milestones : v \in StepsFrom(3)
    BY StepIndex DEF Milestones
  <2> QED BY <1>2, <2>1, <2>2, <2>3, <2>4 DEF Takes
<1>5. ASSUME s = None
      PROVE  \A v \in Milestones : Takes(StepperPlan(o, s), v)
  <2> DEFINE A == <<Clear(o, StepsFrom(2))>>
  <2>1. StepperPlan(o, s) = A
    BY <1>0, <1>5 DEF StepperPlan, Statuses
  <2>2. DOMAIN A = {1} /\ A[1] = Clear(o, StepsFrom(2))
    BY OnePlan
  <2> HIDE DEF A
  <2>3. \A v \in Milestones : v \in StepsFrom(2)
    BY StepIndex DEF Milestones
  <2> QED BY <1>2, <2>1, <2>2, <2>3 DEF Takes
<1>6. ASSUME s = "W105"
      PROVE  Puts(StepperPlan(o, s), "Issued")
  <2>1. StepperPlan(o, s) = Append(IssueDates(o), Clear(o, StepsFrom(5)))
    BY <1>0, <1>6 DEF StepperPlan, Statuses
  <2>2. StepOrder[3] = "Issued" /\ "Issued" \notin StepsFrom(5)
    BY StepIndex
  <2>3. Puts(Append(Dates(o, 3), Clear(o, StepsFrom(5))), "Issued")
        /\ Puts(Append(Dates(o, 4), Clear(o, StepsFrom(5))), "Issued")
    BY <1>3, <2>2
  <2> QED BY <2>1, <2>3 DEF IssueDates
<1>7. ASSUME s = "F105"
      PROVE  Puts(StepperPlan(o, s), "Packed")
  <2>1. StepperPlan(o, s) = Append(Dates(o, 5), Clear(o, StepsFrom(6)))
    BY <1>0, <1>7 DEF StepperPlan, Statuses
  <2>2. StepOrder[5] = "Packed" /\ "Packed" \notin StepsFrom(6)
    BY StepIndex
  <2> QED BY <1>3, <2>1, <2>2
<1>8. ASSUME s = "Dispatched"
      PROVE  Puts(StepperPlan(o, s), "Dispatched")
  <2>1. StepperPlan(o, s) = Dates(o, 8)
    BY <1>0, <1>8 DEF StepperPlan, Statuses
  <2>2. 8 \in 1..8 /\ StepOrder[8] = "Dispatched"
    BY StepIndex
  <2>3. \E i \in 1..8 : StepOrder[i] = "Dispatched"
    BY <2>2
  <2>4. Puts(Append(Dates(o, 8), Clear(o, {})), "Dispatched") /\ Puts(Dates(o, 8), "Dispatched")
    <3>1. 8 \in 0..8 /\ "Dispatched" \notin {}
      OBVIOUS
    <3> QED BY <1>3, <2>3, <3>1
  <2> QED BY <2>1, <2>4
<1> QED BY <1>4, <1>5, <1>6, <1>7, <1>8

LEMMA UpdateStatusSettles ==
  ASSUME WorkInv, SettledInv, NEW k \in Clerks, NEW o \in Orders, NEW s \in Statuses \cup {None},
         UpdateStatus(k, o, s)
  PROVE  SettledInv'
<1> DEFINE changes == s # row[o].status
           R == IF changes THEN StepperPlan(o, s) ELSE <<>>
           f == Over(Column("status", s), IF changes THEN FollowsFrom(s) ELSE Nothing)
           P == Append(R, Set(o, f))
           asked == {"status", "stored", "assigned"}
<1>1. Start(k, Request("status", o, asked, P)) /\ row[o] # None
  BY DEF UpdateStatus, Present
<1>2. IsPlan(R)
  BY StepperPlanWrites, EmptyPlan
<1>3. "status" \in DOMAIN f /\ f["status"] = s
  BY StatusForm
<1>4. changes => R = StepperPlan(o, s)
  OBVIOUS
<1>5. ~changes => R = <<>>
  OBVIOUS
<1> HIDE DEF R, f
<1>6. Set(o, f).set = f /\ Set(o, f).date = {} /\ Set(o, f).clear = {}
  BY DEF Set, Blank
<1>7. /\ \A i \in DOMAIN R : i \in DOMAIN P /\ P[i] = R[i]
      /\ \E i \in DOMAIN P : P[i] = Set(o, f) /\ \A j \in DOMAIN P : j <= i
      /\ \A i \in DOMAIN P : P[i] = Set(o, f) \/ \E j \in DOMAIN R : P[i] = R[j]
  BY <1>2, AppendElements
<1> DEFINE dom == DOMAIN P
<1>8. DOMAIN P \subseteq Nat
  BY <1>2, AppendPlan
<1> HIDE DEF P, dom
<1>9. Ends(o, P, s)
  <2>1. PICK i \in DOMAIN P : P[i] = Set(o, f) /\ \A j \in DOMAIN P : j <= i
    BY <1>7
  <2>2. Sets(P[i]) /\ P[i].set["status"] = s
    BY <1>3, <1>6, <2>1 DEF Sets
  <2>3. \A j \in DOMAIN P : ~(j > i)
    BY <1>8, <2>1
  <2> QED BY <2>2, <2>3 DEF Ends
<1>10. ASSUME Led(o, <<>>)
       PROVE  Kept(o, P, s)
  <2>1. stepper[o] = Steps
    BY <1>1, <1>10, InvParts, LedNow
  <2>2. ASSUME NEW v, Takes(R, v)
        PROVE  Undone(o, P, v)
    BY <1>6, <1>7, <2>2 DEF Takes, Undone
  <2>3. ASSUME NEW v, Puts(R, v)
        PROVE  Done(o, P, v)
    BY <1>6, <1>7, <2>3 DEF Puts, Done
  <2>4. CASE changes
    BY <1>4, <2>1, <2>2, <2>3, <2>4, StepperPlanLeads DEF Kept
  <2>5. CASE ~changes
    <3>1. \A i \in DOMAIN P : P[i].date = {} /\ P[i].clear = {}
      BY <1>5, <1>6, <1>7, <2>5, EmptyPlan
    <3>2. \A v : (v \in dated[o] => Done(o, P, v)) /\ (v \notin dated[o] => Undone(o, P, v))
      BY <3>1 DEF Done, Undone
    <3> QED BY <1>1, <1>10, <2>1, <2>5, <3>2, InvParts, LedNow DEF Kept
  <2> QED BY <2>4, <2>5
<1>11. (row[o] # None => Led(o, <<>>)) => Led(o, P) /\ Made(o, P)
  BY <1>1, <1>9, <1>10 DEF Led, Made
<1> QED BY <1>1, <1>11, DeskFits, DeskNames DEF P


\* An order that is created, with its stepper rows.
LEMMA NewFits ==
  ASSUME WorkInv, SettledInv, NEW k \in Clerks, NEW o \in Orders, NEW op \in DeskOps, NEW asked, NEW P,
         Start(k, Request(op, o, asked, P)), row[o] = None, \A i \in DOMAIN P : Plain(P[i]),
         \E i \in DOMAIN P : P[i].create, \E i \in DOMAIN P : P[i].stepperRows
  PROVE  SettledInv'
<1>1. dated[o] = {}
  BY InvParts DEF TablesOK
<1>2. Ends(o, P, None)
  BY DEF Ends, Plain, Status
<1>3. \A v \in Milestones : Undone(o, P, v)
  BY <1>1 DEF Plain, Undone
<1>4. None \notin Statuses
  BY OrderTableAssumption
<1>5. Kept(o, P, None)
  BY <1>3, <1>4 DEF Kept, Statuses
<1>6. Led(o, P) /\ Made(o, P)
  BY <1>2, <1>5 DEF Led, Made
<1> QED BY <1>6, DeskFits

\* A priority that is given makes an order without a status R105, which keeps the stepper.
LEMMA PriorityLeads ==
  ASSUME TablesOK, NEW o \in Orders, row[o] # None, Led(o, <<>>), NEW priority
  PROVE  LET P == <<Set(o, Over(Prioritised(o, priority), NewTerms))>> IN Led(o, P) /\ Made(o, P)
<1> DEFINE f == Over(Prioritised(o, priority), NewTerms)
           P == <<Set(o, f)>>
<1>1. DOMAIN P = {1} /\ P[1] = Set(o, f)
  BY OnePlan
<1>2. Set(o, f).set = f /\ Set(o, f).date = {} /\ Set(o, f).clear = {} /\ ~Set(o, f).stepperRows
  BY DEF Set, Blank
<1>3. "status" \in DOMAIN f => f["status"] = "R105" /\ row[o].status = None
  <2>1. "status" \in DOMAIN Prioritised(o, priority) =>
          Prioritised(o, priority)["status"] = "R105" /\ row[o].status = None
    BY DEF Prioritised, Nothing, Column
  <2>2. "status" \notin DOMAIN NewTerms
    BY DEF NewTerms, Column
  <2>3. "status" \in DOMAIN f => "status" \in DOMAIN Prioritised(o, priority) /\ f["status"] = Prioritised(o, priority)["status"]
    BY <2>2 DEF Over
  <2> QED BY <2>1, <2>3
<1> HIDE DEF f, P
<1>4. Status(o) = row[o].status /\ Status(o) \in Statuses \cup {None}
  BY LedNow
<1>5. \A v : (v \in dated[o] => Done(o, P, v)) /\ (v \notin dated[o] => Undone(o, P, v))
  BY <1>1, <1>2 DEF Done, Undone
<1>6. CASE "status" \in DOMAIN f
  <2>1. Ends(o, P, "R105")
    BY <1>1, <1>2, <1>3, <1>6 DEF Ends, Sets
  <2>2. Kept(o, P, "R105")
    BY <1>3, <1>5, <1>6, LedNow DEF Kept
  <2> QED BY <2>1, <2>2 DEF Led, Made, Statuses, P, f
<1>7. CASE "status" \notin DOMAIN f
  <2>1. Ends(o, P, Status(o))
    BY <1>1, <1>2, <1>7 DEF Ends, Sets
  <2>2. Kept(o, P, Status(o))
    BY <1>4, <1>5, LedNow DEF Kept, Milestones
  <2> QED BY <1>4, <2>1, <2>2 DEF Led, Made, P, f
<1> QED BY <1>6, <1>7

LEMMA PlainWrites ==
  ASSUME NEW o, NEW f, "status" \notin DOMAIN f, NEW S
  PROVE  /\ Plain(Set(o, f)) /\ Plain(DateNumber(o, S)) /\ Plain([Set(o, f) EXCEPT !.byNumber = S])
         /\ Plain(RecordLabel(o)) /\ Plain(PrintLabel(o))
         /\ Plain([Blank(o) EXCEPT !.create = TRUE]) /\ [Blank(o) EXCEPT !.create = TRUE].create
         /\ Plain(NewSteps(o)) /\ NewSteps(o).stepperRows
         /\ Plain([NewSteps(o) EXCEPT !.create = TRUE])
         /\ [NewSteps(o) EXCEPT !.create = TRUE].create /\ [NewSteps(o) EXCEPT !.create = TRUE].stepperRows
<1>1. Plain(Set(o, f)) /\ Plain(DateNumber(o, S)) /\ Plain([Set(o, f) EXCEPT !.byNumber = S])
  BY DEF Plain, Sets, Set, DateNumber, Blank, Nothing
<1>2. Plain(RecordLabel(o)) /\ Plain(PrintLabel(o))
  BY DEF Plain, Sets, RecordLabel, PrintLabel, Date, Blank, Nothing, Milestones
<1>3. Plain([Blank(o) EXCEPT !.create = TRUE]) /\ [Blank(o) EXCEPT !.create = TRUE].create
  BY DEF Plain, Sets, Blank, Nothing
<1>4. Plain(NewSteps(o)) /\ NewSteps(o).stepperRows
  BY DEF Plain, Sets, NewSteps, Blank, Nothing, Milestones
<1>5. /\ Plain([NewSteps(o) EXCEPT !.create = TRUE])
      /\ [NewSteps(o) EXCEPT !.create = TRUE].create /\ [NewSteps(o) EXCEPT !.create = TRUE].stepperRows
  BY DEF Plain, Sets, NewSteps, Blank, Nothing, Milestones
<1> QED BY <1>1, <1>2, <1>3, <1>4, <1>5

LEMMA PlainOne ==
  ASSUME WorkInv, SettledInv, NEW k \in Clerks, NEW o \in Orders, NEW op \in DeskOps, NEW asked, NEW w,
         Start(k, Request(op, o, asked, <<w>>)), row[o] # None, Plain(w)
  PROVE  SettledInv'
<1> DEFINE P == <<w>>
<1>1. DOMAIN P = {1} /\ P[1] = w /\ Start(k, Request(op, o, asked, P))
  BY OnePlan
<1> HIDE DEF P
<1> QED BY <1>1, PlainFits

LEMMA PlainTwo ==
  ASSUME WorkInv, SettledInv, NEW k \in Clerks, NEW o \in Orders, NEW op \in DeskOps, NEW asked, NEW v, NEW w,
         Start(k, Request(op, o, asked, <<v, w>>)), row[o] # None, Plain(v), Plain(w)
  PROVE  SettledInv'
<1> DEFINE P == <<v, w>>
<1>1. DOMAIN P = {1, 2} /\ P[1] = v /\ P[2] = w /\ Start(k, Request(op, o, asked, P))
  BY TwoPlan
<1> HIDE DEF P
<1> QED BY <1>1, PlainFits

LEMMA DeskRequestSettles ==
  ASSUME WorkInv, SettledInv, NEW k \in Clerks, NEW o \in Orders, DeskRequest(k, o)
  PROVE  SettledInv'
<1>0. {"user", "location", "terms", "bulk", "edit", "excel", "create", "label", "import"} \subseteq DeskOps
      /\ TablesOK
  BY DeskNames, InvParts
<1>1. ASSUME NEW s \in Statuses \cup {None}, UpdateStatus(k, o, s)
      PROVE  SettledInv'
  BY <1>1, UpdateStatusSettles
<1>2. ASSUME NEW form \in Assignments(o), UpdateUser(k, o, form)
      PROVE  SettledInv'
  <2>1. "status" \notin DOMAIN form
    BY FormValues
  <2>2. row[o] # None
    BY <1>2 DEF UpdateUser, Present
  <2>3. CASE Start(k, Request("user", o, DOMAIN form, <<Set(o, form)>>))
    BY <1>0, <2>1, <2>2, <2>3, PlainWrites, PlainOne
  <2>4. ASSUME NEW S, Start(k, Request("user", o, DOMAIN form, <<DateNumber(o, S), Set(o, form)>>))
        PROVE  SettledInv'
    BY <1>0, <2>1, <2>2, <2>4, PlainWrites, PlainTwo
  <2> QED BY <1>2, <2>3, <2>4 DEF UpdateUser
<1>3. CASE UpdateLocation(k, o)
  <2> DEFINE f == Column("stored", TRUE)
             v == DateNumber(o, {"WIP Storage"})
  <2>1. "status" \notin DOMAIN f
    BY DEF Column
  <2>2. row[o] # None /\ Start(k, Request("location", o, {"stored"}, <<v, Set(o, f)>>))
    BY <1>3 DEF UpdateLocation, Present
  <2>3. Plain(v) /\ Plain(Set(o, f))
    BY <2>1, PlainWrites
  <2> HIDE DEF f, v
  <2> QED BY <1>0, <2>2, <2>3, PlainTwo
<1>4. ASSUME NEW priority \in BOOLEAN, UpdateTerms(k, o, priority) \/ BulkAssignTerms(k, o, priority)
      PROVE  SettledInv'
  <2> DEFINE P == <<Set(o, Over(Prioritised(o, priority), NewTerms))>>
  <2>1. row[o] # None
    BY <1>4 DEF UpdateTerms, BulkAssignTerms, Present
  <2>2. Start(k, Request("terms", o, {"terms", "status"}, P))
        \/ Start(k, Request("bulk", o, {"terms", "status"}, P))
    BY <1>4 DEF UpdateTerms, BulkAssignTerms
  <2>3. Led(o, <<>>) => Led(o, P) /\ Made(o, P)
    BY <1>0, <2>1, PriorityLeads
  <2> HIDE DEF P
  <2>4. CASE Start(k, Request("terms", o, {"terms", "status"}, P))
    BY <1>0, <2>1, <2>3, <2>4, DeskFits
  <2>5. CASE Start(k, Request("bulk", o, {"terms", "status"}, P))
    BY <1>0, <2>1, <2>3, <2>5, DeskFits
  <2> QED BY <2>2, <2>4, <2>5
<1>5. ASSUME NEW form \in Assignments(o) \cup {Column("skipIssue", TRUE)}, BulkAssign(k, o, form)
      PROVE  SettledInv'
  <2> DEFINE w == [Set(o, form) EXCEPT !.byNumber = AssignmentStep(o, form)]
  <2>1. "status" \notin DOMAIN form
    BY FormValues
  <2>2. Plain(w)
    BY <2>1, PlainWrites
  <2>3. row[o] # None /\ Start(k, Request("bulk", o, DOMAIN form, <<w>>))
    BY <1>5 DEF BulkAssign, Present
  <2> HIDE DEF w
  <2> QED BY <1>0, <2>2, <2>3, PlainOne
<1>6. ASSUME NEW op \in {"edit", "bulk", "import"}, NEW asked,
             Start(k, Request(op, o, asked, <<Set(o, NewTerms)>>)), row[o] # None
      PROVE  SettledInv'
  <2>1. "status" \notin DOMAIN NewTerms
    BY DEF NewTerms, Column
  <2> QED BY <1>0, <1>6, <2>1, PlainWrites, PlainOne
<1>7. CASE BulkUpdatePriority(k, o) \/ SalesUpdate(k, o) \/ BulkUpdateDeliveryDate(k, o)
           \/ \E skip \in BOOLEAN : BulkUpdateSkipStage(k, o, skip)
  BY <1>6, <1>7 DEF BulkUpdatePriority, SalesUpdate, BulkUpdateDeliveryDate, BulkUpdateSkipStage, Present
<1>8. ASSUME NEW form \in Assignments(o) \cup {NewTerms, Column("stored", TRUE)}, ExcelImport(k, o, form)
      PROVE  SettledInv'
  <2> DEFINE S == IF "stored" \in DOMAIN form THEN {"WIP Storage"} ELSE {}
             f == ExcelData(o, form)
             w == [Set(o, f) EXCEPT !.byNumber = S]
  <2>1. row[o] # None /\ Start(k, Request("excel", o, DOMAIN form, <<w>>))
    BY <1>8 DEF ExcelImport, Present
  <2>2. "status" \notin DOMAIN form
    BY FormValues
  <2>3. "status" \notin DOMAIN f
    BY <2>2 DEF ExcelData, Over
  <2> HIDE DEF f, S
  <2>4. Plain(w)
    BY <2>3, PlainWrites
  <2> HIDE DEF w
  <2> QED BY <1>0, <2>1, <2>4, PlainOne
<1>9. CASE SalesCreate(k, o)
  <2> DEFINE v == [Blank(o) EXCEPT !.create = TRUE]
             w == NewSteps(o)
             P == <<v, w>>
  <2>1. DOMAIN P = {1, 2} /\ P[1] = v /\ P[2] = w
    BY TwoPlan
  <2>2. Plain(v) /\ v.create /\ Plain(w) /\ w.stepperRows
    <3>1. "status" \notin DOMAIN Nothing
      BY DEF Nothing
    <3> QED BY <3>1, PlainWrites
  <2>3. row[o] = None /\ Start(k, Request("create", o, Columns, P))
    BY <1>9 DEF SalesCreate, Present
  <2> HIDE DEF P, v, w
  <2> QED BY <1>0, <2>1, <2>2, <2>3, NewFits
<1>10. CASE LabelPrint(k, o)
  <2>1. "status" \notin DOMAIN Nothing
    BY DEF Nothing
  <2>2. row[o] # None /\ Start(k, Request("label", o, {}, <<RecordLabel(o), PrintLabel(o)>>))
    BY <1>10 DEF LabelPrint, LabelPlan, Present
  <2> QED BY <1>0, <2>1, <2>2, PlainWrites, PlainTwo
<1>11. CASE ImportOrder(k, o)
  <2> DEFINE w == [NewSteps(o) EXCEPT !.create = TRUE]
             P == <<w>>
  <2>1. DOMAIN P = {1} /\ P[1] = w
    BY OnePlan
  <2>2. Plain(w) /\ w.create /\ w.stepperRows
    <3>1. "status" \notin DOMAIN Nothing
      BY DEF Nothing
    <3> QED BY <3>1, PlainWrites
  <2>3. \/ row[o] # None /\ Start(k, Request("import", o, Columns, <<Set(o, NewTerms)>>))
        \/ row[o] = None /\ Start(k, Request("import", o, Columns, P))
    BY <1>11 DEF ImportOrder, ImportPlan, Present
  <2> HIDE DEF P, w
  <2> QED BY <1>0, <1>6, <2>1, <2>2, <2>3, NewFits
<1> QED BY <1>1, <1>2, <1>3, <1>4, <1>5, <1>7, <1>8, <1>9, <1>10, <1>11 DEF DeskRequest


-----------------------------------------------------------------------------
(***************************************************************************)
(* Where handhelds lead an order                                           *)
(***************************************************************************)

\* The writes Q do what the completion P of order o has to do.
Completes(o, P, Q) ==
  /\ P = <<>> => \A i \in DOMAIN Q : Plain(Q[i])
  /\ P \in IssuePlans(o) => Ends(o, Q, "W105") /\ Puts(Q, "Issued")
  /\ P \in PackPlans(o) => Ends(o, Q, "F105") /\ Puts(Q, "Packed")

\* An order is led where its completion says, and nothing that is complete is left out.
LEMMA CompletesLeads ==
  ASSUME TablesOK, NEW o \in Orders, row[o] # None, Led(o, <<>>), Scope(o) = {o}, NEW c, NEW Q,
         Completes(o, CompletionWrites(o, Reached(o), c), Q)
  PROVE  Led(o, Q) /\ Made(o, Q) /\ Finished(o, Q, c)
<1> DEFINE S == Reached(o)
           P == CompletionWrites(o, S, c)
<1>1. /\ P \in {<<>>} \cup IssuePlans(o) \cup PackPlans(o)
      /\ S # {} /\ Complete(S, c, "packed") => P \in PackPlans(o)
      /\ S # {} /\ Complete(S, c, "issued") /\ ~Complete(S, c, "packed") =>
           P \in IssuePlans(o) \/ (row[o].status \in {"W105", "F105"} /\ P = <<>>)
  <2>1. o \in Present
    BY DEF Present
  <2> HIDE DEF S
  <2> QED BY <2>1, CompletionShape
<1>6. HasRows(o) => S = MaterialsOf(o) /\ S # {}
  BY DEF Reached, HasRows, InTable, Present, MaterialsOf
<1> HIDE DEF P, S
<1>2. \A v : Puts(Q, v) => Done(o, Q, v)
  BY DEF Puts, Done
<1>3. None \notin Statuses /\ stepper[o] = Steps
  BY OrderTableAssumption, LedNow
<1>4. Led(o, Q)
  <2>1. CASE P = <<>>
    BY <2>1, LedPlain DEF Completes, P, S
  <2>2. CASE P \in IssuePlans(o)
    <3>1. Ends(o, Q, "W105") /\ Done(o, Q, "Issued")
      BY <1>2, <2>2 DEF Completes, P, S
    <3>2. Kept(o, Q, "W105")
      BY <1>3, <3>1 DEF Kept, Statuses
    <3> QED BY <3>1, <3>2 DEF Led, Statuses
  <2>3. CASE P \in PackPlans(o)
    <3>1. Ends(o, Q, "F105") /\ Done(o, Q, "Packed")
      BY <1>2, <2>3 DEF Completes, P, S
    <3>2. Kept(o, Q, "F105")
      BY <1>3, <3>1 DEF Kept, Statuses
    <3> QED BY <3>1, <3>2 DEF Led, Statuses
  <2> QED BY <1>1, <2>1, <2>2, <2>3
<1>5. Finished(o, Q, c)
  <2>1. S # {} /\ Complete(S, c, "packed") => Ends(o, Q, "F105") /\ Done(o, Q, "Packed")
    BY <1>1, <1>2 DEF Completes, P, S
  <2>2. ASSUME S # {}, Complete(S, c, "issued"), ~Complete(S, c, "packed")
        PROVE  Ends(o, Q, "W105") \/ Ends(o, Q, "F105")
    <3>1. CASE P \in IssuePlans(o)
      BY <3>1 DEF Completes, P, S
    <3>2. CASE row[o].status \in {"W105", "F105"} /\ P = <<>>
      <4>1. \A i \in DOMAIN Q : ~Sets(Q[i])
        BY <3>2 DEF Completes, P, S, Plain
      <4>2. Ends(o, Q, row[o].status)
        BY <4>1 DEF Ends, Status
      <4> QED BY <3>2, <4>2
    <3> QED BY <1>1, <2>2, <3>1, <3>2
  <2> QED BY <1>6, <2>1, <2>2 DEF Finished
<1> QED BY <1>4, <1>5 DEF Made

\* The completion itself, call by call.
LEMMA CompletionEnds ==
  ASSUME NEW o, NEW P \in {<<>>} \cup IssuePlans(o) \cup PackPlans(o)
  PROVE  Completes(o, P, P)
<1> DEFINE a == SetIssued(o)
           b == DateIssued(o)
           u == DateUnder(o)
           d == SetPacked(o)
           e == DatePacked(o)
<1>1. /\ Sets(a) /\ a.set["status"] = "W105" /\ a.clear = {}
      /\ Sets(d) /\ d.set["status"] = "F105" /\ d.clear = {}
  BY DEF SetIssued, SetPacked, Set, Blank, Sets, Column
<1>2. /\ ~Sets(b) /\ b.date = {"Issued"} /\ b.clear = {} /\ ~Sets(u) /\ u.clear = {}
      /\ ~Sets(e) /\ e.date = {"Packed"} /\ e.clear = {}
  BY DEF DateIssued, DateUnder, DatePacked, Date, Blank, Nothing, Sets
<1>3. IssuePlans(o) = {<<a, b>>, <<a, b, u>>}
      /\ PackPlans(o) = {<<d, e>>, <<a, b, d, e>>, <<a, b, u, d, e>>}
  BY DEF IssuePlans, PackPlans
<1> HIDE DEF a, b, u, d, e
<1>4. \A Q, i, s : i \in DOMAIN Q /\ Sets(Q[i]) /\ Q[i].set["status"] = s
                   /\ (\A j \in DOMAIN Q : j > i => ~Sets(Q[j])) => Ends(o, Q, s)
  BY DEF Ends
<1>5. \A Q, i, v : i \in DOMAIN Q /\ v \in Q[i].date /\ (\A j \in DOMAIN Q : Q[j].clear = {}) => Puts(Q, v)
  BY DEF Puts
<1>6. CASE P = <<>>
  <2>1. DOMAIN P = {}
    BY <1>6
  <2>2. P \notin IssuePlans(o) /\ P \notin PackPlans(o)
    BY <1>3, <1>6
  <2> QED BY <2>1, <2>2 DEF Completes
<1>7. CASE P = <<a, b>>
  <2>1. DOMAIN P = {1, 2} /\ P[1] = a /\ P[2] = b
    BY <1>7
  <2>2. P \notin PackPlans(o) /\ P # <<>>
    <3>1. a # d
      BY <1>1
    <3> QED BY <1>3, <1>7, <3>1
  <2>3. Ends(o, P, "W105")
    BY <1>1, <1>2, <1>4, <2>1
  <2>4. Puts(P, "Issued")
    BY <1>1, <1>2, <1>5, <2>1
  <2> QED BY <2>2, <2>3, <2>4 DEF Completes
<1>8. CASE P = <<a, b, u>>
  <2>1. DOMAIN P = {1, 2, 3} /\ P[1] = a /\ P[2] = b /\ P[3] = u
    BY <1>8
  <2>2. P \notin PackPlans(o) /\ P # <<>>
    BY <1>3, <1>8
  <2>3. Ends(o, P, "W105")
    BY <1>1, <1>2, <1>4, <2>1
  <2>4. Puts(P, "Issued")
    BY <1>1, <1>2, <1>5, <2>1, SMTT(40)
  <2> QED BY <2>2, <2>3, <2>4 DEF Completes
<1>9. CASE P = <<d, e>>
  <2>1. DOMAIN P = {1, 2} /\ P[1] = d /\ P[2] = e
    BY <1>9
  <2>2. P \notin IssuePlans(o) /\ P # <<>>
    <3>1. a # d
      BY <1>1
    <3> QED BY <1>3, <1>9, <3>1
  <2>3. Ends(o, P, "F105")
    BY <1>1, <1>2, <1>4, <2>1
  <2>4. Puts(P, "Packed")
    BY <1>1, <1>2, <1>5, <2>1
  <2> QED BY <2>2, <2>3, <2>4 DEF Completes
<1>10. CASE P = <<a, b, d, e>>
  <2>1. DOMAIN P = {1, 2, 3, 4} /\ P[1] = a /\ P[2] = b /\ P[3] = d /\ P[4] = e
    BY <1>10
  <2>2. P \notin IssuePlans(o) /\ P # <<>>
    BY <1>3, <1>10
  <2>3. Ends(o, P, "F105")
    BY <1>1, <1>2, <1>4, <2>1
  <2>4. Puts(P, "Packed")
    <3>1. \A j \in DOMAIN P : P[j].clear = {}
      BY <1>1, <1>2, <2>1
    <3> QED BY <1>2, <1>5, <2>1, <3>1
  <2> QED BY <2>2, <2>3, <2>4 DEF Completes
<1>11. CASE P = <<a, b, u, d, e>>
  <2>1. DOMAIN P = {1, 2, 3, 4, 5} /\ P[1] = a /\ P[2] = b /\ P[3] = u /\ P[4] = d /\ P[5] = e
    BY <1>11
  <2>2. P \notin IssuePlans(o) /\ P # <<>>
    BY <1>3, <1>11
  <2>3. Ends(o, P, "F105")
    <3>1. \A j \in DOMAIN P : j > 4 => ~Sets(P[j])
      BY <1>2, <2>1
    <3> QED BY <1>1, <1>4, <2>1, <3>1
  <2>4. Puts(P, "Packed")
    <3>1. \A j \in DOMAIN P : P[j].clear = {}
      BY <1>1, <1>2, <2>1
    <3> QED BY <1>2, <1>5, <2>1, <3>1
  <2> QED BY <2>2, <2>3, <2>4 DEF Completes
<1> QED BY <1>3, <1>6, <1>7, <1>8, <1>9, <1>10, <1>11

\* ... and all of it as one write.
LEMMA AsOneEnds ==
  ASSUME NEW o, NEW P \in {<<>>} \cup IssuePlans(o) \cup PackPlans(o),
         NEW w, w.set = LastStatus(P), w.date = Dated(P), w.clear = {}
  PROVE  Completes(o, P, <<w>>)
<1> DEFINE Q == <<w>>
<1>1. DOMAIN Q = {1} /\ Q[1] = w
  BY OnePlan
<1> HIDE DEF Q
<1>2. CASE P = <<>>
  <2>1. ~Sets(w) /\ w.date = {}
    BY <1>2, CompletionAsOne DEF Sets, Nothing
  <2>2. Plain(w)
    BY <2>1 DEF Plain
  <2>3. P \notin IssuePlans(o) /\ P \notin PackPlans(o)
    BY <1>2 DEF IssuePlans, PackPlans
  <2> QED BY <1>1, <2>2, <2>3 DEF Completes, Q
<1>3. ASSUME NEW s, w.set = Column("status", s)
      PROVE  Ends(o, Q, s)
  <2>1. Sets(w) /\ w.set["status"] = s
    BY <1>3 DEF Sets, Column
  <2> QED BY <1>1, <2>1 DEF Ends
<1>4. \A v : v \in w.date => Puts(Q, v)
  BY <1>1 DEF Puts
<1>5. P \in IssuePlans(o) => Ends(o, Q, "W105") /\ Puts(Q, "Issued")
  BY <1>3, <1>4, CompletionAsOne
<1>6. P \in PackPlans(o) => Ends(o, Q, "F105") /\ Puts(Q, "Packed")
  BY <1>3, <1>4, CompletionAsOne
<1>7. CASE P # <<>>
  BY <1>5, <1>6, <1>7 DEF Completes, Q
<1> QED BY <1>2, <1>7


LEMMA DownloadSettles ==
  ASSUME WorkInv, SettledInv, NEW k \in Clerks, NEW o \in Orders, HandheldRequest(k, o)
  PROVE  SettledInv'
<1>1. PICK access \in Access, u \in Users : Download(k, access, u, o)
  BY DEF HandheldRequest
<1>2. PICK S \in SUBSET {m \in Materials : InTable(m)} : \E c \in Scanned([m \in S |-> count[m]]) :
        Start(k, [Idle EXCEPT !.op = "copy", !.order = o, !.user = u, !.asked = {access},
                              !.copy = c, !.of = [p \in {OrderOf[m] : m \in S} |-> epoch[p]]])
  BY <1>1 DEF Download
<1>3. PICK c \in Scanned([m \in S |-> count[m]]) :
        Start(k, [Idle EXCEPT !.op = "copy", !.order = o, !.user = u, !.asked = {access},
                              !.copy = c, !.of = [p \in {OrderOf[m] : m \in S} |-> epoch[p]]])
  BY <1>2
<1> DEFINE q == [Idle EXCEPT !.op = "copy", !.order = o, !.user = u, !.asked = {access},
                             !.copy = c, !.of = [p \in {OrderOf[m] : m \in S} |-> epoch[p]]]
<1>4. q.op = "copy" /\ q.order = o /\ q.plan = <<>> /\ q # Idle
  BY IdleFields DEF Idle
<1> HIDE DEF q
<1>5. row[o] # None
  BY <1>1 DEF Download, MayAccess, Present
<1>6. row[o] # None /\ Led(o, <<>>) => Fits(o, q)
  BY <1>4 DEF Fits, Sees, Made
<1> QED BY <1>3, <1>4, <1>5, <1>6, StartSettles DEF q

\* A request alone on its order goes on, or ends, without a write.
LEMMA GoesOnSettles ==
  ASSUME WorkInv, SettledInv, NEW k \in Clerks, NEW q, req' = [req EXCEPT ![k] = q], UNCHANGED table,
         req[k] # Idle, q # Idle => q.order = req[k].order,
         \/ mixed \subseteq mixed' /\ (req[k].order \notin mixed /\ Fits(req[k].order, req[k]) =>
              (q # Idle => Fits(req[k].order, q)) /\ (q = Idle => Led(req[k].order, <<>>)))
         \/ mixed' = mixed \cup Siblings(req[k].order)
  PROVE  SettledInv'
<1> DEFINE o == req[k].order
<1>1. o \in Orders
  BY InvParts DEF RequestOK
<1>2. o \in Siblings(o)
  BY <1>1 DEF Siblings
<1>3. ASSUME o \notin mixed
      PROVE  Fits(o, req[k]) /\ \A c \in Clerks \ {k} : ~On(c, o)
  <2>1. Settled(o) /\ On(k, o)
    BY <1>1, <1>3 DEF SettledInv, On
  <2>2. PICK r : r = req[k]
    OBVIOUS
  <2>3. Fits(o, r) /\ \A c \in Clerks : On(c, o) => c = k
    BY <2>1, <2>2 DEF Settled
  <2> QED BY <2>2, <2>3
<1>4. o \notin mixed' =>
        /\ q # Idle => Fits(o, q) /\ \A c \in Clerks \ {k} : ~On(c, o)
        /\ q = Idle /\ (\A c \in Clerks \ {k} : ~On(c, o)) /\ row[o] # None => Led(o, <<>>)
  BY <1>2, <1>3
<1>5. mixed \subseteq mixed'
  OBVIOUS
<1> QED BY <1>1, <1>4, <1>5, ReplaceSettles

LEMMA SendSettles ==
  ASSUME WorkInv, SettledInv, NEW k \in Active, NEW op \in {"sync", "data"}, NEW by, Send(k, op, by)
  PROVE  SettledInv'
<1> DEFINE q == req[k]
           r == [q EXCEPT !.op = op, !.by = by, !.left = DOMAIN q.copy]
<1>1. k \in Clerks /\ q # Idle /\ RequestOK(q) /\ q.op = "copy" /\ DOMAIN q = Fields
      /\ UNCHANGED table /\ mixed \subseteq mixed'
  BY InvParts DEF Active, Send
<1>2. req' = [req EXCEPT ![k] = r] \/ req' = [req EXCEPT ![k] = Idle]
  BY DEF Send
<1>3. r.op = op /\ r.order = q.order /\ r.plan = q.plan
  BY <1>1 DEF Fields
<1> HIDE DEF r
<1>4. q.plan = <<>>
  BY <1>1 DEF RequestOK, CopyOK, HandheldOps
<1>5. Fits(q.order, q) => Fits(q.order, r) /\ Led(q.order, <<>>)
  BY <1>1, <1>3, <1>4 DEF Fits, Sees
<1>6. r # Idle
  BY <1>3, IdleFields
<1>7. CASE req' = [req EXCEPT ![k] = r]
  BY <1>1, <1>3, <1>5, <1>6, <1>7, GoesOnSettles
<1>8. CASE req' = [req EXCEPT ![k] = Idle]
  BY <1>1, <1>5, <1>8, GoesOnSettles
<1> QED BY <1>2, <1>7, <1>8

\* What Check and the reading of a transaction find.
LEMMA AloneSees ==
  ASSUME WorkInv, ForeignMixed, NEW k \in Clerks, req[k] # Idle, req[k].op \in Handheld, req[k].plan = <<>>,
         req[k].order \notin mixed, Fits(req[k].order, req[k])
  PROVE  LET o == req[k].order IN
         /\ TablesOK /\ o \in Orders /\ row[o] # None /\ Led(o, <<>>)
         /\ Scope(o) = {o} /\ Found(o) = {o}
<1>1. TablesOK /\ req[k].order \in Orders
  BY InvParts DEF RequestOK
<1>2. Scope(req[k].order) = {req[k].order} /\ Found(req[k].order) = {req[k].order}
  BY <1>1, AloneTargets
<1> QED BY <1>1, <1>2, EmptyPlan DEF Fits, Made

LEMMA CheckSettles ==
  ASSUME WorkInv, SettledInv, ForeignMixed, NEW k \in Active, Check(k)
  PROVE  SettledInv'
<1>0. PICK p \in Found(req[k].order) :
        LET writes == CompletionWrites(p, Reached(req[k].order), count) IN
        req' = [req EXCEPT ![k] = IF writes = <<>> THEN Idle ELSE [@ EXCEPT !.plan = writes]]
  BY DEF Check
<1> DEFINE q == req[k]
           o == q.order
           P == CompletionWrites(p, Reached(o), count)
           r == [q EXCEPT !.plan = P]
<1>1. k \in Clerks /\ q # Idle /\ q.op = "data" /\ q.plan = <<>> /\ DOMAIN q = Fields
      /\ UNCHANGED table /\ mixed' = mixed
  BY InvParts DEF Active, Check
<1>2. req' = [req EXCEPT ![k] = r] \/ req' = [req EXCEPT ![k] = Idle]
  BY <1>0
<1>3. r.op = "data" /\ r.order = o /\ r.plan = P
  BY <1>1 DEF Fields
<1>4. P \in {<<>>} \cup IssuePlans(p) \cup PackPlans(p)
  BY CompletionShape
<1>5. \A i \in DOMAIN P : DOMAIN P[i].counts = {}
  <2>1. \A i \in DOMAIN P :
          P[i] \in {SetIssued(p), DateIssued(p), DateUnder(p), SetPacked(p), DatePacked(p)}
    BY <1>4, CompletionPlan
  <2> QED BY <2>1, CompletionWrite
<1>6. Completes(p, P, P)
  BY <1>4, CompletionEnds
<1> HIDE DEF r
<1>7. ASSUME o \notin mixed, Fits(o, q)
      PROVE  Fits(o, r) /\ Led(o, <<>>)
  <2>1. /\ TablesOK /\ o \in Orders /\ row[o] # None /\ Led(o, <<>>)
        /\ Scope(o) = {o} /\ Found(o) = {o}
    BY <1>1, <1>7, AloneSees DEF Handheld
  <2>2. p = o
    BY <2>1
  <2>3. Led(o, P) /\ Made(o, P) /\ Finished(o, P, count)
    BY <1>6, <2>1, <2>2, CompletesLeads
  <2>4. Sees(o, r)
    BY <1>3, <1>5, <2>3 DEF Sees
  <2> QED BY <1>3, <2>1, <2>3, <2>4 DEF Fits
<1>8. r # Idle
  BY <1>3, IdleFields
<1> HIDE DEF P
<1>9. CASE req' = [req EXCEPT ![k] = r]
  BY <1>1, <1>3, <1>7, <1>8, <1>9, GoesOnSettles
<1>10. CASE req' = [req EXCEPT ![k] = Idle]
  BY <1>1, <1>7, <1>10, GoesOnSettles
<1> QED BY <1>2, <1>9, <1>10

LEMMA SyncReadSettles ==
  ASSUME WorkInv, SettledInv, ForeignMixed, NEW k \in Active, SyncRead(k)
  PROVE  SettledInv'
<1>0. PICK src \in Sources(k, DOMAIN req[k].copy), p \in Found(req[k].order) :
        LET v == Counting(k, src)
            ws == CompletionWrites(p, Reached(req[k].order), Over(v.counts, count)) IN
        IF Possible(v)
        THEN /\ req' = [req EXCEPT ![k].plan = <<[v EXCEPT !.order = p, !.set = LastStatus(ws), !.date = Dated(ws)]>>,
                                   ![k].left = {}]
             /\ UNCHANGED mixed
        ELSE req' = [req EXCEPT ![k] = Idle] /\ mixed' = mixed \cup Siblings(req[k].order)
  BY DEF SyncRead
<1> DEFINE q == req[k]
           o == q.order
           v == Counting(k, src)
           c == Over(v.counts, count)
           ws == CompletionWrites(p, Reached(o), c)
           w == [v EXCEPT !.order = p, !.set = LastStatus(ws), !.date = Dated(ws)]
           r == [q EXCEPT !.plan = <<w>>, !.left = {}]
<1>1. k \in Clerks /\ q # Idle /\ q.op = "sync" /\ q.plan = <<>> /\ DOMAIN q = Fields
      /\ UNCHANGED table
  BY InvParts DEF Active, SyncRead
<1>2. \/ req' = [req EXCEPT ![k] = r] /\ UNCHANGED mixed
      \/ req' = [req EXCEPT ![k] = Idle] /\ mixed' = mixed \cup Siblings(o)
  BY <1>0, <1>1
<1>3. r.op = "sync" /\ r.order = o /\ r.plan = <<w>>
  BY <1>1 DEF Fields
<1>4. ws \in {<<>>} \cup IssuePlans(p) \cup PackPlans(p)
  BY CompletionShape
<1>5. w.set = LastStatus(ws) /\ w.date = Dated(ws) /\ w.clear = {} /\ w.counts = v.counts
  BY DEF Counting, Blank
<1> HIDE DEF r, w
<1>6. Completes(p, ws, <<w>>)
  BY <1>4, <1>5, AsOneEnds
<1>7. ASSUME o \notin mixed, Fits(o, q)
      PROVE  Fits(o, r)
  <2>1. /\ TablesOK /\ o \in Orders /\ row[o] # None /\ Led(o, <<>>)
        /\ Scope(o) = {o} /\ Found(o) = {o}
    BY <1>1, <1>7, AloneSees DEF Handheld
  <2>2. p = o
    BY <2>1
  <2>3. c = Over(w.counts, count)
    BY <1>5
  <2> HIDE DEF c
  <2>4. Led(o, <<w>>) /\ Made(o, <<w>>) /\ Finished(o, <<w>>, c)
    BY <1>6, <2>1, <2>2, CompletesLeads
  <2>5. Len(<<w>>) = 1 /\ <<w>>[1] = w
    OBVIOUS
  <2>6. Sees(o, r)
    BY <1>3, <2>3, <2>4, <2>5 DEF Sees
  <2> QED BY <1>3, <2>4, <2>6 DEF Fits
<1>8. r # Idle
  BY <1>3, IdleFields
<1> HIDE DEF v, c, ws
<1>9. CASE req' = [req EXCEPT ![k] = r] /\ UNCHANGED mixed
  BY <1>1, <1>3, <1>7, <1>8, <1>9, GoesOnSettles
<1>10. CASE req' = [req EXCEPT ![k] = Idle] /\ mixed' = mixed \cup Siblings(o)
  BY <1>1, <1>10, GoesOnSettles
<1> QED BY <1>2, <1>9, <1>10


\* After the write that a handheld is about to make, a stage that is complete is completed.
LEMMA FinishedStep ==
  ASSUME WorkInv, NEW k \in Clerks, req[k] # Idle, req[k].op \in {"sync", "data"}, req[k].plan # <<>>,
         NEW o, o = req[k].order, NEW w, w = Head(req[k].plan), NEW T, T = Tail(req[k].plan),
         Fits(o, req[k]), WriteOK(w, o), Possible(w), Perform(w)
  PROVE  Finished(o, T, count)'
<1> DEFINE P == req[k].plan
<1>1. TablesOK /\ o \in Orders /\ IsPlan(P) /\ P # <<>> /\ PlanOK(req[k])
  BY InvParts DEF RequestOK, PlanOK
<1>2. 1 \in DOMAIN P /\ w = P[1]
  BY <1>1, RestOfPlan
<1>3. HasRows(o)' => HasRows(o) /\ MaterialsOf(o)' = MaterialsOf(o)
  <2>1. (row[o] # None => row'[o].imported = row[o].imported) /\ (row[o] = None /\ row'[o] # None => ~row'[o].imported)
    BY <1>1, PerformEffect
  <2> QED BY <2>1 DEF HasRows, MaterialsOf
<1>4. Sees(o, req[k])
  BY DEF Fits
<1>5. /\ \A s : Ends(o, P, s) => Ends(o, T, s)'
      /\ \A v \in Milestones : Done(o, P, v) => Done(o, T, v)'
  BY <1>1, <1>2, LedStep
<1>6. ASSUME NEW c, Finished(o, P, c), HasRows(o)' => \A m \in MaterialsOf(o) : count'[m] = c[m]
      PROVE  Finished(o, T, count)'
  <2> SUFFICES ASSUME HasRows(o)' PROVE Finished(o, T, count)'
    BY DEF Finished
  <2>1. \A stage : Complete(MaterialsOf(o), count, stage)' => Complete(MaterialsOf(o), c, stage)
    BY <1>3, <1>6 DEF Complete
  <2>2. Complete(MaterialsOf(o), c, "packed") => Ends(o, T, "F105")' /\ Done(o, T, "Packed")'
    BY <1>3, <1>5, <1>6 DEF Finished, Milestones
  <2>3. Complete(MaterialsOf(o), c, "issued") => Ends(o, T, "W105")' \/ Ends(o, T, "F105")'
    BY <1>3, <1>5, <1>6 DEF Finished
  <2> QED BY <2>1, <2>2, <2>3 DEF Finished
<1>7. count' = [m \in Materials |-> IF m \in SetMaterials(w) THEN w.counts[m] ELSE count[m]]
      /\ SetMaterials(w) \subseteq DOMAIN w.counts /\ MaterialsOf(o) \subseteq Materials
  BY <1>1, PerformEffect DEF MaterialsOf
<1>8. HasRows(o) => \A m \in MaterialsOf(o) : m \in SetMaterials(w) <=> m \in DOMAIN w.counts
  BY <1>1 DEF HasRows, SetMaterials, MaterialsOf, InTable, Present
<1>9. CASE req[k].op = "data"
  <2>1. Finished(o, P, count) /\ DOMAIN w.counts = {}
    BY <1>2, <1>4, <1>9 DEF Sees
  <2>2. \A m \in MaterialsOf(o) : count'[m] = count[m]
    BY <1>7, <2>1
  <2>3. PICK c : c = count
    OBVIOUS
  <2> QED BY <1>6, <2>1, <2>2, <2>3
<1>10. CASE req[k].op = "sync"
  <2>1. Finished(o, P, Over(w.counts, count))
    BY <1>2, <1>4, <1>10 DEF Sees
  <2>2. PICK c : c = Over(w.counts, count)
    OBVIOUS
  <2>3. DOMAIN count = Materials
    BY <1>1 DEF TablesOK
  <2>4. \A m \in Materials : c[m] = IF m \in DOMAIN w.counts THEN w.counts[m] ELSE count[m]
    BY <2>2, <2>3 DEF Over
  <2>5. HasRows(o)' => \A m \in MaterialsOf(o) : count'[m] = c[m]
    BY <1>3, <1>7, <1>8, <2>4
  <2> QED BY <1>6, <2>1, <2>2, <2>5
<1> QED BY <1>9, <1>10

\* A request alone on its order makes its next write.
LEMMA NextWriteSettles ==
  ASSUME WorkInv, WorkInv', SettledInv, ForeignMixed, NEW k \in Active, Write(k)
  PROVE  SettledInv'
<1> DEFINE P == req[k].plan
<1>1. k \in Clerks /\ req[k] # Idle /\ RequestOK(req[k]) /\ DOMAIN req[k] = Fields /\ TablesOK
      /\ TablesOK' /\ PlanOK(req[k]) /\ IsPlan(P) /\ P # <<>> /\ req[k].order \in Orders
  BY InvParts DEF Active, Write, RequestOK, PlanOK, WorkInv, WorkTypeOK
<1>2. 1 \in DOMAIN P /\ Head(P) = P[1] /\ (Tail(P) = <<>> <=> Len(P) = 1)
  BY <1>1, RestOfPlan
<1>3. Head(P).order \in Targets(req[k]) /\ WriteOK(Head(P), Head(P).order)
  BY <1>1, <1>2 DEF PlanOK
<1>4. CASE ~Possible(Head(P))
  <2>1. req' = [req EXCEPT ![k] = Idle] /\ UNCHANGED table /\ mixed' = mixed \cup Siblings(req[k].order)
    BY <1>4 DEF Write
  <2> QED BY <1>1, <2>1, GoesOnSettles
<1>5. CASE Possible(Head(P))
  <2>1. PICK w : w = Head(P)
    OBVIOUS
  <2>2. PICK o : o = req[k].order
    OBVIOUS
  <2>3. PICK T : T = Tail(P)
    OBVIOUS
  <2>4. PICK r : r = Rest(req[k])
    OBVIOUS
  <2>5. Perform(w) /\ Possible(w) /\ req' = Noted(k, r) /\ mixed' = mixed /\ o \in Orders /\ w = P[1]
        /\ w.order \in Targets(req[k]) /\ WriteOK(w, w.order)
    BY <1>1, <1>2, <1>3, <1>5, <2>1, <2>2, <2>4 DEF Write
  <2>6. MakesWrite(k, w) /\ (o \notin mixed => WriteOK(w, o))
    <3>1. o \notin mixed => w.order = o
      BY <1>1, <2>2, <2>5, AloneTargets
    <3> QED BY <1>2, <2>2, <2>5, <3>1 DEF MakesWrite
  <2>7. /\ Len(P) = 1 => r = Idle /\ T = <<>>
        /\ Len(P) # 1 => r.op = req[k].op /\ r.order = o /\ r.plan = T
    BY <1>1, <1>2, <2>2, <2>3, <2>4 DEF Rest, Fields
  <2>8. Len(P) # 1 => r # Idle
    BY <1>2, <2>3, <2>7, IdleFields
  <2>9. ASSUME o \notin mixed
        PROVE  Fits(o, req[k])
    <3>1. Settled(o) /\ On(k, o)
      BY <1>1, <2>2, <2>5, <2>9 DEF SettledInv, On
    <3>2. PICK q : q = req[k]
      OBVIOUS
    <3>3. Fits(o, q)
      BY <1>1, <3>1, <3>2 DEF Settled
    <3> QED BY <3>2, <3>3
  <2>10. ASSUME o \notin mixed
         PROVE  Led(o, T)' /\ Made(o, T)'
    <3>1. Led(o, P) /\ Made(o, P)
      BY <2>9, <2>10 DEF Fits
    <3> QED BY <1>1, <2>3, <2>5, <2>6, <2>10, <3>1, LedStep
  <2>11. ASSUME o \notin mixed, Len(P) # 1
         PROVE  Sees(o, r)'
    <3>1. CASE req[k].op \notin Handheld
      BY <2>7, <2>11, <3>1 DEF Sees, Handheld
    <3>2. CASE req[k].op \in Handheld
      <4>1. Sees(o, req[k])
        BY <2>9, <2>11 DEF Fits
      <4>2. req[k].op = "data"
        BY <1>1, <2>11, <3>2, <4>1 DEF Sees, Handheld
      <4>3. Finished(o, T, count)'
        BY <1>1, <2>1, <2>2, <2>3, <2>5, <2>6, <2>9, <2>11, <4>2, FinishedStep
      <4>4. \A i \in DOMAIN P : DOMAIN P[i].counts = {}
        BY <1>1, <4>1, <4>2 DEF Sees
      <4>5. \A i \in DOMAIN T : DOMAIN T[i].counts = {}
        BY <1>1, <2>3, <4>4, RestOfPlan
      <4> QED BY <2>7, <2>11, <4>2, <4>3, <4>5 DEF Sees
    <3> QED BY <3>1, <3>2
  <2>12. o \notin mixed => (r # Idle => Fits(o, r)') /\ (r = Idle => Led(o, <<>>)')
    <3>1. CASE Len(P) = 1
      BY <2>7, <2>10, <3>1
    <3>2. CASE Len(P) # 1
      BY <2>7, <2>8, <2>10, <2>11, <3>2 DEF Fits
    <3> QED BY <3>1, <3>2
  <2> QED BY <1>1, <2>2, <2>5, <2>6, <2>7, <2>8, <2>12, WriteSettles
<1> QED BY <1>4, <1>5

LEMMA WriteMaterialSettles ==
  ASSUME WorkInv, WorkInv', SettledInv, ForeignMixed, NEW k \in Active, NEW m \in req[k].left, WriteMaterial(k, m)
  PROVE  SettledInv'
<1>0. PICK src \in Sources(k, {m}) :
        LET w == Counting(k, src) IN
        IF Possible(w)
        THEN Perform(w) /\ req' = Noted(k, [req[k] EXCEPT !.left = @ \ {m}]) /\ UNCHANGED mixed
        ELSE /\ req' = [req EXCEPT ![k] = Idle]
             /\ mixed' = mixed \cup Siblings(req[k].order)
             /\ UNCHANGED table
  BY DEF WriteMaterial
<1>1. k \in Clerks /\ req[k] # Idle /\ RequestOK(req[k]) /\ DOMAIN req[k] = Fields /\ TablesOK
      /\ TablesOK' /\ req[k].order \in Orders /\ req[k].op = "data" /\ CopyOK(req[k])
      /\ m \in DOMAIN req[k].copy /\ req[k].plan = <<>>
  BY InvParts DEF Active, WriteMaterial, RequestOK, HandheldOps, CopyOK, WorkInv, WorkTypeOK
<1>2. /\ WriteOK(Counting(k, src), req[k].order) /\ DOMAIN Counting(k, src).set = {}
      /\ ~Counting(k, src).create
      /\ \A x \in DOMAIN Counting(k, src).counts : SentFor(req[k], x, Counting(k, src).counts[x])
  BY <1>1, CountingWrite DEF Handheld
<1>3. CASE ~Possible(Counting(k, src))
  <2>1. req' = [req EXCEPT ![k] = Idle] /\ UNCHANGED table /\ mixed' = mixed \cup Siblings(req[k].order)
    BY <1>0, <1>3
  <2> QED BY <1>1, <2>1, GoesOnSettles
<1>4. CASE Possible(Counting(k, src))
  <2>1. PICK w : w = Counting(k, src)
    OBVIOUS
  <2>2. PICK o : o = req[k].order
    OBVIOUS
  <2>3. PICK r : r = [req[k] EXCEPT !.left = @ \ {m}]
    OBVIOUS
  <2>4. Perform(w) /\ Possible(w) /\ req' = Noted(k, r) /\ mixed' = mixed /\ WriteOK(w, o) /\ o \in Orders
    BY <1>0, <1>1, <1>2, <1>4, <2>1, <2>2, <2>3
  <2>5. MakesWrite(k, w)
    <3>1. w.order = o /\ o \in Targets(req[k])
      BY <1>1, <2>2, <2>4 DEF WriteOK, Targets, Scope, Siblings
    <3> QED BY <1>1, <1>2, <2>1, <2>2, <2>4, <3>1 DEF MakesWrite
  <2>6. r.op = "data" /\ r.order = o /\ r.plan = <<>>
    BY <1>1, <2>2, <2>3 DEF Fields
  <2>7. r # Idle
    BY <2>6, IdleFields
  <2>8. w.date = {} /\ w.clear = {} /\ w.byNumber = {} /\ ~w.stepperRows /\ DOMAIN w.set = {}
    BY <1>2, <2>1 DEF Counting, Blank
  <2>9. ASSUME o \notin mixed
        PROVE  Fits(o, r)'
    <3>1. Settled(o) /\ On(k, o)
      BY <1>1, <2>2, <2>4, <2>9 DEF SettledInv, On
    <3>2. Fits(o, req[k])
      <4>1. PICK q : q = req[k]
        OBVIOUS
      <4>2. Fits(o, q)
        BY <1>1, <3>1, <4>1 DEF Settled
      <4> QED BY <4>1, <4>2
    <3>3. row[o] # None /\ Led(o, <<>>)
      BY <1>1, <2>2, <2>9, <3>2, AloneSees DEF Handheld
    <3>4. row'[o] = row[o]
      <4>1. row[o] \in SalesOrder /\ row'[o] = Over(w.set, row[o])
        BY <1>1, <2>4, <3>3, PerformEffect DEF TablesOK
      <4> QED BY <2>8, <4>1, OverRow
    <3>5. stepper'[o] = stepper[o] /\ dated'[o] = dated[o]
      <4>1. (~w.stepperRows => stepper'[o] = stepper[o] \cup w.date)
            /\ dated'[o] = ((dated[o] \cup w.date) \ w.clear) \cup
                           (IF o \in Siblings(o) THEN w.byNumber \cap stepper[o] ELSE {})
        BY <1>1, <2>4, PerformEffect
      <4> QED BY <2>8, <4>1
    <3>6. Led(o, <<>>)'
      BY <2>4, <3>3, <3>4, <3>5, LedQuiet
    <3>7. Sees(o, r)' /\ Made(o, <<>>)'
      BY <2>6, <3>3, <3>4 DEF Sees, Made
    <3> QED BY <2>6, <3>6, <3>7 DEF Fits
  <2> QED BY <1>1, <2>2, <2>4, <2>5, <2>6, <2>7, <2>9, WriteSettles
<1> QED BY <1>3, <1>4


-----------------------------------------------------------------------------
(***************************************************************************)
(* The other steps, and where they leave an order                          *)
(***************************************************************************)

LEMMA LedAfter ==
  ASSUME NEW o \in Orders, row'[o] # None, stepper'[o] = Steps,
         row'[o].status \in Statuses \cup {None},
         row'[o].status \in {None, "R105"} => \A v \in Milestones : v \notin dated'[o],
         row'[o].status = "W105" => "Issued" \in dated'[o],
         row'[o].status = "F105" => "Packed" \in dated'[o],
         row'[o].status = "Dispatched" => "Dispatched" \in dated'[o]
  PROVE  Led(o, <<>>)'
<1>1. PICK s : s = row'[o].status
  OBVIOUS
<1>2. Ends(o, <<>>, s)'
  BY <1>1, EmptyPlan DEF Ends, Status
<1>3. \A v : (v \in dated'[o] => Done(o, <<>>, v)') /\ (v \notin dated'[o] => Undone(o, <<>>, v)')
  BY EmptyPlan DEF Done, Undone
<1>4. Kept(o, <<>>, s)'
  BY <1>1, <1>3 DEF Kept
<1> QED BY <1>1, <1>2, <1>4 DEF Led

\* A request that is one call, or one transaction.
LEMMA AtOnceSettles ==
  ASSUME WorkInv, TablesOK', SettledInv, NEW o \in Orders, AtOnce(o), \A p \in Orders \ {o} : Quiet(p),
         row'[o] # None /\ (row[o] # None => Led(o, <<>>)) => Led(o, <<>>)'
  PROVE  SettledInv'
<1>1. TablesOK /\ DOMAIN req = Clerks /\ None \notin Clerks
      /\ req' = Noted(None, Idle) /\ mixed' = Overlapping(o)
  BY InvParts, OrderTableAssumption DEF AtOnce
<1>2. ASSUME NEW c \in Clerks
      PROVE  (req'[c] = Idle <=> req[c] = Idle) /\ Same(req[c], req'[c])
  BY <1>1, NotedSame
<1>3. \A p \in Orders : SameRequests(p)
  BY <1>2 DEF SameRequests, On, Same
<1>4. mixed \subseteq mixed'
  BY <1>1 DEF Overlapping
<1>5. ASSUME NEW p \in Orders, p # o, p \notin mixed'
      PROVE  Settled(p)'
  <2>1. Settled(p) /\ Quiet(p) /\ SameRequests(p)
    BY <1>3, <1>4, <1>5 DEF SettledInv
  <2> QED BY <1>1, <2>1, SettledFrame
<1>6. ASSUME o \notin mixed'
      PROVE  Settled(o)'
  <2>1. \A c \in Clerks : ~On(c, o)
    <3>1. o \in Siblings(o)
      BY DEF Siblings
    <3> QED BY <1>1, <1>6, <3>1 DEF Overlapping, ActiveOn, Active, On
  <2>2. row[o] # None => Led(o, <<>>)
    BY <1>4, <1>6, <2>1 DEF SettledInv, Settled
  <2>3. \A c \in Clerks : ~On(c, o)'
    BY <1>3, <2>1 DEF SameRequests
  <2>4. row'[o] # None => Led(o, <<>>)'
    BY <2>2
  <2> QED BY <2>3, <2>4 DEF Settled
<1> QED BY <1>5, <1>6 DEF SettledInv

LEMMA AtOnceRequestSettles ==
  ASSUME WorkInv, TablesOK', SettledInv, NEW o \in Orders, AtOnceRequest(o)
  PROVE  SettledInv'
<1>1. TablesOK /\ row \in [Orders -> SalesOrder \cup {None}] /\ count \in [Materials -> Counts]
      /\ stepper \in [Orders -> SUBSET Steps] /\ dated \in [Orders -> SUBSET Steps] /\ DOMAIN epoch = Orders
  BY InvParts DEF TablesOK
<1>2. \A p \in Orders \ {o} : \A m \in MaterialsOf(p) : m \in Materials /\ OrderOf[m] # o
  BY DEF MaterialsOf
<1>3. CASE RemoveOrder(o) \/ SalesRemove(o)
  <2>1. Vanish(o) /\ AtOnce(o)
    BY <1>3 DEF RemoveOrder, SalesRemove
  <2>2. \A p \in Orders \ {o} : Quiet(p)
    BY <1>1, <1>2, <2>1 DEF Vanish, Quiet
  <2>3. row'[o] = None
    BY <1>1, <2>1 DEF Vanish
  <2> QED BY <2>1, <2>2, <2>3, AtOnceSettles
<1>4. CASE Reprint(o)
  <2>1. UNCHANGED <<row, stepper, dated, count, epoch>> /\ AtOnce(o)
    BY <1>4 DEF Reprint
  <2>2. \A p \in Orders : Quiet(p)
    BY <2>1 DEF Quiet
  <2>3. Led(o, <<>>) => Led(o, <<>>)'
    BY <2>1, LedQuiet
  <2> QED BY <2>1, <2>2, <2>3, AtOnceSettles
<1>5. CASE ResetOrder(o)
  <2>1. /\ row[o] # None /\ row' = [row EXCEPT ![o] = Fresh(@)]
        /\ stepper' = [stepper EXCEPT ![o] = @ \cup {"To be Issued"}]
        /\ dated' = [dated EXCEPT ![o] = {"To be Issued"}]
        /\ count' = [m \in Materials |-> IF OrderOf[m] = o THEN NoCount ELSE count[m]]
        /\ epoch' = epoch /\ AtOnce(o)
    BY <1>5 DEF ResetOrder, Present
  <2>2. \A p \in Orders \ {o} : Quiet(p)
    BY <1>1, <1>2, <2>1 DEF Quiet
  <2>3. ASSUME row'[o] # None, Led(o, <<>>)
        PROVE  Led(o, <<>>)'
    <3>1. row'[o].status = None
      BY <1>1, <2>1 DEF Fresh, NewOrder
    <3>2. stepper[o] = Steps /\ "To be Issued" \in Steps
      BY <1>1, <2>1, <2>3, LedNow, StepNames
    <3>3. stepper'[o] = Steps /\ dated'[o] = {"To be Issued"}
      BY <1>1, <2>1, <3>2
    <3>4. \A v \in Milestones : v \notin dated'[o]
      BY <3>3 DEF Milestones
    <3>5. None \notin Statuses
      BY OrderTableAssumption
    <3> QED BY <2>3, <3>1, <3>3, <3>4, <3>5, LedAfter DEF Statuses
  <2> QED BY <2>1, <2>2, <2>3, AtOnceSettles
<1>6. CASE StoreMaterials(o)
  <2>1. /\ row[o] # None /\ row' = [row EXCEPT ![o].imported = TRUE]
        /\ \E c \in Counts : count' = [m \in Materials |-> IF OrderOf[m] = o THEN c ELSE count[m]]
        /\ epoch' = [epoch EXCEPT ![o] = @ + 1]
        /\ UNCHANGED <<stepper, dated>> /\ AtOnce(o)
    BY <1>6 DEF StoreMaterials, Present
  <2>2. \A p \in Orders \ {o} : Quiet(p)
    BY <1>1, <1>2, <2>1 DEF Quiet
  <2>3. ASSUME row'[o] # None, Led(o, <<>>)
        PROVE  Led(o, <<>>)'
    <3>1. row[o] \in SalesOrder /\ row'[o] = [row[o] EXCEPT !.imported = TRUE]
      BY <1>1, <2>1
    <3>2. row'[o].status = row[o].status /\ row[o].status \in Statuses \cup {None}
      BY <3>1 DEF SalesOrder
    <3> QED BY <1>1, <2>1, <2>3, <3>2, LedNow, LedAfter
  <2> QED BY <2>1, <2>2, <2>3, AtOnceSettles
<1>7. CASE Load(o)
  <2>1. /\ row[o] # None /\ row' = [row EXCEPT ![o].status = "Dispatched"]
        /\ stepper' = [stepper EXCEPT ![o] = @ \cup {"Dispatched"}]
        /\ dated' = [dated EXCEPT ![o] = @ \cup {"Dispatched"}]
        /\ UNCHANGED <<count, epoch>> /\ AtOnce(o)
    BY <1>7 DEF Load, Present
  <2>2. \A p \in Orders \ {o} : Quiet(p)
    BY <1>1, <1>2, <2>1 DEF Quiet
  <2>3. ASSUME row'[o] # None, Led(o, <<>>)
        PROVE  Led(o, <<>>)'
    <3>1. row[o] \in SalesOrder /\ row'[o] = [row[o] EXCEPT !.status = "Dispatched"]
      BY <1>1, <2>1
    <3>2. row'[o].status = "Dispatched"
      BY <3>1 DEF SalesOrder
    <3>3. stepper'[o] = Steps /\ "Dispatched" \in dated'[o]
      BY <1>1, <2>1, <2>3, LedNow, StepNames
    <3>4. None \notin Statuses
      BY OrderTableAssumption
    <3> QED BY <2>3, <3>2, <3>3, <3>4, LedAfter DEF Statuses
  <2> QED BY <2>1, <2>2, <2>3, AtOnceSettles
<1> QED BY <1>3, <1>4, <1>5, <1>6, <1>7 DEF AtOnceRequest

\* A label that is not printed leaves its order where it is.
LEMMA PrintFailsSettles ==
  ASSUME WorkInv, SettledInv, NEW k \in Active, PrintFails(k)
  PROVE  SettledInv'
<1> DEFINE P == req[k].plan
           o == req[k].order
<1>1. k \in Clerks /\ req[k] # Idle /\ RequestOK(req[k]) /\ PlanOK(req[k]) /\ IsPlan(P) /\ P # <<>>
      /\ o \in Orders /\ req' = [req EXCEPT ![k] = Idle] /\ UNCHANGED table /\ mixed' = mixed
  BY InvParts DEF Active, PrintFails, RequestOK, PlanOK
<1>2. 1 \in DOMAIN P /\ Head(P) = P[1] /\ Len(P) \in Nat \ {0} /\ DOMAIN P = 1..Len(P)
  BY <1>1, RestOfPlan
<1>3. P[1].print /\ 1 = Len(P) /\ P[1] = PrintLabel(o)
  BY <1>1, <1>2 DEF PrintFails, PlanOK
<1>4. DOMAIN P = {1}
  <2> HIDE DEF P
  <2>1. Len(P) = 1 /\ DOMAIN P = 1..Len(P)
    BY <1>2, <1>3
  <2>2. DOMAIN P = 1..1
    BY <2>1
  <2> QED BY <2>2
<1>5. \A i \in DOMAIN P : ~Sets(P[i]) /\ P[i].date = {} /\ P[i].clear = {} /\ ~P[i].stepperRows
  BY <1>3, <1>4 DEF PrintLabel, Blank, Nothing, Sets
<1> HIDE DEF P, o
<1>6. ASSUME Led(o, P)
      PROVE  Led(o, <<>>)
  <2>1. PICK s \in Statuses \cup {None} : Ends(o, P, s) /\ Kept(o, P, s)
    BY <1>6 DEF Led
  <2>2. Ends(o, <<>>, s)
    BY <1>5, <2>1, EmptyPlan DEF Ends
  <2>3. \A v : (Done(o, P, v) => Done(o, <<>>, v)) /\ (Undone(o, P, v) => Undone(o, <<>>, v))
    BY <1>5, EmptyPlan DEF Done, Undone
  <2>4. Kept(o, <<>>, s)
    BY <1>5, <2>1, <2>3 DEF Kept
  <2> QED BY <2>2, <2>4 DEF Led
<1>7. Fits(o, req[k]) => Led(o, <<>>)
  BY <1>6 DEF Fits, P
<1> QED BY <1>1, <1>7, GoesOnSettles DEF o

LEMMA RestartSettles ==
  ASSUME WorkInv, SettledInv, Restart
  PROVE  SettledInv'
<1>1. req' = [k \in Clerks |-> Idle] /\ mixed' = mixed \cup UNION {Siblings(req[k].order) : k \in Active}
      /\ UNCHANGED <<row, stepper, dated, count, epoch>>
  BY DEF Restart, table
<1>2. ASSUME NEW o \in Orders \ mixed'
      PROVE  Settled(o)'
  <2>1. o \notin mixed /\ o \in Siblings(o)
    BY <1>1 DEF Siblings
  <2>2. \A k \in Clerks : ~On(k, o)
    BY <1>1, <2>1 DEF On, Active
  <2>3. row[o] # None => Led(o, <<>>)
    BY <2>1, <2>2 DEF SettledInv, Settled
  <2>4. row'[o] # None => Led(o, <<>>)'
    BY <1>1, <2>3, LedQuiet
  <2>5. \A k \in Clerks : ~On(k, o)'
    BY <1>1 DEF On
  <2> QED BY <2>4, <2>5 DEF Settled
<1> QED BY <1>2 DEF SettledInv

LEMMA SettledStutter ==
  ASSUME WorkInv, SettledInv, UNCHANGED vars
  PROVE  SettledInv'
<1>1. UNCHANGED <<row, stepper, dated, count, loaded, epoch, recorded, printed, req, started, mixed>>
  BY DEF vars, table
<1>2. TablesOK /\ TablesOK'
  BY <1>1, InvParts DEF TablesOK, Present
<1>3. ASSUME NEW p \in Orders \ mixed'
      PROVE  Settled(p)'
  <2>1. Settled(p) /\ Quiet(p) /\ SameRequests(p)
    BY <1>1 DEF SettledInv, Quiet, SameRequests, On, Same
  <2> QED BY <1>2, <2>1, SettledFrame
<1> QED BY <1>3 DEF SettledInv

LEMMA SettledInit ==
  ASSUME WorkInit
  PROVE  SettledInv
<1>1. \A k \in Clerks : \A o : ~On(k, o)
  BY DEF WorkInit, On
<1>2. WorkInv /\ TablesOK
  BY WorkInvInit, InvParts
<1>3. ASSUME NEW o \in Orders, row[o] # None
      PROVE  Led(o, <<>>)
  <2>1. stepper[o] = Steps /\ dated[o] = StepsOf(row[o])
    BY <1>3 DEF WorkInit
  <2>2. row[o].status \in Statuses \cup {None} /\ None \notin Statuses
    BY <1>2, <1>3, OrderTableAssumption DEF TablesOK, SalesOrder
  <2>3. ASSUME NEW n \in 1..8
        PROVE  /\ 3 <= n <=> "Issued" \in {StepOrder[i] : i \in 1..n}
               /\ 5 <= n <=> "Packed" \in {StepOrder[i] : i \in 1..n}
               /\ 8 <= n <=> "Dispatched" \in {StepOrder[i] : i \in 1..n}
    <3>1. \A i \in 1..n : i \in 1..8
      OBVIOUS
    <3>2. \A i \in 1..n : (StepOrder[i] = "Issued" <=> i = 3) /\ (StepOrder[i] = "Packed" <=> i = 5)
                          /\ (StepOrder[i] = "Dispatched" <=> i = 8)
      BY <3>1, StepIndex
    <3>3. (3 \in 1..n <=> 3 <= n) /\ (5 \in 1..n <=> 5 <= n) /\ (8 \in 1..n <=> 8 <= n)
      OBVIOUS
    <3> HIDE DEF StepOrder
    <3>4. "Issued" \in {StepOrder[i] : i \in 1..n} <=> 3 \in 1..n
      BY <3>2
    <3>5. "Packed" \in {StepOrder[i] : i \in 1..n} <=> 5 \in 1..n
      BY <3>2
    <3>6. "Dispatched" \in {StepOrder[i] : i \in 1..n} <=> 8 \in 1..n
      BY <3>2
    <3> QED BY <3>3, <3>4, <3>5, <3>6
  <2>4. row[o].status \in {None, "R105"} => \A v \in Milestones : v \notin dated[o]
    <3>1. CASE row[o].status = None
      <4>1. dated[o] = {StepOrder[1]}
        BY <2>1, <2>2, <3>1 DEF StepsOf, Statuses
      <4>2. StepOrder[1] \notin Milestones
        BY DEF StepOrder, Milestones
      <4> QED BY <4>1, <4>2
    <3>2. CASE row[o].status = "R105"
      <4>1. dated[o] = {StepOrder[i] : i \in 1..2}
        BY <2>1, <2>2, <3>2 DEF StepsOf, Statuses
      <4>2. \A v \in Milestones : v \notin {StepOrder[i] : i \in 1..2}
        BY <2>3 DEF Milestones
      <4> QED BY <4>1, <4>2
    <3> QED BY <3>1, <3>2
  <2>5. row[o].status = "W105" => "Issued" \in dated[o]
    <3>1. row[o].status = "W105" => dated[o] = {StepOrder[i] : i \in 1..3}
      BY <2>1, <2>2 DEF StepsOf, Statuses
    <3> QED BY <2>3, <3>1
  <2>6. row[o].status = "F105" => "Packed" \in dated[o]
    <3>1. row[o].status = "F105" => dated[o] = {StepOrder[i] : i \in 1..5}
      BY <2>1, <2>2 DEF StepsOf, Statuses
    <3> QED BY <2>3, <3>1
  <2>7. row[o].status = "Dispatched" => "Dispatched" \in dated[o]
    <3>1. row[o].status = "Dispatched" => dated[o] = Steps
      BY <2>1, <2>2 DEF StepsOf, Statuses
    <3> QED BY <3>1, StepNames
  <2> QED BY <1>2, <1>3, <2>1, <2>4, <2>5, <2>6, <2>7, LedNow
<1> QED BY <1>1, <1>3 DEF SettledInv, Settled


\* A step after which all handhelds' requests but one are what they were.
LEMMA ForeignFrame ==
  ASSUME ForeignMixed, mixed \subseteq mixed', NEW k, \A c \in Clerks \ {k} : Same(req[c], req'[c]),
         NEW q, k \in Clerks => req'[k] = q, q.op \in Handheld => Foreign(q) \subseteq mixed'
  PROVE  ForeignMixed'
<1> SUFFICES ASSUME NEW c \in Clerks, NEW r, r = req'[c], r.op \in Handheld
             PROVE  Foreign(r) \subseteq mixed'
  BY DEF ForeignMixed, Foreign, Siblings, Handheld
<1>1. CASE c = k
  BY <1>1
<1>2. CASE c # k
  <2>1. r.op = req[c].op /\ r.order = req[c].order /\ r.copy = req[c].copy
    BY <1>2 DEF Same
  <2>2. Foreign(r) = Foreign(req[c])
    BY <2>1 DEF Foreign
  <2> QED BY <2>1, <2>2 DEF ForeignMixed
<1> QED BY <1>1, <1>2

\* The three ways a step changes the requests.
LEMMA ForeignReplace ==
  ASSUME WorkInv, ForeignMixed, mixed \subseteq mixed', NEW k \in Clerks, NEW q, req' = [req EXCEPT ![k] = q],
         q.op \in Handheld => Foreign(q) \subseteq mixed'
  PROVE  ForeignMixed'
<1>1. req'[k] = q /\ \A c \in Clerks \ {k} : req'[c] = req[c]
  BY InvParts
<1>2. \A c \in Clerks \ {k} : Same(req[c], req'[c])
  BY <1>1 DEF Same
<1> QED BY <1>1, <1>2, ForeignFrame

LEMMA ForeignNoted ==
  ASSUME WorkInv, ForeignMixed, mixed \subseteq mixed', NEW k, NEW q, req' = Noted(k, q),
         k \in Clerks => (q.op \in Handheld => Foreign(q) \subseteq mixed')
  PROVE  ForeignMixed'
<1>1. k \in Clerks => req'[k] = q
  BY DEF Noted
<1>2. \A c \in Clerks \ {k} : Same(req[c], req'[c])
  BY NotedSame
<1>3. CASE k \in Clerks
  BY <1>1, <1>2, <1>3, ForeignFrame
<1>4. CASE k \notin Clerks
  <2>1. Idle.op \notin Handheld
    BY IdleFields DEF Handheld
  <2> QED BY <1>2, <1>4, <2>1, ForeignFrame
<1> QED BY <1>3, <1>4

LEMMA ForeignStart ==
  ASSUME WorkInv, ForeignMixed, NEW k \in Clerks, NEW q, Start(k, q), q.op \notin Handheld
  PROVE  ForeignMixed'
<1>1. mixed \subseteq mixed'
  BY DEF Start, Overlapping
<1> QED BY <1>1, ForeignReplace DEF Start

\* A handheld's step.
LEMMA ForeignHandheldStep ==
  ASSUME WorkInv, ForeignMixed, NEW k \in Active, HandheldStep(k)
  PROVE  ForeignMixed'
<1> DEFINE q == req[k]
<1>1. k \in Clerks /\ DOMAIN q = Fields /\ (q.op \in Handheld => Foreign(q) \subseteq mixed)
  BY InvParts DEF Active, ForeignMixed
<1>2. Idle.op \notin Handheld
  BY IdleFields DEF Handheld
<1>3. ASSUME NEW r, r = Idle \/ (r.op = q.op /\ r.order = q.order /\ r.copy = q.copy), mixed \subseteq mixed'
      PROVE  r.op \in Handheld => Foreign(r) \subseteq mixed'
  BY <1>1, <1>2, <1>3 DEF Foreign
<1>4. ASSUME NEW op \in Handheld, NEW by \in {"ID", "code"}, Send(k, op, by)
      PROVE  ForeignMixed'
  <2> DEFINE r == [q EXCEPT !.op = op, !.by = by, !.left = DOMAIN q.copy]
  <2>1. \/ req' = [req EXCEPT ![k] = r] /\ mixed' = mixed \cup Foreign(q)
        \/ req' = [req EXCEPT ![k] = Idle] /\ mixed' = mixed
    BY <1>4 DEF Send
  <2>2. r.order = q.order /\ r.copy = q.copy
    BY <1>1 DEF Fields
  <2> HIDE DEF r, q
  <2>3. Foreign(r) = Foreign(q)
    BY <2>2 DEF Foreign
  <2> QED BY <1>1, <1>2, <2>1, <2>3, ForeignReplace
<1>5. ASSUME NEW m \in q.left, WriteMaterial(k, m)
      PROVE  ForeignMixed'
  <2> DEFINE r == [q EXCEPT !.left = @ \ {m}]
  <2>1. \/ req' = Noted(k, r) /\ mixed' = mixed
        \/ req' = [req EXCEPT ![k] = Idle] /\ mixed' = mixed \cup Siblings(q.order)
    BY <1>5 DEF WriteMaterial
  <2>2. r.op = q.op /\ r.order = q.order /\ r.copy = q.copy
    BY <1>1 DEF Fields
  <2> HIDE DEF r, q
  <2> QED BY <1>1, <1>2, <1>3, <2>1, <2>2, ForeignReplace, ForeignNoted
<1>6. CASE Check(k) \/ SyncRead(k)
  <2>1. \E P, L : (req' = [req EXCEPT ![k] = [q EXCEPT !.plan = P]] \/ req' = [req EXCEPT ![k] = Idle]
                   \/ req' = [req EXCEPT ![k] = [q EXCEPT !.plan = P, !.left = L]])
                  /\ mixed \subseteq mixed'
    <3>1. CASE Check(k)
      BY <3>1 DEF Check
    <3>2. CASE SyncRead(k)
      <4>1. \E P : req' = [req EXCEPT ![k].plan = P, ![k].left = {}] \/ req' = [req EXCEPT ![k] = Idle]
        BY <3>2 DEF SyncRead
      <4>2. mixed \subseteq mixed'
        BY <3>2 DEF SyncRead
      <4>3. CASE req' = [req EXCEPT ![k] = Idle]
        BY <4>2, <4>3
      <4>4. ASSUME NEW P, req' = [req EXCEPT ![k].plan = P, ![k].left = {}]
            PROVE  \E L : req' = [req EXCEPT ![k] = [q EXCEPT !.plan = P, !.left = L]]
        <5>1. [req EXCEPT ![k].plan = P, ![k].left = {}] = [req EXCEPT ![k] = [q EXCEPT !.plan = P, !.left = {}]]
          BY <1>1, InvParts
        <5> QED BY <4>4, <5>1
      <4> HIDE DEF q
      <4> QED BY <4>1, <4>2, <4>3, <4>4, ZenonT(60)
    <3> QED BY <1>6, <3>1, <3>2
  <2>2. PICK r : /\ req' = [req EXCEPT ![k] = r] /\ mixed \subseteq mixed'
                 /\ r = Idle \/ (r.op = q.op /\ r.order = q.order /\ r.copy = q.copy)
    BY <1>1, <2>1 DEF Fields
  <2> QED BY <1>1, <1>3, <2>2, ForeignReplace
<1>7. CASE SyncFails(k)
  <2>1. req' = [req EXCEPT ![k] = Idle] /\ mixed \subseteq mixed'
    BY <1>7 DEF SyncFails
  <2> QED BY <1>1, <1>2, <2>1, ForeignReplace
<1> QED BY <1>4, <1>5, <1>6, <1>7 DEF HandheldStep, Handheld

LEMMA ForeignNext ==
  ASSUME WorkInv, ForeignMixed, [WorkNext]_vars
  PROVE  ForeignMixed'
<1>0. Idle.op \notin Handheld
  BY IdleFields DEF Handheld
<1>1. ASSUME NEW o \in Orders, NEW k \in Clerks \ Active, DeskRequest(k, o)
      PROVE  ForeignMixed'
  <2>1. ASSUME NEW op \in DeskOps, NEW asked, NEW P, Start(k, Request(op, o, asked, P))
        PROVE  ForeignMixed'
    <3>1. Request(op, o, asked, P).op = op /\ op \notin Handheld
      BY DEF Request, Idle, DeskOps, HandheldOps, Handheld
    <3> QED BY <2>1, <3>1, ForeignStart
  <2>2. {"status", "user", "location", "terms", "bulk", "edit", "excel", "create", "label", "import"} \subseteq DeskOps
    BY DEF DeskOps, Ops, HandheldOps
  <2> QED BY <1>1, <2>1, <2>2 DEF DeskRequest, UpdateStatus, UpdateUser, UpdateLocation, UpdateTerms,
       BulkAssignTerms, BulkAssign, BulkUpdatePriority, BulkUpdateSkipStage, ExcelImport, SalesUpdate,
       BulkUpdateDeliveryDate, SalesCreate, LabelPrint, ImportOrder
<1>2. ASSUME NEW o \in Orders, NEW k \in Clerks \ Active, HandheldRequest(k, o)
      PROVE  ForeignMixed'
  <2>1. PICK u, asked, c, of : Start(k, [Idle EXCEPT !.op = "copy", !.order = o, !.user = u, !.asked = asked,
                                                     !.copy = c, !.of = of])
    BY <1>2 DEF HandheldRequest, Download
  <2>2. [Idle EXCEPT !.op = "copy", !.order = o, !.user = u, !.asked = asked, !.copy = c, !.of = of].op \notin Handheld
    BY DEF Idle, Handheld
  <2> QED BY <2>1, <2>2, ForeignStart
<1>3. ASSUME NEW o \in Orders, AtOnceRequest(o)
      PROVE  ForeignMixed'
  <2>1. AtOnce(o)
    BY <1>3 DEF AtOnceRequest, RemoveOrder, SalesRemove, Reprint, ResetOrder, StoreMaterials, Load
  <2>2. req' = Noted(None, Idle) /\ mixed \subseteq mixed'
    BY <2>1 DEF AtOnce, Overlapping
  <2> QED BY <1>0, <2>2, ForeignNoted
<1>4. ASSUME NEW k \in Active, Write(k)
      PROVE  ForeignMixed'
  <2>1. k \in Clerks /\ DOMAIN req[k] = Fields
    BY InvParts DEF Active
  <2>2. \/ req' = Noted(k, Rest(req[k])) /\ mixed' = mixed
        \/ req' = [req EXCEPT ![k] = Idle] /\ mixed' = mixed \cup Siblings(req[k].order)
    BY <1>4 DEF Write
  <2>3. PICK r : r = Rest(req[k])
    OBVIOUS
  <2>4. r = Idle \/ (r.op = req[k].op /\ r.order = req[k].order /\ r.copy = req[k].copy)
    BY <2>1, <2>3 DEF Rest, Fields
  <2>5. r.op \in Handheld => Foreign(r) \subseteq mixed
    BY <1>0, <2>1, <2>4 DEF ForeignMixed, Foreign
  <2> QED BY <1>0, <2>1, <2>2, <2>3, <2>5, ForeignReplace, ForeignNoted
<1>5. ASSUME NEW k \in Active, PrintFails(k)
      PROVE  ForeignMixed'
  BY <1>0, <1>5, ForeignReplace DEF PrintFails, Active
<1>6. CASE Restart
  BY <1>0, <1>6 DEF Restart, ForeignMixed
<1>7. CASE UNCHANGED vars
  <2>1. req' = req /\ mixed' = mixed
    BY <1>7 DEF vars
  <2> QED BY <2>1 DEF ForeignMixed, Foreign, Siblings
<1> QED BY <1>1, <1>2, <1>3, <1>4, <1>5, <1>6, <1>7, ForeignHandheldStep DEF WorkNext

LEMMA ForeignInit ==
  ASSUME WorkInit
  PROVE  ForeignMixed
BY IdleFields DEF WorkInit, ForeignMixed, Handheld

LEMMA SettledNext ==
  ASSUME WorkInv, WorkInv', SettledInv, ForeignMixed, [WorkNext]_vars
  PROVE  SettledInv'
<1>1. ASSUME NEW o \in Orders, NEW k \in Clerks \ Active, DeskRequest(k, o) \/ HandheldRequest(k, o)
      PROVE  SettledInv'
  BY <1>1, DeskRequestSettles, DownloadSettles
<1>2. ASSUME NEW o \in Orders, AtOnceRequest(o)
      PROVE  SettledInv'
  <2>1. TablesOK'
    BY DEF WorkInv, WorkTypeOK
  <2> QED BY <1>2, <2>1, AtOnceRequestSettles
<1>3. ASSUME NEW k \in Active, Write(k)
      PROVE  SettledInv'
  BY <1>3, NextWriteSettles
<1>4. ASSUME NEW k \in Active, PrintFails(k)
      PROVE  SettledInv'
  BY <1>4, PrintFailsSettles
<1>5. ASSUME NEW k \in Active, HandheldStep(k)
      PROVE  SettledInv'
  <2>1. ASSUME NEW op \in {"sync", "data"}, NEW by \in {"ID", "code"}, Send(k, op, by)
        PROVE  SettledInv'
    BY <2>1, SendSettles
  <2>2. ASSUME NEW m \in req[k].left, WriteMaterial(k, m)
        PROVE  SettledInv'
    BY <2>2, WriteMaterialSettles
  <2>3. CASE SyncFails(k)
    <3>1. k \in Clerks /\ req[k] # Idle
      BY DEF Active
    <3>2. req' = [req EXCEPT ![k] = Idle] /\ UNCHANGED table /\ mixed' = mixed \cup Siblings(req[k].order)
      BY <2>3 DEF SyncFails
    <3> QED BY <3>1, <3>2, GoesOnSettles
  <2> QED BY <1>5, <2>1, <2>2, <2>3, CheckSettles, SyncReadSettles DEF HandheldStep
<1>6. CASE Restart
  BY <1>6, RestartSettles
<1>7. CASE UNCHANGED vars
  BY <1>7, SettledStutter
<1> QED BY <1>1, <1>2, <1>3, <1>4, <1>5, <1>6, <1>7 DEF WorkNext

\* What the invariant says of an order that no request runs on.
LEMMA SettledAgrees ==
  ASSUME WorkInv, SettledInv
  PROVE  StepperAgrees
<1> SUFFICES ASSUME NEW o \in Present \ mixed, ActiveOn({o}) = {}
             PROVE  /\ stepper[o] = Steps
                    /\ row[o].status \in {None, "R105"} => dated[o] \cap {"Issued", "Packed", "Dispatched"} = {}
                    /\ row[o].status = "W105" => "Issued" \in dated[o]
                    /\ row[o].status = "F105" => "Packed" \in dated[o]
                    /\ row[o].status = "Dispatched" => "Dispatched" \in dated[o]
  BY DEF StepperAgrees
<1>1. o \in Orders /\ row[o] # None /\ TablesOK
  BY InvParts DEF Present
<1>2. \A k \in Clerks : ~On(k, o)
  BY DEF On, ActiveOn, Active
<1>3. Led(o, <<>>)
  BY <1>1, <1>2 DEF SettledInv, Settled
<1>4. /\ stepper[o] = Steps
      /\ row[o].status \in {None, "R105"} => \A v \in Milestones : v \notin dated[o]
      /\ row[o].status = "W105" => "Issued" \in dated[o]
      /\ row[o].status = "F105" => "Packed" \in dated[o]
      /\ row[o].status = "Dispatched" => "Dispatched" \in dated[o]
  BY <1>1, <1>3, LedNow
<1> QED BY <1>4 DEF Milestones

\* The invariant of the requests, of where they lead, and of what is not judged.
LeadInv == WorkInv /\ SettledInv /\ ForeignMixed

LEMMA LeadInvInit ==
  ASSUME WorkInit
  PROVE  LeadInv
BY WorkInvInit, SettledInit, ForeignInit DEF LeadInv

LEMMA LeadInvNext ==
  ASSUME LeadInv, [WorkNext]_vars
  PROVE  LeadInv'
<1>1. WorkInv'
  BY WorkInvNext DEF LeadInv
<1>2. SettledInv'
  BY <1>1, SettledNext DEF LeadInv
<1>3. ForeignMixed'
  BY ForeignNext DEF LeadInv
<1> QED BY <1>1, <1>2, <1>3 DEF LeadInv

\* Once no request runs on an order whose requests neither overlapped nor were cut short,
\* and that no handheld's request for another order could change, its stepper agrees with
\* its status.
THEOREM StepperFollowsStatus == WorkSpec => []StepperAgrees
<1>1. WorkInit => LeadInv
  BY LeadInvInit
<1>2. LeadInv /\ [WorkNext]_vars => LeadInv'
  BY LeadInvNext
<1>3. LeadInv => StepperAgrees
  BY SettledAgrees DEF LeadInv
<1> QED BY <1>1, <1>2, <1>3, PTL DEF WorkSpec

\* A step that ends a handheld's request alone on its order.
LEMMA CompletionSeenStep ==
  ASSUME WorkInv, WorkInv', SettledInv, ForeignMixed, [WorkNext]_vars, NEW k \in Clerks,
         NEW o, o = req[k].order, req[k].op \in Handheld, req'[k] = Idle, o \notin mixed',
         row'[o] # None, row'[o].imported, MaterialsOf(o) # {}
  PROVE  /\ Complete(MaterialsOf(o), count', "packed") => row'[o].status = "F105" /\ "Packed" \in dated'[o]
         /\ Complete(MaterialsOf(o), count', "issued") => row'[o].status \in {"W105", "F105"}
<1>1. /\ req[k] # Idle /\ k \in Active /\ RequestOK(req[k]) /\ o \in Orders /\ DOMAIN req[k] = Fields
      /\ CopyOK(req[k]) /\ TablesOK /\ DOMAIN req = Clerks /\ req[k].op \in HandheldOps
      /\ req[k].op \in {"sync", "data"}
  BY InvParts, IdleFields DEF Active, RequestOK, HandheldOps, Handheld
<1>2. o \in Siblings(o)
  BY <1>1 DEF Siblings
<1>3. ASSUME o \notin mixed
      PROVE  Fits(o, req[k])
  <2>1. Settled(o) /\ On(k, o)
    BY <1>1, <1>3 DEF SettledInv, On
  <2>2. PICK q : q = req[k]
    OBVIOUS
  <2>3. Fits(o, q)
    BY <2>1, <2>2 DEF Settled
  <2> QED BY <2>2, <2>3
<1>4. req'[k] # req[k] /\ req'[k].op # req[k].op
  BY <1>1, IdleFields
<1>5. ASSUME NEW c, NEW q, c # k, req' = [req EXCEPT ![c] = q] \/ req' = Noted(c, q)
      PROVE  FALSE
  <2>1. CASE req' = [req EXCEPT ![c] = q]
    BY <1>1, <1>4, <1>5, <2>1
  <2>2. CASE req' = Noted(c, q)
    <3>1. req'[k] = [req[k] EXCEPT !.moved = @ \/ Changed(req[k].order), !.stale = @ \cup Recounted]
      BY <1>1, <1>5, <2>2 DEF Noted
    <3>2. req'[k].op = req[k].op
      BY <1>1, <3>1 DEF Fields
    <3> QED BY <1>4, <3>2
  <2> QED BY <1>5, <2>1, <2>2
<1>6. ASSUME NEW p \in Orders, NEW c \in Clerks \ Active, DeskRequest(c, p) \/ HandheldRequest(c, p)
      PROVE  FALSE
  <2>1. c # k
    BY <1>1
  <2>2. \A q : ~Start(c, q)
    BY <1>5, <2>1 DEF Start
  <2>3. CASE DeskRequest(c, p)
    BY <2>2, <2>3 DEF DeskRequest, UpdateStatus, UpdateUser, UpdateLocation, UpdateTerms, BulkAssignTerms,
         BulkAssign, BulkUpdatePriority, BulkUpdateSkipStage, ExcelImport, SalesUpdate,
         BulkUpdateDeliveryDate, SalesCreate, LabelPrint, ImportOrder
  <2>4. CASE HandheldRequest(c, p)
    BY <2>2, <2>4 DEF HandheldRequest, Download
  <2> QED BY <1>6, <2>3, <2>4
<1>7. ASSUME NEW p \in Orders, AtOnceRequest(p)
      PROVE  FALSE
  <2>1. req' = Noted(None, Idle) /\ None # k
    BY <1>7, OrderTableAssumption
       DEF AtOnceRequest, RemoveOrder, SalesRemove, Reprint, ResetOrder, StoreMaterials, Load, AtOnce
  <2> QED BY <1>5, <2>1
<1>8. ASSUME NEW c \in Active, c # k
      PROVE  ~Write(c) /\ ~PrintFails(c) /\ ~HandheldStep(c)
  <2>1. \A q : req' # [req EXCEPT ![c] = q] /\ req' # Noted(c, q)
    BY <1>5, <1>8
  <2>2. ~Write(c)
    BY <2>1 DEF Write
  <2>3. ~PrintFails(c) /\ ~SyncFails(c) /\ ~Check(c)
    BY <2>1 DEF PrintFails, SyncFails, Check
  <2>4. ASSUME NEW op, NEW by, Send(c, op, by)
        PROVE  FALSE
    <3>1. \E q : req' = [req EXCEPT ![c] = q]
      BY <2>4 DEF Send
    <3> QED BY <2>1, <3>1
  <2>5. ASSUME NEW m, WriteMaterial(c, m)
        PROVE  FALSE
    BY <2>1, <2>5 DEF WriteMaterial
  <2>6. ASSUME SyncRead(c)
        PROVE  FALSE
    <3>1. \E q : req' = [req EXCEPT ![c] = q]
      BY <2>6 DEF SyncRead
    <3> QED BY <2>1, <3>1
  <2> QED BY <2>2, <2>3, <2>4, <2>5, <2>6 DEF HandheldStep
<1>9. ~Restart
  BY <1>1, <1>2 DEF Restart
<1>10. ~PrintFails(k)
  <2>1. ASSUME PrintFails(k)
        PROVE  FALSE
    <3>1. PlanOK(req[k]) /\ IsPlan(req[k].plan) /\ req[k].plan # <<>> /\ req[k].op # "label"
      BY <1>1, <2>1 DEF PrintFails, RequestOK, PlanOK
    <3>2. 1 \in DOMAIN req[k].plan /\ req[k].plan[1].print
      BY <2>1, <3>1, RestOfPlan DEF PrintFails
    <3> QED BY <3>1, <3>2 DEF PlanOK
  <2> QED BY <2>1
<1>11. ~UNCHANGED vars
  BY <1>4 DEF vars
<1>12. CASE Write(k)
  <2> DEFINE P == req[k].plan
  <2>1. PlanOK(req[k]) /\ IsPlan(P) /\ P # <<>>
    BY <1>1, <1>12 DEF Write, RequestOK, PlanOK
  <2>2. 1 \in DOMAIN P /\ Head(P) = P[1] /\ (Tail(P) = <<>> <=> Len(P) = 1)
    BY <2>1, RestOfPlan
  <2>3. Possible(Head(P))
    <3>1. ~Possible(Head(P)) => mixed' = mixed \cup Siblings(o)
      BY <1>12 DEF Write
    <3> QED BY <1>2, <3>1
  <2>4. PICK w : w = Head(P)
    OBVIOUS
  <2>5. PICK T : T = Tail(P)
    OBVIOUS
  <2>6. Perform(w) /\ Possible(w) /\ req'[k] = Rest(req[k]) /\ mixed' = mixed
    BY <1>1, <1>12, <2>3, <2>4 DEF Write, Noted
  <2>7. Len(P) = 1
    <3>1. Len(P) # 1 => Rest(req[k]).op = req[k].op
      BY <1>1 DEF Rest, Fields
    <3> QED BY <1>4, <2>6, <3>1
  <2>8. T = <<>>
    BY <2>2, <2>5, <2>7
  <2>13. WriteOK(w, o)
    <3>1. w.order \in Targets(req[k]) /\ WriteOK(w, w.order)
      BY <2>1, <2>2, <2>4 DEF PlanOK
    <3>2. Targets(req[k]) = {o}
      BY <1>1, <2>6, AloneTargets
    <3> QED BY <3>1, <3>2
  <2>9. Finished(o, T, count)'
    BY <1>1, <1>3, <2>1, <2>4, <2>5, <2>6, <2>13, FinishedStep
  <2>10. (Complete(MaterialsOf(o), count, "packed") => Ends(o, <<>>, "F105") /\ Done(o, <<>>, "Packed"))'
         /\ (Complete(MaterialsOf(o), count, "issued") => Ends(o, <<>>, "W105") \/ Ends(o, <<>>, "F105"))'
    <3>1. HasRows(o)'
      BY DEF HasRows, MaterialsOf
    <3> QED BY <2>8, <2>9, <3>1 DEF Finished
  <2>11. (\A s : Ends(o, <<>>, s)' => row'[o].status = s) /\ (Done(o, <<>>, "Packed")' => "Packed" \in dated'[o])
    BY EmptyPlan DEF Ends, Done, Status
  <2>12. \A stage : Complete(MaterialsOf(o), count', stage) <=> Complete(MaterialsOf(o), count, stage)'
    BY DEF Complete, MaterialsOf
  <2> QED BY <2>10, <2>11, <2>12
<1>13. ASSUME HandheldStep(k)
       PROVE  Check(k)
  <2>1. \A op, by : ~Send(k, op, by)
    BY <1>1 DEF Send
  <2>2. ~SyncFails(k)
    BY <1>2 DEF SyncFails
  <2>3. ASSUME NEW m \in req[k].left, WriteMaterial(k, m)
        PROVE  FALSE
    <3>1. \/ mixed' = mixed \cup Siblings(o)
          \/ req' = Noted(k, [req[k] EXCEPT !.left = @ \ {m}])
      BY <2>3 DEF WriteMaterial
    <3>2. req' = Noted(k, [req[k] EXCEPT !.left = @ \ {m}]) => req'[k] = [req[k] EXCEPT !.left = @ \ {m}]
      BY DEF Noted
    <3>3. [req[k] EXCEPT !.left = @ \ {m}].op = req[k].op
      BY <1>1 DEF Fields
    <3> QED BY <1>2, <1>4, <3>1, <3>2, <3>3
  <2>4. ASSUME SyncRead(k)
        PROVE  FALSE
    <3>1. \/ mixed' = mixed \cup Siblings(o)
          \/ \E W : req' = [req EXCEPT ![k].plan = W, ![k].left = {}]
      BY <2>4 DEF SyncRead
    <3>2. PICK W : req' = [req EXCEPT ![k].plan = W, ![k].left = {}]
      BY <1>2, <3>1
    <3>3. req'[k].op = req[k].op
      BY <1>1, <3>2 DEF Fields
    <3> QED BY <1>4, <3>3
  <2> QED BY <1>13, <2>1, <2>2, <2>3, <2>4 DEF HandheldStep
<1>14. CASE Check(k)
  <2> DEFINE S == Reached(o)
             P == CompletionWrites(o, S, count)
  <2>1. UNCHANGED <<row, stepper, dated, count>> /\ mixed' = mixed
    BY <1>14 DEF Check, table
  <2>6. Scope(o) = {o} /\ Found(o) = {o}
    BY <1>1, <2>1, AloneTargets
  <2>2. P = <<>>
    <3>1. P # <<>> => req' = [req EXCEPT ![k] = [@ EXCEPT !.plan = P]]
      BY <1>14, <2>6 DEF Check
    <3>2. [req[k] EXCEPT !.plan = P].op = req[k].op
      BY <1>1 DEF Fields
    <3> QED BY <1>1, <1>4, <3>1, <3>2
  <2>3. S = MaterialsOf(o) /\ S # {} /\ o \in Present
    BY <1>1, <2>1, <2>6 DEF Reached, InTable, Present, MaterialsOf
  <2>4. <<>> \notin IssuePlans(o) /\ <<>> \notin PackPlans(o)
    BY DEF IssuePlans, PackPlans
  <2>5. ~Complete(S, count, "packed") /\ (Complete(S, count, "issued") => row[o].status \in {"W105", "F105"})
    <3>1. /\ Complete(S, count, "packed") => P \in PackPlans(o)
          /\ Complete(S, count, "issued") /\ ~Complete(S, count, "packed") =>
               \/ P \in IssuePlans(o)
               \/ row[o].status \in {"W105", "F105"} /\ P = <<>>
      BY <2>3, CompletionShape
    <3> HIDE DEF P, S
    <3> QED BY <2>2, <2>4, <3>1
  <2> QED BY <2>1, <2>3, <2>5
<1> QED BY <1>6, <1>7, <1>8, <1>9, <1>10, <1>11, <1>12, <1>13, <1>14 DEF WorkNext

\* A handheld that ends alone on its order has seen to its completion.
THEOREM CompletionIsSeen == WorkSpec => CompletionSeen
<1>1. WorkInit => LeadInv
  BY LeadInvInit
<1>2. LeadInv /\ [WorkNext]_vars => LeadInv'
  BY LeadInvNext
<1>3. ASSUME LeadInv, LeadInv', [WorkNext]_vars
      PROVE  [\A k \in Clerks :
                LET o == req[k].order IN
                req[k].op \in Handheld /\ req'[k] = Idle /\ o \notin mixed'
                /\ row'[o] # None /\ row'[o].imported /\ MaterialsOf(o) # {} =>
                  /\ Complete(MaterialsOf(o), count', "packed") =>
                       row'[o].status = "F105" /\ "Packed" \in dated'[o]
                  /\ Complete(MaterialsOf(o), count', "issued") => row'[o].status \in {"W105", "F105"}]_vars
  <2> SUFFICES ASSUME NEW k \in Clerks, NEW o, o = req[k].order, req[k].op \in Handheld, req'[k] = Idle,
                      o \notin mixed', row'[o] # None, row'[o].imported, MaterialsOf(o) # {}
               PROVE  /\ Complete(MaterialsOf(o), count', "packed") =>
                           row'[o].status = "F105" /\ "Packed" \in dated'[o]
                      /\ Complete(MaterialsOf(o), count', "issued") => row'[o].status \in {"W105", "F105"}
    OBVIOUS
  <2> QED BY <1>3, CompletionSeenStep DEF LeadInv
<1> QED BY <1>1, <1>2, <1>3, PTL DEF WorkSpec, CompletionSeen
=============================================================================
