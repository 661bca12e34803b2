------------------------- MODULE StageTracking_proofs -----------------------
(***************************************************************************)
(* Theorems about StageTracking, for any number of orders, materials and   *)
(* requests.                                                               *)
(***************************************************************************)
EXTENDS StageTracking, FiniteSetTheorems, SequenceTheorems, TLAPS

-----------------------------------------------------------------------------
(***************************************************************************)
(* Type correctness                                                        *)
(***************************************************************************)

\* The writes a completed stage leads to are a sequence of writes.
LEMMA UnderPackingType ==
  ASSUME NEW o \in Orders PROVE UnderPacking(o) \in Seq(Writes)
<1>1. <<SetStep("Under Packing")>> \in Seq(Writes)
  BY DEF Writes, Steps
<1> QED BY <1>1, EmptySeq DEF UnderPacking

LEMMA AfterIssueType ==
  ASSUME NEW o \in Orders PROVE AfterIssue(o) \in Seq(Writes) /\ AfterIssue(o) # <<>>
<1> DEFINE first == <<SetStatus("W105"), Record("Issue"), SetStep("Issued")>>
<1>1. first \in Seq(Writes) /\ Len(first) = 3
  BY DEF Writes, Steps, Stages
<1>2. first # <<>>
  BY <1>1, EmptySeq
<1> HIDE DEF first
<1>3. first \o UnderPacking(o) \in Seq(Writes) /\ first \o UnderPacking(o) # <<>>
  BY <1>1, <1>2, UnderPackingType, ConcatProperties, ConcatEqualIffEmpty
<1> QED BY <1>3 DEF AfterIssue, first

LEMMA AfterPackingType == AfterPacking \in Seq(Writes) /\ AfterPacking # <<>>
<1>1. AfterPacking \in Seq(Writes) /\ Len(AfterPacking) = 3
  BY DEF AfterPacking, Writes, Steps, Stages
<1> QED BY <1>1, EmptySeq

LEMMA AfterBulkType ==
  ASSUME NEW o \in Orders, NEW issued \in BOOLEAN, NEW packed \in BOOLEAN
  PROVE  AfterBulk(o, issued, packed) \in Seq(Writes)
<1> DEFINE none == <<>>
           i == <<SetStatus("W105"), SetStep("Issued")>>
           p == <<SetStatus("F105"), SetStep("Packed")>>
           ri == <<Record("Issue")>>
           rp == <<Record("Packing")>>
<1>1. /\ i \in Seq(Writes) /\ p \in Seq(Writes) /\ ri \in Seq(Writes) /\ rp \in Seq(Writes)
  BY DEF Writes, Steps, Stages
<1>2. <<>> \in Seq(Writes)
  BY EmptySeq
<1> HIDE DEF i, p, ri, rp
<1>3. i \o UnderPacking(o) \in Seq(Writes)
  BY <1>1, UnderPackingType, ConcatProperties
<1> DEFINE A == IF issued THEN i \o UnderPacking(o) ELSE <<>>
           B == IF packed THEN p ELSE <<>>
           C == IF issued THEN ri ELSE <<>>
           D == IF packed THEN rp ELSE <<>>
<1>4. A \in Seq(Writes) /\ B \in Seq(Writes) /\ C \in Seq(Writes) /\ D \in Seq(Writes)
  BY <1>1, <1>2, <1>3
<1> HIDE DEF A, B, C, D
<1>5. A \o B \in Seq(Writes)
  BY <1>4, ConcatProperties
<1>6. (A \o B) \o C \in Seq(Writes)
  BY <1>4, <1>5, ConcatProperties
<1>7. ((A \o B) \o C) \o D \in Seq(Writes)
  BY <1>4, <1>6, ConcatProperties
<1> QED BY <1>7 DEF AfterBulk, A, B, C, D, i, p, ri, rp

\* A request that is over, or has something left to write, is well-formed.
LEMMA FinishingType ==
  ASSUME NEW o \in Orders, NEW todo \in Seq(Writes)
  PROVE  Finishing(o, todo) \in Request /\ Consistent(Finishing(o, todo))
<1>1. Idle \in Request /\ Consistent(Idle)
  BY EmptySeq DEF Idle, Request, Consistent, Stages
<1> QED BY <1>1 DEF Finishing, Idle, Request, Consistent

LEMMA IdleType == Idle \in Request /\ Consistent(Idle)
  BY EmptySeq DEF Idle, Request, Consistent, Stages

\* A step that replaces one request by a well-formed one keeps them all well-formed.
LEMMA ReplaceRequest ==
  ASSUME req \in [Requests -> Request], \A r \in Requests : Consistent(req[r]),
         NEW r \in Requests, NEW q \in Request, Consistent(q), req' = [req EXCEPT ![r] = q]
  PROVE  req' \in [Requests -> Request] /\ \A k \in Requests : Consistent(req'[k])
  OBVIOUS

\* A request that has written goes on to check its order.
LEMMA CheckingType ==
  ASSUME NEW q \in Request, q.order \in Orders
  PROVE  /\ [q EXCEPT !.step = "check", !.mats = {}, !.qty = 0] \in Request
         /\ Consistent([q EXCEPT !.step = "check", !.mats = {}, !.qty = 0])
         /\ [q EXCEPT !.step = "check", !.mats = {}] \in Request
         /\ Consistent([q EXCEPT !.step = "check", !.mats = {}])
         /\ [q EXCEPT !.step = "checkBoth", !.mats = {}] \in Request
         /\ Consistent([q EXCEPT !.step = "checkBoth", !.mats = {}])
<1> DEFINE a == [q EXCEPT !.step = "check", !.mats = {}, !.qty = 0]
           b == [q EXCEPT !.step = "checkBoth", !.mats = {}]
           c == [q EXCEPT !.step = "check", !.mats = {}]
<1>1. a \in Request /\ b \in Request /\ c \in Request
  BY DEF Request
<1>2. /\ a.step = "check" /\ b.step = "checkBoth" /\ c.step = "check"
      /\ a.order = q.order /\ b.order = q.order /\ c.order = q.order
  BY DEF Request
<1>3. Consistent(a) /\ Consistent(b) /\ Consistent(c)
  BY <1>2 DEF Consistent
<1> QED BY <1>1, <1>3

\* The kinds of step the rest of the proofs go by.
StepKinds ==
  \/ \E r \in Requests, o \in Orders, s \in Stages, c \in Codes : ScanRead(r, o, c, s)
  \/ \E r \in Requests, o \in Orders, s \in Stages, m \in Materials, n \in Quantities :
       SetRead(r, o, m, s, n)
  \/ \E r \in Requests, o \in Orders, s \in Stages, items \in SUBSET Materials :
       BulkRead(r, o, items, s)
  \/ \E r \in Requests : ScanWrite(r)
  \/ \E r \in Requests : SetWrite(r)
  \/ \E r \in Requests : BulkWrite(r)
  \/ \E r \in Requests : Check(r)
  \/ \E r \in Requests : CheckBoth(r)
  \/ \E r \in Requests : Current(r)
  \/ \E r \in Requests : Write(r)
  \/ \E o \in Dispatchable : Dispatch(o)
  \/ Restart

LEMMA StepIsOfAKind == Next => StepKinds
<1> SUFFICES ASSUME Next PROVE StepKinds
  OBVIOUS
<1>1. ASSUME NEW r \in Requests, NEW o \in Orders, NEW s \in Stages, NEW g \in Groups,
             GroupRead(r, o, g, s)
      PROVE  StepKinds
  <2>1. {m \in MaterialsOf(o) : GroupOf[m] = g} \in SUBSET Materials
    BY DEF MaterialsOf
  <2>2. \E items \in SUBSET Materials : BulkRead(r, o, items, s)
    BY <1>1, <2>1 DEF GroupRead
  <2> QED BY <2>2 DEF StepKinds
<1>2. ASSUME NEW r \in Requests, NEW o \in Orders, AcceptAllRead(r, o)
      PROVE  StepKinds
  <2>1. MaterialsOf(o) \in SUBSET Materials /\ "Issue" \in Stages
    BY DEF MaterialsOf, Stages
  <2>2. \E s \in Stages, items \in SUBSET Materials : BulkRead(r, o, items, s)
    BY <1>2, <2>1 DEF AcceptAllRead
  <2> QED BY <2>2 DEF StepKinds
<1> QED BY <1>1, <1>2 DEF Next, StepKinds

\* Every step keeps the counts natural numbers and the requests well-formed.
LEMMA TypeStep == TypeOK /\ [Next]_vars => TypeOK'
<1> SUFFICES ASSUME TypeOK, [Next]_vars PROVE TypeOK'
  OBVIOUS
<1> USE StageTrackingAssumption
<1>t. /\ count \in [Stages -> [Materials -> Nat]] /\ status \in [Orders -> Statuses]
      /\ stepper \in [Orders -> SUBSET Steps] /\ measured \in [Orders -> SUBSET Stages]
      /\ missed \in [Orders -> BOOLEAN] /\ req \in [Requests -> Request]
      /\ \A r \in Requests : Consistent(req[r])
  BY DEF TypeOK
<1>f. \A r \in Requests :
        /\ req[r].order \in Orders \cup {None} /\ req[r].stage \in Stages
        /\ req[r].mats \in SUBSET Materials /\ req[r].qty \in Nat
        /\ req[r].todo \in Seq(Writes)
  BY <1>t DEF Request
<1>o. \A r \in Requests : req[r].step # "idle" => req[r].order \in Orders
  BY <1>t DEF Consistent
<1>i. Idle \in Request /\ Consistent(Idle)
  BY IdleType
\* It is enough that the request replaced is well-formed and the counts stay counts.
<1>r. ASSUME NEW r \in Requests, NEW q \in Request, Consistent(q),
             req' = [req EXCEPT ![r] = q],
             count' \in [Stages -> [Materials -> Nat]],
             UNCHANGED <<status, stepper, measured>>, missed' \in [Orders -> BOOLEAN]
      PROVE  TypeOK'
  <2>1. req' \in [Requests -> Request] /\ \A k \in Requests : Consistent(req'[k])
    BY <1>t, <1>r, ReplaceRequest
  <2>2. \A k \in Requests : Consistent(req[k])'
    BY <2>1 DEF Consistent
  <2> QED BY <1>t, <1>r, <2>1, <2>2 DEF TypeOK
<1>1. ASSUME NEW r \in Requests, NEW o \in Orders, NEW s \in Stages, NEW c \in Codes,
             ScanRead(r, o, c, s)
      PROVE  TypeOK'
  <2>1. PICK m \in MaterialsOf(o) :
          req' = [req EXCEPT ![r] = [Idle EXCEPT !.step = "scan", !.order = o, !.stage = s,
                                                 !.mats = {m}]]
    BY <1>1 DEF ScanRead
  <2> DEFINE q == [Idle EXCEPT !.step = "scan", !.order = o, !.stage = s,
                               !.mats = {m}]
  <2>2. m \in Materials
    BY DEF MaterialsOf
  <2>3. q \in Request /\ Consistent(q)
    BY <2>2, EmptySeq DEF Idle, Request, Consistent
  <2>4. UNCHANGED <<count, status, stepper, measured, missed>>
    BY <1>1 DEF ScanRead
  <2> QED BY <1>t, <1>r, <2>1, <2>3, <2>4
<1>2. ASSUME NEW r \in Requests, NEW o \in Orders, NEW s \in Stages,
             NEW m \in Materials, NEW n \in Quantities, SetRead(r, o, m, s, n)
      PROVE  TypeOK'
  <2> DEFINE q == [Idle EXCEPT !.step = "set", !.order = o, !.stage = s,
                               !.mats = {m}, !.qty = n]
  <2>1. n \in Nat
    BY <1>2 DEF SetRead, Acceptable
  <2>2. q \in Request /\ Consistent(q)
    BY <2>1, EmptySeq DEF Idle, Request, Consistent
  <2>3. req' = [req EXCEPT ![r] = q] /\ UNCHANGED <<count, status, stepper, measured, missed>>
    BY <1>2 DEF SetRead
  <2> QED BY <1>t, <1>r, <2>2, <2>3
<1>3. ASSUME NEW r \in Requests, NEW o \in Orders, NEW s \in Stages,
             NEW items \in SUBSET Materials, BulkRead(r, o, items, s)
      PROVE  TypeOK'
  <2> DEFINE q == [Idle EXCEPT !.step = "bulk", !.order = o, !.stage = s,
                               !.mats = {m \in items : count[s][m] < Required[m]}]
  <2>1. q \in Request /\ Consistent(q)
    BY EmptySeq DEF Idle, Request, Consistent
  <2>2. req' = [req EXCEPT ![r] = q] /\ UNCHANGED <<count, status, stepper, measured, missed>>
    BY <1>3 DEF BulkRead
  <2> QED BY <1>t, <1>r, <2>1, <2>2
<1>4. ASSUME NEW r \in Requests, ScanWrite(r)
      PROVE  TypeOK'
  <2> DEFINE q == [req[r] EXCEPT !.step = "check", !.mats = {}]
  <2>0. req[r] \in Request /\ req[r].order \in Orders
    BY <1>4, <1>t, <1>o DEF ScanWrite
  <2>1. q \in Request /\ Consistent(q)
    BY <2>0, CheckingType
  <2>2. req' = [req EXCEPT ![r] = q] /\ UNCHANGED <<status, stepper, measured, missed>>
    BY <1>4 DEF ScanWrite
  <2>3. \A m \in Materials : count[req[r].stage][m] + 1 \in Nat
    BY <1>t, <1>f
  <2>4. count' \in [Stages -> [Materials -> Nat]]
    BY <1>4, <1>t, <1>f, <2>3 DEF ScanWrite
  <2> QED BY <1>t, <1>r, <2>1, <2>2, <2>4
<1>5. ASSUME NEW r \in Requests, SetWrite(r)
      PROVE  TypeOK'
  <2> DEFINE q == [req[r] EXCEPT !.step = "check", !.mats = {}, !.qty = 0]
  <2>0. req[r] \in Request /\ req[r].order \in Orders
    BY <1>5, <1>t, <1>o DEF SetWrite
  <2>1. q \in Request /\ Consistent(q)
    BY <2>0, CheckingType
  <2>2. req' = [req EXCEPT ![r] = q] /\ UNCHANGED <<status, stepper, measured>>
    BY <1>5 DEF SetWrite
  <2>3. count' \in [Stages -> [Materials -> Nat]]
    BY <1>5, <1>t, <1>f DEF SetWrite
  <2>4. \A o \in Orders : (missed[o] \/ \E m \in req[r].mats :
                             OrderOf[m] = o /\ req[r].order # o) \in BOOLEAN
    BY <1>t
  <2>5. missed' \in [Orders -> BOOLEAN]
    BY <1>5, <2>4 DEF SetWrite
  <2> QED BY <1>r, <2>1, <2>2, <2>3, <2>5
<1>6. ASSUME NEW r \in Requests, BulkWrite(r)
      PROVE  TypeOK'
  <2> DEFINE q == [req[r] EXCEPT !.step = "checkBoth", !.mats = {}]
  <2>0. req[r] \in Request /\ req[r].order \in Orders
    BY <1>6, <1>t, <1>o DEF BulkWrite
  <2>1. q \in Request /\ Consistent(q)
    BY <2>0, CheckingType
  <2>2. req' = [req EXCEPT ![r] = q] /\ UNCHANGED <<status, stepper, measured, missed>>
    BY <1>6 DEF BulkWrite
  <2>3. count' \in [Stages -> [Materials -> Nat]]
    BY <1>6, <1>t, <1>f DEF BulkWrite
  <2> QED BY <1>t, <1>r, <2>1, <2>2, <2>3
<1>7. ASSUME NEW r \in Requests, Check(r)
      PROVE  TypeOK'
  <2> DEFINE o == req[r].order
             todo == IF req[r].stage = "Issue" THEN AfterIssue(o) ELSE AfterPacking
             q == IF AllDone(req[r].stage, o)
                    THEN [Idle EXCEPT !.step = "finish", !.order = o, !.todo = todo]
                    ELSE Idle
  <2>1. o \in Orders
    BY <1>7, <1>o DEF Check
  <2>2. todo \in Seq(Writes) /\ todo # <<>>
    BY <2>1, AfterIssueType, AfterPackingType
  <2>3. req' = [req EXCEPT ![r] = q] /\ UNCHANGED <<count, status, stepper, measured, missed>>
    BY <1>7 DEF Check
  <2> HIDE DEF todo, o
  <2>4. q \in Request /\ Consistent(q)
    BY <1>i, <2>1, <2>2 DEF Idle, Request, Consistent
  <2> QED BY <1>t, <1>r, <2>3, <2>4
<1>8. ASSUME NEW r \in Requests, CheckBoth(r)
      PROVE  TypeOK'
  <2> DEFINE o == req[r].order
             packed == AllDone("Packing", o)
             go == [Idle EXCEPT !.step = "current", !.order = o,
                                !.stage = IF packed THEN "Packing" ELSE "Issue"]
             stop == Finishing(o, AfterBulk(o, FALSE, packed))
             q == IF AllDone("Issue", o) THEN go ELSE stop
  <2>1. o \in Orders
    BY <1>8, <1>o DEF CheckBoth
  <2>2. packed \in BOOLEAN
    BY DEF AllDone
  <2>3. req' = [req EXCEPT ![r] = q] /\ UNCHANGED <<count, status, stepper, measured, missed>>
    BY <1>8 DEF CheckBoth
  <2> HIDE DEF packed, o
  <2>4. AfterBulk(o, FALSE, packed) \in Seq(Writes)
    BY <2>1, <2>2, AfterBulkType
  <2>5. stop \in Request /\ Consistent(stop)
    BY <2>1, <2>4, FinishingType
  <2>6. go \in Request /\ Consistent(go)
    BY <2>1, EmptySeq DEF Idle, Request, Consistent, Stages
  <2>7. q \in Request /\ Consistent(q)
    BY <2>5, <2>6
  <2> QED BY <1>t, <1>r, <2>3, <2>7
<1>9. ASSUME NEW r \in Requests, Current(r)
      PROVE  TypeOK'
  <2> DEFINE o == req[r].order
             fresh == status[o] \notin {"W105", "F105", "Dispatched"}
             packed == req[r].stage = "Packing"
             q == Finishing(o, AfterBulk(o, fresh, packed))
  <2>1. o \in Orders
    BY <1>9, <1>o DEF Current
  <2>2. fresh \in BOOLEAN /\ packed \in BOOLEAN
    OBVIOUS
  <2>3. req' = [req EXCEPT ![r] = q] /\ UNCHANGED <<count, status, stepper, measured, missed>>
    BY <1>9 DEF Current
  <2> HIDE DEF fresh, packed, o
  <2>4. AfterBulk(o, fresh, packed) \in Seq(Writes)
    BY <2>1, <2>2, AfterBulkType
  <2>5. q \in Request /\ Consistent(q)
    BY <2>1, <2>4, FinishingType
  <2> QED BY <1>t, <1>r, <2>3, <2>5
<1>10. ASSUME NEW r \in Requests, Write(r)
       PROVE  TypeOK'
  <2> DEFINE o == req[r].order
             todo == req[r].todo
             w == Head(todo)
             q == Finishing(o, Tail(todo))
  <2>1. o \in Orders /\ todo \in Seq(Writes) /\ todo # <<>>
    BY <1>10, <1>t, <1>f, <1>o DEF Write, Consistent
  <2>2. w \in Writes /\ Tail(todo) \in Seq(Writes)
    BY <2>1, HeadTailProperties
  <2>3. q \in Request /\ Consistent(q)
    BY <2>1, <2>2, FinishingType
  <2>4. /\ req' = [req EXCEPT ![r] = q] /\ UNCHANGED <<count, missed>>
        /\ status' = IF w.kind = "status" THEN [status EXCEPT ![o] = w.value] ELSE status
        /\ stepper' = IF w.kind = "stepper" THEN [stepper EXCEPT ![o] = @ \cup {w.value}]
                                            ELSE stepper
        /\ \/ /\ w.kind = "record"
              /\ measured' = [measured EXCEPT ![o] = @ \cup {w.value}]
           \/ UNCHANGED measured
    BY <1>10 DEF Write
  <2>5. /\ w.kind = "status" => w.value \in Statuses
        /\ w.kind = "stepper" => w.value \in Steps
        /\ w.kind = "record" => w.value \in Stages
    BY <2>2 DEF Writes, SetStatus, SetStep, Record, Statuses
  <2> HIDE DEF o, todo, w, q
  <2>6. /\ status' \in [Orders -> Statuses] /\ stepper' \in [Orders -> SUBSET Steps]
        /\ measured' \in [Orders -> SUBSET Stages]
    <3>1. status' \in [Orders -> Statuses]
      BY <1>t, <2>1, <2>4, <2>5
    <3>2. stepper' \in [Orders -> SUBSET Steps]
      BY <1>t, <2>1, <2>4, <2>5
    <3>3. measured' \in [Orders -> SUBSET Stages]
      BY <1>t, <2>1, <2>4, <2>5
    <3> QED BY <3>1, <3>2, <3>3
  <2>7. req' \in [Requests -> Request] /\ \A k \in Requests : Consistent(req'[k])
    BY <1>t, <2>3, <2>4, ReplaceRequest
  <2>8. \A k \in Requests : Consistent(req[k])'
    BY <2>7 DEF Consistent
  <2> QED BY <1>t, <2>4, <2>6, <2>7, <2>8 DEF TypeOK
<1>11. ASSUME NEW o \in Dispatchable, Dispatch(o)
       PROVE  TypeOK'
  <2>1. o \in Orders /\ UNCHANGED <<count, measured, req, missed>>
    BY <1>11 DEF Dispatch
  <2> DEFINE d == "Dispatched"
  <2>a. d \in Statuses /\ d \in Steps
    BY DEF Statuses, Steps
  <2>b. status' = [status EXCEPT ![o] = d] /\ stepper' = [stepper EXCEPT ![o] = @ \cup {d}]
    BY <1>11 DEF Dispatch
  <2> HIDE DEF d
  <2>2. status' \in [Orders -> Statuses] /\ stepper' \in [Orders -> SUBSET Steps]
    BY <1>t, <2>1, <2>a, <2>b
  <2>3. \A k \in Requests : Consistent(req[k])'
    BY <1>t, <2>1 DEF Consistent
  <2> QED BY <1>t, <2>1, <2>2, <2>3 DEF TypeOK
<1>12. CASE Restart
  <2>1. UNCHANGED <<count, status, stepper, measured>> /\ req' = [r \in Requests |-> Idle]
    BY <1>12 DEF Restart
  <2>2. \A o \in Orders : (missed[o] \/ \E r \in Requests : req[r].order = o) \in BOOLEAN
    BY <1>t
  <2>3. missed' \in [Orders -> BOOLEAN]
    BY <1>12, <2>2 DEF Restart
  <2>4. req' \in [Requests -> Request] /\ \A k \in Requests : req'[k] = Idle
    BY <1>i, <2>1
  <2>5. \A k \in Requests : Consistent(req[k])'
    BY <1>i, <2>4 DEF Consistent
  <2> QED BY <1>t, <2>1, <2>3, <2>4, <2>5 DEF TypeOK
<1>13. CASE UNCHANGED vars
  <2>1. \A k \in Requests : Consistent(req[k])'
    BY <1>t, <1>13 DEF Consistent, vars
  <2> QED BY <1>t, <1>13, <2>1 DEF TypeOK, vars
<1>14. CASE StepKinds
  BY <1>1, <1>2, <1>3, <1>4, <1>5, <1>6, <1>7, <1>8, <1>9, <1>10, <1>11, <1>12, <1>14
     DEF StepKinds
<1> QED BY <1>13, <1>14, StepIsOfAKind

LEMMA TypeCorrectInitially == Init => TypeOK
<1> SUFFICES ASSUME Init PROVE TypeOK
  OBVIOUS
<1>1. req \in [Requests -> Request] /\ \A r \in Requests : req[r] = Idle
  BY IdleType DEF Init
<1>2. \A r \in Requests : Consistent(req[r])
  BY <1>1, IdleType
<1> QED BY <1>1, <1>2 DEF Init, TypeOK, Statuses

\* Counts, statuses, steps and requests have the types the schema and the handlers give
\* them, in every reachable state.
THEOREM TypeCorrect == Spec => []TypeOK
  BY TypeCorrectInitially, TypeStep, PTL DEF Spec

-----------------------------------------------------------------------------
(***************************************************************************)
(* How far scans can overrun                                               *)
(***************************************************************************)

\* The requests that have read material m for a scan of stage s and not yet counted it.
Scanners(s, m) ==
  {r \in Requests : req[r].step = "scan" /\ req[r].stage = s /\ m \in req[r].mats}

\* OverrunBounded is not inductive: a scan that has read will still add one.  With the
\* scans under way counted in, it is.
ScansFit ==
  \A s \in Stages, m \in Materials :
    count[s][m] + Cardinality(Scanners(s, m)) <= Required[m] + Cardinality(Requests) - 1

\* A quantity to be entered was checked against the required one.
EntriesFit ==
  \A r \in Requests : req[r].step = "set" => \A m \in req[r].mats : req[r].qty <= Required[m]

OverrunInv == TypeOK /\ ScansFit /\ EntriesFit

LEMMA ScannersFinite ==
  ASSUME NEW s, NEW m
  PROVE  /\ IsFiniteSet(Scanners(s, m)) /\ Cardinality(Scanners(s, m)) \in Nat
         /\ Cardinality(Scanners(s, m)) <= Cardinality(Requests)
         /\ Cardinality(Requests) \in Nat
  BY StageTrackingAssumption, FS_Subset, FS_CardinalityType DEF Scanners

\* Without r among them, the scans under way are fewer than the requests.
LEMMA ScannersWithout ==
  ASSUME NEW s, NEW m, NEW r \in Requests, r \notin Scanners(s, m)
  PROVE  Cardinality(Scanners(s, m)) <= Cardinality(Requests) - 1
<1>1. Scanners(s, m) \subseteq Requests \ {r} /\ IsFiniteSet(Requests \ {r})
  BY StageTrackingAssumption, FS_Subset DEF Scanners
<1>2. Cardinality(Scanners(s, m)) <= Cardinality(Requests \ {r})
  BY <1>1, FS_Subset
<1>3. Cardinality(Requests \ {r}) = Cardinality(Requests) - 1
  BY StageTrackingAssumption, FS_RemoveElement
<1> QED BY <1>2, <1>3

\* Fewer scans under way and the same count, or less of both.
LEMMA FewerScanners ==
  ASSUME NEW s, NEW m, Scanners(s, m)' \subseteq Scanners(s, m)
  PROVE  /\ Cardinality(Scanners(s, m)') <= Cardinality(Scanners(s, m))
         /\ Cardinality(Scanners(s, m)') \in Nat
<1>1. IsFiniteSet(Scanners(s, m))
  BY ScannersFinite
<1> QED BY <1>1, FS_Subset, FS_CardinalityType

\* A read joins a material only if there is room, and an entry only if it fits.
LEMMA OverrunStep == OverrunInv /\ [Next]_vars => OverrunInv'
<1> SUFFICES ASSUME OverrunInv, [Next]_vars PROVE OverrunInv'
  OBVIOUS
<1>t. TypeOK /\ TypeOK'
  BY TypeStep DEF OverrunInv
<1>c. /\ count \in [Stages -> [Materials -> Nat]] /\ Required \in [Materials -> Nat]
      /\ req \in [Requests -> Request] /\ count' \in [Stages -> [Materials -> Nat]]
      /\ req' \in [Requests -> Request]
  BY <1>t, StageTrackingAssumption DEF TypeOK
<1>n. Cardinality(Requests) \in Nat
  BY StageTrackingAssumption, FS_CardinalityType
<1>f. ScansFit /\ EntriesFit
  BY DEF OverrunInv
\* Replacing one request by one that is neither a scan nor an entry.
<1>e. ASSUME NEW r \in Requests, NEW q \in Request, q.step # "set",
             req' = [req EXCEPT ![r] = q]
      PROVE  EntriesFit'
  BY <1>e, <1>c, <1>f DEF EntriesFit
<1>s. ASSUME NEW r \in Requests, NEW q \in Request, q.step # "scan",
             req' = [req EXCEPT ![r] = q], NEW s \in Stages, NEW m \in Materials
      PROVE  Scanners(s, m)' \subseteq Scanners(s, m) \ {r}
  BY <1>s, <1>c DEF Scanners
<1>u. ASSUME UNCHANGED count,
             \A s \in Stages, m \in Materials : Scanners(s, m)' \subseteq Scanners(s, m)
      PROVE  ScansFit'
  <2> SUFFICES ASSUME NEW s \in Stages, NEW m \in Materials
               PROVE  count'[s][m] + Cardinality(Scanners(s, m)')
                        <= Required[m] + Cardinality(Requests) - 1
    BY DEF ScansFit
  <2>1. /\ Cardinality(Scanners(s, m)') <= Cardinality(Scanners(s, m))
        /\ Cardinality(Scanners(s, m)') \in Nat
    BY <1>u, FewerScanners
  <2>2. Cardinality(Scanners(s, m)) \in Nat
    BY ScannersFinite
  <2>3. count[s][m] + Cardinality(Scanners(s, m)) <= Required[m] + Cardinality(Requests) - 1
    BY <1>f DEF ScansFit
  <2>4. count[s][m] \in Nat /\ Required[m] \in Nat
    BY <1>c
  <2> QED BY <1>u, <1>n, <2>1, <2>2, <2>3, <2>4
<1>q. ASSUME NEW r \in Requests, NEW q \in Request, q.step \notin {"scan", "set"},
             req' = [req EXCEPT ![r] = q], UNCHANGED count
      PROVE  OverrunInv'
  BY <1>e, <1>s, <1>u, <1>t, <1>q DEF OverrunInv
\* A write of at most the required quantity, by a request that is not scanning.
<1>w. ASSUME NEW r \in Requests, NEW q \in Request, q.step \notin {"scan", "set"},
             req' = [req EXCEPT ![r] = q], req[r].step # "scan",
             \A s \in Stages, m \in Materials :
               count'[s][m] = count[s][m] \/ count'[s][m] <= Required[m]
      PROVE  OverrunInv'
  <2> SUFFICES ASSUME NEW s \in Stages, NEW m \in Materials
               PROVE  count'[s][m] + Cardinality(Scanners(s, m)')
                        <= Required[m] + Cardinality(Requests) - 1
    BY <1>t, <1>w, <1>e DEF OverrunInv, ScansFit
  <2>1. Scanners(s, m)' \subseteq Scanners(s, m)
    BY <1>s, <1>w
  <2>2. /\ Cardinality(Scanners(s, m)') <= Cardinality(Scanners(s, m))
        /\ Cardinality(Scanners(s, m)') \in Nat
    BY <2>1, FewerScanners
  <2>3. r \notin Scanners(s, m)
    BY <1>w DEF Scanners
  <2>4. Cardinality(Scanners(s, m)) <= Cardinality(Requests) - 1
    BY <2>3, ScannersWithout
  <2>5. Cardinality(Scanners(s, m)) \in Nat
    BY ScannersFinite
  <2>6. count[s][m] + Cardinality(Scanners(s, m)) <= Required[m] + Cardinality(Requests) - 1
    BY <1>f DEF ScansFit
  <2>7. count[s][m] \in Nat /\ count'[s][m] \in Nat /\ Required[m] \in Nat
    BY <1>c
  <2>8. count'[s][m] = count[s][m] \/ count'[s][m] <= Required[m]
    BY <1>w
  <2> QED BY <1>n, <2>2, <2>4, <2>5, <2>6, <2>7, <2>8
<1>1. ASSUME NEW r \in Requests, NEW o \in Orders, NEW s \in Stages, NEW c \in Codes,
             ScanRead(r, o, c, s)
      PROVE  OverrunInv'
  <2>1. PICK m \in MaterialsOf(o) :
          /\ Open(s, m)
          /\ req' = [req EXCEPT ![r] = [Idle EXCEPT !.step = "scan", !.order = o,
                                          !.stage = s, !.mats = {m}]]
    BY <1>1 DEF ScanRead
  <2> DEFINE q == [Idle EXCEPT !.step = "scan", !.order = o, !.stage = s,
                               !.mats = {m}]
  <2>2. UNCHANGED count /\ req[r] = Idle
    BY <1>1 DEF ScanRead
  <2>3. q.step = "scan" /\ q.stage = s /\ q.mats = {m} /\ Idle.step = "idle"
    BY DEF Idle
  <2>4. m \in Materials /\ req'[r] = q /\ \A k \in Requests : k # r => req'[k] = req[k]
    BY <1>c, <2>1 DEF MaterialsOf
  <2> HIDE DEF q
  <2>5. EntriesFit'
    BY <1>c, <1>f, <2>3, <2>4 DEF EntriesFit
  <2> SUFFICES ASSUME NEW t \in Stages, NEW k \in Materials
               PROVE  count'[t][k] + Cardinality(Scanners(t, k)')
                        <= Required[k] + Cardinality(Requests) - 1
    BY <1>t, <2>5 DEF OverrunInv, ScansFit
  <2>6. count[t][k] \in Nat /\ Required[k] \in Nat
    BY <1>c
  <2>7. CASE t = s /\ k = m
    <3>1. count[s][m] < Required[m]
      BY <2>1, <2>4, <1>c DEF Open, Cap, Stages
    <3>2. Scanners(t, k)' \subseteq Requests
      BY DEF Scanners
    <3>3. Cardinality(Scanners(t, k)') <= Cardinality(Requests)
          /\ Cardinality(Scanners(t, k)') \in Nat
      BY <3>2, StageTrackingAssumption, FS_Subset, FS_CardinalityType
    <3> QED BY <1>n, <2>2, <2>6, <2>7, <3>1, <3>3
  <2>8. CASE ~(t = s /\ k = m)
    <3>1. Scanners(t, k)' \subseteq Scanners(t, k)
      BY <2>3, <2>4, <2>8 DEF Scanners
    <3>2. /\ Cardinality(Scanners(t, k)') <= Cardinality(Scanners(t, k))
          /\ Cardinality(Scanners(t, k)') \in Nat
      BY <3>1, FewerScanners
    <3>3. Cardinality(Scanners(t, k)) \in Nat
      BY ScannersFinite
    <3>4. count[t][k] + Cardinality(Scanners(t, k))
            <= Required[k] + Cardinality(Requests) - 1
      BY <1>f DEF ScansFit
    <3> QED BY <1>n, <2>2, <2>6, <3>2, <3>3, <3>4
  <2> QED BY <2>7, <2>8
<1>2. ASSUME NEW r \in Requests, NEW o \in Orders, NEW s \in Stages,
             NEW m \in Materials, NEW n \in Quantities, SetRead(r, o, m, s, n)
      PROVE  OverrunInv'
  <2> DEFINE q == [Idle EXCEPT !.step = "set", !.order = o, !.stage = s,
                               !.mats = {m}, !.qty = n]
  <2>1. req' = [req EXCEPT ![r] = q] /\ UNCHANGED count
    BY <1>2 DEF SetRead
  <2>2. q.step = "set" /\ q.mats = {m} /\ q.qty = n
    BY DEF Idle
  <2>3. n \in Int /\ n <= Cap(s, m)
    BY <1>2, StageTrackingAssumption DEF SetRead, Acceptable
  <2>4. n <= Required[m]
    BY <2>3, <1>c DEF Cap, Stages
  <2>5. req'[r] = q /\ q \in Request /\ \A k \in Requests : k # r => req'[k] = req[k]
    BY <1>c, <2>1
  <2> HIDE DEF q
  <2>6. EntriesFit'
    BY <1>c, <1>f, <2>2, <2>4, <2>5 DEF EntriesFit
  <2>7. \A t \in Stages, k \in Materials : Scanners(t, k)' \subseteq Scanners(t, k)
    BY <1>s, <2>1, <2>2, <2>5
  <2> QED BY <1>t, <1>u, <2>1, <2>6, <2>7 DEF OverrunInv
<1>3. ASSUME NEW r \in Requests, NEW o \in Orders, NEW s \in Stages,
             NEW items \in SUBSET Materials, BulkRead(r, o, items, s)
      PROVE  OverrunInv'
  <2> DEFINE q == [Idle EXCEPT !.step = "bulk", !.order = o, !.stage = s,
                               !.mats = {m \in items : count[s][m] < Required[m]}]
  <2>1. req' = [req EXCEPT ![r] = q] /\ UNCHANGED count
    BY <1>3 DEF BulkRead
  <2>2. q.step = "bulk"
    BY DEF Idle
  <2>3. req'[r] = q /\ q \in Request
    BY <1>c, <2>1
  <2> QED BY <1>q, <2>1, <2>2, <2>3
<1>4. ASSUME NEW r \in Requests, ScanWrite(r)
      PROVE  OverrunInv'
  <2> DEFINE q == [req[r] EXCEPT !.step = "check", !.mats = {}]
             z == req[r].stage
  <2>1. req' = [req EXCEPT ![r] = q] /\ req[r].step = "scan"
    BY <1>4 DEF ScanWrite
  <2>2. req'[r] = q /\ q \in Request /\ z \in Stages /\ req[r].mats \in SUBSET Materials
    BY <1>c, <2>1 DEF Request
  <2>3. q.step = "check"
    BY <1>c DEF Request
  <2>4. EntriesFit'
    BY <1>e, <2>1, <2>2, <2>3
  <2> SUFFICES ASSUME NEW t \in Stages, NEW k \in Materials
               PROVE  count'[t][k] + Cardinality(Scanners(t, k)')
                        <= Required[k] + Cardinality(Requests) - 1
    BY <1>t, <2>4 DEF OverrunInv, ScansFit
  <2>5. Scanners(t, k)' \subseteq Scanners(t, k) \ {r}
    BY <1>s, <2>1, <2>2, <2>3
  <2>6. IsFiniteSet(Scanners(t, k)) /\ Cardinality(Scanners(t, k)) \in Nat
    BY ScannersFinite
  <2>7. count[t][k] + Cardinality(Scanners(t, k)) <= Required[k] + Cardinality(Requests) - 1
    BY <1>f DEF ScansFit
  <2>8. count[t][k] \in Nat /\ Required[k] \in Nat
    BY <1>c
  <2>9. CASE r \in Scanners(t, k)
    <3>1. IsFiniteSet(Scanners(t, k) \ {r})
          /\ Cardinality(Scanners(t, k) \ {r}) = Cardinality(Scanners(t, k)) - 1
      BY <2>6, <2>9, FS_RemoveElement
    <3>2. Cardinality(Scanners(t, k)') <= Cardinality(Scanners(t, k)) - 1
          /\ Cardinality(Scanners(t, k)') \in Nat
      BY <2>5, <3>1, FS_Subset, FS_CardinalityType
    <3>3. count'[t][k] = count[t][k] + 1 \/ count'[t][k] = count[t][k]
      BY <1>4, <1>c, <2>2 DEF ScanWrite
    <3> QED BY <1>n, <2>6, <2>7, <2>8, <3>2, <3>3
  <2>10. CASE r \notin Scanners(t, k)
    <3>1. /\ Cardinality(Scanners(t, k)') <= Cardinality(Scanners(t, k))
          /\ Cardinality(Scanners(t, k)') \in Nat
      BY <2>5, FewerScanners
    <3>2. ~(z = t /\ k \in req[r].mats)
      BY <2>1, <2>10 DEF Scanners
    <3>3. count'[t][k] = count[t][k]
      BY <1>4, <1>c, <2>2, <3>2 DEF ScanWrite
    <3> QED BY <1>n, <2>6, <2>7, <2>8, <3>1, <3>3
  <2> QED BY <2>9, <2>10
<1>5. ASSUME NEW r \in Requests, SetWrite(r)
      PROVE  OverrunInv'
  <2> DEFINE q == [req[r] EXCEPT !.step = "check", !.mats = {}, !.qty = 0]
  <2>1. req' = [req EXCEPT ![r] = q] /\ req[r].step = "set"
    BY <1>5 DEF SetWrite
  <2>2. req'[r] = q /\ q \in Request /\ q.step = "check" /\ req[r].stage \in Stages
    BY <1>c, <2>1 DEF Request
  <2>3. \A s \in Stages, m \in Materials :
          count'[s][m] = count[s][m] \/ (m \in req[r].mats /\ count'[s][m] = req[r].qty)
    BY <1>5, <1>c, <2>2 DEF SetWrite
  <2>4. \A m \in req[r].mats : req[r].qty <= Required[m]
    BY <1>f, <2>1 DEF EntriesFit
  <2>5. \A s \in Stages, m \in Materials :
          count'[s][m] = count[s][m] \/ count'[s][m] <= Required[m]
    BY <2>3, <2>4
  <2> QED BY <1>w, <2>1, <2>2, <2>5
<1>6. ASSUME NEW r \in Requests, BulkWrite(r)
      PROVE  OverrunInv'
  <2> DEFINE q == [req[r] EXCEPT !.step = "checkBoth", !.mats = {}]
  <2>1. req' = [req EXCEPT ![r] = q] /\ req[r].step = "bulk"
    BY <1>6 DEF BulkWrite
  <2>2. req'[r] = q /\ q \in Request /\ q.step = "checkBoth" /\ req[r].stage \in Stages
    BY <1>c, <2>1 DEF Request
  <2>3. \A s \in Stages, m \in Materials :
          count'[s][m] = count[s][m] \/ count'[s][m] = Required[m]
    BY <1>6, <1>c, <2>2 DEF BulkWrite
  <2>4. \A s \in Stages, m \in Materials :
          count'[s][m] = count[s][m] \/ count'[s][m] <= Required[m]
    BY <1>c, <2>3
  <2> QED BY <1>w, <2>1, <2>2, <2>4
\* The rest of the steps take no scan or entry up and count nothing.
<1>7. ASSUME NEW r \in Requests, NEW q, req' = [req EXCEPT ![r] = q],
             q.step \notin {"scan", "set"}, UNCHANGED count
      PROVE  OverrunInv'
  <2>1. q \in Request
    BY <1>c, <1>7
  <2> QED BY <1>q, <1>7, <2>1
<1>8. ASSUME NEW o, NEW todo
      PROVE  Finishing(o, todo).step \notin {"scan", "set"}
  BY DEF Finishing, Idle
<1>9. ASSUME NEW r \in Requests, Check(r)
      PROVE  OverrunInv'
  <2> DEFINE q == IF AllDone(req[r].stage, req[r].order)
                    THEN [Idle EXCEPT !.step = "finish", !.order = req[r].order,
                            !.todo = IF req[r].stage = "Issue" THEN AfterIssue(req[r].order)
                                                               ELSE AfterPacking]
                    ELSE Idle
  <2>1. req' = [req EXCEPT ![r] = q] /\ UNCHANGED count
    BY <1>9 DEF Check
  <2>2. q.step \notin {"scan", "set"}
    BY DEF Idle
  <2> QED BY <1>7, <2>1, <2>2
<1>10. ASSUME NEW r \in Requests, CheckBoth(r)
       PROVE  OverrunInv'
  <2> DEFINE packed == AllDone("Packing", req[r].order)
             go == [Idle EXCEPT !.step = "current", !.order = req[r].order,
                                !.stage = IF packed THEN "Packing" ELSE "Issue"]
             stop == Finishing(req[r].order, AfterBulk(req[r].order, FALSE, packed))
             q == IF AllDone("Issue", req[r].order) THEN go ELSE stop
  <2>1. req' = [req EXCEPT ![r] = q] /\ UNCHANGED count
    BY <1>10 DEF CheckBoth
  <2>2. go.step \notin {"scan", "set"}
    BY DEF Idle
  <2>3. stop.step \notin {"scan", "set"}
    BY <1>8
  <2>4. q.step \notin {"scan", "set"}
    BY <2>2, <2>3
  <2> QED BY <1>7, <2>1, <2>4
<1>11. ASSUME NEW r \in Requests, Current(r)
       PROVE  OverrunInv'
  <2> DEFINE q == Finishing(req[r].order,
                    AfterBulk(req[r].order,
                              status[req[r].order] \notin {"W105", "F105", "Dispatched"},
                              req[r].stage = "Packing"))
  <2>1. req' = [req EXCEPT ![r] = q] /\ UNCHANGED count
    BY <1>11 DEF Current
  <2>2. q.step \notin {"scan", "set"}
    BY <1>8
  <2> QED BY <1>7, <2>1, <2>2
<1>12. ASSUME NEW r \in Requests, Write(r)
       PROVE  OverrunInv'
  <2> DEFINE q == Finishing(req[r].order, Tail(req[r].todo))
  <2>1. req' = [req EXCEPT ![r] = q] /\ UNCHANGED count
    BY <1>12 DEF Write
  <2>2. q.step \notin {"scan", "set"}
    BY <1>8
  <2> QED BY <1>7, <2>1, <2>2
<1>13. ASSUME UNCHANGED <<count, req>>
       PROVE  OverrunInv'
  <2>1. EntriesFit'
    BY <1>f, <1>13 DEF EntriesFit
  <2>2. \A s \in Stages, m \in Materials : Scanners(s, m)' \subseteq Scanners(s, m)
    BY <1>13 DEF Scanners
  <2> QED BY <1>t, <1>u, <1>13, <2>1, <2>2 DEF OverrunInv
<1>14. CASE Restart
  <2>1. UNCHANGED count /\ \A r \in Requests : req'[r].step = "idle"
    BY <1>14 DEF Restart, Idle
  <2>2. EntriesFit'
    BY <2>1 DEF EntriesFit
  <2>3. \A s \in Stages, m \in Materials : Scanners(s, m)' \subseteq Scanners(s, m)
    BY <2>1 DEF Scanners
  <2> QED BY <1>t, <1>u, <2>1, <2>2, <2>3 DEF OverrunInv
<1>15. ASSUME NEW o \in Dispatchable, Dispatch(o)
       PROVE  OverrunInv'
  BY <1>13, <1>15 DEF Dispatch
<1>16. CASE UNCHANGED vars
  BY <1>13, <1>16 DEF vars
<1>17. CASE StepKinds
  BY <1>1, <1>2, <1>3, <1>4, <1>5, <1>6, <1>9, <1>10, <1>11, <1>12, <1>14, <1>15, <1>17
     DEF StepKinds
<1> QED BY <1>16, <1>17, StepIsOfAKind

\* However many scans read a row before any of them writes, a count exceeds the required
\* quantity by less than the number of requests that can run (incrementIssueStage,
\* incrementPackingStage).
THEOREM OverrunAlwaysBounded == Spec => []OverrunBounded
<1>1. Init => OverrunInv
  <2> SUFFICES ASSUME Init PROVE OverrunInv
    OBVIOUS
  <2>1. TypeOK
    BY TypeCorrectInitially
  <2>2. \A r \in Requests : req[r].step = "idle"
    BY DEF Init, Idle
  <2>3. EntriesFit
    BY <2>2 DEF EntriesFit
  <2> SUFFICES ASSUME NEW s \in Stages, NEW m \in Materials
               PROVE  count[s][m] + Cardinality(Scanners(s, m))
                        <= Required[m] + Cardinality(Requests) - 1
    BY <2>1, <2>3 DEF OverrunInv, ScansFit
  <2>4. Scanners(s, m) = {}
    BY <2>2 DEF Scanners
  <2>5. Cardinality(Scanners(s, m)) = 0
    BY <2>4, FS_EmptySet
  <2>6. Cardinality(Requests) \in Nat /\ Cardinality(Requests) # 0
    BY StageTrackingAssumption, FS_CardinalityType, FS_EmptySet
  <2>7. count[s][m] = 0 /\ Required[m] \in Nat
    BY StageTrackingAssumption DEF Init
  <2> QED BY <2>5, <2>6, <2>7
<1>2. OverrunInv /\ [Next]_vars => OverrunInv'
  BY OverrunStep
<1>3. OverrunInv => OverrunBounded
  <2> SUFFICES ASSUME OverrunInv, NEW s \in Stages, NEW m \in Materials
               PROVE  count[s][m] <= Required[m] + Cardinality(Requests) - 1
    BY DEF OverrunBounded
  <2>1. count[s][m] + Cardinality(Scanners(s, m)) <= Required[m] + Cardinality(Requests) - 1
    BY DEF OverrunInv, ScansFit
  <2>3. Cardinality(Scanners(s, m)) \in Nat /\ Cardinality(Requests) \in Nat
    BY ScannersFinite
  <2>4. count \in [Stages -> [Materials -> Nat]]
    BY DEF OverrunInv, TypeOK
  <2>2. count[s][m] \in Nat /\ Required[m] \in Nat
    BY <2>4, StageTrackingAssumption
  <2> QED BY <2>1, <2>2, <2>3
<1> QED BY <1>1, <1>2, <1>3, PTL DEF Spec

-----------------------------------------------------------------------------
(***************************************************************************)
(* Scans stay                                                              *)
(***************************************************************************)

\* What OnlySettingLowers says of one step.
LowersByEntry ==
  \A s \in Stages, m \in Materials : count'[s][m] < count[s][m] =>
    \/ count'[s][m] = Required[m]
    \/ \E r \in Requests : req[r].step = "set" /\ m \in req[r].mats

LEMMA LoweringStep == TypeOK /\ [Next]_vars => LowersByEntry
<1> SUFFICES ASSUME TypeOK, [Next]_vars, NEW s \in Stages, NEW m \in Materials,
                    count'[s][m] < count[s][m]
             PROVE  \/ count'[s][m] = Required[m]
                    \/ \E r \in Requests : req[r].step = "set" /\ m \in req[r].mats
  BY DEF LowersByEntry
<1>c. count \in [Stages -> [Materials -> Nat]] /\ req \in [Requests -> Request]
  BY DEF TypeOK
<1>n. count[s][m] \in Nat
  BY <1>c
<1>z. \A r \in Requests : req[r].stage \in Stages
  BY <1>c DEF Request
<1>u. ~ UNCHANGED count
  BY <1>n
<1>1. ASSUME NEW r \in Requests, ScanWrite(r) PROVE FALSE
  <2>1. count'[s][m] = count[s][m] + 1 \/ count'[s][m] = count[s][m]
    BY <1>1, <1>c, <1>z DEF ScanWrite
  <2> QED BY <1>n, <2>1
<1>2. ASSUME NEW r \in Requests, SetWrite(r)
      PROVE  req[r].step = "set" /\ m \in req[r].mats
  <2>1. count'[s][m] = count[s][m] \/ m \in req[r].mats
    BY <1>2, <1>c, <1>z DEF SetWrite
  <2> QED BY <1>2, <1>n, <2>1 DEF SetWrite
<1>3. ASSUME NEW r \in Requests, BulkWrite(r) PROVE count'[s][m] = Required[m]
  <2>1. count'[s][m] = count[s][m] \/ count'[s][m] = Required[m]
    BY <1>3, <1>c, <1>z DEF BulkWrite
  <2> QED BY <1>n, <2>1
<1>4. \/ \E r \in Requests : ScanWrite(r)
      \/ \E r \in Requests : SetWrite(r)
      \/ \E r \in Requests : BulkWrite(r)
      \/ UNCHANGED count
  <2>1. CASE StepKinds
    BY <2>1 DEF StepKinds, ScanRead, SetRead, BulkRead, Check, CheckBoth, Current, Write,
                Dispatch, Restart
  <2>2. CASE UNCHANGED vars
    BY <2>2 DEF vars
  <2> QED BY <2>1, <2>2, StepIsOfAKind
<1> QED BY <1>1, <1>2, <1>3, <1>4, <1>u

\* No scan takes another one back, and no acceptance of a group does: a count goes down
\* only by an entry, or to the required quantity after an overrun.
THEOREM ScansStay == Spec => OnlySettingLowers
<1>1. TypeOK /\ [Next]_vars => [LowersByEntry]_vars
  BY LoweringStep
<1>2. Spec => [][LowersByEntry]_vars
  BY <1>1, TypeCorrect, PTL DEF Spec
<1> QED BY <1>2 DEF OnlySettingLowers, LowersByEntry

-----------------------------------------------------------------------------
(***************************************************************************)
(* The writes that are left to do                                          *)
(***************************************************************************)

\* Wherever write w is, write v comes after it.
Follows(todo, w, v) ==
  \A i \in DOMAIN todo : todo[i] = w => \E j \in DOMAIN todo : j > i /\ todo[j] = v

Has(todo, v) == \E i \in DOMAIN todo : todo[i] = v

LEMMA HeadAndTail ==
  ASSUME NEW todo \in Seq(Writes), todo # <<>>
  PROVE  /\ Len(todo) \in Nat \ {0} /\ DOMAIN todo = 1..Len(todo)
         /\ Head(todo) = todo[1] /\ Head(todo) \in Writes
         /\ Tail(todo) \in Seq(Writes) /\ DOMAIN Tail(todo) = 1..(Len(todo) - 1)
         /\ \A i \in 1..(Len(todo) - 1) : Tail(todo)[i] = todo[i + 1]
<1>1. Len(todo) \in Nat \ {0} /\ DOMAIN todo = 1..Len(todo)
  BY EmptySeq
<1> QED BY <1>1, HeadTailProperties

LEMMA TailHas ==
  ASSUME NEW todo \in Seq(Writes), todo # <<>>, NEW v, Has(todo, v), Head(todo) # v
  PROVE  Has(Tail(todo), v)
<1>1. PICK i \in 1..Len(todo) : todo[i] = v
  BY HeadAndTail DEF Has
<1>2. i - 1 \in 1..(Len(todo) - 1) /\ todo[(i - 1) + 1] = v
  BY <1>1, HeadAndTail
<1> QED BY <1>2, HeadAndTail DEF Has

LEMMA HeadFollowed ==
  ASSUME NEW todo \in Seq(Writes), todo # <<>>, NEW v, Follows(todo, Head(todo), v)
  PROVE  Has(Tail(todo), v)
<1>1. PICK j \in 1..Len(todo) : j > 1 /\ todo[j] = v
  BY HeadAndTail DEF Follows
<1>2. j - 1 \in 1..(Len(todo) - 1) /\ todo[(j - 1) + 1] = v
  BY <1>1, HeadAndTail
<1> QED BY <1>2, HeadAndTail DEF Has

LEMMA TailFollows ==
  ASSUME NEW todo \in Seq(Writes), todo # <<>>, NEW w, NEW v, Follows(todo, w, v)
  PROVE  Follows(Tail(todo), w, v)
<1>a. DOMAIN Tail(todo) = 1..(Len(todo) - 1) /\ \A i \in 1..(Len(todo) - 1) : Tail(todo)[i] = todo[i + 1]
  BY HeadAndTail
<1> SUFFICES ASSUME NEW i \in 1..(Len(todo) - 1), todo[i + 1] = w
             PROVE  \E j \in 1..(Len(todo) - 1) : j > i /\ todo[j + 1] = v
  BY <1>a DEF Follows
<1>1. i + 1 \in 1..Len(todo)
  BY HeadAndTail
<1>2. PICK j \in 1..Len(todo) : j > i + 1 /\ todo[j] = v
  BY <1>1, HeadAndTail DEF Follows
<1>3. j - 1 \in 1..(Len(todo) - 1) /\ j - 1 > i /\ todo[(j - 1) + 1] = v
  BY <1>2, HeadAndTail
<1> QED BY <1>3

LEMMA ConcatFollows ==
  ASSUME NEW s \in Seq(Writes), NEW t \in Seq(Writes), NEW w, NEW v,
         Follows(s, w, v), Follows(t, w, v)
  PROVE  Follows(s \o t, w, v)
<1>1. /\ Len(s) \in Nat /\ Len(t) \in Nat /\ DOMAIN s = 1..Len(s) /\ DOMAIN t = 1..Len(t)
      /\ s \o t \in Seq(Writes) /\ DOMAIN (s \o t) = 1..(Len(s) + Len(t))
      /\ \A i \in 1..(Len(s) + Len(t)) : (s \o t)[i] = IF i <= Len(s) THEN s[i] ELSE t[i - Len(s)]
  BY ConcatProperties
<1> SUFFICES ASSUME NEW i \in 1..(Len(s) + Len(t)), (s \o t)[i] = w
             PROVE  \E j \in 1..(Len(s) + Len(t)) : j > i /\ (s \o t)[j] = v
  BY <1>1 DEF Follows
<1>2. CASE i <= Len(s)
  <2>1. PICK j \in 1..Len(s) : j > i /\ s[j] = v
    BY <1>1, <1>2 DEF Follows
  <2>2. j \in 1..(Len(s) + Len(t)) /\ (s \o t)[j] = v
    BY <1>1, <2>1
  <2> QED BY <2>1, <2>2
<1>3. CASE i > Len(s)
  <2>1. i - Len(s) \in 1..Len(t) /\ t[i - Len(s)] = w
    BY <1>1, <1>3
  <2>2. PICK j \in 1..Len(t) : j > i - Len(s) /\ t[j] = v
    BY <1>1, <2>1 DEF Follows
  <2>3. j + Len(s) \in 1..(Len(s) + Len(t)) /\ j + Len(s) > i /\ ~(j + Len(s) <= Len(s))
    BY <1>1, <2>2
  <2>4. (s \o t)[j + Len(s)] = t[(j + Len(s)) - Len(s)] /\ (j + Len(s)) - Len(s) = j
    BY <1>1, <2>3
  <2> QED BY <2>2, <2>3, <2>4
<1> QED BY <1>1, <1>2, <1>3

\* What a status needs after it among the writes of an order.
Led(o, todo) ==
  /\ Follows(todo, SetStatus("W105"), SetStep("Issued"))
  /\ o \in PackerAssigned => Follows(todo, SetStatus("W105"), SetStep("Under Packing"))
  /\ Follows(todo, SetStatus("F105"), SetStep("Packed"))

LEMMA ConcatLed ==
  ASSUME NEW o, NEW s \in Seq(Writes), NEW t \in Seq(Writes), Led(o, s), Led(o, t)
  PROVE  Led(o, s \o t) /\ s \o t \in Seq(Writes)
  BY ConcatFollows, ConcatProperties DEF Led

LEMMA WritesDiffer ==
  /\ \A v, w : SetStatus(v) # SetStep(w) /\ SetStatus(v) # Record(w) /\ SetStep(v) # Record(w)
  /\ SetStatus("W105") # SetStatus("F105")
  BY DEF SetStatus, SetStep, Record

\* What comes in a later part comes after every write of an earlier one.
LEMMA FollowsAcross ==
  ASSUME NEW s \in Seq(Writes), NEW t \in Seq(Writes), NEW w, NEW v, Has(t, v), ~Has(t, w)
  PROVE  Follows(s \o t, w, v)
<1>1. /\ Len(s) \in Nat /\ Len(t) \in Nat /\ DOMAIN s = 1..Len(s) /\ DOMAIN t = 1..Len(t)
      /\ s \o t \in Seq(Writes) /\ DOMAIN (s \o t) = 1..(Len(s) + Len(t))
      /\ \A i \in 1..(Len(s) + Len(t)) : (s \o t)[i] = IF i <= Len(s) THEN s[i] ELSE t[i - Len(s)]
  BY ConcatProperties
<1>2. PICK j \in 1..Len(t) : t[j] = v
  BY <1>1 DEF Has
<1>3. j + Len(s) \in 1..(Len(s) + Len(t)) /\ ~(j + Len(s) <= Len(s)) /\ (j + Len(s)) - Len(s) = j
  BY <1>1
<1>4. (s \o t)[j + Len(s)] = v
  BY <1>1, <1>2, <1>3
<1> SUFFICES ASSUME NEW i \in 1..(Len(s) + Len(t)), (s \o t)[i] = w
             PROVE  i <= Len(s)
  BY <1>1, <1>3, <1>4 DEF Follows
<1>5. i > Len(s) => i - Len(s) \in 1..Len(t) /\ t[i - Len(s)] = w
  BY <1>1
<1> QED BY <1>1, <1>5, SMTT(40) DEF Has

LEMMA ConcatHead ==
  ASSUME NEW s \in Seq(Writes), NEW t \in Seq(Writes), s # <<>>
  PROVE  s \o t # <<>> /\ Head(s \o t) = Head(s)
<1>1. Len(s) \in Nat \ {0} /\ Len(t) \in Nat /\ Head(s) = s[1]
  BY HeadAndTail
<1>2. s \o t \in Seq(Writes) /\ Len(s \o t) = Len(s) + Len(t) /\ (s \o t)[1] = s[1]
  BY <1>1, ConcatProperties
<1>3. s \o t # <<>>
  BY <1>1, <1>2, EmptySeq
<1> QED BY <1>1, <1>2, <1>3, HeadAndTail

\* Nothing is due after a sequence without a status.
LEMMA NoStatusLed ==
  ASSUME NEW o, NEW t \in Seq(Writes), ~Has(t, SetStatus("W105")), ~Has(t, SetStatus("F105"))
  PROVE  Led(o, t)
  BY DEF Led, Follows, Has

LEMMA NothingLed == ASSUME NEW o PROVE Led(o, <<>>) /\ <<>> \in Seq(Writes)
<1>1. <<>> \in Seq(Writes) /\ DOMAIN <<>> = {}
  BY EmptySeq
<1> QED BY <1>1 DEF Led, Follows

LEMMA UnderPackingHas ==
  ASSUME NEW o \in Orders
  PROVE  /\ o \in PackerAssigned => Has(UnderPacking(o), SetStep("Under Packing"))
         /\ ~Has(UnderPacking(o), SetStatus("W105")) /\ ~Has(UnderPacking(o), SetStatus("F105"))
<1>1. CASE o \in PackerAssigned
  <2>1. UnderPacking(o) = <<SetStep("Under Packing")>>
    BY <1>1 DEF UnderPacking
  <2> DEFINE c == SetStep("Under Packing")
  <2>2. c # SetStatus("W105") /\ c # SetStatus("F105")
    BY WritesDiffer
  <2> HIDE DEF c
  <2>3. DOMAIN <<c>> = 1..1 /\ <<c>>[1] = c
    OBVIOUS
  <2>4. UnderPacking(o) = <<c>>
    BY <2>1 DEF c
  <2>5. Has(UnderPacking(o), c) /\ \A v : Has(UnderPacking(o), v) => v = c
    BY <2>3, <2>4 DEF Has
  <2> QED BY <2>2, <2>5 DEF c
<1>2. CASE o \notin PackerAssigned
  <2>1. UnderPacking(o) = <<>> /\ DOMAIN <<>> = {}
    BY <1>2, EmptySeq DEF UnderPacking
  <2> QED BY <1>2, <2>1 DEF Has
<1> QED BY <1>1, <1>2

\* After the issue: the status, then the steps it needs.
LEMMA LedWithPackers ==
  ASSUME NEW o \in Orders, NEW s \in Seq(Writes), s # <<>>,
         Follows(s, SetStatus("W105"), SetStep("Issued")), ~Has(s, SetStatus("F105"))
  PROVE  /\ Led(o, s \o UnderPacking(o)) /\ s \o UnderPacking(o) \in Seq(Writes)
         /\ s \o UnderPacking(o) # <<>> /\ Head(s \o UnderPacking(o)) = Head(s)
<1> DEFINE t == UnderPacking(o)
<1>1. t \in Seq(Writes)
  BY UnderPackingType
<1>2. /\ o \in PackerAssigned => Has(t, SetStep("Under Packing"))
      /\ ~Has(t, SetStatus("W105")) /\ ~Has(t, SetStatus("F105"))
  BY UnderPackingHas
<1> HIDE DEF t
<1>3. Follows(t, SetStatus("W105"), SetStep("Issued")) /\ Follows(t, SetStatus("F105"), SetStep("Packed"))
  BY <1>2 DEF Follows, Has
<1>4. Follows(s, SetStatus("F105"), SetStep("Packed"))
  BY DEF Follows, Has
<1>5. /\ Follows(s \o t, SetStatus("W105"), SetStep("Issued"))
      /\ Follows(s \o t, SetStatus("F105"), SetStep("Packed"))
  BY <1>1, <1>3, <1>4, ConcatFollows
<1>6. o \in PackerAssigned => Follows(s \o t, SetStatus("W105"), SetStep("Under Packing"))
  BY <1>1, <1>2, FollowsAcross
<1>7. s \o t \in Seq(Writes) /\ s \o t # <<>> /\ Head(s \o t) = Head(s)
  BY <1>1, ConcatHead, ConcatProperties
<1>8. Led(o, s \o t)
  BY <1>5, <1>6 DEF Led
<1> QED BY <1>7, <1>8 DEF t

LEMMA IssueLed ==
  ASSUME NEW o \in Orders
  PROVE  LET i == <<SetStatus("W105"), SetStep("Issued")>> \o UnderPacking(o)
             j == AfterIssue(o)
         IN /\ Led(o, i) /\ i \in Seq(Writes) /\ i # <<>> /\ Head(i) = SetStatus("W105")
            /\ Led(o, j) /\ j \in Seq(Writes) /\ j # <<>> /\ Head(j) = SetStatus("W105")
<1> DEFINE a == SetStatus("W105")
           b == SetStep("Issued")
           d == Record("Issue")
           s == <<a, b>>
           u == <<a, d, b>>
<1>0. a \in Writes /\ b \in Writes /\ d \in Writes
  BY DEF Writes, Steps, Stages
<1>1. b # a /\ d # a /\ a # SetStatus("F105") /\ b # SetStatus("F105") /\ d # SetStatus("F105")
  BY WritesDiffer
<1> HIDE DEF a, b, d
<1>2. s \in Seq(Writes) /\ u \in Seq(Writes) /\ Len(s) = 2 /\ Len(u) = 3
  BY <1>0
<1>3. /\ DOMAIN s = 1..2 /\ s[1] = a /\ s[2] = b
      /\ DOMAIN u = 1..3 /\ u[1] = a /\ u[2] = d /\ u[3] = b
  OBVIOUS
<1> HIDE DEF s, u
<1>4. s # <<>> /\ u # <<>>
  <2>1. Len(s) = 2 /\ Len(u) = 3 /\ Len(<<>>) = 0
    BY <1>2, EmptySeq
  <2>2. s # <<>>
    BY <2>1
  <2>3. u # <<>>
    BY <2>1
  <2> QED BY <2>2, <2>3
<1>5. Head(s) = a /\ Head(u) = a
  BY <1>2, <1>3, <1>4, HeadAndTail
<1>6. Follows(s, a, b) /\ ~Has(s, SetStatus("F105"))
  <2>1. \A i \in 1..2 : i = 1 \/ i = 2
    OBVIOUS
  <2> QED BY <1>1, <1>3, <2>1 DEF Follows, Has
<1>7. Follows(u, a, b) /\ ~Has(u, SetStatus("F105"))
  <2>1. \A i \in 1..3 : i = 1 \/ i = 2 \/ i = 3
    OBVIOUS
  <2> QED BY <1>1, <1>3, <2>1 DEF Follows, Has
<1>8. LET i == s \o UnderPacking(o)  j == u \o UnderPacking(o)
      IN /\ Led(o, i) /\ i \in Seq(Writes) /\ i # <<>> /\ Head(i) = a
         /\ Led(o, j) /\ j \in Seq(Writes) /\ j # <<>> /\ Head(j) = a
  BY <1>2, <1>4, <1>5, <1>6, <1>7, LedWithPackers DEF a, b
<1> QED BY <1>8 DEF AfterIssue, s, u, a, b, d

\* After the packing.
LEMMA PackingLed ==
  ASSUME NEW o
  PROVE  LET i == <<SetStatus("F105"), SetStep("Packed")>>
         IN /\ Led(o, i) /\ i \in Seq(Writes)
            /\ Led(o, AfterPacking) /\ AfterPacking \in Seq(Writes)
<1> DEFINE a == SetStatus("F105")
           b == SetStep("Packed")
           d == Record("Packing")
           s == <<a, b>>
           u == <<a, d, b>>
<1>0. a \in Writes /\ b \in Writes /\ d \in Writes
  BY DEF Writes, Steps, Stages
<1>1. b # a /\ d # a /\ a # SetStatus("W105") /\ b # SetStatus("W105") /\ d # SetStatus("W105")
  BY WritesDiffer
<1> HIDE DEF a, b, d
<1>2. s \in Seq(Writes) /\ u \in Seq(Writes)
  BY <1>0
<1>3. /\ DOMAIN s = 1..2 /\ s[1] = a /\ s[2] = b
      /\ DOMAIN u = 1..3 /\ u[1] = a /\ u[2] = d /\ u[3] = b
  OBVIOUS
<1> HIDE DEF s, u
<1>4. Follows(s, a, b) /\ ~Has(s, SetStatus("W105"))
  <2>1. \A i \in 1..2 : i = 1 \/ i = 2
    OBVIOUS
  <2> QED BY <1>1, <1>3, <2>1 DEF Follows, Has
<1>5. Follows(u, a, b) /\ ~Has(u, SetStatus("W105"))
  <2>1. \A i \in 1..3 : i = 1 \/ i = 2 \/ i = 3
    OBVIOUS
  <2> QED BY <1>1, <1>3, <2>1 DEF Follows, Has
<1>6. Led(o, s) /\ Led(o, u)
  BY <1>4, <1>5 DEF Led, Follows, Has, a, b
<1> QED BY <1>2, <1>6 DEF AfterPacking, s, u, a, b, d

\* After a group is accepted.
LEMMA BulkLed ==
  ASSUME NEW o \in Orders, NEW issued \in BOOLEAN, NEW packed \in BOOLEAN
  PROVE  /\ Led(o, AfterBulk(o, issued, packed)) /\ AfterBulk(o, issued, packed) \in Seq(Writes)
         /\ issued => /\ AfterBulk(o, issued, packed) # <<>>
                      /\ Head(AfterBulk(o, issued, packed)) = SetStatus("W105")
<1> DEFINE i == <<SetStatus("W105"), SetStep("Issued")>> \o UnderPacking(o)
           p == <<SetStatus("F105"), SetStep("Packed")>>
           ri == <<Record("Issue")>>
           rp == <<Record("Packing")>>
<1>1. /\ Led(o, i) /\ i \in Seq(Writes) /\ i # <<>> /\ Head(i) = SetStatus("W105")
      /\ Led(o, p) /\ p \in Seq(Writes)
  BY IssueLed, PackingLed
<1>2. ri \in Seq(Writes) /\ rp \in Seq(Writes)
  BY DEF Writes, Stages
<1>3. DOMAIN ri = {1} /\ DOMAIN rp = {1} /\ ri[1] = Record("Issue") /\ rp[1] = Record("Packing")
  OBVIOUS
<1> HIDE DEF i, p, ri, rp
<1>4. Led(o, ri) /\ Led(o, rp)
  BY <1>2, <1>3, WritesDiffer, NoStatusLed DEF Has
<1> DEFINE A == IF issued THEN i ELSE <<>>
           B == IF packed THEN p ELSE <<>>
           C == IF issued THEN ri ELSE <<>>
           D == IF packed THEN rp ELSE <<>>
<1>5. /\ Led(o, A) /\ A \in Seq(Writes) /\ Led(o, B) /\ B \in Seq(Writes)
      /\ Led(o, C) /\ C \in Seq(Writes) /\ Led(o, D) /\ D \in Seq(Writes)
      /\ issued => A # <<>> /\ Head(A) = SetStatus("W105")
  BY <1>1, <1>2, <1>4, NothingLed
<1> HIDE DEF A, B, C, D
<1>6. Led(o, A \o B) /\ A \o B \in Seq(Writes)
      /\ (issued => A \o B # <<>> /\ Head(A \o B) = SetStatus("W105"))
  BY <1>5, ConcatLed, ConcatHead
<1>7. Led(o, (A \o B) \o C) /\ (A \o B) \o C \in Seq(Writes)
      /\ (issued => (A \o B) \o C # <<>> /\ Head((A \o B) \o C) = SetStatus("W105"))
  BY <1>5, <1>6, ConcatLed, ConcatHead
<1>8. Led(o, ((A \o B) \o C) \o D) /\ ((A \o B) \o C) \o D \in Seq(Writes)
      /\ (issued => ((A \o B) \o C) \o D # <<>> /\ Head(((A \o B) \o C) \o D) = SetStatus("W105"))
  BY <1>5, <1>7, ConcatLed, ConcatHead
<1> QED BY <1>8 DEF AfterBulk, A, B, C, D, i, p, ri, rp

-----------------------------------------------------------------------------
(***************************************************************************)
(* The status and its steps                                                *)
(***************************************************************************)

\* A step is set, or a request on the order will set it.
Due(o, v) ==
  \/ v \in stepper[o]
  \/ \E r \in Requests : /\ req[r].step = "finish" /\ req[r].order = o
                         /\ Has(req[r].todo, SetStep(v))

\* StatusHasItsSteps speaks of orders no request works on.  What carries it there is
\* that every write of a status is followed, in the same request, by its steps.
StepsDue(o) ==
  ~missed[o] =>
    /\ status[o] = "W105" =>
         Due(o, "Issued") /\ (o \in PackerAssigned => Due(o, "Under Packing"))
    /\ status[o] = "F105" => Due(o, "Packed")
    /\ status[o] = "Dispatched" => "Dispatched" \in stepper[o]

AllLed == \A r \in Requests : req[r].step = "finish" => Led(req[r].order, req[r].todo)

StepsInv == TypeOK /\ AllLed /\ \A o \in Orders : StepsDue(o)

\* A request that was not writing goes on, or begins to write what is led.
LEMMA StepsKept ==
  ASSUME StepsInv, TypeOK', NEW r \in Requests, NEW q \in Request,
         req' = [req EXCEPT ![r] = q], req[r].step # "finish",
         q.step = "finish" => Led(q.order, q.todo),
         UNCHANGED <<status, stepper>>, \A o \in Orders : missed[o] => missed'[o]
  PROVE  StepsInv'
<1>1. req \in [Requests -> Request] /\ req'[r] = q /\ \A k \in Requests : k # r => req'[k] = req[k]
  BY DEF StepsInv, TypeOK
<1>2. AllLed'
  BY <1>1 DEF StepsInv, AllLed, Led
<1>3. ASSUME NEW o, NEW v, Due(o, v) PROVE Due(o, v)'
  BY <1>1, <1>3 DEF Due
<1>4. ASSUME NEW o \in Orders PROVE StepsDue(o)'
  BY <1>3 DEF StepsInv, StepsDue
<1> QED BY <1>2, <1>4 DEF StepsInv

LEMMA StepsStep == StepsInv /\ [Next]_vars => StepsInv'
<1> SUFFICES ASSUME StepsInv, [Next]_vars PROVE StepsInv'
  OBVIOUS
<1>t. TypeOK /\ TypeOK'
  BY TypeStep DEF StepsInv
<1>u. /\ req \in [Requests -> Request] /\ req' \in [Requests -> Request]
      /\ status \in [Orders -> Statuses] /\ stepper \in [Orders -> SUBSET Steps]
      /\ missed \in [Orders -> BOOLEAN]
      /\ \A r \in Requests : Consistent(req[r])
  BY <1>t DEF TypeOK
\* The steps before anything is written.
<1>k. ASSUME NEW r \in Requests, NEW q, req' = [req EXCEPT ![r] = q],
             req[r].step # "finish", q.step = "finish" => Led(q.order, q.todo),
             UNCHANGED <<status, stepper>>, \A o \in Orders : missed[o] => missed'[o]
      PROVE  StepsInv'
  <2>1. q \in Request
    BY <1>k, <1>u
  <2> QED BY <1>k, <1>t, <2>1, StepsKept
<1>1. ASSUME NEW r \in Requests, NEW o \in Orders, NEW s \in Stages, NEW c \in Codes,
             ScanRead(r, o, c, s)
      PROVE  StepsInv'
  <2>1. PICK m \in MaterialsOf(o) :
          req' = [req EXCEPT ![r] = [Idle EXCEPT !.step = "scan", !.order = o, !.stage = s,
                                                 !.mats = {m}]]
    BY <1>1 DEF ScanRead
  <2>2. req[r].step # "finish" /\ UNCHANGED <<status, stepper, missed>>
    BY <1>1 DEF ScanRead, Idle
  <2>3. [Idle EXCEPT !.step = "scan", !.order = o, !.stage = s, !.mats = {m}].step # "finish"
    BY DEF Idle
  <2> QED BY <2>1, <2>2, <2>3, <1>k
<1>2. ASSUME NEW r \in Requests, NEW o \in Orders, NEW s \in Stages,
             NEW m \in Materials, NEW n \in Quantities, SetRead(r, o, m, s, n)
      PROVE  StepsInv'
  <2> DEFINE q == [Idle EXCEPT !.step = "set", !.order = o, !.stage = s,
                               !.mats = {m}, !.qty = n]
  <2>1. q.step # "finish"
    BY DEF Idle
  <2>2. req[r].step # "finish" /\ UNCHANGED <<status, stepper, missed>>
        /\ req' = [req EXCEPT ![r] = q]
    BY <1>2 DEF SetRead, Idle
  <2> HIDE DEF q
  <2> QED BY <2>1, <2>2, <1>k
<1>3. ASSUME NEW r \in Requests, NEW o \in Orders, NEW s \in Stages,
             NEW items \in SUBSET Materials, BulkRead(r, o, items, s)
      PROVE  StepsInv'
  <2> DEFINE q == [Idle EXCEPT !.step = "bulk", !.order = o, !.stage = s,
                               !.mats = {m \in items : count[s][m] < Required[m]}]
  <2>1. q.step # "finish"
    BY DEF Idle
  <2>2. req[r].step # "finish" /\ UNCHANGED <<status, stepper, missed>>
        /\ req' = [req EXCEPT ![r] = q]
    BY <1>3 DEF BulkRead, Idle
  <2> HIDE DEF q
  <2> QED BY <2>1, <2>2, <1>k
<1>4. ASSUME NEW r \in Requests, ScanWrite(r) PROVE StepsInv'
  <2> DEFINE q == [req[r] EXCEPT !.step = "check", !.mats = {}]
  <2>1. q.step # "finish"
    BY <1>u DEF Request
  <2>2. req[r].step # "finish" /\ UNCHANGED <<status, stepper, missed>>
        /\ req' = [req EXCEPT ![r] = q]
    BY <1>4 DEF ScanWrite
  <2> HIDE DEF q
  <2> QED BY <2>1, <2>2, <1>k
<1>5. ASSUME NEW r \in Requests, SetWrite(r) PROVE StepsInv'
  <2> DEFINE q == [req[r] EXCEPT !.step = "check", !.mats = {}, !.qty = 0]
  <2>1. q.step # "finish"
    BY <1>u DEF Request
  <2>2. req[r].step # "finish" /\ UNCHANGED <<status, stepper>>
        /\ req' = [req EXCEPT ![r] = q]
    BY <1>5 DEF SetWrite
  <2>3. \A o \in Orders : missed[o] => missed'[o]
    BY <1>5 DEF SetWrite
  <2> HIDE DEF q
  <2> QED BY <2>1, <2>2, <2>3, <1>k
<1>6. ASSUME NEW r \in Requests, BulkWrite(r) PROVE StepsInv'
  <2> DEFINE q == [req[r] EXCEPT !.step = "checkBoth", !.mats = {}]
  <2>1. q.step # "finish"
    BY <1>u DEF Request
  <2>2. req[r].step # "finish" /\ UNCHANGED <<status, stepper, missed>>
        /\ req' = [req EXCEPT ![r] = q]
    BY <1>6 DEF BulkWrite
  <2> HIDE DEF q
  <2> QED BY <2>1, <2>2, <1>k
<1>7. ASSUME NEW r \in Requests, Check(r) PROVE StepsInv'
  <2> DEFINE o == req[r].order
             todo == IF req[r].stage = "Issue" THEN AfterIssue(o) ELSE AfterPacking
             q == IF AllDone(req[r].stage, o)
                    THEN [Idle EXCEPT !.step = "finish", !.order = o, !.todo = todo]
                    ELSE Idle
  <2>1. o \in Orders
    BY <1>7, <1>u DEF Check, Consistent
  <2>2. Led(o, todo)
    BY <2>1, IssueLed, PackingLed
  <2>3. req[r].step # "finish" /\ UNCHANGED <<status, stepper, missed>>
        /\ req' = [req EXCEPT ![r] = q]
    BY <1>7 DEF Check
  <2> HIDE DEF o, todo
  <2>4. q.step = "finish" => Led(q.order, q.todo)
    BY <2>2 DEF Idle
  <2> HIDE DEF q
  <2> QED BY <2>3, <2>4, <1>k
<1>8. ASSUME NEW r \in Requests, NEW o \in Orders, NEW todo, Led(o, todo),
             req' = [req EXCEPT ![r] = Finishing(o, todo)],
             req[r].step # "finish", UNCHANGED <<status, stepper, missed>>
      PROVE  StepsInv'
  <2> DEFINE q == Finishing(o, todo)
  <2>1. q.step = "finish" => Led(q.order, q.todo)
    BY <1>8 DEF Finishing, Idle
  <2> HIDE DEF q
  <2>2. req' = [req EXCEPT ![r] = q]
    BY <1>8 DEF q
  <2> QED BY <1>8, <2>1, <2>2, <1>k
<1>9. ASSUME NEW r \in Requests, CheckBoth(r) PROVE StepsInv'
  <2> DEFINE o == req[r].order
             packed == AllDone("Packing", o)
             go == [Idle EXCEPT !.step = "current", !.order = o,
                                !.stage = IF packed THEN "Packing" ELSE "Issue"]
  <2>1. o \in Orders /\ packed \in BOOLEAN
    BY <1>9, <1>u DEF CheckBoth, Consistent, AllDone
  <2>2. req[r].step # "finish" /\ UNCHANGED <<status, stepper, missed>>
        /\ req' = [req EXCEPT ![r] = IF AllDone("Issue", o) THEN go
                                      ELSE Finishing(o, AfterBulk(o, FALSE, packed))]
    BY <1>9 DEF CheckBoth
  <2>3. go.step # "finish"
    BY DEF Idle
  <2> HIDE DEF o, packed, go
  <2>4. CASE AllDone("Issue", o)
    BY <2>2, <2>3, <2>4, <1>k
  <2>5. CASE ~AllDone("Issue", o)
    <3>1. Led(o, AfterBulk(o, FALSE, packed))
      BY <2>1, BulkLed
    <3> QED BY <2>1, <2>2, <2>5, <3>1, <1>8
  <2> QED BY <2>4, <2>5
<1>10. ASSUME NEW r \in Requests, Current(r) PROVE StepsInv'
  <2> DEFINE o == req[r].order
             fresh == status[o] \notin {"W105", "F105", "Dispatched"}
             packed == req[r].stage = "Packing"
  <2>1. o \in Orders /\ packed \in BOOLEAN /\ fresh \in BOOLEAN
    BY <1>10, <1>u DEF Current, Consistent
  <2>2. req[r].step # "finish" /\ UNCHANGED <<status, stepper, missed>>
        /\ req' = [req EXCEPT ![r] = Finishing(o, AfterBulk(o, fresh, packed))]
    BY <1>10 DEF Current
  <2> HIDE DEF o, packed, fresh
  <2>3. Led(o, AfterBulk(o, fresh, packed))
    BY <2>1, BulkLed
  <2> QED BY <2>1, <2>2, <2>3, <1>8
\* A write: what it makes due is still to be written by the same request.
<1>11. ASSUME NEW r \in Requests, Write(r) PROVE StepsInv'
  <2>0. PICK o \in Orders : req[r].order = o
    BY <1>11, <1>u DEF Write, Consistent
  <2> DEFINE todo == req[r].todo
             w == Head(todo)
             q == Finishing(o, Tail(todo))
  <2>1. todo \in Seq(Writes) /\ todo # <<>> /\ req[r].step = "finish"
    BY <1>11, <1>u DEF Write, Consistent, Request
  <2>2. w \in Writes /\ Tail(todo) \in Seq(Writes) /\ Led(o, todo)
    BY <2>0, <2>1, HeadAndTail DEF StepsInv, AllLed
  <2>3. /\ req' = [req EXCEPT ![r] = q] /\ UNCHANGED missed
        /\ status' = IF w.kind = "status" THEN [status EXCEPT ![o] = w.value] ELSE status
        /\ stepper' = IF w.kind = "stepper" THEN [stepper EXCEPT ![o] = @ \cup {w.value}]
                                            ELSE stepper
    BY <2>0, <1>11 DEF Write
  <2>4. /\ w.kind = "status" => /\ w.value \in {"W105", "F105"} /\ w = SetStatus(w.value)
        /\ \A v : w = SetStep(v) => w.kind = "stepper" /\ w.value = v
    BY <2>2 DEF Writes, SetStatus, SetStep, Record
  <2>5. Led(o, Tail(todo))
    BY <2>1, <2>2, TailFollows DEF Led
  <2>6. ~Has(<<>>, w) /\ \A v : ~Has(<<>>, v)
    <3>1. DOMAIN <<>> = {}
      BY EmptySeq
    <3> QED BY <3>1 DEF Has
  <2>7. \A v : Has(Tail(todo), v) => q.step = "finish" /\ q.order = o /\ q.todo = Tail(todo)
    BY <2>6 DEF Finishing, Idle
  <2>8. q.step = "finish" => Led(q.order, q.todo)
    BY <2>5 DEF Finishing, Idle
  <2>9. \A v : Has(todo, SetStep(v)) => v \in stepper'[o] \/ Has(Tail(todo), SetStep(v))
    <3> SUFFICES ASSUME NEW v, Has(todo, SetStep(v)), ~Has(Tail(todo), SetStep(v))
                 PROVE  v \in stepper'[o]
      OBVIOUS
    <3>1. w = SetStep(v)
      BY <2>1, TailHas
    <3>2. w.kind = "stepper" /\ w.value = v
      BY <3>1, <2>4
    <3> QED BY <3>2, <2>1, <2>3, <1>u
  <2>a. /\ w = SetStatus("W105") => /\ Has(Tail(todo), SetStep("Issued"))
                                    /\ o \in PackerAssigned =>
                                         Has(Tail(todo), SetStep("Under Packing"))
        /\ w = SetStatus("F105") => Has(Tail(todo), SetStep("Packed"))
    BY <2>1, <2>2, HeadFollowed DEF Led
  <2> HIDE DEF todo, w, q
  <2>b. req'[r] = q /\ \A k \in Requests : k # r => req'[k] = req[k]
    BY <2>3, <1>u
  <2>c. AllLed'
    BY <2>b, <2>8 DEF StepsInv, AllLed, Led
  <2>d. \A p \in Orders : stepper[p] \subseteq stepper'[p]
    BY <2>3, <1>u
  <2>e. \A v : Has(Tail(todo), SetStep(v)) => Due(o, v)'
    BY <2>7, <2>b DEF Due
  <2>f. ASSUME NEW p \in Orders, NEW v, Due(p, v) PROVE Due(p, v)'
    <3>1. CASE v \in stepper[p]
      BY <3>1, <2>d DEF Due
    <3>2. ASSUME NEW k \in Requests, k # r, req[k].step = "finish", req[k].order = p,
                 Has(req[k].todo, SetStep(v))
          PROVE  Due(p, v)'
      BY <3>2, <2>b DEF Due
    <3>3. CASE p = o /\ Has(todo, SetStep(v))
      BY <3>3, <2>9, <2>e DEF Due
    <3> QED BY <2>0, <2>1, <2>f, <3>1, <3>2, <3>3 DEF Due, todo
  <2>g. ASSUME NEW p \in Orders PROVE StepsDue(p)'
    <3>1. CASE p = o /\ w.kind = "status"
      <4>1. status'[p] = w.value /\ w.value \in {"W105", "F105"} /\ w = SetStatus(w.value)
        BY <3>1, <2>1, <2>3, <2>4, <1>u
      <4>2. /\ w.value = "W105" => /\ Due(p, "Issued")'
                                   /\ p \in PackerAssigned => Due(p, "Under Packing")'
            /\ w.value = "F105" => Due(p, "Packed")'
        BY <3>1, <4>1, <2>a, <2>e
      <4> QED BY <4>1, <4>2 DEF StepsDue
    <3>2. CASE ~(p = o /\ w.kind = "status")
      <4>1. status'[p] = status[p]
        BY <3>2, <2>1, <2>3, <1>u
      <4>2. StepsDue(p)
        BY DEF StepsInv
      <4> QED BY <4>1, <4>2, <2>3, <2>d, <2>f DEF StepsDue
    <3> QED BY <3>1, <3>2
  <2> QED BY <1>t, <2>c, <2>g DEF StepsInv
<1>12. ASSUME NEW o \in Dispatchable, Dispatch(o) PROVE StepsInv'
  <2>1. o \in Orders /\ UNCHANGED <<req, missed>>
    BY <1>12, StageTrackingAssumption DEF Dispatch
  <2>2. /\ status' = [status EXCEPT ![o] = "Dispatched"]
        /\ stepper' = [stepper EXCEPT ![o] = @ \cup {"Dispatched"}]
    BY <1>12 DEF Dispatch
  <2>3. AllLed'
    BY <2>1 DEF StepsInv, AllLed, Led
  <2>4. \A p \in Orders : stepper[p] \subseteq stepper'[p]
    BY <2>1, <2>2, <1>u
  <2>5. ASSUME NEW p \in Orders, NEW v, Due(p, v) PROVE Due(p, v)'
    BY <2>1, <2>4, <2>5 DEF Due
  <2>6. ASSUME NEW p \in Orders PROVE StepsDue(p)'
    <3>1. CASE p = o
      <4>1. status'[p] = "Dispatched" /\ "Dispatched" \in stepper'[p]
        BY <3>1, <2>1, <2>2, <1>u
      <4> QED BY <4>1 DEF StepsDue
    <3>2. CASE p # o
      <4>1. status'[p] = status[p] /\ missed' = missed /\ StepsDue(p)
        BY <3>2, <2>1, <2>2, <1>u DEF StepsInv
      <4> QED BY <4>1, <2>4, <2>5 DEF StepsDue
    <3> QED BY <3>1, <3>2
  <2> QED BY <1>t, <2>3, <2>6 DEF StepsInv
<1>13. CASE Restart
  <2>1. /\ UNCHANGED <<status, stepper>> /\ \A k \in Requests : req'[k] = Idle
        /\ \A o \in Orders : missed'[o] = (missed[o] \/ \E r \in Requests : req[r].order = o)
    BY <1>13 DEF Restart
  <2>2. AllLed'
    BY <2>1 DEF AllLed, Idle
  <2>3. ASSUME NEW o \in Orders PROVE StepsDue(o)'
    <3> SUFFICES ASSUME ~missed'[o] PROVE StepsDue(o)'
      BY DEF StepsDue
    <3>1. ~missed[o] /\ \A r \in Requests : req[r].order # o
      BY <2>1
    <3>2. \A v : Due(o, v) => Due(o, v)'
      BY <2>1, <3>1 DEF Due
    <3> QED BY <2>1, <3>1, <3>2 DEF StepsInv, StepsDue
  <2> QED BY <1>t, <2>2, <2>3 DEF StepsInv
<1>14. CASE UNCHANGED vars
  <2>1. UNCHANGED <<status, stepper, req, missed>>
    BY <1>14 DEF vars
  <2>2. AllLed'
    BY <2>1 DEF StepsInv, AllLed, Led
  <2>3. \A o \in Orders : StepsDue(o)'
    BY <2>1 DEF StepsInv, StepsDue, Due
  <2> QED BY <1>t, <2>2, <2>3 DEF StepsInv
<1>15. CASE StepKinds
  BY <1>1, <1>2, <1>3, <1>4, <1>5, <1>6, <1>7, <1>9, <1>10, <1>11, <1>12, <1>13, <1>15
     DEF StepKinds
<1> QED BY <1>14, <1>15, StepIsOfAKind

LEMMA StepsInitially == Init => StepsInv
<1> SUFFICES ASSUME Init PROVE StepsInv
  OBVIOUS
<1>1. TypeOK
  BY TypeCorrectInitially
<1>2. AllLed
  BY DEF Init, AllLed, Idle
<1>3. \A o \in Orders : StepsDue(o)
  BY DEF Init, StepsDue
<1> QED BY <1>1, <1>2, <1>3 DEF StepsInv

\* On an order no request works on, nothing is due any more.
LEMMA StepsQuiet == StepsInv => StatusHasItsSteps
<1> SUFFICES ASSUME StepsInv, NEW o \in Orders, Quiet(o), ~missed[o]
             PROVE  /\ status[o] = "W105" =>
                         /\ "Issued" \in stepper[o]
                         /\ o \in PackerAssigned => "Under Packing" \in stepper[o]
                    /\ status[o] = "F105" => "Packed" \in stepper[o]
                    /\ status[o] = "Dispatched" => "Dispatched" \in stepper[o]
  BY DEF StatusHasItsSteps
<1>1. \A v : Due(o, v) => v \in stepper[o]
  BY DEF Due, Quiet
<1> QED BY <1>1 DEF StepsInv, StepsDue

\* An order's status and its stepper agree once the requests on it are over: a status is
\* never left without its steps by requests that interleave, only by one cut short.
THEOREM StatusKeepsItsSteps == Spec => []StatusHasItsSteps
  BY StepsInitially, StepsStep, StepsQuiet, PTL DEF Spec

-----------------------------------------------------------------------------
(***************************************************************************)
(* A completed issue is seen                                               *)
(***************************************************************************)

\* An order with everything issued whose status does not say so yet.
Overdue(o) ==
  /\ ~missed[o] /\ AllDone("Issue", o)
  /\ \E m \in MaterialsOf(o) : Required[m] > 0
  /\ status[o] = "R105"

\* Request q will look at order o's issue, or is about to write that it is complete.
Watching(q, o) ==
  /\ q.order = o
  /\ \/ q.step = "check" /\ q.stage = "Issue"
     \/ q.step \in {"checkBoth", "current"}
     \/ q.step = "finish" /\ Head(q.todo) = SetStatus("W105")

\* Scans and groups write to their own order only.
MatsOwn(q) == q.step \in {"scan", "bulk"} => q.mats \subseteq MaterialsOf(q.order)

\* CompletionSeen is not inductive: it says nothing of the orders requests work on.  Each
\* that is overdue is watched.
SeenInv ==
  /\ TypeOK
  /\ \A r \in Requests : MatsOwn(req[r])
  /\ \A o \in Orders : Overdue(o) => \E r \in Requests : Watching(req[r], o)

LEMMA SeenKept ==
  ASSUME SeenInv, TypeOK', NEW r \in Requests, NEW q, req' = [req EXCEPT ![r] = q], MatsOwn(q),
         \A o \in Orders : Overdue(o)' => \/ Watching(q, o)
                                          \/ Overdue(o) /\ ~Watching(req[r], o)
  PROVE  SeenInv'
<1>1. req'[r] = q /\ \A k \in Requests : k # r => req'[k] = req[k]
  BY DEF SeenInv, TypeOK
<1>2. ASSUME NEW k \in Requests PROVE MatsOwn(req'[k])
  BY <1>1 DEF SeenInv
<1>3. ASSUME NEW o \in Orders, Overdue(o)' PROVE \E k \in Requests : Watching(req'[k], o)
  <2>1. CASE Watching(q, o)
    BY <1>1, <2>1
  <2>2. CASE Overdue(o) /\ ~Watching(req[r], o)
    <3>1. PICK k \in Requests : Watching(req[k], o)
      BY <2>2 DEF SeenInv
    <3>2. req'[k] = req[k]
      BY <1>1, <2>2, <3>1
    <3> QED BY <3>1, <3>2
  <2> QED BY <1>3, <2>1, <2>2
<1>4. \A k \in Requests : MatsOwn(req[k])'
  BY <1>2 DEF MatsOwn, MaterialsOf
<1>5. \A o \in Orders : Overdue(o)' => \E k \in Requests : Watching(req[k], o)'
  BY <1>3 DEF Watching, SetStatus
<1> QED BY <1>4, <1>5 DEF SeenInv

\* What an order owes does not change as long as its issue counts and its status do not.
LEMMA OverdueBefore ==
  ASSUME NEW o \in Orders, Overdue(o)', missed[o] => missed'[o], status'[o] = status[o],
         \A m \in MaterialsOf(o) : count'["Issue"][m] = count["Issue"][m]
  PROVE  Overdue(o)
  BY DEF Overdue, AllDone, MaterialsOf

LEMMA SeenStep == SeenInv /\ [Next]_vars => SeenInv'
<1> SUFFICES ASSUME SeenInv, [Next]_vars PROVE SeenInv'
  OBVIOUS
<1>t. TypeOK /\ TypeOK'
  BY TypeStep DEF SeenInv
<1>u. /\ req \in [Requests -> Request] /\ req' \in [Requests -> Request]
      /\ status \in [Orders -> Statuses] /\ count \in [Stages -> [Materials -> Nat]]
      /\ missed \in [Orders -> BOOLEAN]
      /\ \A r \in Requests : Consistent(req[r]) /\ MatsOwn(req[r])
  BY <1>t DEF TypeOK, SeenInv
<1>m. \A o \in Orders : MaterialsOf(o) \subseteq Materials
  BY DEF MaterialsOf
\* Reads: the request that begins was not watching anything.
<1>r. ASSUME NEW r \in Requests, NEW q, req' = [req EXCEPT ![r] = q], MatsOwn(q),
             req[r] = Idle, UNCHANGED <<count, status, missed>>
      PROVE  SeenInv'
  <2>1. \A o \in Orders : Overdue(o)' => Overdue(o)
    BY <1>r, OverdueBefore
  <2>2. \A o \in Orders : ~Watching(req[r], o)
    BY <1>r DEF Watching, Idle
  <2> QED BY <1>r, <1>t, <2>1, <2>2, SeenKept
<1>b. ASSUME NEW r \in Requests, NEW o \in Orders, NEW s \in Stages,
             NEW items \in SUBSET MaterialsOf(o), BulkRead(r, o, items, s)
      PROVE  SeenInv'
  <2> DEFINE q == [Idle EXCEPT !.step = "bulk", !.order = o, !.stage = s,
                               !.mats = {m \in items : count[s][m] < Required[m]}]
  <2>1. q.mats \subseteq MaterialsOf(q.order)
    BY DEF Idle
  <2>2. req[r] = Idle /\ UNCHANGED <<count, status, missed>> /\ req' = [req EXCEPT ![r] = q]
    BY <1>b DEF BulkRead
  <2> HIDE DEF q
  <2> QED BY <2>1, <2>2, <1>r DEF MatsOwn
<1>1. ASSUME NEW r \in Requests, NEW o \in Orders, NEW s \in Stages, NEW c \in Codes,
             ScanRead(r, o, c, s)
      PROVE  SeenInv'
  <2>1. PICK m \in MaterialsOf(o) :
          req' = [req EXCEPT ![r] = [Idle EXCEPT !.step = "scan", !.order = o, !.stage = s,
                                                 !.mats = {m}]]
    BY <1>1 DEF ScanRead
  <2> DEFINE q == [Idle EXCEPT !.step = "scan", !.order = o, !.stage = s, !.mats = {m}]
  <2>2. q.mats \subseteq MaterialsOf(q.order)
    BY DEF Idle
  <2>3. req[r] = Idle /\ UNCHANGED <<count, status, missed>> /\ req' = [req EXCEPT ![r] = q]
    BY <1>1, <2>1 DEF ScanRead
  <2> HIDE DEF q
  <2> QED BY <2>2, <2>3, <1>r DEF MatsOwn
<1>2. ASSUME NEW r \in Requests, NEW o \in Orders, NEW s \in Stages,
             NEW m \in Materials, NEW n \in Quantities, SetRead(r, o, m, s, n)
      PROVE  SeenInv'
  <2> DEFINE q == [Idle EXCEPT !.step = "set", !.order = o, !.stage = s,
                               !.mats = {m}, !.qty = n]
  <2>1. q.step = "set"
    BY DEF Idle
  <2>2. req[r] = Idle /\ UNCHANGED <<count, status, missed>> /\ req' = [req EXCEPT ![r] = q]
    BY <1>2 DEF SetRead
  <2> HIDE DEF q
  <2> QED BY <2>1, <2>2, <1>r DEF MatsOwn
<1>3. ASSUME NEW r \in Requests, NEW o \in Orders, NEW s \in Stages, NEW g \in Groups,
             GroupRead(r, o, g, s)
      PROVE  SeenInv'
  <2>1. {m \in MaterialsOf(o) : GroupOf[m] = g} \in SUBSET MaterialsOf(o)
    OBVIOUS
  <2> QED BY <1>3, <1>b, <2>1 DEF GroupRead
<1>4. ASSUME NEW r \in Requests, NEW o \in Orders, AcceptAllRead(r, o)
      PROVE  SeenInv'
  BY <1>4, <1>b DEF AcceptAllRead, Stages
\* Writes of counts: an order whose issue changed is watched by the request that did it.
<1>w. ASSUME NEW r \in Requests, NEW q, req' = [req EXCEPT ![r] = q],
             q.step \notin {"scan", "bulk"}, req[r].step \in {"scan", "set", "bulk"},
             UNCHANGED status, \A o \in Orders : missed[o] => missed'[o],
             \A o \in Orders : \/ Watching(q, o)
                               \/ missed'[o]
                               \/ \A m \in MaterialsOf(o) : count'["Issue"][m] = count["Issue"][m]
      PROVE  SeenInv'
  <2>1. \A o \in Orders : ~Watching(req[r], o)
    BY <1>w DEF Watching
  <2>2. \A o \in Orders : Overdue(o)' => ~missed'[o]
    BY DEF Overdue
  <2>3. \A o \in Orders : Overdue(o)' => Watching(q, o) \/ Overdue(o)
    BY <1>w, <2>2, OverdueBefore
  <2> QED BY <1>w, <1>t, <2>1, <2>3, SeenKept DEF MatsOwn
<1>5. ASSUME NEW r \in Requests, ScanWrite(r) PROVE SeenInv'
  <2> DEFINE q == [req[r] EXCEPT !.step = "check", !.mats = {}]
  <2>1. q.step = "check" /\ q.order = req[r].order /\ q.stage = req[r].stage
    BY <1>u DEF Request
  <2>2. /\ req[r].step = "scan" /\ req' = [req EXCEPT ![r] = q] /\ UNCHANGED <<status, missed>>
        /\ count' = [count EXCEPT ![req[r].stage] = [m \in Materials |->
                       IF m \in req[r].mats THEN @[m] + 1 ELSE @[m]]]
    BY <1>5 DEF ScanWrite
  <2>3. req[r].mats \subseteq MaterialsOf(req[r].order) /\ req[r].stage \in Stages
    BY <1>u, <2>2 DEF MatsOwn, Request
  <2> HIDE DEF q
  <2>4. ASSUME NEW o \in Orders
        PROVE  \/ Watching(q, o)
               \/ \A m \in MaterialsOf(o) : count'["Issue"][m] = count["Issue"][m]
    <3>1. CASE req[r].stage = "Issue" /\ req[r].order = o
      BY <2>1, <3>1 DEF Watching
    <3>2. CASE req[r].stage # "Issue"
      BY <1>u, <2>2, <3>2
    <3>3. CASE req[r].order # o
      <4>1. \A m \in MaterialsOf(o) : m \in Materials /\ m \notin req[r].mats
        BY <2>3, <3>3 DEF MaterialsOf
      <4> QED BY <1>u, <2>2, <2>3, <4>1
    <3> QED BY <3>1, <3>2, <3>3
  <2> QED BY <2>1, <2>2, <2>4, <1>w
<1>6. ASSUME NEW r \in Requests, SetWrite(r) PROVE SeenInv'
  <2> DEFINE q == [req[r] EXCEPT !.step = "check", !.mats = {}, !.qty = 0]
  <2>1. q.step = "check" /\ q.order = req[r].order /\ q.stage = req[r].stage
    BY <1>u DEF Request
  <2>2. /\ req[r].step = "set" /\ req' = [req EXCEPT ![r] = q] /\ UNCHANGED status
        /\ count' = [count EXCEPT ![req[r].stage] = [m \in Materials |->
                       IF m \in req[r].mats THEN req[r].qty ELSE @[m]]]
        /\ \A o \in Orders : missed'[o] = (missed[o] \/ \E m \in req[r].mats :
                                              OrderOf[m] = o /\ req[r].order # o)
    BY <1>6 DEF SetWrite
  <2>3. req[r].stage \in Stages
    BY <1>u DEF Request
  <2> HIDE DEF q
  <2>4. ASSUME NEW o \in Orders
        PROVE  \/ Watching(q, o)
               \/ missed'[o]
               \/ \A m \in MaterialsOf(o) : count'["Issue"][m] = count["Issue"][m]
    <3>1. CASE req[r].stage = "Issue" /\ req[r].order = o
      BY <2>1, <3>1 DEF Watching
    <3>2. CASE req[r].stage # "Issue"
      BY <1>u, <2>2, <3>2
    <3>3. CASE req[r].order # o
      <4>1. missed'[o] \/ \A m \in MaterialsOf(o) : m \in Materials /\ m \notin req[r].mats
        BY <2>2, <3>3 DEF MaterialsOf
      <4> QED BY <1>u, <2>2, <2>3, <4>1
    <3> QED BY <3>1, <3>2, <3>3
  <2>5. \A o \in Orders : missed[o] => missed'[o]
    BY <2>2
  <2> QED BY <2>1, <2>2, <2>4, <2>5, <1>w
<1>7. ASSUME NEW r \in Requests, BulkWrite(r) PROVE SeenInv'
  <2> DEFINE q == [req[r] EXCEPT !.step = "checkBoth", !.mats = {}]
  <2>1. q.step = "checkBoth" /\ q.order = req[r].order
    BY <1>u DEF Request
  <2>2. /\ req[r].step = "bulk" /\ req' = [req EXCEPT ![r] = q] /\ UNCHANGED <<status, missed>>
        /\ count' = [count EXCEPT ![req[r].stage] = [m \in Materials |->
                       IF m \in req[r].mats THEN Required[m] ELSE @[m]]]
    BY <1>7 DEF BulkWrite
  <2>3. req[r].mats \subseteq MaterialsOf(req[r].order) /\ req[r].stage \in Stages
    BY <1>u, <2>2 DEF MatsOwn, Request
  <2> HIDE DEF q
  <2>4. ASSUME NEW o \in Orders
        PROVE  \/ Watching(q, o)
               \/ \A m \in MaterialsOf(o) : count'["Issue"][m] = count["Issue"][m]
    <3>1. CASE req[r].order = o
      BY <2>1, <3>1 DEF Watching
    <3>2. CASE req[r].order # o
      <4>1. \A m \in MaterialsOf(o) : m \in Materials /\ m \notin req[r].mats
        BY <2>3, <3>2 DEF MaterialsOf
      <4> QED BY <1>u, <2>2, <2>3, <4>1
    <3> QED BY <3>1, <3>2
  <2> QED BY <2>1, <2>2, <2>4, <1>w
\* Checks: a request that watched an overdue order goes on to write its status.
<1>c. ASSUME NEW r \in Requests, NEW q, req' = [req EXCEPT ![r] = q],
             q.step \notin {"scan", "bulk"}, UNCHANGED <<count, status, missed>>,
             \A o \in Orders : Overdue(o) /\ Watching(req[r], o) => Watching(q, o)
      PROVE  SeenInv'
  <2>1. \A o \in Orders : Overdue(o)' => Overdue(o)
    BY <1>c, OverdueBefore
  <2> QED BY <1>c, <1>t, <2>1, SeenKept DEF MatsOwn
<1>8. ASSUME NEW r \in Requests, Check(r) PROVE SeenInv'
  <2> DEFINE o == req[r].order
             todo == IF req[r].stage = "Issue" THEN AfterIssue(o) ELSE AfterPacking
             q == IF AllDone(req[r].stage, o)
                    THEN [Idle EXCEPT !.step = "finish", !.order = o, !.todo = todo]
                    ELSE Idle
  <2>1. o \in Orders
    BY <1>8, <1>u DEF Check, Consistent
  <2>2. req[r].step = "check" /\ UNCHANGED <<count, status, missed>>
        /\ req' = [req EXCEPT ![r] = q]
    BY <1>8 DEF Check
  <2>3. req[r].stage = "Issue" => Head(todo) = SetStatus("W105")
    BY <2>1, IssueLed
  <2> HIDE DEF o, todo
  <2>4. q.step \notin {"scan", "bulk"}
    BY DEF Idle
  <2>5. ASSUME NEW p \in Orders, Overdue(p), Watching(req[r], p) PROVE Watching(q, p)
    <3>1. req[r].stage = "Issue" /\ p = o /\ AllDone(req[r].stage, o)
      BY <2>2, <2>5 DEF Watching, Overdue, o
    <3>2. q.step = "finish" /\ q.order = o /\ q.todo = todo
      BY <3>1 DEF Idle
    <3> QED BY <2>3, <3>1, <3>2 DEF Watching
  <2> HIDE DEF q
  <2> QED BY <2>2, <2>4, <2>5, <1>c
<1>9. ASSUME NEW r \in Requests, CheckBoth(r) PROVE SeenInv'
  <2> DEFINE o == req[r].order
             packed == AllDone("Packing", o)
             go == [Idle EXCEPT !.step = "current", !.order = o,
                                !.stage = IF packed THEN "Packing" ELSE "Issue"]
             stop == Finishing(o, AfterBulk(o, FALSE, packed))
             q == IF AllDone("Issue", o) THEN go ELSE stop
  <2>1. UNCHANGED <<count, status, missed>> /\ req' = [req EXCEPT ![r] = q]
    BY <1>9 DEF CheckBoth
  <2>2. go.step = "current" /\ go.order = o /\ stop.step \notin {"scan", "bulk"}
    BY DEF Finishing, Idle
  <2> HIDE DEF go, stop
  <2>3. q.step \notin {"scan", "bulk"}
    BY <2>2
  <2>4. ASSUME NEW p \in Orders, Overdue(p), Watching(req[r], p) PROVE Watching(q, p)
    <3>1. p = o /\ AllDone("Issue", o)
      BY <2>4 DEF Watching, Overdue
    <3> QED BY <2>2, <3>1 DEF Watching
  <2> HIDE DEF q
  <2> QED BY <2>1, <2>3, <2>4, <1>c
<1>10. ASSUME NEW r \in Requests, Current(r) PROVE SeenInv'
  <2> DEFINE o == req[r].order
             fresh == status[o] \notin {"W105", "F105", "Dispatched"}
             packed == req[r].stage = "Packing"
             todo == AfterBulk(o, fresh, packed)
             q == Finishing(o, todo)
  <2>1. o \in Orders /\ fresh \in BOOLEAN /\ packed \in BOOLEAN
    BY <1>10, <1>u DEF Current, Consistent
  <2>2. UNCHANGED <<count, status, missed>> /\ req' = [req EXCEPT ![r] = q]
    BY <1>10 DEF Current
  <2>3. fresh => todo # <<>> /\ Head(todo) = SetStatus("W105")
    BY <2>1, BulkLed
  <2> HIDE DEF todo
  <2>4. q.step \notin {"scan", "bulk"}
    BY DEF Finishing, Idle
  <2>5. ASSUME NEW p \in Orders, Overdue(p), Watching(req[r], p) PROVE Watching(q, p)
    <3>1. p = o /\ fresh
      BY <2>5 DEF Watching, Overdue
    <3>2. q.step = "finish" /\ q.order = o /\ q.todo = todo
      BY <2>3, <3>1 DEF Finishing, Idle
    <3> QED BY <2>3, <3>1, <3>2 DEF Watching
  <2> HIDE DEF q
  <2> QED BY <2>2, <2>4, <2>5, <1>c
\* A write: the status watched for is written, or nothing that was watched changes.
<1>11. ASSUME NEW r \in Requests, Write(r) PROVE SeenInv'
  <2>0. PICK o \in Orders : req[r].order = o
    BY <1>11, <1>u DEF Write, Consistent
  <2> DEFINE todo == req[r].todo
             w == Head(todo)
             q == Finishing(o, Tail(todo))
  <2>1. todo \in Seq(Writes) /\ todo # <<>> /\ req[r].step = "finish"
    BY <1>11, <1>u DEF Write, Consistent, Request
  <2>2. w \in Writes
    BY <2>1, HeadAndTail
  <2>3. /\ req' = [req EXCEPT ![r] = q] /\ UNCHANGED <<count, missed>>
        /\ status' = IF w.kind = "status" THEN [status EXCEPT ![o] = w.value] ELSE status
    BY <2>0, <1>11 DEF Write
  <2>4. /\ w.kind = "status" => w.value \in {"W105", "F105"}
        /\ w = SetStatus("W105") => w.kind = "status"
    BY <2>2 DEF Writes, SetStatus, SetStep, Record
  <2>5. q.step \notin {"scan", "bulk"}
    BY DEF Finishing, Idle
  <2>6. \A p \in Orders : Watching(req[r], p) => p = o /\ w = SetStatus("W105")
    BY <2>0, <2>1 DEF Watching
  <2> HIDE DEF todo, w, q
  <2>7. ASSUME NEW p \in Orders, Overdue(p)' PROVE Overdue(p) /\ ~Watching(req[r], p)
    <3>1. status'[p] = "R105"
      BY <2>7 DEF Overdue
    <3>2. ~(p = o /\ w.kind = "status")
      BY <1>u, <2>3, <2>4, <3>1
    <3>3. status'[p] = status[p]
      BY <1>u, <2>3, <3>2
    <3>4. Overdue(p)
      BY <2>3, <2>7, <3>3, OverdueBefore
    <3> QED BY <2>4, <2>6, <3>2, <3>4
  <2> QED BY <1>t, <2>3, <2>5, <2>7, SeenKept DEF MatsOwn
<1>12. ASSUME NEW o \in Dispatchable, Dispatch(o) PROVE SeenInv'
  <2>1. o \in Orders /\ UNCHANGED <<count, req, missed>>
        /\ status' = [status EXCEPT ![o] = "Dispatched"]
    BY <1>12, StageTrackingAssumption DEF Dispatch
  <2>2. ASSUME NEW p \in Orders, Overdue(p)' PROVE Overdue(p)
    <3>1. status'[p] = "R105"
      BY <2>2 DEF Overdue
    <3>2. status'[p] = status[p]
      BY <1>u, <2>1, <3>1
    <3> QED BY <2>1, <2>2, <3>2, OverdueBefore
  <2>3. \A r \in Requests : MatsOwn(req[r])'
    BY <1>u, <2>1 DEF MatsOwn, MaterialsOf
  <2>4. \A p \in Orders : Overdue(p)' => \E r \in Requests : Watching(req[r], p)'
    BY <2>1, <2>2 DEF SeenInv, Watching
  <2> QED BY <1>t, <2>3, <2>4 DEF SeenInv
<1>13. CASE Restart
  <2>1. /\ UNCHANGED <<count, status>> /\ \A k \in Requests : req'[k] = Idle
        /\ \A o \in Orders : missed'[o] = (missed[o] \/ \E r \in Requests : req[r].order = o)
    BY <1>13 DEF Restart
  <2>2. \A r \in Requests : MatsOwn(req[r])'
    BY <2>1 DEF MatsOwn, Idle
  <2>3. ASSUME NEW p \in Orders, Overdue(p)' PROVE FALSE
    <3>1. ~missed'[p]
      BY <2>3 DEF Overdue
    <3>2. ~missed[p] /\ \A r \in Requests : req[r].order # p
      BY <2>1, <3>1
    <3>3. Overdue(p)
      BY <2>1, <2>3, <3>2, OverdueBefore
    <3> QED BY <3>2, <3>3 DEF SeenInv, Watching
  <2> QED BY <1>t, <2>2, <2>3 DEF SeenInv
<1>14. CASE UNCHANGED vars
  <2>1. UNCHANGED <<count, status, req, missed>>
    BY <1>14 DEF vars
  <2>2. \A r \in Requests : MatsOwn(req[r])'
    BY <1>u, <2>1 DEF MatsOwn, MaterialsOf
  <2>3. \A p \in Orders : Overdue(p)' => \E r \in Requests : Watching(req[r], p)'
    BY <2>1 DEF SeenInv, Overdue, AllDone, MaterialsOf, Watching
  <2> QED BY <1>t, <2>2, <2>3 DEF SeenInv
<1> QED BY <1>1, <1>2, <1>3, <1>4, <1>5, <1>6, <1>7, <1>8, <1>9, <1>10, <1>11, <1>12, <1>13,
           <1>14 DEF Next

LEMMA SeenInitially == Init => SeenInv
<1> SUFFICES ASSUME Init PROVE SeenInv
  OBVIOUS
<1>1. TypeOK /\ \A r \in Requests : req[r] = Idle
  BY TypeCorrectInitially DEF Init
<1>2. \A r \in Requests : MatsOwn(req[r])
  BY <1>1 DEF MatsOwn, Idle
<1>3. ASSUME NEW o \in Orders, Overdue(o) PROVE FALSE
  <2>1. PICK m \in MaterialsOf(o) : Required[m] > 0
    BY <1>3 DEF Overdue
  <2>2. m \in Materials /\ Required[m] \in Nat /\ count["Issue"][m] = 0
    BY StageTrackingAssumption DEF MaterialsOf, Init, Stages
  <2>3. count["Issue"][m] >= Required[m]
    BY <1>3 DEF Overdue, AllDone
  <2> QED BY <2>1, <2>2, <2>3
<1> QED BY <1>1, <1>2, <1>3 DEF SeenInv

\* On an order no request works on, no request watches.
LEMMA SeenQuiet == SeenInv => CompletionSeen
<1> SUFFICES ASSUME SeenInv, NEW o \in Orders, Quiet(o), Overdue(o) PROVE FALSE
  BY DEF CompletionSeen, Overdue
<1> QED BY DEF SeenInv, Watching, Quiet

\* The request whose write completes an order's issue, in whatever order the requests'
\* reads and writes come, finds it complete: only a restart, or a quantity entered for a
\* row of another order, leaves an issued order open.
THEOREM IssueIsSeenComplete == Spec => []CompletionSeen
  BY SeenInitially, SeenStep, SeenQuiet, PTL DEF Spec
=============================================================================
