--------------------------- MODULE BomAudit_proofs --------------------------
(***************************************************************************)
(* Theorems about BomAudit, for any number of audits, locations, lines,    *)
(* operators, requests and retries.                                        *)
(***************************************************************************)
EXTENDS BomAudit, TLAPS

-----------------------------------------------------------------------------
(***************************************************************************)
(* Type correctness                                                        *)
(***************************************************************************)

\* What a handler stores for a line is a line status or nothing.
LEMMA LineResultType ==
  ASSUME NEW m \in Submission, NEW n \in Lines
  PROVE  LineResult(m, n) \in LINE_STATUS \cup {None}
  BY DEF LineResult, LINE_STATUS, DISCREPANCY_STATUSES

\* The rows and messages of a state.
RowsOK ==
  /\ status \in [Audits -> Statuses]
  /\ operator \in [Audits -> Operators \cup {None}]
  /\ downloaded \in [Audits -> BOOLEAN]
  /\ startedAt \in [Audits -> Stamps \cup {None}]
  /\ submission \in [Audits -> SubmissionIds \cup {None}]
  /\ upload \in [Locations -> SubmissionIds \cup {None}]
  /\ lineStatus \in [Lines -> LINE_STATUS \cup {None}]
  /\ decision \in [Lines -> Decisions \cup {None}]
  /\ copies \in [Operators -> SUBSET Audits]
  /\ sent \subseteq Submission
  /\ takenBy \in [Audits -> Operators \cup {None}]

\* What the handlers do to a handheld's request keeps it well-formed.
LEMMA HandStep ==
  ASSUME HandOK, NEW r \in Requests,
         \/ hand' = hand
         \/ hand' = [hand EXCEPT ![r] = IdleHand]
         \/ /\ hand[r].step # "idle"
            /\ \E s \in {"recheck", "serve"} : hand' = [hand EXCEPT ![r].step = s]
         \/ \E s \in {"flip", "serve", "start"}, a \in Audits, o \in Operators :
              hand' = [hand EXCEPT ![r] = [step |-> s, audit |-> a, by |-> o]]
  PROVE  HandOK'
<1>1. CASE hand' = hand
  BY <1>1 DEF HandOK
<1>2. CASE hand' = [hand EXCEPT ![r] = IdleHand]
  BY <1>2 DEF HandOK, IdleHand
<1>3. ASSUME hand[r].step # "idle", NEW s \in {"recheck", "serve"},
             hand' = [hand EXCEPT ![r].step = s]
      PROVE  HandOK'
  <2>1. hand' \in [Requests -> [step : {"idle", "flip", "recheck", "serve", "start"},
                                audit : Audits \cup {None}, by : Operators \cup {None}]]
    BY <1>3 DEF HandOK
  <2>2. \A q \in Requests : /\ hand'[q].audit = hand[q].audit /\ hand'[q].by = hand[q].by
                            /\ hand'[q].step # "idle" => hand[q].step # "idle"
    BY <1>3 DEF HandOK
  <2> QED BY <2>1, <2>2 DEF HandOK
<1>4. ASSUME NEW s \in {"flip", "serve", "start"}, NEW a \in Audits, NEW o \in Operators,
             hand' = [hand EXCEPT ![r] = [step |-> s, audit |-> a, by |-> o]]
      PROVE  HandOK'
  BY <1>4 DEF HandOK
<1> QED BY <1>1, <1>2, <1>3, <1>4

\* The same for a desk's request.
LEMMA DeskStep ==
  ASSUME DeskOK, NEW w \in Admins,
         \/ desk' = desk
         \/ desk' = [desk EXCEPT ![w] = IdleDesk]
         \/ \E a \in Audits :
              \/ desk' = [desk EXCEPT ![w] = [step |-> "remove", audit |-> a, to |-> None]]
              \/ \E o \in Operators :
                   desk' = [desk EXCEPT ![w] = [step |-> "reassign", audit |-> a, to |-> o]]
  PROVE  DeskOK'
  BY DEF DeskOK, IdleDesk

\* Every step keeps every row, request and message well-formed.
LEMMA TypeStep == TypeOK /\ [Next]_vars => TypeOK'
<1> SUFFICES ASSUME RowsOK, HandOK, DeskOK, [Next]_vars PROVE RowsOK' /\ HandOK' /\ DeskOK'
  BY DEF TypeOK, RowsOK
<1> DEFINE Goal == RowsOK' /\ HandOK' /\ DeskOK'
<1> USE BomAuditAssumption
<1>1. ASSUME NEW B \in SUBSET Audits, NEW who \in [B -> Operators], Create(B, who)
      PROVE  Goal
  <2>1. RowsOK'
    BY <1>1 DEF Create, countVars, clientVars, RowsOK, Statuses
  <2> QED BY <1>1, <2>1 DEF Create, clientVars, HandOK, DeskOK
<1>2. ASSUME NEW w \in Admins, DeskNext,
             \/ \E a \in Audits, o \in Operators : ReassignRead(w, a, o)
             \/ ReassignWrite(w)
             \/ \E a \in Audits : RemoveRead(w, a)
             \/ RemoveWrite(w)
      PROVE  Goal
  <2>1. CASE \E a \in Audits, o \in Operators : ReassignRead(w, a, o)
    <3>1. RowsOK' /\ HandOK'
      BY <2>1 DEF ReassignRead, auditVars, countVars, RowsOK, HandOK
    <3> QED BY <2>1, <3>1, DeskStep DEF ReassignRead
  <2>2. CASE ReassignWrite(w)
    <3>1. desk[w].audit \in Audits /\ desk[w].to \in Operators
      BY <2>2 DEF ReassignWrite, DeskOK
    <3>2. RowsOK' /\ HandOK'
      BY <2>2, <3>1 DEF ReassignWrite, countVars, RowsOK, HandOK
    <3> QED BY <2>2, <3>2, DeskStep DEF ReassignWrite
  <2>3. CASE \E a \in Audits : RemoveRead(w, a)
    <3>1. RowsOK' /\ HandOK'
      BY <2>3 DEF RemoveRead, auditVars, countVars, RowsOK, HandOK
    <3> QED BY <2>3, <3>1, DeskStep DEF RemoveRead
  <2>4. CASE RemoveWrite(w)
    <3>1. desk[w].audit \in Audits
      BY <2>4 DEF RemoveWrite, DeskOK
    <3>2. RowsOK' /\ HandOK'
      BY <2>4, <3>1 DEF RemoveWrite, countVars, RowsOK, HandOK, Statuses
    <3> QED BY <2>4, <3>2, DeskStep DEF RemoveWrite
  <2> QED BY <1>2, <2>1, <2>2, <2>3, <2>4
<1>3. ASSUME NEW r \in Requests, NEW o \in Operators, NEW a \in Audits,
             DownloadRead(r, o, a) \/ StartRead(r, o, a)
      PROVE  Goal
  <2>1. RowsOK' /\ DeskOK'
    BY <1>3 DEF DownloadRead, StartRead, auditVars, countVars, RowsOK, DeskOK
  <2>2. \E s \in {"flip", "serve", "start"} :
          hand' = [hand EXCEPT ![r] = [step |-> s, audit |-> a, by |-> o]]
    BY <1>3 DEF DownloadRead, StartRead
  <2> QED BY <2>1, <2>2, HandStep
<1>4. ASSUME NEW r \in Requests, DownloadFlip(r) PROVE Goal
  <2>1. PICK a \in Audits, o \in Operators : a = hand[r].audit /\ o = hand[r].by
    BY <1>4 DEF DownloadFlip, HandOK
  <2>2. /\ hand[r].step # "idle"
        /\ \E s \in {"recheck", "serve"} : hand' = [hand EXCEPT ![r].step = s]
        /\ UNCHANGED <<operator, startedAt, submission, countVars, decision, desk,
                       copies, sent>>
    BY <1>4 DEF DownloadFlip
  <2>3. \/ UNCHANGED <<status, downloaded, takenBy>>
        \/ /\ status' = [status EXCEPT ![a] = "IN_PROGRESS"]
           /\ downloaded' = [downloaded EXCEPT ![a] = TRUE]
           /\ takenBy' = [takenBy EXCEPT ![a] = o]
    BY <1>4, <2>1 DEF DownloadFlip
  <2>4. downloaded' \in [Audits -> BOOLEAN]
    BY <2>3 DEF RowsOK
  <2>5. RowsOK'
    BY <2>2, <2>3, <2>4 DEF RowsOK, countVars, Statuses
  <2> QED BY <2>2, <2>5, HandStep, DeskStep DEF DeskOK
<1>5. ASSUME NEW r \in Requests, DownloadRecheck(r) PROVE Goal
  <2>1. RowsOK' /\ DeskOK'
    BY <1>5 DEF DownloadRecheck, auditVars, countVars, RowsOK, DeskOK
  <2>2. \/ hand' = [hand EXCEPT ![r] = IdleHand]
        \/ hand[r].step # "idle" /\ hand' = [hand EXCEPT ![r].step = "serve"]
    BY <1>5 DEF DownloadRecheck, HandOK
  <2> QED BY <2>1, <2>2, HandStep
<1>6. ASSUME NEW r \in Requests, DownloadServe(r) PROVE Goal
  <2>1. hand[r].audit \in Audits /\ hand[r].by \in Operators
    BY <1>6 DEF DownloadServe, HandOK
  <2>2. RowsOK' /\ DeskOK'
    BY <1>6, <2>1 DEF DownloadServe, auditVars, countVars, RowsOK, DeskOK
  <2>3. hand' = [hand EXCEPT ![r] = IdleHand]
    BY <1>6 DEF DownloadServe
  <2> QED BY <2>2, <2>3, HandStep
<1>7. ASSUME NEW r \in Requests, NEW t \in Stamps, StartWrite(r, t) PROVE Goal
  <2>1. PICK a \in Audits, o \in Operators : a = hand[r].audit /\ o = hand[r].by
    BY <1>7 DEF StartWrite, HandOK
  <2>2. /\ hand' = [hand EXCEPT ![r] = IdleHand]
        /\ UNCHANGED <<operator, submission, countVars, decision, desk, copies, sent>>
    BY <1>7 DEF StartWrite
  <2>3. \/ UNCHANGED <<status, startedAt, downloaded, takenBy>>
        \/ /\ status' = [status EXCEPT ![a] = "IN_PROGRESS"]
           /\ startedAt' = [startedAt EXCEPT ![a] = t]
           /\ downloaded' = [downloaded EXCEPT ![a] = TRUE]
           /\ takenBy' = [takenBy EXCEPT ![a] = IF status[a] = "ASSIGNED" THEN o ELSE @]
    BY <1>7, <2>1 DEF StartWrite
  <2>4. downloaded' \in [Audits -> BOOLEAN]
    BY <2>3 DEF RowsOK
  <2>5. status' \in [Audits -> Statuses] /\ startedAt' \in [Audits -> Stamps \cup {None}]
    BY <2>3 DEF RowsOK, Statuses
  <2>6. takenBy' \in [Audits -> Operators \cup {None}]
    BY <2>3 DEF RowsOK
  <2>7. RowsOK'
    BY <2>2, <2>4, <2>5, <2>6 DEF RowsOK, countVars
  <2> QED BY <2>2, <2>7, HandStep, DeskStep DEF DeskOK
<1>8. ASSUME NEW o \in Operators, NEW a \in Audits, NEW id \in SubmissionIds,
             NEW p \in Payloads, Send(o, a, id, p)
      PROVE  Goal
  <2>1. RowsOK'
    BY <1>8 DEF Send, auditVars, countVars, Submission, RowsOK
  <2> QED BY <1>8, <2>1 DEF Send, HandOK, DeskOK
<1>9. ASSUME NEW m \in sent, Submit(m) PROVE Goal
  <2>1. m \in Submission
    BY DEF RowsOK
  <2>2. m.audit \in Audits /\ m.id \in SubmissionIds /\ m.body.startedAt \in Stamps
    BY <2>1 DEF Submission
  <2>3. lineStatus' \in [Lines -> LINE_STATUS \cup {None}]
    BY <1>9, <2>1, LineResultType DEF Submit, RowsOK
  <2>4. upload' \in [Locations -> SubmissionIds \cup {None}]
    BY <1>9, <2>2 DEF Submit, RowsOK
  <2>5. /\ status' \in [Audits -> Statuses]
        /\ startedAt' \in [Audits -> Stamps \cup {None}]
        /\ submission' \in [Audits -> SubmissionIds \cup {None}]
    BY <1>9, <2>2 DEF Submit, RowsOK, Statuses
  <2>6. RowsOK'
    BY <1>9, <2>3, <2>4, <2>5 DEF Submit, clientVars, RowsOK
  <2> QED BY <1>9, <2>6 DEF Submit, clientVars, HandOK, DeskOK
<1>10. ASSUME NEW a \in Audits, NEW d \in Decisions,
              \/ \E n \in Lines : Review(a, n, d)
              \/ \E S \in SUBSET Lines : BulkReview(a, S, d)
       PROVE  Goal
  <2>1. RowsOK'
    BY <1>10 DEF Review, BulkReview, auditVars, countVars, clientVars, RowsOK
  <2> QED BY <1>10, <2>1 DEF Review, BulkReview, clientVars, HandOK, DeskOK
<1>11. ASSUME NEW a \in Audits, Close(a) PROVE Goal
  <2>1. RowsOK'
    BY <1>11 DEF Close, countVars, clientVars, RowsOK, Statuses
  <2> QED BY <1>11, <2>1 DEF Close, clientVars, HandOK, DeskOK
<1>12. CASE Restart
  <2>1. RowsOK'
    BY <1>12 DEF Restart, auditVars, countVars, RowsOK
  <2> QED BY <1>12, <2>1 DEF Restart, IdleHand, IdleDesk, HandOK, DeskOK
<1>13. CASE UNCHANGED vars
  BY <1>13 DEF vars, RowsOK, HandOK, DeskOK
<1> QED
  BY <1>1, <1>2, <1>3, <1>4, <1>5, <1>6, <1>7, <1>8, <1>9, <1>10, <1>11, <1>12, <1>13
  DEF Next, DeskNext, HandNext, ReviewNext

\* Rows, requests and messages stay well-formed in every behaviour.
THEOREM TypeCorrect == Spec => []TypeOK
<1>1. Init => TypeOK
  BY BomAuditAssumption DEF Init, TypeOK, HandOK, DeskOK, Statuses, IdleHand, IdleDesk
<1> QED
  BY <1>1, TypeStep, PTL DEF Spec
-----------------------------------------------------------------------------
(***************************************************************************)
(* What a step can do to an audit                                          *)
(*                                                                         *)
(* Most steps move a request on and leave the tables alone.  The others    *)
(* fall into few kinds, whichever handler takes them; the invariants are   *)
(* proved for the kinds.                                                   *)
(***************************************************************************)

tables == <<status, operator, startedAt, submission, upload, lineStatus, decision>>

Inert == UNCHANGED tables /\ sent \subseteq sent'

Created(B, who) ==
  /\ \A b \in B : status[b] = "NONE"
  /\ status' = [b \in Audits |-> IF b \in B THEN "ASSIGNED" ELSE status[b]]
  /\ operator' = [b \in Audits |-> IF b \in B THEN who[b] ELSE operator[b]]
  /\ UNCHANGED <<startedAt, submission, upload, lineStatus, decision, sent>>

Reassigned(a, o) ==
  /\ status[a] = "ASSIGNED"
  /\ operator' = [operator EXCEPT ![a] = o]
  /\ UNCHANGED <<status, startedAt, submission, upload, lineStatus, decision, sent>>

Deleted(a) ==
  /\ status[a] = "ASSIGNED"
  /\ status' = [status EXCEPT ![a] = "DELETED"]
  /\ UNCHANGED <<operator, startedAt, submission, upload, lineStatus, decision, sent>>

Taken(a) ==
  /\ status[a] \in OpenStatuses
  /\ status' = [status EXCEPT ![a] = "IN_PROGRESS"]
  /\ \/ UNCHANGED startedAt
     \/ startedAt[a] = None /\ \E t \in Stamps : startedAt' = [startedAt EXCEPT ![a] = t]
  /\ UNCHANGED <<operator, submission, upload, lineStatus, decision, sent>>

Decided(a, S, d) ==
  /\ status[a] = "RECONCILIATION_PENDING"
  /\ S \subseteq Discrepancies(a)
  /\ decision' = [n \in Lines |-> IF n \in S THEN d ELSE decision[n]]
  /\ UNCHANGED <<status, operator, startedAt, submission, upload, lineStatus, sent>>

StepKinds ==
  \/ Inert
  \/ \E B \in SUBSET Audits : \E who \in [B -> Operators] : Created(B, who)
  \/ \E a \in Audits :
       \/ \E o \in Operators : Reassigned(a, o)
       \/ Deleted(a)
       \/ Taken(a)
       \/ \E S \in SUBSET Lines, d \in Decisions : Decided(a, S, d)
       \/ Close(a)
  \/ \E m \in sent : Submit(m)

\* Every step of the handlers is of one of these kinds.
LEMMA StepIsOfAKind == TypeOK /\ [Next]_vars => StepKinds
<1> SUFFICES ASSUME TypeOK, [Next]_vars PROVE StepKinds
  OBVIOUS
<1> USE DEF tables
<1>1. ASSUME NEW B \in SUBSET Audits, NEW who \in [B -> Operators], Create(B, who)
      PROVE  StepKinds
  <2>1. Created(B, who)
    BY <1>1 DEF Create, Created, countVars, clientVars
  <2> QED BY <2>1 DEF StepKinds
<1>2. ASSUME NEW w \in Admins, NEW a \in Audits, NEW o \in Operators, ReassignRead(w, a, o)
      PROVE  StepKinds
  BY <1>2 DEF ReassignRead, auditVars, countVars, StepKinds, Inert
<1>3. ASSUME NEW w \in Admins, ReassignWrite(w) PROVE StepKinds
  <2>1. PICK a \in Audits, o \in Operators : a = desk[w].audit /\ o = desk[w].to
    BY <1>3 DEF ReassignWrite, TypeOK, DeskOK
  <2>2. Inert \/ Reassigned(a, o)
    BY <1>3, <2>1 DEF ReassignWrite, countVars, Inert, Reassigned
  <2> QED BY <2>2 DEF StepKinds
<1>4. ASSUME NEW w \in Admins, NEW a \in Audits, RemoveRead(w, a) PROVE StepKinds
  BY <1>4 DEF RemoveRead, auditVars, countVars, StepKinds, Inert
<1>5. ASSUME NEW w \in Admins, RemoveWrite(w) PROVE StepKinds
  <2>1. PICK a \in Audits : a = desk[w].audit
    BY <1>5 DEF RemoveWrite, TypeOK, DeskOK
  <2>2. Inert \/ Deleted(a)
    BY <1>5, <2>1 DEF RemoveWrite, countVars, Inert, Deleted
  <2> QED BY <2>2 DEF StepKinds
<1>6. ASSUME NEW r \in Requests, NEW o \in Operators, NEW a \in Audits,
             DownloadRead(r, o, a) \/ StartRead(r, o, a)
      PROVE  StepKinds
  BY <1>6 DEF DownloadRead, StartRead, auditVars, countVars, StepKinds, Inert
<1>7. ASSUME NEW r \in Requests, DownloadFlip(r) PROVE StepKinds
  <2>1. PICK a \in Audits : a = hand[r].audit
    BY <1>7 DEF DownloadFlip, TypeOK, HandOK
  <2>2. Inert \/ Taken(a)
    BY <1>7, <2>1 DEF DownloadFlip, countVars, Inert, Taken, OpenStatuses
  <2> QED BY <2>2 DEF StepKinds
<1>8. ASSUME NEW r \in Requests, DownloadRecheck(r) \/ DownloadServe(r) PROVE StepKinds
  BY <1>8 DEF DownloadRecheck, DownloadServe, auditVars, countVars, StepKinds, Inert
<1>9. ASSUME NEW r \in Requests, NEW t \in Stamps, StartWrite(r, t) PROVE StepKinds
  <2>1. PICK a \in Audits : a = hand[r].audit
    BY <1>9 DEF StartWrite, TypeOK, HandOK
  <2>2. Inert \/ Taken(a)
    BY <1>9, <2>1 DEF StartWrite, countVars, Inert, Taken
  <2> QED BY <2>2 DEF StepKinds
<1>10. ASSUME NEW o \in Operators, NEW a \in Audits, NEW id \in SubmissionIds,
              NEW p \in Payloads, Send(o, a, id, p)
       PROVE  StepKinds
  BY <1>10 DEF Send, auditVars, countVars, StepKinds, Inert
<1>11. ASSUME NEW a \in Audits, NEW d \in Decisions, NEW n \in Lines, Review(a, n, d)
       PROVE  StepKinds
  <2>1. decision' = [k \in Lines |-> IF k \in {n} THEN d ELSE decision[k]]
    BY <1>11 DEF Review, TypeOK
  <2>2. Decided(a, {n}, d)
    BY <1>11, <2>1 DEF Review, Decided, auditVars, countVars, clientVars
  <2> QED BY <2>2 DEF StepKinds
<1>12. ASSUME NEW a \in Audits, NEW d \in Decisions, NEW S \in SUBSET Lines,
              BulkReview(a, S, d)
       PROVE  StepKinds
  <2>1. Decided(a, S, d)
    BY <1>12 DEF BulkReview, Decided, auditVars, countVars, clientVars
  <2> QED BY <2>1 DEF StepKinds
<1>13. CASE Restart
  BY <1>13 DEF Restart, auditVars, countVars, StepKinds, Inert
<1>14. CASE UNCHANGED vars
  BY <1>14 DEF vars, StepKinds, Inert
<1>15. CASE \E a \in Audits : Close(a)
  BY <1>15 DEF StepKinds
<1>16. CASE \E m \in sent : Submit(m)
  BY <1>16 DEF StepKinds
<1> QED
  BY <1>1, <1>2, <1>3, <1>4, <1>5, <1>6, <1>7, <1>8, <1>9, <1>10, <1>11, <1>12, <1>13,
     <1>14, <1>15, <1>16
  DEF Next, DeskNext, HandNext, ReviewNext
-----------------------------------------------------------------------------
(***************************************************************************)
(* Submissions                                                             *)
(***************************************************************************)

\* A line of an uploaded location is reported if it is expected: what is stored for
\* it is a status.
LEMMA ExpectedLineGetsStatus ==
  ASSUME NEW m \in Submission, NEW n \in ExpectedLines
  PROVE  LineResult(m, n) # None
  BY BomAuditAssumption DEF LineResult, LINE_STATUS, DISCREPANCY_STATUSES

\* A submission takes the locations it uploads off its own audit's pending ones and
\* off no other audit's (ValidPlan, the locations of audits being disjoint).
LEMMA SubmitPending ==
  ASSUME TypeOK, NEW m \in sent, Submit(m), NEW a \in Audits
  PROVE  Pending(a)' = IF a = m.audit THEN Pending(a) \ m.body.locs ELSE Pending(a)
<1>1. m \in Submission /\ m.id # None /\ m.body.locs \subseteq Locations
  BY BomAuditAssumption DEF TypeOK, Submission
<1>2. m.body.locs \subseteq LocationsOf[m.audit]
  BY DEF Submit, ValidPlan
<1>3. \A l \in Locations : upload'[l] = None <=> upload[l] = None /\ l \notin m.body.locs
  BY <1>1 DEF Submit, ToUpload
<1>4. LocationsOf[a] \subseteq Locations
  BY BomAuditAssumption
<1>5. a # m.audit => LocationsOf[a] \cap m.body.locs = {}
  BY <1>1, <1>2, BomAuditAssumption DEF Submission
<1> QED
  BY <1>3, <1>4, <1>5 DEF Pending

-----------------------------------------------------------------------------
(***************************************************************************)
(* The status tells how far the counting is                                *)
(***************************************************************************)

\* The part of StatusMatchesUploads that is about one audit.
StatusMatches(a) ==
  /\ status[a] \in {"NONE", "ASSIGNED", "DELETED"} => Pending(a) = LocationsOf[a]
  /\ status[a] = "IN_PROGRESS" => Pending(a) # {}
  /\ status[a] \in Submitted <=> Pending(a) = {}
  /\ status[a] \in Submitted <=> submission[a] # None
  /\ \A l \in LocationsOf[a] : upload[l] # None => startedAt[a] # None

\* A submission keeps the status of each audit in step with its uploads.
LEMMA SubmitKeepsStatus ==
  ASSUME TypeOK, StatusMatchesUploads, NEW m \in sent, Submit(m), NEW a \in Audits
  PROVE  StatusMatches(a)'
<1>0. StatusMatches(a)
  BY DEF StatusMatchesUploads, StatusMatches
<1>1. m \in Submission /\ m.audit \in Audits /\ m.id # None /\ m.body.startedAt # None
  BY BomAuditAssumption DEF TypeOK, Submission
<1>2. Pending(a)' = IF a = m.audit THEN Pending(a) \ m.body.locs ELSE Pending(a)
  BY SubmitPending
<1>3. CASE a # m.audit
  <2>1. UNCHANGED <<status[a], submission[a], startedAt[a]>>
    BY <1>1, <1>3 DEF Submit, TypeOK
  <2>2. Pending(a)' = Pending(a)
    BY <1>2, <1>3
  <2>3. LocationsOf[a] \subseteq Locations
    BY BomAuditAssumption
  <2>4. \A l \in LocationsOf[a] : upload'[l] = None => upload[l] = None
    BY <1>1, <2>3 DEF Submit, ToUpload, TypeOK
  <2>5. \A l \in LocationsOf[a] : upload[l] = None => upload'[l] = None
    BY <2>2 DEF Pending
  <2> QED BY <1>0, <2>1, <2>2, <2>4, <2>5 DEF StatusMatches
<1>4. CASE a = m.audit
  <2>1. status[a] = "IN_PROGRESS" /\ Pending(a) # {}
    BY <1>0, <1>4 DEF Submit, StatusMatches
  <2>2. submission[a] = None
    BY <1>0, <2>1 DEF StatusMatches, Submitted
  <2>3. startedAt'[a] # None
    BY <1>1, <1>4 DEF Submit, TypeOK
  <2>4. CASE Finished(m)
    <3>1. status'[a] = "RECONCILIATION_PENDING" /\ submission'[a] = m.id
      BY <1>1, <1>4, <2>4 DEF Submit, TypeOK
    <3>2. Pending(a)' = {}
      BY <1>2, <1>4, <2>4 DEF Finished
    <3> QED BY <1>1, <2>3, <3>1, <3>2 DEF StatusMatches, Submitted
  <2>5. CASE ~Finished(m)
    <3>1. status'[a] = "IN_PROGRESS" /\ submission'[a] = None
      BY <1>1, <1>4, <2>1, <2>2, <2>5 DEF Submit, TypeOK
    <3>2. Pending(a)' # {}
      BY <1>2, <1>4, <2>5 DEF Finished
    <3> QED BY <2>3, <3>1, <3>2 DEF StatusMatches, Submitted
  <2> QED BY <2>4, <2>5
<1> QED BY <1>3, <1>4

LEMMA StatusStep ==
  TypeOK /\ StatusMatchesUploads /\ [Next]_vars => StatusMatchesUploads'
<1> SUFFICES ASSUME TypeOK, StatusMatchesUploads, [Next]_vars, NEW a \in Audits
             PROVE  StatusMatches(a)'
  BY DEF StatusMatchesUploads, StatusMatches
<1>0. StatusMatches(a)
  BY DEF StatusMatchesUploads, StatusMatches
<1>1. CASE Inert
  BY <1>0, <1>1 DEF Inert, tables, StatusMatches, Pending
<1>2. ASSUME NEW B \in SUBSET Audits, NEW who \in [B -> Operators], Created(B, who)
      PROVE  StatusMatches(a)'
  BY <1>0, <1>2 DEF Created, StatusMatches, Pending, Submitted
<1>3. ASSUME NEW b \in Audits, NEW o \in Operators, Reassigned(b, o)
      PROVE  StatusMatches(a)'
  BY <1>0, <1>3 DEF Reassigned, StatusMatches, Pending
<1>4. ASSUME NEW b \in Audits, Deleted(b) PROVE StatusMatches(a)'
  BY <1>0, <1>4 DEF Deleted, StatusMatches, Pending, Submitted, TypeOK
<1>5. ASSUME NEW b \in Audits, Taken(b) PROVE StatusMatches(a)'
  <2>1. Pending(a)' = Pending(a) /\ LocationsOf[a] # {}
    BY <1>5, BomAuditAssumption DEF Taken, Pending
  <2>2. startedAt[a] # None => startedAt'[a] # None
    BY <1>5, BomAuditAssumption DEF Taken, TypeOK
  <2>3. status'[a] = status[a] \/ (status[a] \in OpenStatuses /\ status'[a] = "IN_PROGRESS")
    BY <1>5 DEF Taken, TypeOK
  <2>4. UNCHANGED <<submission, upload>>
    BY <1>5 DEF Taken
  <2> QED
    BY <1>0, <2>1, <2>2, <2>3, <2>4 DEF StatusMatches, Submitted, OpenStatuses
<1>6. ASSUME NEW b \in Audits, NEW S \in SUBSET Lines, NEW d \in Decisions, Decided(b, S, d)
      PROVE  StatusMatches(a)'
  BY <1>0, <1>6 DEF Decided, StatusMatches, Pending
<1>7. ASSUME NEW b \in Audits, Close(b) PROVE StatusMatches(a)'
  BY <1>0, <1>7 DEF Close, StatusMatches, Pending, Submitted, TypeOK, countVars
<1>8. ASSUME NEW m \in sent, Submit(m) PROVE StatusMatches(a)'
  BY <1>8, SubmitKeepsStatus
<1> QED
  BY StepIsOfAKind, <1>1, <1>2, <1>3, <1>4, <1>5, <1>6, <1>7, <1>8 DEF StepKinds

\* The status of an audit tells how far its counting is, for any number of handhelds
\* retrying and desks re-assigning meanwhile (submit, start, download, close).
THEOREM StatusAlwaysMatches == Spec => []StatusMatchesUploads
<1>1. Init => StatusMatchesUploads
  BY BomAuditAssumption DEF Init, StatusMatchesUploads, Pending, Submitted
<1> QED
  BY <1>1, StatusStep, TypeCorrect, PTL DEF Spec
-----------------------------------------------------------------------------
(***************************************************************************)
(* One count per location                                                  *)
(***************************************************************************)

\* The part of OneCountPerLocation that is about one location.
CountedBy(l, m) ==
  /\ m.id = upload[l]
  /\ l \in m.body.locs \cap LocationsOf[m.audit]
  /\ operator[m.audit] = m.by
  /\ \A n \in LinesAt(l) : lineStatus[n] = LineResult(m, n)

OneCount(l) ==
  \/ /\ upload[l] = None
     /\ \A n \in LinesAt(l) : lineStatus[n] = None /\ decision[n] = None
  \/ \E m \in sent : CountedBy(l, m)

\* The operator of an audit something was uploaded for does not change any more.
LEMMA UploadedAuditIsTaken ==
  ASSUME StatusMatchesUploads, NEW a \in Audits, NEW l \in LocationsOf[a],
         upload[l] # None
  PROVE  status[a] \notin {"NONE", "ASSIGNED"}
  BY DEF StatusMatchesUploads, Pending

LEMMA OneCountStep ==
  TypeOK /\ StatusMatchesUploads /\ OneCountPerLocation /\ [Next]_vars
    => OneCountPerLocation'
<1> SUFFICES ASSUME TypeOK, StatusMatchesUploads, OneCountPerLocation, [Next]_vars,
                    NEW l \in Locations
             PROVE  OneCount(l)'
  BY DEF OneCountPerLocation, OneCount, CountedBy
<1>0. OneCount(l)
  BY DEF OneCountPerLocation, OneCount, CountedBy
\* A step that changes neither this location's rows nor the operator of an audit
\* that is taken changes nothing.
<1>1. ASSUME UNCHANGED <<upload, lineStatus>>, sent \subseteq sent',
             \A n \in LinesAt(l) : lineStatus[n] = None => decision'[n] = decision[n],
             \A a \in Audits : status[a] \notin {"NONE", "ASSIGNED"} =>
                                 operator'[a] = operator[a]
      PROVE  OneCount(l)'
  <2>1. CASE /\ upload[l] = None
             /\ \A n \in LinesAt(l) : lineStatus[n] = None /\ decision[n] = None
    BY <1>1, <2>1 DEF OneCount, LinesAt
  <2>2. ASSUME NEW m \in sent, CountedBy(l, m) PROVE OneCount(l)'
    <3>1. m \in Submission /\ m.audit \in Audits /\ upload[l] # None
      BY <2>2, BomAuditAssumption DEF TypeOK, Submission, CountedBy
    <3>2. operator'[m.audit] = operator[m.audit]
      BY <1>1, <2>2, <3>1, UploadedAuditIsTaken DEF CountedBy
    <3>3. CountedBy(l, m)'
      BY <1>1, <2>2, <3>2 DEF CountedBy, LinesAt, LineResult
    <3> QED BY <1>1, <3>3 DEF OneCount
  <2> QED BY <1>0, <2>1, <2>2 DEF OneCount
<1>2. CASE Inert
  BY <1>1, <1>2 DEF Inert, tables
<1>3. ASSUME NEW B \in SUBSET Audits, NEW who \in [B -> Operators], Created(B, who)
      PROVE  OneCount(l)'
  BY <1>1, <1>3 DEF Created
<1>4. ASSUME NEW b \in Audits, NEW o \in Operators, Reassigned(b, o)
      PROVE  OneCount(l)'
  BY <1>1, <1>4 DEF Reassigned, TypeOK
<1>5. ASSUME NEW b \in Audits, Deleted(b) PROVE OneCount(l)'
  BY <1>1, <1>5 DEF Deleted
<1>6. ASSUME NEW b \in Audits, Taken(b) PROVE OneCount(l)'
  BY <1>1, <1>6 DEF Taken
<1>7. ASSUME NEW b \in Audits, NEW S \in SUBSET Lines, NEW d \in Decisions, Decided(b, S, d)
      PROVE  OneCount(l)'
  <2>1. \A n \in LinesAt(l) : lineStatus[n] = None => decision'[n] = decision[n]
    BY <1>7, BomAuditAssumption
    DEF Decided, Discrepancies, LinesAt, LINE_STATUS, TypeOK
  <2> QED BY <1>1, <1>7, <2>1 DEF Decided
<1>8. ASSUME NEW b \in Audits, Close(b) PROVE OneCount(l)'
  BY <1>1, <1>8 DEF Close, countVars, clientVars
<1>9. ASSUME NEW m \in sent, Submit(m) PROVE OneCount(l)'
  <2>1. /\ m \in Submission /\ m.body.locs \subseteq LocationsOf[m.audit]
        /\ operator[m.audit] = m.by
        /\ UNCHANGED <<operator, decision, sent>>
    BY <1>9 DEF TypeOK, Submit, ValidPlan, Owns, clientVars
  <2>2. CASE l \in ToUpload(m)
    <3>1. upload'[l] = m.id /\ l \in m.body.locs
      BY <1>9, <2>2 DEF Submit, ToUpload
    <3>2. \A n \in LinesAt(l) : lineStatus'[n] = LineResult(m, n)
      BY <1>9, <2>2 DEF Submit, LinesToUpload, LinesAt
    <3>3. CountedBy(l, m)'
      BY <2>1, <3>1, <3>2 DEF CountedBy, LinesAt, LineResult
    <3> QED BY <2>1, <3>3 DEF OneCount
  <2>3. CASE l \notin ToUpload(m)
    <3>1. upload'[l] = upload[l]
      BY <1>9, <2>3 DEF Submit
    <3>2. \A n \in LinesAt(l) : lineStatus'[n] = lineStatus[n]
      BY <1>9, <2>3 DEF Submit, LinesToUpload, LinesAt
    <3>3. ASSUME NEW k \in sent, CountedBy(l, k) PROVE CountedBy(l, k)'
      BY <2>1, <3>1, <3>2, <3>3 DEF CountedBy, LinesAt, LineResult
    <3> QED BY <1>0, <2>1, <3>1, <3>2, <3>3 DEF OneCount, LinesAt
  <2> QED BY <2>2, <2>3
<1> QED
  BY StepIsOfAKind, <1>2, <1>3, <1>4, <1>5, <1>6, <1>7, <1>8, <1>9 DEF StepKinds

\* What is stored for a location always comes from one submission, recorded on it and
\* sent by its audit's operator, however many arrive, repeat and overlap (submit).
THEOREM OneCountAlways == Spec => []OneCountPerLocation
<1>1. Init => OneCountPerLocation
  BY DEF Init, OneCountPerLocation, LinesAt
<1> QED
  BY <1>1, OneCountStep, TypeCorrect, StatusAlwaysMatches, PTL DEF Spec

-----------------------------------------------------------------------------
(***************************************************************************)
(* A closed audit is settled                                               *)
(***************************************************************************)

\* What Close looks at, and what nothing undoes afterwards.
DecidedWhenClosed ==
  \A a \in Audits : status[a] = "CLOSED" =>
    \A n \in Discrepancies(a) : decision[n] # None

LEMMA DecidedStep ==
  TypeOK /\ DecidedWhenClosed /\ [Next]_vars => DecidedWhenClosed'
<1> SUFFICES ASSUME TypeOK, DecidedWhenClosed, [Next]_vars,
                    NEW a \in Audits, status'[a] = "CLOSED",
                    NEW n \in LinesOf(a), lineStatus'[n] \in DISCREPANCY_STATUSES
             PROVE  decision'[n] # None
  BY DEF DecidedWhenClosed, Discrepancies, LinesOf
<1>1. ASSUME status[a] = "CLOSED", lineStatus'[n] = lineStatus[n]
      PROVE  decision[n] # None
  BY <1>1 DEF DecidedWhenClosed, Discrepancies
<1>2. CASE Inert
  BY <1>1, <1>2 DEF Inert, tables
<1>3. ASSUME NEW B \in SUBSET Audits, NEW who \in [B -> Operators], Created(B, who)
      PROVE  decision'[n] # None
  BY <1>1, <1>3 DEF Created
<1>4. ASSUME NEW b \in Audits, NEW o \in Operators, Reassigned(b, o)
      PROVE  decision'[n] # None
  BY <1>1, <1>4 DEF Reassigned
<1>5. ASSUME NEW b \in Audits, Deleted(b) PROVE decision'[n] # None
  BY <1>1, <1>5 DEF Deleted, TypeOK
<1>6. ASSUME NEW b \in Audits, Taken(b) PROVE decision'[n] # None
  BY <1>1, <1>6 DEF Taken, TypeOK
<1>7. ASSUME NEW b \in Audits, NEW S \in SUBSET Lines, NEW d \in Decisions, Decided(b, S, d)
      PROVE  decision'[n] # None
  <2>1. decision[n] # None
    BY <1>1, <1>7 DEF Decided
  <2> QED BY <1>7, <2>1, BomAuditAssumption DEF Decided, LinesOf
<1>8. ASSUME NEW b \in Audits, Close(b) PROVE decision'[n] # None
  <2>1. UNCHANGED <<lineStatus, decision>>
    BY <1>8 DEF Close, countVars
  <2>2. CASE a = b
    BY <1>8, <2>1, <2>2 DEF Close, Discrepancies
  <2>3. CASE a # b
    BY <1>1, <1>8, <2>1, <2>3 DEF Close, TypeOK
  <2> QED BY <2>2, <2>3
<1>9. ASSUME NEW m \in sent, Submit(m) PROVE decision'[n] # None
  <2>1. /\ m.audit \in Audits /\ status[m.audit] = "IN_PROGRESS"
        /\ m.body.locs \subseteq LocationsOf[m.audit] /\ decision' = decision
    BY <1>9 DEF Submit, ValidPlan, TypeOK, Submission
  <2>2. a # m.audit /\ status[a] = "CLOSED"
    BY <1>9, <2>1 DEF Submit, TypeOK
  <2>3. LocationOf[n] \notin ToUpload(m)
    BY <2>1, <2>2, BomAuditAssumption DEF LinesOf, ToUpload
  <2>4. lineStatus'[n] = lineStatus[n]
    BY <1>9, <2>3 DEF Submit, LinesToUpload, LinesOf
  <2> QED BY <1>1, <2>1, <2>2, <2>4
<1> QED
  BY StepIsOfAKind, <1>2, <1>3, <1>4, <1>5, <1>6, <1>7, <1>8, <1>9 DEF StepKinds

\* The three invariants together say that a closed audit is settled.
LEMMA SettledFollows ==
  TypeOK /\ StatusMatchesUploads /\ OneCountPerLocation /\ DecidedWhenClosed
    => ClosedIsSettled
<1> SUFFICES ASSUME TypeOK, StatusMatchesUploads, OneCountPerLocation, DecidedWhenClosed,
                    NEW a \in Audits, status[a] = "CLOSED", NEW n \in LinesOf(a)
             PROVE  /\ n \in ExpectedLines => lineStatus[n] # None
                    /\ lineStatus[n] \in DISCREPANCY_STATUSES => decision[n] # None
  BY DEF ClosedIsSettled
<1>1. n \in ExpectedLines => lineStatus[n] # None
  <2> SUFFICES ASSUME n \in ExpectedLines PROVE lineStatus[n] # None
    OBVIOUS
  <2> DEFINE l == LocationOf[n]
  <2>1. l \in Locations /\ l \in LocationsOf[a] /\ n \in LinesAt(l)
    BY BomAuditAssumption DEF LinesOf, LinesAt
  <2>2. upload[l] # None
    BY <2>1 DEF StatusMatchesUploads, Submitted, Pending
  <2>3. PICK m \in sent : \A k \in LinesAt(l) : lineStatus[k] = LineResult(m, k)
    BY <2>1, <2>2 DEF OneCountPerLocation
  <2>4. lineStatus[n] = LineResult(m, n)
    BY <2>1, <2>3
  <2> QED BY <2>4, ExpectedLineGetsStatus DEF TypeOK
<1>2. lineStatus[n] \in DISCREPANCY_STATUSES => decision[n] # None
  BY DEF DecidedWhenClosed, Discrepancies
<1> QED BY <1>1, <1>2

\* However submissions, retries, reviews and closes interleave, a closed audit has every
\* expected line counted and every discrepancy decided (close, submit, review).
THEOREM ClosedAlwaysSettled == Spec => []ClosedIsSettled
<1>1. Init => DecidedWhenClosed
  BY DEF Init, DecidedWhenClosed
<1> QED
  BY <1>1, DecidedStep, SettledFollows, TypeCorrect, StatusAlwaysMatches, OneCountAlways,
     PTL DEF Spec
-----------------------------------------------------------------------------
(***************************************************************************)
(* What a step may never do                                                *)
(***************************************************************************)

LEMMA LockedStep ==
  TypeOK /\ [Next]_vars =>
    \A l \in Locations : upload[l] # None =>
      /\ upload'[l] = upload[l]
      /\ \A n \in LinesAt(l) : lineStatus'[n] = lineStatus[n]
<1> SUFFICES ASSUME TypeOK, [Next]_vars, NEW l \in Locations, upload[l] # None
             PROVE  /\ upload'[l] = upload[l]
                    /\ \A n \in LinesAt(l) : lineStatus'[n] = lineStatus[n]
  OBVIOUS
<1>1. CASE UNCHANGED <<upload, lineStatus>>
  BY <1>1
<1>2. ASSUME NEW m \in sent, Submit(m)
      PROVE  /\ upload'[l] = upload[l]
             /\ \A n \in LinesAt(l) : lineStatus'[n] = lineStatus[n]
  BY <1>2 DEF Submit, ToUpload, LinesToUpload, LinesAt
<1>3. UNCHANGED <<upload, lineStatus>> \/ \E m \in sent : Submit(m)
  BY StepIsOfAKind
  DEF StepKinds, Inert, tables, Created, Reassigned, Deleted, Taken, Decided, Close, countVars
<1> QED BY <1>1, <1>2, <1>3

\* "Uploaded locations are locked": whatever arrives again, late or from an overlapping
\* upload, an uploaded location keeps what it holds (submit, buildSubmitPlan).
THEOREM UploadedAlwaysLocked == Spec => UploadedLocked
<1>1. TypeOK /\ [Next]_vars =>
        [\A l \in Locations : upload[l] # None =>
           /\ upload'[l] = upload[l]
           /\ \A n \in LinesAt(l) : lineStatus'[n] = lineStatus[n]]_vars
  BY LockedStep
<1> QED BY <1>1, TypeCorrect, PTL DEF Spec, UploadedLocked

LEMMA StartedStep ==
  TypeOK /\ [Next]_vars =>
    \A a \in Audits : startedAt[a] # None => startedAt'[a] = startedAt[a]
<1> SUFFICES ASSUME TypeOK, [Next]_vars, NEW a \in Audits, startedAt[a] # None
             PROVE  startedAt'[a] = startedAt[a]
  OBVIOUS
<1>1. ASSUME NEW b \in Audits, Taken(b) PROVE startedAt'[a] = startedAt[a]
  BY <1>1 DEF Taken, TypeOK
<1>2. ASSUME NEW m \in sent, Submit(m) PROVE startedAt'[a] = startedAt[a]
  BY <1>2 DEF Submit, TypeOK
<1>3. \/ UNCHANGED startedAt
      \/ \E b \in Audits : Taken(b)
      \/ \E m \in sent : Submit(m)
  BY StepIsOfAKind
  DEF StepKinds, Inert, tables, Created, Reassigned, Deleted, Decided, Close
<1> QED BY <1>1, <1>2, <1>3

\* Starts, downloads and submissions racing each other never move a start time that is
\* recorded (start, submit).
THEOREM StartTimeStays == Spec => StartTimeOnce
<1>1. TypeOK /\ [Next]_vars =>
        [\A a \in Audits : startedAt[a] # None => startedAt'[a] = startedAt[a]]_vars
  BY StartedStep
<1> QED BY <1>1, TypeCorrect, PTL DEF Spec, StartTimeOnce

LEMMA OwnerStep ==
  TypeOK /\ [Next]_vars =>
    \A a \in Audits : status[a] \notin {"NONE", "ASSIGNED"} =>
      operator'[a] = operator[a] /\ (status'[a] = "DELETED" => status[a] = "DELETED")
<1> SUFFICES ASSUME TypeOK, [Next]_vars,
                    NEW a \in Audits, status[a] \notin {"NONE", "ASSIGNED"}
             PROVE  operator'[a] = operator[a] /\ (status'[a] = "DELETED" => status[a] = "DELETED")
  OBVIOUS
<1> DEFINE Stays == operator'[a] = operator[a] /\ (status'[a] = "DELETED" => status[a] = "DELETED")
<1>1. CASE UNCHANGED <<status, operator>>
  BY <1>1
<1>2. ASSUME NEW B \in SUBSET Audits, NEW who \in [B -> Operators], Created(B, who) PROVE Stays
  BY <1>2 DEF Created
<1>3. ASSUME NEW b \in Audits, NEW o \in Operators, Reassigned(b, o) PROVE Stays
  BY <1>3 DEF Reassigned, TypeOK
<1>4. ASSUME NEW b \in Audits, Deleted(b) PROVE Stays
  BY <1>4 DEF Deleted, TypeOK
<1>5. ASSUME NEW b \in Audits, Taken(b) \/ Close(b) PROVE Stays
  BY <1>5 DEF Taken, Close, TypeOK
<1>6. ASSUME NEW m \in sent, Submit(m) PROVE Stays
  BY <1>6 DEF Submit, TypeOK
<1>7. Inert \/ (\E b \in Audits, S \in SUBSET Lines, d \in Decisions : Decided(b, S, d))
        => UNCHANGED <<status, operator>>
  BY DEF Inert, tables, Decided
<1> QED
  BY StepIsOfAKind, <1>1, <1>2, <1>3, <1>4, <1>5, <1>6, <1>7 DEF StepKinds

\* "Only while ASSIGNED": re-assign and delete requests that read an audit before it was
\* taken change nothing once it is (reassign, remove).
THEOREM TakenAlwaysStays == Spec => TakenStaysWithOperator
<1>1. TypeOK /\ [Next]_vars =>
        [\A a \in Audits : status[a] \notin {"NONE", "ASSIGNED"} =>
           operator'[a] = operator[a] /\ (status'[a] = "DELETED" => status[a] = "DELETED")]_vars
  BY OwnerStep
<1> QED BY <1>1, TypeCorrect, PTL DEF Spec, TakenStaysWithOperator

-----------------------------------------------------------------------------
(***************************************************************************)
(* BomAudit implements AuditLifecycle                                      *)
(***************************************************************************)

\* The differences of an audit that are still open; with Pending, what the refinement
\* mapping shows of an audit.
OpenLines(a) == {n \in Discrepancies(a) : decision[n] = None}

LEMMA Mapping ==
  ASSUME \A a \in Audits : UNCHANGED <<Pending(a), OpenLines(a)>>, UNCHANGED <<status, operator>>
  PROVE  UNCHANGED Lifecycle!vars
<1>1. /\ [a \in Audits |-> Pending(a)]' = [a \in Audits |-> Pending(a)]
      /\ [a \in Audits |-> OpenLines(a)]' = [a \in Audits |-> OpenLines(a)]
  OBVIOUS
<1> QED BY <1>1 DEF Lifecycle!vars, OpenLines

\* The lines of an audit are not another one's.
LEMMA LinesDisjoint ==
  ASSUME NEW a \in Audits, NEW b \in Audits, a # b PROVE LinesOf(a) \cap LinesOf(b) = {}
  BY BomAuditAssumption DEF LinesOf

LEMMA CountIsAStep ==
  ASSUME NEW a \in Audits, NEW S \in SUBSET Locations, NEW D \in SUBSET Lines,
         Lifecycle!Count(a, S, D)
  PROVE  Lifecycle!Next
  BY DEF Lifecycle!Next

\* A submission that uploads something counts those locations and opens the differences
\* it shows; any other changes nothing of the lifecycle.
LEMMA SubmitCounts ==
  ASSUME TypeOK, StatusMatchesUploads, OneCountPerLocation, NEW m \in sent, Submit(m)
  PROVE  Lifecycle!Next \/ UNCHANGED Lifecycle!vars
<1> DEFINE a == m.audit
           D == {n \in LinesToUpload(m) : LineResult(m, n) \in DISCREPANCY_STATUSES}
<1>1. /\ m \in Submission /\ a \in Audits /\ m.body.locs \subseteq Locations
      /\ m.body.locs \subseteq LocationsOf[a]
      /\ status[a] = "IN_PROGRESS" /\ Pending(a) # {}
  BY BomAuditAssumption
  DEF TypeOK, Submission, Submit, ValidPlan, StatusMatchesUploads
<1>2. ToUpload(m) = Pending(a) \cap m.body.locs
  BY <1>1 DEF ToUpload, Pending
<1>3. \A b \in Audits : Pending(b)' = IF b = a THEN Pending(b) \ ToUpload(m) ELSE Pending(b)
  BY <1>2, SubmitPending
<1>4. LinesToUpload(m) \subseteq LinesOf(a)
  BY <1>1 DEF LinesToUpload, ToUpload, LinesOf
<1>5. \A n \in LinesToUpload(m) : lineStatus[n] = None /\ decision[n] = None
  <2> SUFFICES ASSUME NEW n \in LinesToUpload(m)
               PROVE  lineStatus[n] = None /\ decision[n] = None
    OBVIOUS
  <2>1. LocationOf[n] \in Locations /\ upload[LocationOf[n]] = None /\ n \in LinesAt(LocationOf[n])
    BY BomAuditAssumption DEF LinesToUpload, ToUpload, LinesAt
  <2>2. \A k \in sent : k.id # None
    BY BomAuditAssumption DEF TypeOK, Submission
  <2> QED BY <2>1, <2>2 DEF OneCountPerLocation
<1>6. /\ \A n \in LinesToUpload(m) : lineStatus'[n] = LineResult(m, n)
      /\ \A n \in Lines \ LinesToUpload(m) : lineStatus'[n] = lineStatus[n]
      /\ decision' = decision /\ operator' = operator
  BY DEF Submit, LinesToUpload, clientVars
<1>7. \A b \in Audits : OpenLines(b)' = IF b = a THEN OpenLines(b) \cup D ELSE OpenLines(b)
  <2> SUFFICES ASSUME NEW b \in Audits
               PROVE  OpenLines(b)' = IF b = a THEN OpenLines(b) \cup D ELSE OpenLines(b)
    OBVIOUS
  <2>1. CASE b = a
    BY <1>4, <1>5, <1>6, <2>1, BomAuditAssumption
    DEF OpenLines, Discrepancies, LinesOf, LINE_STATUS, LinesToUpload
  <2>2. CASE b # a
    <3>1. LinesOf(b) \cap LinesToUpload(m) = {}
      BY <1>1, <1>4, <2>2, LinesDisjoint
    <3> QED BY <1>6, <2>2, <3>1 DEF OpenLines, Discrepancies, LinesOf
  <2> QED BY <2>1, <2>2
<1>8. CASE ToUpload(m) = {}
  <2>1. status' = status
    BY <1>1, <1>2, <1>8 DEF Submit, Finished, TypeOK
  <2>2. D = {}
    BY <1>8 DEF LinesToUpload
  <2> QED BY <1>3, <1>6, <1>7, <1>8, <2>1, <2>2, Mapping
<1>9. CASE ToUpload(m) # {}
  <2> DEFINE toCount == [b \in Audits |-> Pending(b)]
             open == [b \in Audits |-> OpenLines(b)]
  <2>1. toCount' = [toCount EXCEPT ![a] = @ \ ToUpload(m)]
    BY <1>1, <1>3
  <2>2. open' = [open EXCEPT ![a] = @ \cup D]
    BY <1>1, <1>7
  <2>3. status' = [status EXCEPT ![a] =
          IF toCount[a] \ ToUpload(m) = {} THEN "RECONCILIATION_PENDING" ELSE @]
    BY <1>1, <1>2 DEF Submit, Finished
  <2>4. ToUpload(m) \subseteq toCount[a] /\ \A n \in D : LocationOf[n] \in ToUpload(m)
    BY <1>1, <1>2 DEF LinesToUpload
  <2>5. ToUpload(m) \in SUBSET Locations /\ D \in SUBSET Lines
    BY <1>1 DEF ToUpload, LinesToUpload
  <2>6. PICK S \in SUBSET Locations, E \in SUBSET Lines : S = ToUpload(m) /\ E = D
    BY <2>5
  <2>7. Lifecycle!Count(a, S, E)
    BY <1>1, <1>6, <1>9, <2>1, <2>2, <2>3, <2>4, <2>6 DEF Lifecycle!Count, OpenLines
  <2> QED BY <1>1, <2>7, CountIsAStep
<1> QED BY <1>8, <1>9

LEMMA LifecycleStep ==
  TypeOK /\ StatusMatchesUploads /\ OneCountPerLocation /\ [Next]_vars
    => Lifecycle!Next \/ UNCHANGED Lifecycle!vars
<1> SUFFICES ASSUME TypeOK, StatusMatchesUploads, OneCountPerLocation, [Next]_vars
             PROVE  Lifecycle!Next \/ UNCHANGED Lifecycle!vars
  OBVIOUS
<1> DEFINE toCount == [b \in Audits |-> Pending(b)]
           open == [b \in Audits |-> OpenLines(b)]
<1>0. ASSUME UNCHANGED <<upload, lineStatus, decision>>
      PROVE  /\ \A a \in Audits : UNCHANGED <<Pending(a), OpenLines(a)>>
             /\ toCount' = toCount /\ open' = open
  <2>1. \A a \in Audits : Pending(a)' = Pending(a) /\ OpenLines(a)' = OpenLines(a)
    BY <1>0 DEF Pending, OpenLines, Discrepancies
  <2> QED BY <2>1
<1>1. CASE Inert
  BY <1>0, <1>1, Mapping DEF Inert, tables
<1>2. ASSUME NEW B \in SUBSET Audits, NEW who \in [B -> Operators], Created(B, who)
      PROVE  Lifecycle!Next
  <2>1. Lifecycle!Create(B, who)
    BY <1>0, <1>2 DEF Created, Lifecycle!Create, OpenLines
  <2> QED BY <2>1 DEF Lifecycle!Next
<1>3. ASSUME NEW a \in Audits, NEW o \in Operators, Reassigned(a, o) PROVE Lifecycle!Next
  <2>1. Lifecycle!Reassign(a, o)
    BY <1>0, <1>3 DEF Reassigned, Lifecycle!Reassign, OpenLines
  <2> QED BY <2>1 DEF Lifecycle!Next
<1>4. ASSUME NEW a \in Audits, Deleted(a) PROVE Lifecycle!Next
  <2>1. Lifecycle!Delete(a)
    BY <1>0, <1>4 DEF Deleted, Lifecycle!Delete, OpenLines
  <2> QED BY <2>1 DEF Lifecycle!Next
<1>5. ASSUME NEW a \in Audits, Taken(a) PROVE Lifecycle!Next \/ UNCHANGED Lifecycle!vars
  <2>1. CASE status[a] = "ASSIGNED"
    <3>1. Lifecycle!Take(a)
      BY <1>0, <1>5, <2>1 DEF Taken, Lifecycle!Take, OpenLines
    <3> QED BY <3>1 DEF Lifecycle!Next
  <2>2. CASE status[a] # "ASSIGNED"
    <3>1. status' = status
      BY <1>5, <2>2 DEF Taken, OpenStatuses, TypeOK
    <3> QED BY <1>0, <1>5, <3>1, Mapping DEF Taken
  <2> QED BY <2>1, <2>2
<1>6. ASSUME NEW a \in Audits, NEW S \in SUBSET Lines, NEW d \in Decisions, Decided(a, S, d)
      PROVE  Lifecycle!Next
  <2>1. toCount' = toCount
    BY <1>6 DEF Decided, Pending
  <2>2. \A b \in Audits : OpenLines(b)' = IF b = a THEN OpenLines(b) \ S ELSE OpenLines(b)
    <3> SUFFICES ASSUME NEW b \in Audits
                 PROVE  OpenLines(b)' = IF b = a THEN OpenLines(b) \ S ELSE OpenLines(b)
      OBVIOUS
    <3>1. b # a => LinesOf(b) \cap S = {}
      BY <1>6, LinesDisjoint DEF Decided, Discrepancies
    <3>2. /\ \A n \in S : decision'[n] # None
          /\ \A n \in Lines \ S : decision'[n] = decision[n]
      BY <1>6, BomAuditAssumption DEF Decided
    <3>3. LinesOf(b) \subseteq Lines /\ Discrepancies(b)' = Discrepancies(b)
      BY <1>6 DEF Decided, Discrepancies, LinesOf
    <3> QED BY <3>1, <3>2, <3>3 DEF OpenLines, Discrepancies
  <2>3. open' = [open EXCEPT ![a] = @ \ S]
    BY <2>2
  <2>4. Lifecycle!Settle(a, S)
    BY <1>6, <2>1, <2>3 DEF Decided, Lifecycle!Settle, OpenLines
  <2> QED BY <2>4 DEF Lifecycle!Next
<1>7. ASSUME NEW a \in Audits, Close(a) PROVE Lifecycle!Next
  <2>1. UNCHANGED <<upload, lineStatus, decision, operator>>
    BY <1>7 DEF Close, countVars
  <2>2. open[a] = {}
    BY <1>7 DEF Close, OpenLines
  <2>3. Lifecycle!Close(a)
    BY <1>0, <1>7, <2>1, <2>2 DEF Close, Lifecycle!Close, OpenLines
  <2> QED BY <2>3 DEF Lifecycle!Next
<1>8. ASSUME NEW m \in sent, Submit(m) PROVE Lifecycle!Next \/ UNCHANGED Lifecycle!vars
  BY <1>8, SubmitCounts
<1> QED
  BY StepIsOfAKind, <1>1, <1>2, <1>3, <1>4, <1>5, <1>6, <1>7, <1>8 DEF StepKinds

\* Desk, handhelds and reconciliation together implement the lifecycle an audit
\* promises: each of their steps is a step of AuditLifecycle or leaves it alone.
THEOREM ImplementsLifecycle == Spec => LifecycleSpec
<1>1. Init => Lifecycle!Init
  BY BomAuditAssumption
  DEF Init, Lifecycle!Init, Pending, Discrepancies, LinesOf, LINE_STATUS
<1>2. TypeOK /\ StatusMatchesUploads /\ OneCountPerLocation /\ [Next]_vars
        => [Lifecycle!Next]_(Lifecycle!vars)
  BY LifecycleStep
<1> QED
  BY <1>1, <1>2, TypeCorrect, StatusAlwaysMatches, OneCountAlways, PTL
  DEF Spec, LifecycleSpec, Lifecycle!Spec
=============================================================================
