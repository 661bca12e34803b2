------------------------------ MODULE BomAudit ------------------------------
(***************************************************************************)
(* BOM completeness audits: BomAuditService (desk), BomAuditMobileService  *)
(* (handhelds) and BomReconciliationService (review and close).            *)
(*                                                                         *)
(* A handler that runs in one transaction holding the audit row            *)
(* (SELECT ... FOR UPDATE) is one step.  Every other handler is split at   *)
(* its database calls, so that requests of operators and admins interleave *)
(* between a read and the write that relies on it.  Answers get lost and   *)
(* handhelds retry: a submission stays in flight and may be processed any  *)
(* number of times, late, or never.                                        *)
(***************************************************************************)
EXTENDS Naturals, FiniteSets

CONSTANTS
  Audits,         \* ids of BomAudit rows
  Locations,      \* ids of BomAuditLocation rows
  Lines,          \* material lines: expected ones, and unexpected ones that may turn up
  ExpectedLines,  \* the lines listed in the uploaded Excel file
  ExpectedQty,    \* their expected quantity
  LocationsOf,    \* the locations of an audit
  LocationOf,     \* the location of a line
  Operators,      \* users with role USER
  Requests,       \* handheld requests the server can have running at a time
  Admins,         \* desks: requests of the admin screens
  SubmissionIds,  \* clientSubmissionId values handhelds generate
  Stamps,         \* start times handhelds send
  Payloads,       \* contents of submit requests
  Decisions,      \* reconciliation decisions
  None            \* SQL NULL

LinesAt(l) == {n \in Lines : LocationOf[n] = l}
DISCREPANCY_STATUSES == {"MISSING", "MISMATCH", "UNEXPECTED"}
LINE_STATUS == DISCREPANCY_STATUSES \cup {"VALID"}

\* A location belongs to one audit, a line to one location; a payload nests its
\* lines under its locations (SubmitBomAuditDto).
ASSUME BomAuditAssumption ==
  /\ LocationsOf \in [Audits -> (SUBSET Locations) \ {{}}]
  /\ \A a, b \in Audits : a # b => LocationsOf[a] \cap LocationsOf[b] = {}
  /\ LocationOf \in [Lines -> Locations]
  /\ ExpectedLines \subseteq Lines
  /\ ExpectedQty \in [ExpectedLines -> Nat]
  /\ \A p \in Payloads :
       /\ p.locs \subseteq Locations
       /\ p.startedAt \in Stamps
       /\ DOMAIN p.qty \subseteq {n \in Lines : LocationOf[n] \in p.locs}
       /\ \A n \in DOMAIN p.qty : p.qty[n] \in Nat
  /\ None \notin Audits \cup Operators \cup SubmissionIds \cup Stamps \cup Decisions
  /\ None \notin LINE_STATUS

VARIABLES
  status,      \* BomAudit.status; NONE before the upload, DELETED after remove
  operator,    \* BomAudit.operatorId
  downloaded,  \* BomAudit.downloadedAt is set
  startedAt,   \* BomAudit.startedAt
  submission,  \* BomAudit.clientSubmissionId, set together with submittedAt
  upload,      \* BomAuditLocation.uploadSubmissionId, set together with uploadedAt
  lineStatus,  \* BomAuditMaterial.lineStatus; None: not counted, or no such row
  decision,    \* BomAuditMaterial.reconDecision, set together with resolvedAt
  hand,        \* the handheld requests running: download and start
  desk,        \* the request each admin has running
  copies,      \* audits each handheld holds for offline work
  sent,        \* submissions handhelds have sent, each may arrive again
  takenBy      \* history: whose request made the audit IN_PROGRESS

auditVars == <<status, operator, downloaded, startedAt, submission>>
countVars == <<upload, lineStatus>>
clientVars == <<hand, desk, copies, sent>>
vars == <<status, operator, downloaded, startedAt, submission, upload,
          lineStatus, decision, hand, desk, copies, sent, takenBy>>

Statuses == {"NONE", "ASSIGNED", "IN_PROGRESS", "RECONCILIATION_PENDING",
             "CLOSED", "DELETED"}
OpenStatuses == {"ASSIGNED", "IN_PROGRESS"}
Submitted == {"RECONCILIATION_PENDING", "CLOSED"}

IdleHand == [step |-> "idle", audit |-> None, by |-> None]
IdleDesk == [step |-> "idle", audit |-> None, to |-> None]

Submission == [id : SubmissionIds, by : Operators, audit : Audits, body : Payloads]

LinesOf(a) == {n \in Lines : LocationOf[n] \in LocationsOf[a]}
Discrepancies(a) == {n \in LinesOf(a) : lineStatus[n] \in DISCREPANCY_STATUSES}
Owns(o, a) == status[a] \notin {"NONE", "DELETED"} /\ operator[a] = o

HandOK ==
  /\ hand \in [Requests -> [step : {"idle", "flip", "recheck", "serve", "start"},
                            audit : Audits \cup {None}, by : Operators \cup {None}]]
  /\ \A r \in Requests : hand[r].step # "idle" =>
       hand[r].audit \in Audits /\ hand[r].by \in Operators

DeskOK ==
  /\ desk \in [Admins -> [step : {"idle", "reassign", "remove"},
                          audit : Audits \cup {None}, to : Operators \cup {None}]]
  /\ \A w \in Admins : /\ desk[w].step # "idle" => desk[w].audit \in Audits
                       /\ desk[w].step = "reassign" => desk[w].to \in Operators

TypeOK ==
  /\ status \in [Audits -> Statuses]
  /\ operator \in [Audits -> Operators \cup {None}]
  /\ downloaded \in [Audits -> BOOLEAN]
  /\ startedAt \in [Audits -> Stamps \cup {None}]
  /\ submission \in [Audits -> SubmissionIds \cup {None}]
  /\ upload \in [Locations -> SubmissionIds \cup {None}]
  /\ lineStatus \in [Lines -> LINE_STATUS \cup {None}]
  /\ decision \in [Lines -> Decisions \cup {None}]
  /\ HandOK /\ DeskOK
  /\ copies \in [Operators -> SUBSET Audits]
  /\ sent \subseteq Submission
  /\ takenBy \in [Audits -> Operators \cup {None}]

Init ==
  /\ status = [a \in Audits |-> "NONE"]
  /\ operator = [a \in Audits |-> None]
  /\ downloaded = [a \in Audits |-> FALSE]
  /\ startedAt = [a \in Audits |-> None]
  /\ submission = [a \in Audits |-> None]
  /\ upload = [l \in Locations |-> None]
  /\ lineStatus = [n \in Lines |-> None]
  /\ decision = [n \in Lines |-> None]
  /\ hand = [r \in Requests |-> IdleHand]
  /\ desk = [w \in Admins |-> IdleDesk]
  /\ copies = [o \in Operators |-> {}]
  /\ sent = {}
  /\ takenBy = [a \in Audits |-> None]

-----------------------------------------------------------------------------
(***************************************************************************)
(* Desk: upload, re-assign, delete                                         *)
(***************************************************************************)

\* createAudit: one transaction saves one audit per operator of the file.
Create(B, who) ==
  /\ B # {} /\ \A a \in B : status[a] = "NONE"
  /\ \A a, b \in B : who[a] = who[b] => a = b
  /\ status' = [a \in Audits |-> IF a \in B THEN "ASSIGNED" ELSE status[a]]
  /\ operator' = [a \in Audits |-> IF a \in B THEN who[a] ELSE operator[a]]
  /\ UNCHANGED <<downloaded, startedAt, submission, countVars, decision,
                 clientVars, takenBy>>

ReassignRead(w, a, o) ==
  /\ desk[w] = IdleDesk
  /\ status[a] = "ASSIGNED"
  /\ operator[a] # o
  /\ desk' = [desk EXCEPT ![w] = [step |-> "reassign", audit |-> a, to |-> o]]
  /\ UNCHANGED <<auditVars, countVars, decision, hand, copies, sent, takenBy>>

\* reassign without the status in the WHERE clause of its update.
ReassignWriteUnchecked(w) ==
  /\ desk[w].step = "reassign"
  /\ operator' = [operator EXCEPT ![desk[w].audit] = desk[w].to]
  /\ desk' = [desk EXCEPT ![w] = IdleDesk]
  /\ UNCHANGED <<status, downloaded, startedAt, submission, countVars, decision,
                 hand, copies, sent, takenBy>>

\* updateMany WHERE status = ASSIGNED; otherwise the desk is told of a conflict.
ReassignWrite(w) ==
  /\ desk[w].step = "reassign"
  /\ operator' = IF status[desk[w].audit] = "ASSIGNED"
                   THEN [operator EXCEPT ![desk[w].audit] = desk[w].to]
                   ELSE operator
  /\ desk' = [desk EXCEPT ![w] = IdleDesk]
  /\ UNCHANGED <<status, downloaded, startedAt, submission, countVars, decision,
                 hand, copies, sent, takenBy>>

RemoveRead(w, a) ==
  /\ desk[w] = IdleDesk
  /\ status[a] = "ASSIGNED"
  /\ desk' = [desk EXCEPT ![w] = [step |-> "remove", audit |-> a, to |-> None]]
  /\ UNCHANGED <<auditVars, countVars, decision, hand, copies, sent, takenBy>>

\* deleteMany WHERE status = ASSIGNED; locations and materials go with the audit.
RemoveWrite(w) ==
  /\ desk[w].step = "remove"
  /\ status' = IF status[desk[w].audit] = "ASSIGNED"
                 THEN [status EXCEPT ![desk[w].audit] = "DELETED"]
                 ELSE status
  /\ desk' = [desk EXCEPT ![w] = IdleDesk]
  /\ UNCHANGED <<operator, downloaded, startedAt, submission, countVars, decision,
                 hand, copies, sent, takenBy>>

-----------------------------------------------------------------------------
(***************************************************************************)
(* Handhelds: download and start                                           *)
(***************************************************************************)

DownloadRead(r, o, a) ==
  /\ hand[r] = IdleHand
  /\ Owns(o, a) /\ status[a] \in OpenStatuses
  /\ hand' = [hand EXCEPT ![r] =
                [step |-> IF status[a] = "ASSIGNED" THEN "flip" ELSE "serve",
                 audit |-> a, by |-> o]]
  /\ UNCHANGED <<auditVars, countVars, decision, desk, copies, sent, takenBy>>

\* updateMany WHERE status = ASSIGNED: the operator is not part of the condition.
DownloadFlip(r) ==
  LET a == hand[r].audit IN
  /\ hand[r].step = "flip"
  /\ IF status[a] = "ASSIGNED"
       THEN /\ status' = [status EXCEPT ![a] = "IN_PROGRESS"]
            /\ downloaded' = [downloaded EXCEPT ![a] = TRUE]
            /\ takenBy' = [takenBy EXCEPT ![a] = hand[r].by]
            /\ hand' = [hand EXCEPT ![r].step = "serve"]
       ELSE /\ hand' = [hand EXCEPT ![r].step = "recheck"]
            /\ UNCHANGED <<status, downloaded, takenBy>>
  /\ UNCHANGED <<operator, startedAt, submission, countVars, decision, desk,
                 copies, sent>>

DownloadRecheck(r) ==
  LET a == hand[r].audit IN
  /\ hand[r].step = "recheck"
  /\ hand' = [hand EXCEPT ![r] =
                IF Owns(@.by, a) /\ status[a] \in OpenStatuses
                  THEN [@ EXCEPT !.step = "serve"]
                  ELSE IdleHand]
  /\ UNCHANGED <<auditVars, countVars, decision, desk, copies, sent, takenBy>>

\* findUniqueOrThrow and the answer: the handheld now holds the audit.
DownloadServe(r) ==
  LET a == hand[r].audit IN
  /\ hand[r].step = "serve"
  /\ copies' = IF status[a] \in {"NONE", "DELETED"}
                 THEN copies
                 ELSE [copies EXCEPT ![hand[r].by] = @ \cup {a}]
  /\ hand' = [hand EXCEPT ![r] = IdleHand]
  /\ UNCHANGED <<auditVars, countVars, decision, desk, sent, takenBy>>

StartRead(r, o, a) ==
  /\ hand[r] = IdleHand
  /\ Owns(o, a) /\ status[a] \in OpenStatuses
  /\ ~(status[a] = "IN_PROGRESS" /\ startedAt[a] # None)
  /\ hand' = [hand EXCEPT ![r] = [step |-> "start", audit |-> a, by |-> o]]
  /\ UNCHANGED <<auditVars, countVars, decision, desk, copies, sent, takenBy>>

\* updateMany WHERE operatorId = me AND status open AND startedAt IS NULL.
StartWrite(r, t) ==
  LET a == hand[r].audit IN
  /\ hand[r].step = "start"
  /\ IF Owns(hand[r].by, a) /\ status[a] \in OpenStatuses /\ startedAt[a] = None
       THEN /\ status' = [status EXCEPT ![a] = "IN_PROGRESS"]
            /\ startedAt' = [startedAt EXCEPT ![a] = t]
            /\ downloaded' = [downloaded EXCEPT ![a] = TRUE]
            /\ takenBy' = [takenBy EXCEPT ![a] = IF status[a] = "ASSIGNED" THEN hand[r].by ELSE @]
       ELSE UNCHANGED <<status, startedAt, downloaded, takenBy>>
  /\ hand' = [hand EXCEPT ![r] = IdleHand]
  /\ UNCHANGED <<operator, submission, countVars, decision, desk, copies, sent>>

-----------------------------------------------------------------------------
(***************************************************************************)
(* Handhelds: submit                                                       *)
(***************************************************************************)

\* A handheld sends what was counted, under a fresh clientSubmissionId.
Send(o, a, id, p) ==
  /\ a \in copies[o]
  /\ \A m \in sent : m.id # id
  /\ sent' = sent \cup {[id |-> id, by |-> o, audit |-> a, body |-> p]}
  /\ UNCHANGED <<auditVars, countVars, decision, hand, desk, copies, takenBy>>

Pending(a) == {l \in LocationsOf[a] : upload[l] = None}

\* What a submission uploads, and a version that forgets what is uploaded before.
ToUploadAnyLocation(m) == m.body.locs
ToUpload(m) == {l \in m.body.locs : upload[l] = None}

\* The lines whose count is stored, and a version that takes every line of the request.
LinesInRequest(m) == {n \in Lines : LocationOf[n] \in m.body.locs}
LinesToUpload(m) == {n \in Lines : LocationOf[n] \in ToUpload(m)}

\* Whether the upload is the last one, and a version that compares numbers.
FinishedByNumber(m) == Cardinality(Pending(m.audit)) <= Cardinality(m.body.locs)
Finished(m) == Pending(m.audit) \subseteq m.body.locs

\* Line status with a word of its own for short counts.
LineResultShort(m, n) ==
  IF n \notin ExpectedLines THEN None
  ELSE IF m.body.qty[n] = ExpectedQty[n] THEN "VALID" ELSE "SHORT"

\* Status of a line as buildSubmitPlan computes it; an unexpected line of
\* quantity 0 makes no row.
LineResult(m, n) ==
  LET qty == m.body.qty IN
  IF n \in ExpectedLines
    THEN IF qty[n] = ExpectedQty[n] THEN "VALID"
         ELSE IF qty[n] = 0 THEN "MISSING" ELSE "MISMATCH"
    ELSE IF n \in DOMAIN qty /\ qty[n] >= 1 THEN "UNEXPECTED" ELSE None

\* Every location is this audit's, and every expected line of a location to be
\* uploaded is reported.
ValidPlan(m) ==
  /\ m.body.locs \subseteq LocationsOf[m.audit]
  /\ \A l \in ToUpload(m) : LinesAt(l) \cap ExpectedLines \subseteq DOMAIN m.body.qty
  /\ ~(m.body.locs = {} /\ Pending(m.audit) # {})

\* submit, one transaction.  Locations uploaded before are left alone; the last
\* upload ends the counting.
Submit(m) ==
  LET a == m.audit IN
  /\ Owns(m.by, a) /\ status[a] = "IN_PROGRESS"
  /\ ValidPlan(m)
  /\ upload' = [l \in Locations |-> IF l \in ToUpload(m) THEN m.id ELSE upload[l]]
  /\ lineStatus' = [n \in Lines |-> IF n \in LinesToUpload(m) THEN LineResult(m, n)
                                                             ELSE lineStatus[n]]
  /\ startedAt' = [startedAt EXCEPT ![a] = IF @ = None THEN m.body.startedAt ELSE @]
  /\ status' = [status EXCEPT ![a] = IF Finished(m) THEN "RECONCILIATION_PENDING" ELSE @]
  /\ submission' = [submission EXCEPT ![a] = IF Finished(m) THEN m.id ELSE @]
  /\ UNCHANGED <<operator, downloaded, decision, clientVars, takenBy>>

-----------------------------------------------------------------------------
(***************************************************************************)
(* Reconciliation: review, bulk review, close                              *)
(***************************************************************************)

Review(a, n, d) ==
  /\ status[a] = "RECONCILIATION_PENDING"
  /\ n \in Discrepancies(a)
  /\ decision' = [decision EXCEPT ![n] = d]
  /\ UNCHANGED <<auditVars, countVars, clientVars, takenBy>>

BulkReview(a, S, d) ==
  /\ status[a] = "RECONCILIATION_PENDING"
  /\ S # {} /\ S \subseteq Discrepancies(a)
  /\ decision' = [n \in Lines |-> IF n \in S THEN d ELSE decision[n]]
  /\ UNCHANGED <<auditVars, countVars, clientVars, takenBy>>

\* close that counts only the discrepancies of expected lines.
CloseExpectedOnly(a) ==
  /\ status[a] = "RECONCILIATION_PENDING"
  /\ \A n \in Discrepancies(a) \cap ExpectedLines : decision[n] # None
  /\ status' = [status EXCEPT ![a] = "CLOSED"]
  /\ UNCHANGED <<operator, downloaded, startedAt, submission, countVars, decision,
                 clientVars, takenBy>>

Close(a) ==
  /\ status[a] = "RECONCILIATION_PENDING"
  /\ \A n \in Discrepancies(a) : decision[n] # None
  /\ status' = [status EXCEPT ![a] = "CLOSED"]
  /\ UNCHANGED <<operator, downloaded, startedAt, submission, countVars, decision,
                 clientVars, takenBy>>

-----------------------------------------------------------------------------
\* The server process restarts: every handler that was between two database
\* calls is gone, what it had committed stays.
Restart ==
  /\ hand' = [r \in Requests |-> IdleHand]
  /\ desk' = [w \in Admins |-> IdleDesk]
  /\ UNCHANGED <<auditVars, countVars, decision, copies, sent, takenBy>>

DeskNext ==
  \/ \E B \in SUBSET Audits : \E who \in [B -> Operators] : Create(B, who)
  \/ \E w \in Admins :
       \/ \E a \in Audits, o \in Operators : ReassignRead(w, a, o)
       \/ ReassignWrite(w)
       \/ \E a \in Audits : RemoveRead(w, a)
       \/ RemoveWrite(w)

HandNext ==
  \/ \E r \in Requests :
       \/ \E o \in Operators, a \in Audits : DownloadRead(r, o, a) \/ StartRead(r, o, a)
       \/ DownloadFlip(r)
       \/ DownloadRecheck(r)
       \/ DownloadServe(r)
       \/ \E t \in Stamps : StartWrite(r, t)
  \/ \E o \in Operators, a \in Audits, id \in SubmissionIds, p \in Payloads :
       Send(o, a, id, p)

ReviewNext ==
  \E a \in Audits, d \in Decisions :
    \/ \E n \in Lines : Review(a, n, d)
    \/ \E S \in SUBSET Lines : BulkReview(a, S, d)

Next ==
  \/ DeskNext
  \/ HandNext
  \/ \E m \in sent : Submit(m)
  \/ ReviewNext
  \/ \E a \in Audits : Close(a)
  \/ Restart

Spec == Init /\ [][Next]_vars

-----------------------------------------------------------------------------
(***************************************************************************)
(* Properties                                                              *)
(***************************************************************************)

\* The status tells exactly how far the counting is: nothing is uploaded before
\* an audit is taken, an IN_PROGRESS audit has a location left to count, and a
\* submitted one has none and remembers the submission that ended it.
StatusMatchesUploads ==
  \A a \in Audits :
    /\ status[a] \in {"NONE", "ASSIGNED", "DELETED"} => Pending(a) = LocationsOf[a]
    /\ status[a] = "IN_PROGRESS" => Pending(a) # {}
    /\ status[a] \in Submitted <=> Pending(a) = {}
    /\ status[a] \in Submitted <=> submission[a] # None
    /\ \A l \in LocationsOf[a] : upload[l] # None => startedAt[a] # None

\* A closed audit has every expected line counted and every discrepancy decided,
\* whatever uploads, reviews and retries came before (close, bulkReview).
ClosedIsSettled ==
  \A a \in Audits : status[a] = "CLOSED" =>
    \A n \in LinesOf(a) :
      /\ n \in ExpectedLines => lineStatus[n] # None
      /\ lineStatus[n] \in DISCREPANCY_STATUSES => decision[n] # None

\* What is stored for a location comes from one submission only, the one recorded
\* on it, sent by the operator of its audit: retries and overlapping partial
\* uploads never mix two counts (submit, buildSubmitPlan).
OneCountPerLocation ==
  \A l \in Locations :
    \/ /\ upload[l] = None
       /\ \A n \in LinesAt(l) : lineStatus[n] = None /\ decision[n] = None
    \/ \E m \in sent :
         /\ m.id = upload[l]
         /\ l \in m.body.locs \cap LocationsOf[m.audit]
         /\ operator[m.audit] = m.by
         /\ \A n \in LinesAt(l) : lineStatus[n] = LineResult(m, n)

\* "Uploaded locations are locked": a step never changes what an uploaded
\* location holds.
UploadedLocked ==
  [][\A l \in Locations : upload[l] # None =>
       /\ upload'[l] = upload[l]
       /\ \A n \in LinesAt(l) : lineStatus'[n] = lineStatus[n]]_vars

\* "Records the start time. Safe to call again": start, download and submit
\* racing each other never move a start time once it is recorded.
StartTimeOnce ==
  [][\A a \in Audits : startedAt[a] # None => startedAt'[a] = startedAt[a]]_vars

\* "Only while ASSIGNED": once an audit is taken, no request that read it earlier
\* changes its operator or deletes it.
TakenStaysWithOperator ==
  [][\A a \in Audits : status[a] \notin {"NONE", "ASSIGNED"} =>
       operator'[a] = operator[a] /\ (status'[a] = "DELETED" => status[a] = "DELETED")]_vars

\* The audit implements the lifecycle it promises.
Lifecycle == INSTANCE AuditLifecycle
  WITH phase <- status,
       owner <- operator,
       toCount <- [a \in Audits |-> Pending(a)],
       open <- [a \in Audits |-> {n \in Discrepancies(a) : decision[n] = None}]
LifecycleSpec == Lifecycle!Spec

\* What assertEditable tells an admin of an audit that left ASSIGNED, "the operator
\* has already downloaded it": the request that took the audit was its operator's.
TakenByItsOperator ==
  \A a \in Audits : takenBy[a] # None => takenBy[a] = operator[a]
=============================================================================
