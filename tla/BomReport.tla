----------------------------- MODULE BomReport ------------------------------
(***************************************************************************)
(* The Excel report of a BOM audit: BomAuditReportService beside the       *)
(* audits it reports on.  The audits are those of AuditLifecycle, which    *)
(* BomAudit implements; what the last submit and the close do to the       *)
(* report is added to the lifecycle's steps here.                          *)
(*                                                                         *)
(* A report is generated in memory and uploaded in the background, outside *)
(* the request that asked for it: it may fail at each step, be overtaken by*)
(* the close of the audit, or vanish when the server restarts.             *)
(***************************************************************************)
EXTENDS AuditLifecycle, Naturals, Sequences

CONSTANTS
  MaxAttempts,  \* BOM_AUDIT_REPORT.maxAttempts
  BatchSize,    \* BOM_AUDIT_REPORT.retryBatchSize
  MaxFaults,    \* bound: restarts and failed database calls in a behaviour
  Closable      \* bound: the audits reviewers get round to closing

ASSUME BomReportAssumption ==
  /\ MaxAttempts \in Nat \ {0}
  /\ BatchSize \in Nat \ {0}
  /\ MaxFaults \in Nat
  /\ Closable \subseteq Audits

VARIABLES
  submitted,       \* audits with submittedAt, oldest first
  reportPath,      \* BomAudit.reportPath is set
  reportAttempts,  \* BomAudit.reportAttempts; counts up to MaxAttempts only
  file,            \* what the report file on SFTP shows; None: not there or unreadable
  calls,           \* generateInBackground calls still to be made, per audit
  gen,             \* the generation in flight of each audit (inFlight) and what it read
  retryRunning,    \* retryRunning
  retryTodo,       \* audits the running retry has yet to generate
  retryOn,         \* the audit the running retry awaits
  faults,          \* faults so far
  overlap          \* history: a generation had read the audit when it was closed

auditVars == <<phase, owner, toCount, open>>
retryVars == <<retryRunning, retryTodo, retryOn>>
reportVars == <<submitted, reportPath, reportAttempts, file, calls, gen, retryRunning,
                retryTodo, retryOn, faults, overlap>>
allVars == <<auditVars, reportVars>>

Submitted == {"RECONCILIATION_PENDING", "CLOSED"}

\* A report shows the status and the differences still open.
Report == [phase : Submitted, open : SUBSET Lines]
NoGen == [step |-> "idle", phase |-> "NONE", open |-> {}]

ReportTypeOK ==
  /\ submitted \in Seq(Audits)
  /\ reportPath \in [Audits -> BOOLEAN]
  /\ reportAttempts \in [Audits -> 0..MaxAttempts]
  /\ \A a \in Audits : file[a] = None \/ file[a] \in Report
  /\ calls \in [Audits -> 0..2]
  /\ gen \in [Audits -> [step : {"idle", "head", "lines", "put", "save", "fail"},
                         phase : Submitted \cup {"NONE"}, open : SUBSET Lines]]
  /\ retryRunning \in BOOLEAN
  /\ retryTodo \in Seq(Audits)
  /\ retryOn \in Audits \cup {None}
  /\ faults \in 0..MaxFaults
  /\ overlap \in [Audits -> BOOLEAN]

ReportInit ==
  /\ Init
  /\ submitted = <<>>
  /\ reportPath = [a \in Audits |-> FALSE]
  /\ reportAttempts = [a \in Audits |-> 0]
  /\ file = [a \in Audits |-> None]
  /\ calls = [a \in Audits |-> 0]
  /\ gen = [a \in Audits |-> NoGen]
  /\ retryRunning = FALSE
  /\ retryTodo = <<>>
  /\ retryOn = None
  /\ faults = 0
  /\ overlap = [a \in Audits |-> FALSE]

-----------------------------------------------------------------------------
(***************************************************************************)
(* The audit's own steps                                                   *)
(***************************************************************************)

\* Steps that leave the report alone.
BeforeSubmit ==
  /\ \/ \E B \in SUBSET Audits : \E who \in [B -> Operators] : Create(B, who)
     \/ \E a \in Audits : \/ \E o \in Operators : Reassign(a, o)
                       \/ Delete(a)
                       \/ Take(a)
                       \/ \E D \in SUBSET Lines : Settle(a, D)
  /\ UNCHANGED reportVars

\* submit that asks for a report after every upload.
SubmitReportEach(a, S, D) ==
  /\ Count(a, S, D)
  /\ submitted' = Append(submitted, a)
  /\ calls' = [calls EXCEPT ![a] = @ + 1]
  /\ UNCHANGED <<reportPath, reportAttempts, file, gen, retryVars, faults, overlap>>

\* submit: the transaction commits; if it ended the counting, the handler goes on
\* to generateInBackground.
SubmitReport(a, S, D) ==
  /\ Count(a, S, D)
  /\ IF phase'[a] = "RECONCILIATION_PENDING"
       THEN /\ submitted' = Append(submitted, a)
            /\ calls' = [calls EXCEPT ![a] = @ + 1]
       ELSE UNCHANGED <<submitted, calls>>
  /\ UNCHANGED <<reportPath, reportAttempts, file, gen, retryVars, faults, overlap>>

\* close that forgets to reset the saved report.
CloseReportKeepPath(a) ==
  /\ a \in Closable /\ Close(a)
  /\ calls' = [calls EXCEPT ![a] = @ + 1]
  /\ overlap' = [overlap EXCEPT ![a] = gen[a].step \in {"lines", "put", "save"}]
  /\ UNCHANGED <<submitted, reportPath, reportAttempts, file, gen, retryVars, faults>>

\* close: resets the saved report and goes on to generateInBackground.
CloseReport(a) ==
  /\ a \in Closable /\ Close(a)
  /\ reportPath' = [reportPath EXCEPT ![a] = FALSE]
  /\ reportAttempts' = [reportAttempts EXCEPT ![a] = 0]
  /\ calls' = [calls EXCEPT ![a] = @ + 1]
  /\ overlap' = [overlap EXCEPT ![a] = gen[a].step \in {"lines", "put", "save"}]
  /\ UNCHANGED <<submitted, file, gen, retryVars, faults>>

-----------------------------------------------------------------------------
(***************************************************************************)
(* Generation                                                              *)
(***************************************************************************)

\* generateAndUpload returns at once while one of the same audit is in flight.
Begin(a) ==
  gen' = IF gen[a].step = "idle"
           THEN [gen EXCEPT ![a].step = "head"]
           ELSE gen

\* A generation is over, and so is the retry's await of it.
Finish(a) ==
  /\ gen' = [gen EXCEPT ![a] = NoGen]
  /\ retryOn' = IF retryOn = a THEN None ELSE retryOn
  /\ UNCHANGED <<retryRunning, retryTodo>>

GenerateInBackground(a) ==
  /\ calls[a] > 0
  /\ calls' = [calls EXCEPT ![a] = @ - 1]
  /\ Begin(a)
  /\ UNCHANGED <<auditVars, submitted, reportPath, reportAttempts, file, retryVars,
                 faults, overlap>>

\* buildReport reads the audit row, then its lines, in queries of their own.
ReadHead(a) ==
  /\ gen[a].step = "head"
  /\ gen' = [gen EXCEPT ![a] = [@ EXCEPT !.step = "lines", !.phase = phase[a]]]
  /\ UNCHANGED <<auditVars, submitted, reportPath, reportAttempts, file, calls,
                 retryVars, faults, overlap>>

ReadLines(a) ==
  /\ gen[a].step = "lines"
  /\ gen' = [gen EXCEPT ![a] = [@ EXCEPT !.step = "put", !.open = open[a]]]
  /\ UNCHANGED <<auditVars, submitted, reportPath, reportAttempts, file, calls,
                 retryVars, faults, overlap>>

PutFile(a) ==
  /\ gen[a].step = "put"
  /\ file' = [file EXCEPT ![a] = [phase |-> gen[a].phase, open |-> gen[a].open]]
  /\ gen' = [gen EXCEPT ![a].step = "save"]
  /\ UNCHANGED <<auditVars, submitted, reportPath, reportAttempts, calls, retryVars,
                 faults, overlap>>

\* SFTP fails: the old file stays or is left unreadable.
PutFails(a) ==
  /\ gen[a].step = "put"
  /\ \E f \in {file[a], None} : file' = [file EXCEPT ![a] = f]
  /\ gen' = [gen EXCEPT ![a].step = "fail"]
  /\ UNCHANGED <<auditVars, submitted, reportPath, reportAttempts, calls, retryVars,
                 faults, overlap>>

SavePath(a) ==
  /\ gen[a].step = "save"
  /\ reportPath' = [reportPath EXCEPT ![a] = TRUE]
  /\ Finish(a)
  /\ UNCHANGED <<auditVars, submitted, reportAttempts, file, calls, faults, overlap>>

\* A database error while building or saving goes to the same catch block.
DatabaseFails(a) ==
  /\ gen[a].step \in {"head", "lines", "save"}
  /\ faults < MaxFaults
  /\ faults' = faults + 1
  /\ gen' = [gen EXCEPT ![a].step = "fail"]
  /\ UNCHANGED <<auditVars, submitted, reportPath, reportAttempts, file, calls,
                 retryVars, overlap>>

\* The catch block records one more failed attempt.
CountFailure(a) ==
  /\ gen[a].step = "fail"
  /\ reportAttempts' = [reportAttempts EXCEPT ![a] = IF @ < MaxAttempts THEN @ + 1 ELSE @]
  /\ Finish(a)
  /\ UNCHANGED <<auditVars, submitted, reportPath, file, calls, faults, overlap>>

\* ... and only logs when that update fails too.
LoseFailure(a) ==
  /\ gen[a].step = "fail"
  /\ faults < MaxFaults
  /\ faults' = faults + 1
  /\ Finish(a)
  /\ UNCHANGED <<auditVars, submitted, reportPath, reportAttempts, file, calls, overlap>>

-----------------------------------------------------------------------------
(***************************************************************************)
(* Retry interval, download, restart                                       *)
(***************************************************************************)

\* The retry query that takes only reports that never failed.
RetryableFirstOnly(a) == ~reportPath[a] /\ reportAttempts[a] = 0

Retryable(a) == ~reportPath[a] /\ reportAttempts[a] < MaxAttempts

\* Pending reports in the order of their submission, each with its turn.
Pending == {i \in DOMAIN submitted : Retryable(submitted[i])}
Turn(i) == Cardinality({j \in Pending : j <= i})

\* retryPendingReports, every ten minutes: the oldest BatchSize pending reports.
RetryTick ==
  /\ ~retryRunning
  /\ Pending # {}
  /\ retryRunning' = TRUE
  /\ retryTodo' = [n \in {Turn(i) : i \in Pending} \cap 1..BatchSize
                    |-> submitted[CHOOSE i \in Pending : Turn(i) = n]]
  /\ UNCHANGED <<auditVars, submitted, reportPath, reportAttempts, file, calls, gen,
                 retryOn, faults, overlap>>

RetryNext ==
  /\ retryRunning /\ retryOn = None /\ retryTodo # <<>>
  /\ LET a == Head(retryTodo) IN
       /\ Begin(a)
       /\ retryOn' = IF gen[a].step = "idle" THEN a ELSE None
  /\ retryTodo' = Tail(retryTodo)
  /\ UNCHANGED <<auditVars, submitted, reportPath, reportAttempts, file, calls,
                 retryRunning, faults, overlap>>

RetryDone ==
  /\ retryRunning /\ retryOn = None /\ retryTodo = <<>>
  /\ retryRunning' = FALSE
  /\ UNCHANGED <<auditVars, submitted, reportPath, reportAttempts, file, calls, gen,
                 retryTodo, retryOn, faults, overlap>>

\* getReportForDownload of a closed audit whose saved file is missing or cannot be
\* read builds the answer and saves it again; otherwise nothing changes.
DownloadReport(a) ==
  /\ phase[a] = "CLOSED"
  /\ Begin(a)
  /\ UNCHANGED <<auditVars, submitted, reportPath, reportAttempts, file, calls,
                 retryVars, faults, overlap>>

\* The process restarts: what was in memory is gone.
RestartServer ==
  /\ faults < MaxFaults
  /\ faults' = faults + 1
  /\ calls' = [a \in Audits |-> 0]
  /\ gen' = [a \in Audits |-> NoGen]
  /\ retryRunning' = FALSE /\ retryTodo' = <<>> /\ retryOn' = None
  /\ UNCHANGED <<auditVars, submitted, reportPath, reportAttempts, file, overlap>>

-----------------------------------------------------------------------------
Generate(a) ==
  \/ GenerateInBackground(a)
  \/ ReadHead(a) \/ ReadLines(a)
  \/ PutFile(a) \/ PutFails(a)
  \/ SavePath(a) \/ CountFailure(a)

Retry == RetryTick \/ RetryNext \/ RetryDone

ReportNext ==
  \/ BeforeSubmit
  \/ \E a \in Audits :
       \/ \E S \in SUBSET Locations, D \in SUBSET Lines : SubmitReport(a, S, D)
       \/ CloseReport(a)
       \/ Generate(a)
       \/ DatabaseFails(a) \/ LoseFailure(a)
       \/ DownloadReport(a)
  \/ Retry
  \/ RestartServer

ReportSpec == ReportInit /\ [][ReportNext]_allVars

\* The event loop runs what is ready, and the interval keeps firing.  Operators,
\* reviewers and downloads are under no obligation.
FairReportSpec ==
  /\ ReportSpec
  /\ \A a \in Audits : WF_allVars(Generate(a))
  /\ WF_allVars(Retry)

-----------------------------------------------------------------------------
(***************************************************************************)
(* Properties                                                              *)
(***************************************************************************)

\* The saved report of a closed audit shows it closed with nothing open, unless a
\* generation had read the audit before the close: close resets the saved report,
\* and only such a generation can put an older one back.
FinalReportUnlessOverlap ==
  \A a \in Audits :
    phase[a] = "CLOSED" /\ reportPath[a] /\ file[a] # None /\ ~overlap[a] =>
      file[a] = [phase |-> "CLOSED", open |-> {}]

\* Whatever fails, and wherever the server restarts, a submitted audit gets its
\* report saved or has used up its attempts (retryPendingReports).
ReportSavedOrGivenUp ==
  \A a \in Audits :
    phase[a] \in Submitted ~> (reportPath[a] \/ reportAttempts[a] = MaxAttempts)
=============================================================================
