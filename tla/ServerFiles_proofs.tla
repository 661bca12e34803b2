------------------------ MODULE ServerFiles_proofs --------------------------
(***************************************************************************)
(* Theorems about what the database has recorded of the files on the SFTP  *)
(* server: of the reports of audits (BomReport), for any audits, faults    *)
(* and retries, and of the files that users attach (Attachments), for any  *)
(* owners, names and numbers of requests.  They are two specifications,    *)
(* each with theorems of its own, that use the same facts about numbers    *)
(* and finite sets.                                                        *)
(***************************************************************************)
EXTENDS BomReport, Attachments, FiniteSetTheorems, FunctionTheorems, WellFoundedInduction, TLAPS

-----------------------------------------------------------------------------
(***************************************************************************)
(* The inductive invariant: what a generation has read of a closed audit,  *)
(* unless it had begun to read before the close, is the closed audit.      *)
(***************************************************************************)

Final == [phase |-> "CLOSED", open |-> {}]

Shape ==
  /\ DOMAIN phase = Audits /\ DOMAIN open = Audits
  /\ DOMAIN file = Audits /\ DOMAIN reportPath = Audits /\ DOMAIN overlap = Audits
  /\ DOMAIN gen = Audits /\ \A a \in Audits : DOMAIN gen[a] = {"step", "phase", "open"}

ReadsFinal(a) ==
  /\ gen[a].step \in {"lines", "put", "save"} => gen[a].phase = "CLOSED"
  /\ gen[a].step \in {"put", "save"} => gen[a].open = {}
  /\ gen[a].step = "save" => file[a] = Final
  /\ reportPath[a] /\ file[a] # None => file[a] = Final

AtClose(a) == phase[a] = "CLOSED" => open[a] = {} /\ (~overlap[a] => ReadsFinal(a))

FinalInv == Shape /\ \A a \in Audits : AtClose(a)

-----------------------------------------------------------------------------
(***************************************************************************)
(* The audit's steps                                                       *)
(***************************************************************************)

\* Steps before the close: they leave the report alone and closed audits as they are.
LEMMA OpenAuditStep ==
  ASSUME FinalInv, UNCHANGED <<file, reportPath, gen, overlap>>,
         DOMAIN phase' = Audits, DOMAIN open' = Audits,
         \A b \in Audits : phase'[b] = "CLOSED" => phase[b] = "CLOSED" /\ open'[b] = open[b]
  PROVE  FinalInv'
<1>1. Shape'
  BY DEF FinalInv, Shape
<1>2. ASSUME NEW b \in Audits PROVE AtClose(b)'
  BY DEF FinalInv, AtClose, ReadsFinal
<1> QED BY <1>1, <1>2 DEF FinalInv

LEMMA BeforeSubmitStep == FinalInv /\ BeforeSubmit => FinalInv'
<1> SUFFICES ASSUME FinalInv, BeforeSubmit PROVE FinalInv'
  OBVIOUS
<1>u. UNCHANGED <<file, reportPath, gen, overlap>>
  BY DEF BeforeSubmit, reportVars
<1>1. ASSUME NEW B \in SUBSET Audits, NEW who \in [B -> Operators], Create(B, who)
      PROVE  FinalInv'
  BY <1>1, <1>u, OpenAuditStep DEF Create, FinalInv, Shape
<1>2. ASSUME NEW a \in Audits, NEW o \in Operators, Reassign(a, o) PROVE FinalInv'
  BY <1>2, <1>u, OpenAuditStep DEF Reassign, FinalInv, Shape
<1>3. ASSUME NEW a \in Audits, Delete(a) \/ Take(a) PROVE FinalInv'
  BY <1>3, <1>u, OpenAuditStep DEF Delete, Take, FinalInv, Shape
<1>4. ASSUME NEW a \in Audits, NEW D, Settle(a, D) PROVE FinalInv'
  BY <1>4, <1>u, OpenAuditStep DEF Settle, FinalInv, Shape
<1> QED BY <1>1, <1>2, <1>3, <1>4 DEF BeforeSubmit

LEMMA SubmitStep ==
  ASSUME FinalInv, NEW a \in Audits, NEW S, NEW D, SubmitReport(a, S, D)
  PROVE  FinalInv'
<1>1. UNCHANGED <<file, reportPath, gen, overlap>>
  BY DEF SubmitReport
<1>2. phase[a] = "IN_PROGRESS" /\ phase'[a] # "CLOSED"
  BY DEF SubmitReport, Count, FinalInv, Shape
<1>3. /\ DOMAIN phase' = Audits /\ DOMAIN open' = Audits
      /\ \A b \in Audits \ {a} : phase'[b] = phase[b] /\ open'[b] = open[b]
  BY DEF SubmitReport, Count, FinalInv, Shape
<1> QED BY <1>1, <1>2, <1>3, OpenAuditStep

LEMMA CloseStep ==
  ASSUME FinalInv, NEW a \in Audits, CloseReport(a)
  PROVE  FinalInv'
<1>1. Shape'
  BY DEF CloseReport, Close, FinalInv, Shape
<1>2. UNCHANGED <<open, file, gen>> /\ open[a] = {}
  BY DEF CloseReport, Close
<1>3. ASSUME NEW b \in Audits, b # a PROVE AtClose(b)'
  <2>1. phase'[b] = phase[b] /\ overlap'[b] = overlap[b] /\ reportPath'[b] = reportPath[b]
    BY <1>3 DEF CloseReport, Close, FinalInv, Shape
  <2> QED BY <1>2, <2>1 DEF FinalInv, AtClose, ReadsFinal
<1>4. AtClose(a)'
  <2>1. overlap'[a] = (gen[a].step \in {"lines", "put", "save"}) /\ reportPath'[a] = FALSE
    BY DEF CloseReport, FinalInv, Shape
  <2> QED BY <1>2, <2>1 DEF AtClose, ReadsFinal
<1> QED BY <1>1, <1>3, <1>4 DEF FinalInv

-----------------------------------------------------------------------------
(***************************************************************************)
(* Steps of the report                                                     *)
(***************************************************************************)

\* A step of one audit's report: it has to keep what the report says of that audit.
LEMMA ReportStep ==
  ASSUME FinalInv, NEW a \in Audits, UNCHANGED <<phase, open, overlap>>, Shape',
         \A b \in Audits \ {a} : UNCHANGED <<gen[b], file[b], reportPath[b]>>,
         phase[a] = "CLOSED" /\ ~overlap[a] => ReadsFinal(a)'
  PROVE  FinalInv'
<1>1. ASSUME NEW b \in Audits PROVE AtClose(b)'
  <2>1. CASE b = a
    BY <2>1 DEF FinalInv, AtClose
  <2>2. CASE b # a
    BY <2>2 DEF FinalInv, AtClose, ReadsFinal
  <2> QED BY <2>1, <2>2
<1> QED BY <1>1 DEF FinalInv

\* A step that only moves the generation on, without having read anything more.
LEMMA GenStep ==
  ASSUME FinalInv, NEW a \in Audits, UNCHANGED <<phase, open, overlap, file, reportPath>>, Shape',
         \A b \in Audits \ {a} : gen'[b] = gen[b], gen'[a].step \in {"idle", "head", "fail"}
  PROVE  FinalInv'
<1>1. phase[a] = "CLOSED" /\ ~overlap[a] => ReadsFinal(a)'
  BY DEF FinalInv, AtClose, ReadsFinal
<1> QED BY <1>1, ReportStep

LEMMA SameStep ==
  ASSUME FinalInv, UNCHANGED <<phase, open, overlap, file, reportPath>>, DOMAIN gen' = DOMAIN gen,
         \A b \in Audits : gen'[b] = gen[b]
  PROVE  FinalInv'
<1>1. Shape'
  BY DEF FinalInv, Shape
<1>2. ASSUME NEW b \in Audits PROVE AtClose(b)'
  BY DEF FinalInv, AtClose, ReadsFinal
<1> QED BY <1>1, <1>2 DEF FinalInv

LEMMA BeginStep ==
  ASSUME FinalInv, NEW a, UNCHANGED <<phase, open, overlap, file, reportPath>>, Begin(a)
  PROVE  FinalInv'
<1>1. CASE gen' = gen
  BY <1>1, SameStep
<1>2. CASE gen' = [gen EXCEPT ![a].step = "head"] /\ a \in Audits
  BY <1>2, GenStep DEF FinalInv, Shape
<1>3. CASE gen' = [gen EXCEPT ![a].step = "head"] /\ a \notin Audits
  BY <1>3, SameStep DEF FinalInv, Shape
<1> QED BY <1>1, <1>2, <1>3 DEF Begin

LEMMA GenerateStep ==
  ASSUME FinalInv, NEW a \in Audits,
         \/ Generate(a) \/ DatabaseFails(a) \/ LoseFailure(a) \/ DownloadReport(a)
  PROVE  FinalInv'
<1>a. phase[a] = "CLOSED" /\ ~overlap[a] => open[a] = {} /\ ReadsFinal(a)
  BY DEF FinalInv, AtClose
<1>1. CASE GenerateInBackground(a) \/ DownloadReport(a)
  BY <1>1, BeginStep DEF GenerateInBackground, DownloadReport, auditVars
<1>2. CASE ReadHead(a)
  <2>1. UNCHANGED <<phase, open, overlap, file, reportPath>>
    BY <1>2 DEF ReadHead, auditVars
  <2>2. /\ Shape' /\ \A b \in Audits \ {a} : gen'[b] = gen[b]
        /\ gen'[a].step = "lines" /\ gen'[a].phase = phase[a]
    BY <1>2, <2>1 DEF ReadHead, FinalInv, Shape
  <2>3. phase[a] = "CLOSED" /\ ~overlap[a] => ReadsFinal(a)'
    BY <1>a, <2>1, <2>2 DEF ReadsFinal
  <2> QED BY <2>1, <2>2, <2>3, ReportStep
<1>3. CASE ReadLines(a)
  <2>1. gen[a].step = "lines" /\ UNCHANGED <<phase, open, overlap, file, reportPath>>
    BY <1>3 DEF ReadLines, auditVars
  <2>2. /\ Shape' /\ \A b \in Audits \ {a} : gen'[b] = gen[b]
        /\ gen'[a].step = "put" /\ gen'[a].phase = gen[a].phase /\ gen'[a].open = open[a]
    BY <1>3, <2>1 DEF ReadLines, FinalInv, Shape
  <2>3. phase[a] = "CLOSED" /\ ~overlap[a] => ReadsFinal(a)'
    BY <1>a, <2>1, <2>2 DEF ReadsFinal
  <2> QED BY <2>1, <2>2, <2>3, ReportStep
<1>4. CASE PutFile(a)
  <2>1. gen[a].step = "put" /\ UNCHANGED <<phase, open, overlap, reportPath>>
    BY <1>4 DEF PutFile, auditVars
  <2>2. /\ Shape' /\ \A b \in Audits \ {a} : gen'[b] = gen[b] /\ file'[b] = file[b]
        /\ gen'[a].step = "save" /\ gen'[a].phase = gen[a].phase /\ gen'[a].open = gen[a].open
        /\ file'[a] = [phase |-> gen[a].phase, open |-> gen[a].open]
    BY <1>4, <2>1 DEF PutFile, FinalInv, Shape
  <2>3. phase[a] = "CLOSED" /\ ~overlap[a] => ReadsFinal(a)'
    BY <1>a, <2>1, <2>2 DEF ReadsFinal, Final
  <2> QED BY <2>1, <2>2, <2>3, ReportStep
<1>5. CASE PutFails(a)
  <2>1. UNCHANGED <<phase, open, overlap, reportPath>>
    BY <1>5 DEF PutFails, auditVars
  <2>2. /\ Shape' /\ \A b \in Audits \ {a} : gen'[b] = gen[b] /\ file'[b] = file[b]
        /\ gen'[a].step = "fail" /\ file'[a] \in {file[a], None}
    <3>1. PICK f \in {file[a], None} : file' = [file EXCEPT ![a] = f]
      BY <1>5 DEF PutFails
    <3> QED BY <1>5, <2>1, <3>1 DEF PutFails, FinalInv, Shape
  <2>3. phase[a] = "CLOSED" /\ ~overlap[a] => ReadsFinal(a)'
    BY <1>a, <2>1, <2>2 DEF ReadsFinal
  <2> QED BY <2>1, <2>2, <2>3, ReportStep
<1>6. CASE SavePath(a)
  <2>1. gen[a].step = "save" /\ UNCHANGED <<phase, open, overlap, file>>
    BY <1>6 DEF SavePath, auditVars
  <2>2. /\ Shape' /\ \A b \in Audits \ {a} : gen'[b] = gen[b] /\ reportPath'[b] = reportPath[b]
        /\ gen'[a].step = "idle"
    BY <1>6, <2>1 DEF SavePath, Finish, NoGen, FinalInv, Shape
  <2>3. phase[a] = "CLOSED" /\ ~overlap[a] => ReadsFinal(a)'
    BY <1>a, <2>1, <2>2 DEF ReadsFinal
  <2> QED BY <2>1, <2>2, <2>3, ReportStep
<1>7. CASE CountFailure(a) \/ LoseFailure(a)
  <2>1. UNCHANGED <<phase, open, overlap, file, reportPath>> /\ Finish(a)
    BY <1>7 DEF CountFailure, LoseFailure, auditVars
  <2>2. Shape' /\ (\A b \in Audits \ {a} : gen'[b] = gen[b]) /\ gen'[a].step = "idle"
    BY <2>1 DEF Finish, NoGen, FinalInv, Shape
  <2> QED BY <2>1, <2>2, GenStep
<1>8. CASE DatabaseFails(a)
  <2>1. UNCHANGED <<phase, open, overlap, file, reportPath>>
    BY <1>8 DEF DatabaseFails, auditVars
  <2>2. Shape' /\ (\A b \in Audits \ {a} : gen'[b] = gen[b]) /\ gen'[a].step = "fail"
    BY <1>8, <2>1 DEF DatabaseFails, FinalInv, Shape
  <2> QED BY <2>1, <2>2, GenStep
<1> QED BY <1>1, <1>2, <1>3, <1>4, <1>5, <1>6, <1>7, <1>8 DEF Generate

LEMMA RetryStep == FinalInv /\ Retry => FinalInv'
<1> SUFFICES ASSUME FinalInv, Retry PROVE FinalInv'
  OBVIOUS
<1>1. CASE RetryTick \/ RetryDone
  BY <1>1, SameStep DEF RetryTick, RetryDone, auditVars
<1>2. CASE RetryNext
  BY <1>2, BeginStep DEF RetryNext, auditVars
<1> QED BY <1>1, <1>2 DEF Retry

LEMMA RestartStep == FinalInv /\ RestartServer => FinalInv'
<1> SUFFICES ASSUME FinalInv, RestartServer PROVE FinalInv'
  OBVIOUS
<1>1. UNCHANGED <<phase, open, overlap, file, reportPath>> /\ gen' = [a \in Audits |-> NoGen]
  BY DEF RestartServer, auditVars
<1>2. Shape'
  BY <1>1 DEF FinalInv, Shape, NoGen
<1>3. ASSUME NEW a \in Audits PROVE AtClose(a)'
  <2>1. gen'[a].step = "idle"
    BY <1>1 DEF NoGen
  <2> QED BY <1>1, <2>1 DEF FinalInv, AtClose, ReadsFinal
<1> QED BY <1>2, <1>3 DEF FinalInv

LEMMA FinalStep == FinalInv /\ [ReportNext]_allVars => FinalInv'
<1>1. FinalInv /\ UNCHANGED allVars => FinalInv'
  BY SameStep DEF allVars, auditVars, reportVars
<1> QED BY <1>1, BeforeSubmitStep, SubmitStep, CloseStep, GenerateStep, RetryStep, RestartStep
    DEF ReportNext

\* Whatever fails and however generations, retries, downloads and restarts interleave,
\* the saved report of a closed audit is the final one, unless a generation had read the
\* audit before the close.
THEOREM ClosedReportIsFinal == ReportSpec => []FinalReportUnlessOverlap
<1>1. ReportInit => FinalInv
  BY DEF ReportInit, Init, NoGen, FinalInv, Shape, AtClose
<1>2. FinalInv => FinalReportUnlessOverlap
  BY DEF FinalInv, AtClose, ReadsFinal, Final, FinalReportUnlessOverlap
<1> QED BY <1>1, <1>2, FinalStep, PTL DEF ReportSpec

-----------------------------------------------------------------------------
(***************************************************************************)
(* Types: a report is only ever asked for, retried and read of an audit    *)
(* that was submitted, and asked for by its submission and its close.      *)
(***************************************************************************)

AuditTyped(a) ==
  /\ open[a] \subseteq Lines
  /\ calls[a] # 0 => phase[a] \in Submitted
  /\ phase[a] = "RECONCILIATION_PENDING" => calls[a] <= 1
  /\ gen[a].step # "idle" => phase[a] \in Submitted
  /\ gen[a].step \in {"lines", "put", "save"} => gen[a].phase \in Submitted

QueueOf(queue) == \A i \in DOMAIN queue : phase[queue[i]] \in Submitted

TypedInv ==
  /\ FinalInv /\ ReportTypeOK
  /\ \A a \in Audits : AuditTyped(a)
  /\ QueueOf(submitted) /\ QueueOf(retryTodo)

\* The turns of the pending reports number them from 1.
LEMMA Turns ==
  ASSUME NEW n \in Nat, DOMAIN submitted = 1..n
  PROVE  {Turn(i) : i \in Pending} = 1..Cardinality(Pending) /\ Cardinality(Pending) \in Nat
<1> DEFINE upto(i) == {j \in Pending : j <= i}
           f == [i \in Pending |-> Turn(i)]
           c == Cardinality(Pending)
<1>0. Pending \in SUBSET (1..n)
  BY DEF Pending
<1>1. IsFiniteSet(Pending) /\ c \in Nat
  <2>1. IsFiniteSet(1..n)
    BY FS_Interval
  <2>2. IsFiniteSet(Pending)
    BY <1>0, <2>1, FS_Subset
  <2> QED BY <2>2, FS_CardinalityType
<1>2. ASSUME NEW i \in Pending
      PROVE  IsFiniteSet(upto(i)) /\ Cardinality(upto(i)) \in 1..c /\ Turn(i) = Cardinality(upto(i))
  <2>1. IsFiniteSet(upto(i)) /\ Cardinality(upto(i)) <= c
    BY <1>1, FS_Subset
  <2>2. Cardinality(upto(i)) \in Nat
    BY <2>1, FS_CardinalityType
  <2>3. Cardinality(upto(i)) # 0
    <3>1. i \in upto(i)
      BY <1>0
    <3> HIDE DEF upto
    <3> QED BY <2>1, <3>1, FS_EmptySet
  <2> QED BY <1>1, <2>1, <2>2, <2>3 DEF Turn
<1>3. ASSUME NEW i \in Pending, NEW j \in Pending, i < j PROVE f[i] # f[j]
  <2>1. i \in Nat /\ j \in Nat /\ \A x \in Pending : x \in Nat /\ (x <= i => x <= j)
    BY <1>0, <1>3
  <2>2. j \in upto(j) /\ j \notin upto(i) /\ \A x \in upto(i) : x \in upto(j)
    BY <1>3, <2>1
  <2>3. upto(i) \in SUBSET upto(j)
    BY <2>2
  <2> HIDE DEF upto
  <2>4. Cardinality(upto(i)) # Cardinality(upto(j))
    BY <1>2, <2>2, <2>3, FS_Subset
  <2> QED BY <1>2, <2>4
<1>4. f \in [Pending -> 1..c]
  BY <1>2
<1>5. \A i, j \in Pending : i < j \/ j < i \/ i = j
  BY <1>0
<1>6. f \in Injection(Pending, 1..c)
  <2> HIDE DEF f
  <2> QED BY <1>3, <1>4, <1>5 DEF Injection, IsInjective
<1>7. IsFiniteSet(1..c) /\ Cardinality(1..c) = c
  BY <1>1, FS_Interval
<1>8. f \in Surjection(Pending, 1..c)
  <2> HIDE DEF f
  <2> QED BY <1>6, <1>7, FS_Injection
<1>9. \A r \in 1..c : \E i \in Pending : f[i] = r
  <2> HIDE DEF f
  <2> QED BY <1>8 DEF Surjection
<1>10. \A i \in Pending : f[i] = Turn(i)
  OBVIOUS
<1>11. \A i \in Pending : Turn(i) \in 1..c
  BY <1>2
<1>12. \A r \in 1..c : \E i \in Pending : Turn(i) = r
  BY <1>9, <1>10
<1> HIDE DEF c
<1>13. {Turn(i) : i \in Pending} = 1..c
  BY <1>11, <1>12
<1> QED BY <1>1, <1>13 DEF c

\* What the retry takes up are reports that are pending.
LEMMA TickTakesPending ==
  ASSUME TypedInv, RetryTick
  PROVE  retryTodo' \in Seq(Audits) /\ \A i \in DOMAIN retryTodo' : phase[retryTodo'[i]] \in Submitted
<1> DEFINE c == Cardinality(Pending)
           m == IF c < BatchSize THEN c ELSE BatchSize
           nth(n) == CHOOSE i \in Pending : Turn(i) = n
<1>1. DOMAIN submitted = 1..Len(submitted) /\ Len(submitted) \in Nat
      /\ \A i \in DOMAIN submitted : submitted[i] \in Audits
  BY DEF TypedInv, ReportTypeOK
<1>2. {Turn(i) : i \in Pending} = 1..c /\ c \in Nat
  BY <1>1, Turns
<1>3. m \in Nat /\ (1..c) \cap (1..BatchSize) = 1..m
  BY <1>2, BomReportAssumption
<1>4. retryTodo' = [n \in 1..m |-> submitted[nth(n)]]
  BY <1>2, <1>3 DEF RetryTick
<1>5. ASSUME NEW n \in 1..m PROVE nth(n) \in Pending
  <2>1. n \in {Turn(i) : i \in Pending}
    BY <1>2, <1>3
  <2>2. \E i \in Pending : Turn(i) = n
    BY <2>1
  <2> QED BY <2>2
<1> HIDE DEF m, nth
<1>6. \A n \in 1..m : submitted[nth(n)] \in Audits /\ phase[submitted[nth(n)]] \in Submitted
  BY <1>1, <1>5 DEF Pending, TypedInv, QueueOf
<1> QED BY <1>3, <1>4, <1>6

-----------------------------------------------------------------------------
(***************************************************************************)
(* The steps keep the types                                                *)
(***************************************************************************)

\* Steps of the audits that leave the report alone.
LEMMA AuditOnly ==
  ASSUME TypedInv, FinalInv', UNCHANGED reportVars,
         \A b \in Audits : open'[b] \subseteq Lines,
         \A b \in Audits : phase[b] \in Submitted => phase'[b] = phase[b],
         \A b \in Audits : phase'[b] \in Submitted => phase'[b] = phase[b]
  PROVE  TypedInv'
<1>1. ReportTypeOK'
  BY DEF TypedInv, ReportTypeOK, reportVars, retryVars
<1>2. ASSUME NEW b \in Audits PROVE AuditTyped(b)'
  BY DEF TypedInv, AuditTyped, reportVars, Submitted
<1>3. QueueOf(submitted)' /\ QueueOf(retryTodo)'
  <2>1. \A i \in DOMAIN submitted : submitted[i] \in Audits
    BY DEF TypedInv, ReportTypeOK
  <2>2. \A i \in DOMAIN retryTodo : retryTodo[i] \in Audits
    BY DEF TypedInv, ReportTypeOK
  <2> QED BY <2>1, <2>2 DEF TypedInv, QueueOf, reportVars, retryVars
<1> QED BY <1>1, <1>2, <1>3 DEF TypedInv

LEMMA BeforeSubmitTyped ==
  ASSUME TypedInv, FinalInv', BeforeSubmit
  PROVE  TypedInv'
<1>u. UNCHANGED reportVars /\ \A b \in Audits : open[b] \subseteq Lines
  BY DEF BeforeSubmit, TypedInv, AuditTyped
<1>d. DOMAIN phase = Audits /\ DOMAIN open = Audits
  BY DEF TypedInv, FinalInv, Shape
<1>1. ASSUME NEW B \in SUBSET Audits, NEW who \in [B -> Operators], Create(B, who)
      PROVE  TypedInv'
  <2>1. /\ open' = open
        /\ \A b \in Audits : phase'[b] = IF b \in B THEN "ASSIGNED" ELSE phase[b]
        /\ \A b \in B : phase[b] = "NONE"
    BY <1>1 DEF Create
  <2>2. \A b \in Audits : /\ phase[b] \in Submitted => phase'[b] = phase[b]
                          /\ phase'[b] \in Submitted => phase'[b] = phase[b]
    BY <2>1 DEF Submitted
  <2> QED BY <1>u, <2>1, <2>2, AuditOnly
<1>2. ASSUME NEW a \in Audits, NEW o \in Operators, Reassign(a, o) PROVE TypedInv'
  BY <1>2, <1>u, AuditOnly DEF Reassign
<1>3. ASSUME NEW a \in Audits, Delete(a) \/ Take(a) PROVE TypedInv'
  <2>1. open' = open /\ phase[a] = "ASSIGNED" /\ phase'[a] \in {"DELETED", "IN_PROGRESS"}
        /\ \A b \in Audits \ {a} : phase'[b] = phase[b]
    BY <1>3, <1>d DEF Delete, Take
  <2>2. \A b \in Audits : /\ phase[b] \in Submitted => phase'[b] = phase[b]
                          /\ phase'[b] \in Submitted => phase'[b] = phase[b]
    BY <2>1 DEF Submitted
  <2> QED BY <1>u, <2>1, <2>2, AuditOnly
<1>4. ASSUME NEW a \in Audits, NEW D \in SUBSET Lines, Settle(a, D) PROVE TypedInv'
  <2>1. phase' = phase /\ \A b \in Audits : open'[b] \subseteq open[b]
    BY <1>4, <1>d DEF Settle
  <2> QED BY <1>u, <2>1, AuditOnly
<1> QED BY <1>1, <1>2, <1>3, <1>4 DEF BeforeSubmit

LEMMA SubmitTyped ==
  ASSUME TypedInv, FinalInv', NEW a \in Audits, NEW S, NEW D \in SUBSET Lines, SubmitReport(a, S, D)
  PROVE  TypedInv'
<1>d. DOMAIN phase = Audits /\ DOMAIN open = Audits /\ ReportTypeOK
  BY DEF TypedInv, FinalInv, Shape
<1>1. /\ phase[a] = "IN_PROGRESS" /\ phase'[a] \in {"IN_PROGRESS", "RECONCILIATION_PENDING"}
      /\ \A b \in Audits \ {a} : phase'[b] = phase[b] /\ open'[b] = open[b]
      /\ open'[a] = open[a] \cup D
  BY <1>d DEF SubmitReport, Count
<1>2. calls[a] = 0 /\ AuditTyped(a)
  BY <1>1, <1>d DEF TypedInv, AuditTyped, Submitted, ReportTypeOK
<1>3. UNCHANGED <<reportPath, reportAttempts, file, gen, retryRunning, retryTodo, retryOn, faults, overlap>>
  BY DEF SubmitReport, retryVars
<1>4. \/ submitted' = submitted /\ calls' = calls /\ phase'[a] # "RECONCILIATION_PENDING"
      \/ /\ submitted' = Append(submitted, a) /\ phase'[a] = "RECONCILIATION_PENDING"
         /\ calls' = [calls EXCEPT ![a] = @ + 1]
  BY DEF SubmitReport
<1>5. /\ calls' \in [Audits -> 0..2] /\ \A b \in Audits \ {a} : calls'[b] = calls[b]
      /\ calls'[a] = 0 \/ (calls'[a] = 1 /\ phase'[a] = "RECONCILIATION_PENDING")
  <2>1. calls \in [Audits -> 0..2]
    BY <1>d DEF ReportTypeOK
  <2>2. CASE calls' = calls
    BY <1>2, <2>1, <2>2
  <2>3. CASE calls' = [calls EXCEPT ![a] = @ + 1] /\ phase'[a] = "RECONCILIATION_PENDING"
    BY <1>2, <2>1, <2>3
  <2> QED BY <1>4, <2>2, <2>3
<1>6. submitted' \in Seq(Audits) /\ \A i \in DOMAIN submitted' : phase'[submitted'[i]] \in Submitted
  <2>1. submitted \in Seq(Audits) /\ \A i \in DOMAIN submitted : submitted[i] \in Audits /\ phase[submitted[i]] \in Submitted
    BY DEF TypedInv, ReportTypeOK, QueueOf
  <2>2. \A i \in DOMAIN submitted : phase'[submitted[i]] \in Submitted
    BY <1>1, <2>1 DEF Submitted
  <2>3. CASE submitted' = submitted
    BY <2>1, <2>2, <2>3
  <2>4. CASE submitted' = Append(submitted, a) /\ phase'[a] = "RECONCILIATION_PENDING"
    <3>1. submitted' \in Seq(Audits) /\ DOMAIN submitted' = 1..(Len(submitted) + 1)
      BY <2>1, <2>4
    <3>2. \A i \in 1..(Len(submitted) + 1) :
            submitted'[i] = IF i = Len(submitted) + 1 THEN a ELSE submitted[i]
      BY <2>1, <2>4
    <3>3. \A i \in 1..(Len(submitted) + 1) : i = Len(submitted) + 1 \/ i \in DOMAIN submitted
      BY <2>1
    <3> QED BY <2>2, <2>4, <3>1, <3>2, <3>3 DEF Submitted
  <2> QED BY <1>4, <2>3, <2>4
<1>7. ReportTypeOK'
  BY <1>3, <1>5, <1>6, <1>d DEF ReportTypeOK
<1>8. ASSUME NEW b \in Audits PROVE AuditTyped(b)'
  <2>1. CASE b = a
    BY <1>1, <1>2, <1>3, <1>5, <2>1 DEF AuditTyped, Submitted
  <2>2. CASE b # a
    BY <1>1, <1>3, <1>5, <2>2 DEF TypedInv, AuditTyped
  <2> QED BY <2>1, <2>2
<1>9. QueueOf(retryTodo)'
  <2>1. \A i \in DOMAIN retryTodo : retryTodo[i] \in Audits /\ phase[retryTodo[i]] \in Submitted
    BY DEF TypedInv, ReportTypeOK, QueueOf
  <2> QED BY <1>1, <1>3, <2>1 DEF QueueOf, Submitted
<1> QED BY <1>6, <1>7, <1>8, <1>9 DEF TypedInv, QueueOf

LEMMA CloseTyped ==
  ASSUME TypedInv, FinalInv', NEW a \in Audits, CloseReport(a)
  PROVE  TypedInv'
<1>d. DOMAIN phase = Audits /\ ReportTypeOK
  BY DEF TypedInv, FinalInv, Shape
<1>1. /\ phase[a] = "RECONCILIATION_PENDING" /\ phase'[a] = "CLOSED" /\ open' = open
      /\ \A b \in Audits \ {a} : phase'[b] = phase[b]
      /\ UNCHANGED <<submitted, file, gen, retryRunning, retryTodo, retryOn, faults>>
  BY <1>d DEF CloseReport, Close, retryVars
<1>2. calls[a] \in 0..1
  BY <1>1, <1>d DEF TypedInv, AuditTyped, ReportTypeOK
<1>3. calls' \in [Audits -> 0..2] /\ \A b \in Audits \ {a} : calls'[b] = calls[b]
  BY <1>2, <1>d DEF CloseReport, ReportTypeOK
<1>4. reportPath' \in [Audits -> BOOLEAN] /\ overlap' \in [Audits -> BOOLEAN]
  BY <1>d DEF CloseReport, ReportTypeOK
<1>5. reportAttempts' \in [Audits -> 0..MaxAttempts]
  BY <1>d, BomReportAssumption DEF CloseReport, ReportTypeOK
<1>6. ReportTypeOK'
  BY <1>1, <1>3, <1>4, <1>5, <1>d DEF ReportTypeOK
<1>7. ASSUME NEW b \in Audits PROVE AuditTyped(b)'
  <2>1. CASE b = a
    BY <1>1, <2>1 DEF TypedInv, AuditTyped, Submitted
  <2>2. CASE b # a
    BY <1>1, <1>3, <2>2 DEF TypedInv, AuditTyped
  <2> QED BY <2>1, <2>2
<1>8. \A b \in Audits : phase[b] \in Submitted => phase'[b] \in Submitted
  BY <1>1 DEF Submitted
<1>9. QueueOf(submitted)' /\ QueueOf(retryTodo)'
  <2>1. \A i \in DOMAIN submitted : submitted[i] \in Audits /\ phase[submitted[i]] \in Submitted
    BY DEF TypedInv, ReportTypeOK, QueueOf
  <2>2. \A i \in DOMAIN retryTodo : retryTodo[i] \in Audits /\ phase[retryTodo[i]] \in Submitted
    BY DEF TypedInv, ReportTypeOK, QueueOf
  <2> QED BY <1>1, <1>8, <2>1, <2>2 DEF QueueOf
<1> QED BY <1>6, <1>7, <1>9 DEF TypedInv

\* A step of one audit's generation.
LEMMA ReportTyped ==
  ASSUME TypedInv, FinalInv', NEW a \in Audits, UNCHANGED <<phase, open, submitted>>,
         ReportTypeOK', QueueOf(retryTodo)',
         \A b \in Audits : calls'[b] = calls[b] \/ calls'[b] = calls[b] - 1,
         \A b \in Audits \ {a} : gen'[b] = gen[b],
         gen'[a].step # "idle" => phase[a] \in Submitted,
         gen'[a].step \in {"lines", "put", "save"} => gen'[a].phase \in Submitted
  PROVE  TypedInv'
<1>1. \A b \in Audits : calls[b] \in 0..2 /\ calls'[b] \in 0..2
  BY DEF TypedInv, ReportTypeOK
<1>2. ASSUME NEW b \in Audits PROVE AuditTyped(b)'
  <2>1. AuditTyped(b)
    BY DEF TypedInv
  <2>2. calls'[b] # 0 => calls[b] # 0
    BY <1>1
  <2>3. phase[b] = "RECONCILIATION_PENDING" => calls'[b] <= 1
    BY <1>1, <2>1 DEF AuditTyped
  <2>4. CASE b = a
    BY <2>1, <2>2, <2>3, <2>4 DEF AuditTyped
  <2>5. CASE b # a
    BY <2>1, <2>2, <2>3, <2>5 DEF AuditTyped
  <2> QED BY <2>4, <2>5
<1> QED BY <1>2 DEF TypedInv, QueueOf

Generation == [step : {"idle", "head", "lines", "put", "save", "fail"},
               phase : Submitted \cup {"NONE"}, open : SUBSET Lines]

LEMMA GenIs ==
  ASSUME TypedInv, NEW a \in Audits
  PROVE  /\ gen \in [Audits -> Generation] /\ gen[a] \in Generation /\ AuditTyped(a)
         /\ DOMAIN gen = Audits /\ QueueOf(retryTodo)
  BY DEF TypedInv, ReportTypeOK, Generation

\* A step that moves only the generation on, and what it has put or counted.
LEMMA GenMoves ==
  ASSUME TypedInv, FinalInv', NEW a \in Audits, NEW g \in Generation, gen' = [gen EXCEPT ![a] = g],
         g.step # "idle" => phase[a] \in Submitted,
         g.step \in {"lines", "put", "save"} => g.phase \in Submitted,
         UNCHANGED <<phase, open, submitted, calls, retryRunning, retryTodo, overlap>>,
         retryOn' \in {retryOn, None},
         reportPath' \in [Audits -> BOOLEAN], reportAttempts' \in [Audits -> 0..MaxAttempts],
         \A b \in Audits : file'[b] = None \/ file'[b] \in Report, faults' \in 0..MaxFaults
  PROVE  TypedInv'
<1>1. gen' \in [Audits -> Generation] /\ (\A b \in Audits \ {a} : gen'[b] = gen[b]) /\ gen'[a] = g
  BY GenIs
<1>2. ReportTypeOK'
  BY <1>1 DEF TypedInv, ReportTypeOK, Generation
<1>3. QueueOf(retryTodo)'
  BY DEF TypedInv, QueueOf
<1> QED BY <1>1, <1>2, <1>3, ReportTyped

\* generateAndUpload of an audit that was submitted.
LEMMA BeginTyped ==
  ASSUME TypedInv, NEW a \in Audits, Begin(a), phase[a] \in Submitted
  PROVE  /\ gen' \in [Audits -> Generation] /\ \A b \in Audits \ {a} : gen'[b] = gen[b]
         /\ gen'[a].step \in {"lines", "put", "save"} => gen'[a].phase \in Submitted
<1>1. CASE gen' = gen
  BY <1>1, GenIs DEF AuditTyped
<1>2. CASE gen' = [gen EXCEPT ![a].step = "head"]
  <2>1. gen[a] \in Generation /\ gen \in [Audits -> Generation]
    BY GenIs
  <2>2. gen' = [gen EXCEPT ![a] = [gen[a] EXCEPT !.step = "head"]]
    BY <1>2
  <2>3. [gen[a] EXCEPT !.step = "head"] \in Generation /\ [gen[a] EXCEPT !.step = "head"].step = "head"
    BY <2>1 DEF Generation
  <2> QED BY <2>1, <2>2, <2>3
<1> QED BY <1>1, <1>2 DEF Begin

LEMMA GenerateTyped ==
  ASSUME TypedInv, FinalInv', NEW a \in Audits,
         \/ Generate(a) \/ DatabaseFails(a) \/ LoseFailure(a) \/ DownloadReport(a)
  PROVE  TypedInv'
<1>a. /\ ReportTypeOK /\ gen \in [Audits -> Generation] /\ gen[a] \in Generation /\ AuditTyped(a)
      /\ DOMAIN gen = Audits
  BY GenIs DEF TypedInv
<1>t. /\ reportPath \in [Audits -> BOOLEAN] /\ reportAttempts \in [Audits -> 0..MaxAttempts]
      /\ \A b \in Audits : file[b] = None \/ file[b] \in Report
      /\ faults \in 0..MaxFaults /\ DOMAIN file = Audits
  BY <1>a DEF ReportTypeOK, TypedInv, FinalInv, Shape
<1>1. CASE GenerateInBackground(a) \/ DownloadReport(a)
  <2>1. phase[a] \in Submitted /\ Begin(a)
    BY <1>1, <1>a DEF GenerateInBackground, DownloadReport, AuditTyped, Submitted, ReportTypeOK
  <2>2. /\ gen' \in [Audits -> Generation] /\ \A b \in Audits \ {a} : gen'[b] = gen[b]
        /\ gen'[a].step \in {"lines", "put", "save"} => gen'[a].phase \in Submitted
    BY <2>1, BeginTyped
  <2>3. /\ UNCHANGED <<phase, open, submitted, reportPath, reportAttempts, file, retryRunning,
                      retryTodo, retryOn, faults, overlap>>
    BY <1>1 DEF GenerateInBackground, DownloadReport, auditVars, retryVars
  <2>4. /\ calls' \in [Audits -> 0..2]
        /\ \A b \in Audits : calls'[b] = calls[b] \/ calls'[b] = calls[b] - 1
    <3>1. calls \in [Audits -> 0..2]
      BY <1>a DEF ReportTypeOK
    <3>2. CASE GenerateInBackground(a)
      <4>1. calls[a] \in 1..2 /\ calls' = [calls EXCEPT ![a] = calls[a] - 1]
        BY <3>1, <3>2 DEF GenerateInBackground
      <4> QED BY <3>1, <4>1
    <3>3. CASE DownloadReport(a)
      BY <3>1, <3>3 DEF DownloadReport
    <3> QED BY <1>1, <3>2, <3>3
  <2>5. ReportTypeOK'
    BY <1>a, <2>2, <2>3, <2>4 DEF ReportTypeOK, Generation
  <2>6. QueueOf(retryTodo)'
    BY <2>3, GenIs DEF QueueOf
  <2> QED BY <2>1, <2>2, <2>3, <2>4, <2>5, <2>6, ReportTyped
<1>2. CASE ReadHead(a)
  <2> DEFINE g == [gen[a] EXCEPT !.step = "lines", !.phase = phase[a]]
  <2>1. phase[a] \in Submitted
    BY <1>2, <1>a DEF ReadHead, AuditTyped
  <2>2. g \in Generation /\ g.phase \in Submitted
    BY <1>a, <2>1 DEF Generation
  <2>3. gen' = [gen EXCEPT ![a] = g]
    BY <1>2 DEF ReadHead
  <2> HIDE DEF g
  <2> QED BY <1>2, <1>t, <2>1, <2>2, <2>3, GenMoves DEF ReadHead, auditVars, retryVars
<1>3. CASE ReadLines(a)
  <2> DEFINE g == [gen[a] EXCEPT !.step = "put", !.open = open[a]]
  <2>1. phase[a] \in Submitted /\ gen[a].phase \in Submitted /\ open[a] \in SUBSET Lines
    BY <1>3, <1>a DEF ReadLines, AuditTyped
  <2>2. g \in Generation /\ g.phase \in Submitted
    BY <1>a, <2>1 DEF Generation
  <2>3. gen' = [gen EXCEPT ![a] = g]
    BY <1>3 DEF ReadLines
  <2> HIDE DEF g
  <2> QED BY <1>3, <1>t, <2>1, <2>2, <2>3, GenMoves DEF ReadLines, auditVars, retryVars
<1>4. CASE PutFile(a)
  <2> DEFINE g == [gen[a] EXCEPT !.step = "save"]
  <2>1. phase[a] \in Submitted /\ gen[a].phase \in Submitted /\ gen[a].open \in SUBSET Lines
    BY <1>4, <1>a DEF PutFile, AuditTyped, Generation
  <2>2. g \in Generation /\ g.phase \in Submitted
    BY <1>a, <2>1 DEF Generation
  <2>3. gen' = [gen EXCEPT ![a] = g]
    BY <1>4 DEF PutFile
  <2>4. \A b \in Audits : file'[b] = None \/ file'[b] \in Report
    <3>1. [phase |-> gen[a].phase, open |-> gen[a].open] \in Report
      BY <2>1 DEF Report
    <3> QED BY <1>4, <1>t, <3>1 DEF PutFile
  <2> HIDE DEF g
  <2> QED BY <1>4, <1>t, <2>1, <2>2, <2>3, <2>4, GenMoves DEF PutFile, auditVars, retryVars
<1>5. CASE PutFails(a)
  <2> DEFINE g == [gen[a] EXCEPT !.step = "fail"]
  <2>1. phase[a] \in Submitted
    BY <1>5, <1>a DEF PutFails, AuditTyped
  <2>2. g \in Generation /\ g.step = "fail"
    BY <1>a DEF Generation
  <2>3. gen' = [gen EXCEPT ![a] = g]
    BY <1>5 DEF PutFails
  <2>4. \A b \in Audits : file'[b] = None \/ file'[b] \in Report
    <3>1. PICK f \in {file[a], None} : file' = [file EXCEPT ![a] = f]
      BY <1>5 DEF PutFails
    <3> QED BY <1>t, <3>1
  <2> HIDE DEF g
  <2> QED BY <1>5, <1>t, <2>1, <2>2, <2>3, <2>4, GenMoves DEF PutFails, auditVars, retryVars
<1>i. NoGen \in Generation /\ NoGen.step = "idle"
  BY DEF NoGen, Generation
<1>6. CASE SavePath(a)
  <2>1. reportPath' \in [Audits -> BOOLEAN]
    BY <1>6, <1>t DEF SavePath
  <2>2. gen' = [gen EXCEPT ![a] = NoGen] /\ retryOn' \in {retryOn, None}
    BY <1>6 DEF SavePath, Finish
  <2> QED BY <1>6, <1>i, <1>t, <2>1, <2>2, GenMoves DEF SavePath, Finish, auditVars
<1>7. CASE CountFailure(a)
  <2>1. reportAttempts' \in [Audits -> 0..MaxAttempts]
    <3>1. reportAttempts[a] \in 0..MaxAttempts /\ MaxAttempts \in Nat
      BY <1>t, BomReportAssumption
    <3>2. (IF reportAttempts[a] < MaxAttempts THEN reportAttempts[a] + 1 ELSE reportAttempts[a])
             \in 0..MaxAttempts
      BY <3>1
    <3> QED BY <1>7, <1>t, <3>2 DEF CountFailure
  <2>2. gen' = [gen EXCEPT ![a] = NoGen] /\ retryOn' \in {retryOn, None}
    BY <1>7 DEF CountFailure, Finish
  <2> QED BY <1>7, <1>i, <1>t, <2>1, <2>2, GenMoves DEF CountFailure, Finish, auditVars
<1>f. faults < MaxFaults => faults + 1 \in 0..MaxFaults
  BY <1>t, BomReportAssumption
<1>8. CASE LoseFailure(a)
  <2>1. gen' = [gen EXCEPT ![a] = NoGen] /\ retryOn' \in {retryOn, None}
    BY <1>8 DEF LoseFailure, Finish
  <2>2. faults' \in 0..MaxFaults
    BY <1>8, <1>f DEF LoseFailure
  <2> QED BY <1>8, <1>i, <1>t, <2>1, <2>2, GenMoves DEF LoseFailure, Finish, auditVars
<1>9. CASE DatabaseFails(a)
  <2> DEFINE g == [gen[a] EXCEPT !.step = "fail"]
  <2>1. phase[a] \in Submitted
    BY <1>9, <1>a DEF DatabaseFails, AuditTyped
  <2>2. g \in Generation /\ g.step = "fail"
    BY <1>a DEF Generation
  <2>3. gen' = [gen EXCEPT ![a] = g] /\ faults' \in 0..MaxFaults
    BY <1>9, <1>f DEF DatabaseFails
  <2> HIDE DEF g
  <2> QED BY <1>9, <1>t, <2>1, <2>2, <2>3, GenMoves DEF DatabaseFails, auditVars, retryVars
<1> QED BY <1>1, <1>2, <1>3, <1>4, <1>5, <1>6, <1>7, <1>8, <1>9 DEF Generate

LEMMA RetryTyped ==
  ASSUME TypedInv, FinalInv', Retry
  PROVE  TypedInv'
<1>t. ReportTypeOK
  BY DEF TypedInv
<1>s. ASSUME UNCHANGED <<phase, open, submitted, calls, gen>>, ReportTypeOK', QueueOf(retryTodo)'
      PROVE  TypedInv'
  BY <1>s DEF TypedInv, AuditTyped, QueueOf
<1>1. CASE RetryTick
  <2>1. retryTodo' \in Seq(Audits) /\ \A i \in DOMAIN retryTodo' : phase[retryTodo'[i]] \in Submitted
    BY <1>1, TickTakesPending
  <2>2. /\ UNCHANGED <<phase, open, submitted, reportPath, reportAttempts, file, calls, gen,
                       retryOn, faults, overlap>>
        /\ retryRunning' = TRUE
    BY <1>1 DEF RetryTick, auditVars
  <2>3. ReportTypeOK'
    BY <1>t, <2>1, <2>2 DEF ReportTypeOK
  <2>4. QueueOf(retryTodo)'
    BY <2>1, <2>2 DEF QueueOf
  <2> QED BY <1>s, <2>2, <2>3, <2>4
<1>2. CASE RetryNext
  <2> DEFINE a == Head(retryTodo)
  <2>1. /\ retryTodo \in Seq(Audits) /\ retryTodo # <<>>
        /\ \A i \in DOMAIN retryTodo : phase[retryTodo[i]] \in Submitted
    BY <1>2, <1>t DEF RetryNext, TypedInv, QueueOf, ReportTypeOK
  <2>2. a \in Audits /\ phase[a] \in Submitted
    BY <2>1
  <2>3. Tail(retryTodo) \in Seq(Audits)
    BY <2>1
  <2>4. \A i \in DOMAIN Tail(retryTodo) : i + 1 \in DOMAIN retryTodo /\ Tail(retryTodo)[i] = retryTodo[i + 1]
    BY <2>1
  <2>5. /\ UNCHANGED <<phase, open, submitted, reportPath, reportAttempts, file, calls,
                       retryRunning, faults, overlap>>
        /\ retryTodo' = Tail(retryTodo) /\ Begin(a) /\ retryOn' \in {a, None}
    BY <1>2 DEF RetryNext, auditVars
  <2> HIDE DEF a
  <2>6. /\ gen' \in [Audits -> Generation] /\ \A b \in Audits \ {a} : gen'[b] = gen[b]
        /\ gen'[a].step \in {"lines", "put", "save"} => gen'[a].phase \in Submitted
    BY <2>2, <2>5, BeginTyped
  <2>7. ReportTypeOK'
    BY <1>t, <2>2, <2>3, <2>5, <2>6 DEF ReportTypeOK, Generation
  <2>8. QueueOf(retryTodo)'
    BY <2>1, <2>4, <2>5 DEF QueueOf
  <2> QED BY <2>2, <2>5, <2>6, <2>7, <2>8, ReportTyped
<1>3. CASE RetryDone
  <2>1. UNCHANGED <<phase, open, submitted, reportPath, reportAttempts, file, calls, gen,
                    retryTodo, retryOn, faults, overlap>> /\ retryRunning' = FALSE
    BY <1>3 DEF RetryDone, auditVars
  <2>2. ReportTypeOK' /\ QueueOf(retryTodo)'
    BY <1>t, <2>1 DEF ReportTypeOK, TypedInv, QueueOf
  <2> QED BY <1>s, <2>1, <2>2
<1> QED BY <1>1, <1>2, <1>3 DEF Retry

LEMMA RestartTyped ==
  ASSUME TypedInv, FinalInv', RestartServer
  PROVE  TypedInv'
<1>1. /\ UNCHANGED <<phase, open, submitted, reportPath, reportAttempts, file, overlap>>
      /\ calls' = [a \in Audits |-> 0] /\ gen' = [a \in Audits |-> NoGen]
      /\ retryRunning' = FALSE /\ retryTodo' = <<>> /\ retryOn' = None
      /\ faults < MaxFaults /\ faults' = faults + 1
  BY DEF RestartServer, auditVars
<1>2. faults' \in 0..MaxFaults
  BY <1>1, BomReportAssumption DEF TypedInv, ReportTypeOK
<1>3. NoGen \in Generation /\ NoGen.step = "idle"
  BY DEF NoGen, Generation
<1>4. gen' \in [Audits -> Generation] /\ calls' \in [Audits -> 0..2] /\ retryTodo' \in Seq(Audits)
  BY <1>1, <1>3
<1>5. ReportTypeOK'
  BY <1>1, <1>2, <1>4 DEF TypedInv, ReportTypeOK, Generation
<1>6. \A a \in Audits : AuditTyped(a)'
  BY <1>1, <1>3 DEF TypedInv, AuditTyped
<1>7. QueueOf(submitted)' /\ QueueOf(retryTodo)'
  BY <1>1 DEF TypedInv, QueueOf
<1> QED BY <1>5, <1>6, <1>7 DEF TypedInv

LEMMA TypedStep == TypedInv /\ [ReportNext]_allVars => TypedInv'
<1> SUFFICES ASSUME TypedInv, [ReportNext]_allVars PROVE TypedInv'
  OBVIOUS
<1>1. FinalInv'
  BY FinalStep DEF TypedInv
<1>2. CASE UNCHANGED allVars
  <2>1. ReportTypeOK' /\ QueueOf(submitted)' /\ QueueOf(retryTodo)'
    BY <1>2 DEF TypedInv, ReportTypeOK, QueueOf, allVars, auditVars, reportVars, retryVars
  <2>2. \A a \in Audits : AuditTyped(a)'
    BY <1>2 DEF TypedInv, AuditTyped, allVars, auditVars, reportVars
  <2> QED BY <1>1, <2>1, <2>2 DEF TypedInv
<1> QED
  BY <1>1, <1>2, BeforeSubmitTyped, SubmitTyped, CloseTyped, GenerateTyped, RetryTyped, RestartTyped
  DEF ReportNext

LEMMA InitTyped == ReportInit => TypedInv
<1> SUFFICES ASSUME ReportInit PROVE TypedInv
  OBVIOUS
<1>1. FinalInv
  BY DEF ReportInit, Init, NoGen, FinalInv, Shape, AtClose
<1>2. NoGen \in Generation /\ NoGen.step = "idle"
  BY DEF NoGen, Generation
<1>3. ReportTypeOK
  <2>1. gen \in [Audits -> Generation] /\ submitted \in Seq(Audits) /\ retryTodo \in Seq(Audits)
    BY <1>2 DEF ReportInit
  <2>2. 0 \in 0..MaxAttempts /\ 0 \in 0..MaxFaults
    BY BomReportAssumption
  <2>3. /\ reportPath \in [Audits -> BOOLEAN] /\ overlap \in [Audits -> BOOLEAN]
        /\ reportAttempts \in [Audits -> 0..MaxAttempts] /\ calls \in [Audits -> 0..2]
    BY <2>2 DEF ReportInit
  <2>4. /\ \A a \in Audits : file[a] = None
        /\ retryRunning \in BOOLEAN /\ retryOn = None /\ faults \in 0..MaxFaults
    BY <2>2 DEF ReportInit
  <2> QED BY <2>1, <2>3, <2>4 DEF ReportTypeOK, Generation
<1>4. \A a \in Audits : AuditTyped(a)
  BY <1>2 DEF ReportInit, Init, AuditTyped
<1> QED BY <1>1, <1>3, <1>4 DEF TypedInv, QueueOf, ReportInit

\* The report's state keeps its types, whatever fails and for any number of audits: a report
\* is asked for at most twice, by submit and by close, the file shows a submitted audit, and
\* the retry works through audits that were submitted.
THEOREM ReportTypeCorrect == ReportSpec => []ReportTypeOK
<1>1. TypedInv => ReportTypeOK
  BY DEF TypedInv
<1> QED BY <1>1, InitTyped, TypedStep, PTL DEF ReportSpec

-----------------------------------------------------------------------------
(***************************************************************************)
(* Attachments: lists of files and places                                  *)
(***************************************************************************)

Fields == {"op", "step", "owner", "name", "path"}

\* What a request is for decides which steps it takes, on an owner of which kind.
Purposeful(q) ==
  /\ Fields \subseteq DOMAIN q
  /\ q.op = "remove" => KindOf[q.owner] \in {"erp", "dispatch"} /\ q.path[2] = q.name
  /\ q.op = "upload" => q.step \notin {"find", "make", "write"}
  /\ q.step = "probe" => q.op = "upload"
  /\ q.step \in {"find", "make", "write"} => KindOf[q.owner] = "place"

\* EntriesKept says what a step may do to a list; that a removal removes its own name, and
\* that only an order's places are written as places, depends on how the request began.
RequestsInv ==
  /\ DOMAIN req = Clerks /\ DOMAIN records = Owners
  /\ \A k \in Clerks : Purposeful(req[k])

LEMMA IdleIs == Purposeful(Idle) /\ Idle.step = "idle" /\ Idle.op = "idle"
  BY DEF Idle, Purposeful, Fields

\* A request goes on, or is over.
LEMMA GotoKeeps ==
  ASSUME RequestsInv, NEW k \in Clerks, NEW step, Goto(k, step), step # "probe",
         step \in {"find", "make", "write"} =>
           KindOf[req[k].owner] = "place" /\ req[k].op # "upload",
         DOMAIN records' = Owners
  PROVE  RequestsInv' /\ (req[k].step # step => req'[k] # req[k])
<1> DEFINE q == IF step = "idle" THEN Idle ELSE [req[k] EXCEPT !.step = step]
<1>1. req' = [req EXCEPT ![k] = q]
  BY DEF Goto
<1>2. Purposeful(req[k])
  BY DEF RequestsInv
<1>3. Purposeful(q) /\ q.step = step
  <2>1. CASE step = "idle"
    BY <2>1, IdleIs
  <2>2. CASE step # "idle"
    <3>1. /\ Fields \subseteq DOMAIN q /\ q.step = step /\ q.op = req[k].op
          /\ q.owner = req[k].owner /\ q.name = req[k].name /\ q.path = req[k].path
      BY <1>2, <2>2 DEF Purposeful, Fields
    <3> QED BY <1>2, <3>1 DEF Purposeful
  <2> QED BY <2>1, <2>2
<1> HIDE DEF q
<1>4. DOMAIN req' = Clerks /\ req'[k] = q /\ \A c \in Clerks : c # k => req'[c] = req[c]
  BY <1>1 DEF RequestsInv
<1>5. \A c \in Clerks : Purposeful(req'[c])
  BY <1>3, <1>4 DEF RequestsInv
<1>6. \A c \in Clerks : Purposeful(req[c])'
  BY <1>5 DEF Purposeful
<1> QED BY <1>3, <1>4, <1>6 DEF RequestsInv

LEMMA StartKeeps ==
  ASSUME RequestsInv, NEW k \in Clerks, NEW q, Start(k, q), Purposeful(q)
  PROVE  RequestsInv' /\ UNCHANGED records
<1>1. req' = [req EXCEPT ![k] = q] /\ UNCHANGED records
  BY DEF Start, tables
<1>2. DOMAIN req' = Clerks /\ \A c \in Clerks : Purposeful(req'[c])
  BY <1>1 DEF RequestsInv
<1>3. \A c \in Clerks : Purposeful(req[c])'
  BY <1>2 DEF Purposeful
<1> QED BY <1>1, <1>2, <1>3 DEF RequestsInv

\* What a step may take from the lists.
Kept ==
  \A o \in Owners : \A r \in records[o] \ records'[o] :
       \/ /\ UNCHANGED req
          /\ \/ Shared(o) \/ (records'[o] = {} /\ o \in ended')
             \/ KindOf[o] = "place" /\ (records'[o] = {} \/ \E p \in Places(o) : records'[o] = {p})
       \/ \E k \in Clerks :
            /\ req[k].owner = o /\ req'[k] # req[k]
            /\ \/ req[k].op = "remove" /\ req[k].name = NameIn(r)
               \/ KindOf[o] \in JsonLists /\ r \notin req[k].read

LEMMA KeptStep == RequestsInv /\ [AttachNext]_fileVars => RequestsInv' /\ Kept
<1> SUFFICES ASSUME RequestsInv, [AttachNext]_fileVars PROVE RequestsInv' /\ Kept
  OBVIOUS
<1>i. /\ DOMAIN req = Clerks /\ DOMAIN records = Owners
      /\ \A k \in Clerks : Purposeful(req[k])
  BY DEF RequestsInv
<1>u. UNCHANGED records => Kept
  BY DEF Kept
\* A step that rewrites the list of its request's owner.
<1>w. ASSUME NEW k \in Clerks, NEW new, records' = [records EXCEPT ![req[k].owner] = new],
             req'[k] # req[k],
             req[k].owner \in Owners =>
               \A r \in records[req[k].owner] \ new :
                 \/ req[k].op = "remove" /\ req[k].name = NameIn(r)
                 \/ KindOf[req[k].owner] \in JsonLists /\ r \notin req[k].read
      PROVE  Kept
  <2> SUFFICES ASSUME NEW o \in Owners, NEW r \in records[o] \ records'[o]
               PROVE  /\ req[k].owner = o
                      /\ \/ req[k].op = "remove" /\ req[k].name = NameIn(r)
                         \/ KindOf[o] \in JsonLists /\ r \notin req[k].read
    BY <1>w DEF Kept
  <2>1. req[k].owner = o
    BY <1>i, <1>w
  <2>2. records'[o] = new
    BY <1>i, <1>w, <2>1
  <2> QED BY <1>w, <2>1, <2>2
\* A step that no request takes, and that gives one owner another list.
<1>d. ASSUME NEW o \in Owners, NEW new, records' = [records EXCEPT ![o] = new], UNCHANGED req,
             \/ Shared(o) \/ (new = {} /\ o \in ended')
             \/ KindOf[o] = "place" /\ (new = {} \/ \E p \in Places(o) : new = {p})
      PROVE  RequestsInv' /\ Kept
  <2>1. RequestsInv'
    BY <1>i, <1>d DEF RequestsInv, Purposeful
  <2>2. records'[o] = new /\ \A p \in Owners \ {o} : records'[p] = records[p]
    BY <1>i, <1>d
  <2> QED BY <1>d, <2>1, <2>2 DEF Kept
<1>g. ASSUME NEW k \in Clerks, NEW step, Goto(k, step), UNCHANGED records, step # "probe",
             step \in {"find", "make", "write"} =>
               KindOf[req[k].owner] = "place" /\ req[k].op # "upload"
      PROVE  RequestsInv' /\ Kept
  BY <1>g, <1>i, <1>u, GotoKeeps
<1>1. ASSUME NEW k \in Clerks, NEW o \in Owners, NEW n \in Names, UploadRead(k, o, n)
      PROVE  RequestsInv' /\ Kept
  <2> DEFINE q == [op |-> "upload", step |-> IF KindOf[o] = "sales" THEN "probe" ELSE "put",
                   owner |-> o, name |-> n, path |-> PathFor(o, n), file |-> started + 1,
                   read |-> records[o], serial |-> Len(trail[o]) + 1]
  <2>1. Purposeful(q)
    BY DEF Purposeful, Fields
  <2>2. Start(k, q)
    BY <1>1 DEF UploadRead
  <2> QED BY <1>u, <2>1, <2>2, StartKeeps
<1>2. ASSUME NEW k \in Clerks, NEW o \in Owners, NEW n \in Names, NEW named \in BOOLEAN,
             PlaceRead(k, o, n, named)
      PROVE  RequestsInv' /\ Kept
  <2> DEFINE q == [op |-> "store", step |-> IF named THEN "find" ELSE "write", owner |-> o,
                   name |-> n, path |-> <<o, n, 0>>, file |-> 0, read |-> records[o], serial |-> 0]
  <2>1. Purposeful(q)
    BY <1>2 DEF Purposeful, Fields, PlaceRead
  <2>2. Start(k, q)
    BY <1>2 DEF PlaceRead
  <2> QED BY <1>u, <2>1, <2>2, StartKeeps
<1>3. ASSUME NEW k \in Clerks, NEW o \in Owners, NEW r \in records[o], RemoveRead(k, o, r)
      PROVE  RequestsInv' /\ Kept
  <2> DEFINE q == [op |-> "remove", step |-> "unlink", owner |-> o, name |-> NameIn(r),
                   path |-> r.path, file |-> r.file, read |-> records[o], serial |-> 0]
  <2>1. Purposeful(q)
    BY <1>3 DEF Purposeful, Fields, RemoveRead, NameIn
  <2>2. Start(k, q)
    BY <1>3 DEF RemoveRead
  <2> QED BY <1>u, <2>1, <2>2, StartKeeps
<1>4. ASSUME NEW k \in Clerks, Probe(k) PROVE RequestsInv' /\ Kept
  <2> DEFINE free == FirstFree(req[k].owner, req[k].name, {p \in Paths : server[p] # 0})
  <2>1. req[k].step = "probe" /\ UNCHANGED records
        /\ req' = [req EXCEPT ![k].step = "put", ![k].path = free]
    BY <1>4 DEF Probe, tables
  <2> HIDE DEF free
  <2>2. /\ DOMAIN req' = Clerks /\ \A c \in Clerks : c # k => req'[c] = req[c]
        /\ req'[k] = [[req[k] EXCEPT !.step = "put"] EXCEPT !.path = free]
    BY <1>i, <2>1
  <2>3. /\ Fields \subseteq DOMAIN req'[k] /\ req'[k].step = "put" /\ req'[k].op = "upload"
    BY <1>i, <2>1, <2>2 DEF Purposeful, Fields
  <2>4. Purposeful(req'[k])
    BY <2>3 DEF Purposeful
  <2>5. \A c \in Clerks : Purposeful(req'[c])
    BY <1>i, <2>2, <2>4
  <2>6. RequestsInv'
    BY <1>i, <2>1, <2>2, <2>5 DEF RequestsInv, Purposeful
  <2> QED BY <1>u, <2>1, <2>6
<1>5. ASSUME NEW k \in Clerks, Put(k) PROVE RequestsInv' /\ Kept
  BY <1>5, <1>g DEF Put, tables
<1>6. ASSUME NEW k \in Clerks, Record(k) PROVE RequestsInv' /\ Kept
  <2>1. /\ req[k].step = "record"
        /\ records' = [records EXCEPT ![req[k].owner] = Recorded(req[k])]
        /\ \E step \in {"log", "idle"} : Goto(k, step)
    BY <1>6 DEF Record
  <2>2. RequestsInv' /\ req'[k] # req[k]
    BY <1>i, <2>1, GotoKeeps
  <2>3. ASSUME req[k].owner \in Owners, NEW r \in records[req[k].owner] \ Recorded(req[k])
        PROVE  KindOf[req[k].owner] \in JsonLists /\ r \notin req[k].read
    <3>1. KindOf[req[k].owner] \in Kinds
      BY <2>3, AttachmentsAssumption
    <3> QED BY <2>3, <3>1 DEF Recorded, WrittenList, Kinds, JsonLists
  <2> HIDE DEF Kept
  <2> QED BY <1>w, <2>1, <2>2, <2>3
<1>7. ASSUME NEW k \in Clerks, Log(k) PROVE RequestsInv' /\ Kept
  BY <1>7, <1>g DEF Log
<1>8. ASSUME NEW k \in Clerks, NEW fails \in BOOLEAN, Unlink(k, fails) PROVE RequestsInv' /\ Kept
  BY <1>8, <1>g DEF Unlink, tables
<1>9. ASSUME NEW k \in Clerks, Forget(k) PROVE RequestsInv' /\ Kept
  <2> DEFINE new == IF KindOf[req[k].owner] = "erp" THEN records[req[k].owner] \ {Entry(req[k])}
                                                    ELSE {r \in req[k].read : NameIn(r) # req[k].name}
  <2>1. /\ req[k].step = "record" /\ req[k].op = "remove" /\ Goto(k, "idle")
        /\ records' = [records EXCEPT ![req[k].owner] = new]
    BY <1>9 DEF Forget
  <2>2. RequestsInv' /\ req'[k] # req[k]
    BY <1>i, <2>1, GotoKeeps
  <2>3. KindOf[req[k].owner] \in {"erp", "dispatch"} /\ req[k].path[2] = req[k].name
    BY <1>i, <2>1 DEF Purposeful
  <2>4. NameIn(Entry(req[k])) = req[k].name
    BY <2>3 DEF NameIn, Entry
  <2>5. ASSUME NEW r \in records[req[k].owner] \ new
        PROVE  \/ req[k].name = NameIn(r)
               \/ KindOf[req[k].owner] \in JsonLists /\ r \notin req[k].read
    BY <2>3, <2>4, <2>5 DEF JsonLists
  <2> HIDE DEF new
  <2> QED BY <1>w, <2>1, <2>2, <2>5
<1>10. ASSUME NEW k \in Clerks, FindTransporter(k) PROVE RequestsInv' /\ Kept
  <2>1. /\ req[k].step = "find" /\ UNCHANGED records
        /\ \E step \in {"make", "write"} : Goto(k, step)
    BY <1>10 DEF FindTransporter, tables
  <2> QED BY <1>i, <1>g, <2>1 DEF Purposeful
<1>11. ASSUME NEW k \in Clerks, MakeTransporter(k) PROVE RequestsInv' /\ Kept
  BY <1>11, <1>i, <1>g DEF MakeTransporter, Purposeful
<1>12. ASSUME NEW k \in Clerks, WritePlaces(k) PROVE RequestsInv' /\ Kept
  <2>1. /\ req[k].step = "write" /\ Goto(k, "date")
        /\ records' = [records EXCEPT ![req[k].owner] = WrittenList(req[k])]
    BY <1>12 DEF WritePlaces
  <2>2. RequestsInv' /\ req'[k] # req[k]
    BY <1>i, <2>1, GotoKeeps
  <2>3. KindOf[req[k].owner] = "place"
    BY <1>i, <2>1 DEF Purposeful
  <2>4. ASSUME NEW r \in records[req[k].owner] \ WrittenList(req[k])
        PROVE  KindOf[req[k].owner] \in JsonLists /\ r \notin req[k].read
    BY <2>3, <2>4 DEF WrittenList, JsonLists
  <2> QED BY <1>w, <2>1, <2>2, <2>4
<1>13. ASSUME NEW k \in Clerks, DateStorage(k) PROVE RequestsInv' /\ Kept
  BY <1>13, <1>g DEF DateStorage
<1>14. ASSUME NEW k \in Clerks, Fail(k) PROVE RequestsInv' /\ Kept
  BY <1>14, <1>g DEF Fail, tables
<1>15. ASSUME NEW o \in Owners, ClearPlaces(o) PROVE RequestsInv' /\ Kept
  <2>1. KindOf[o] = "place" /\ records' = [records EXCEPT ![o] = {}] /\ UNCHANGED req
    BY <1>15 DEF ClearPlaces
  <2> QED BY <1>d, <2>1
<1>17. ASSUME NEW o \in Owners, NEW S \in SUBSET records[o], NEW archived \in BOOLEAN, Drop(o, S, archived)
       PROVE  RequestsInv' /\ Kept
  <2>1. /\ records' = [records EXCEPT ![o] = records[o] \ S] /\ UNCHANGED req
        /\ Shared(o) \/ (records[o] \ S = {} /\ o \in ended')
    BY <1>17 DEF Drop
  <2> QED BY <1>d, <2>1
<1>18. ASSUME NEW o \in Owners, Purge(o) PROVE RequestsInv' /\ Kept
  <2>1. UNCHANGED <<req, records>>
    BY <1>18 DEF Purge
  <2> QED BY <1>u, <1>i, <2>1 DEF RequestsInv, Purposeful
<1>19. ASSUME NEW o \in Owners, NEW given \in {{}} \cup {{r} : r \in Places(o)}, NEW D,
              OverwritePlaces(o, given, D)
       PROVE  RequestsInv' /\ Kept
  <2>1. KindOf[o] = "place" /\ records' = [records EXCEPT ![o] = given] /\ UNCHANGED req
    BY <1>19 DEF OverwritePlaces
  <2>2. given = {} \/ \E p \in Places(o) : given = {p}
    OBVIOUS
  <2> QED BY <1>d, <2>1, <2>2
<1>16. CASE UNCHANGED fileVars
  <2>1. UNCHANGED <<req, records>>
    BY <1>16 DEF fileVars, tables
  <2> QED BY <1>u, <1>i, <2>1 DEF RequestsInv, Purposeful
<1> QED BY <1>1, <1>2, <1>3, <1>4, <1>5, <1>6, <1>7, <1>8, <1>9, <1>10, <1>11, <1>12, <1>13,
           <1>14, <1>15, <1>16, <1>17, <1>18, <1>19 DEF AttachNext

\* However uploads, removals and assignments of places overlap, fail or are cut short, a
\* request takes an entry from a list only if it removes that name, or writes back a list
\* that it read before the entry was there.  Otherwise entries go with an order, from the
\* folders it shares with others of its number; a list is emptied with the order, dispatch
\* or entry it belongs to; and the places of an order that goes on are emptied, or written
\* over with the one that a desk gives.
THEOREM ListsKeepEntries == AttachSpec => EntriesKept
<1>1. AttachInit => RequestsInv
  <2> SUFFICES ASSUME AttachInit PROVE RequestsInv
    OBVIOUS
  <2>1. DOMAIN req = Clerks /\ DOMAIN records = Owners /\ \A k \in Clerks : req[k] = Idle
    BY DEF AttachInit
  <2> QED BY <2>1, IdleIs DEF RequestsInv
<1>2. RequestsInv /\ [AttachNext]_fileVars => RequestsInv'
  BY KeptStep
<1>3. RequestsInv /\ [AttachNext]_fileVars => [Kept]_fileVars
  BY KeptStep
<1>4. EntriesKept <=> [][Kept]_fileVars
  BY DEF EntriesKept, Kept
<1> QED BY <1>1, <1>2, <1>3, <1>4, PTL DEF AttachSpec

-----------------------------------------------------------------------------
(***************************************************************************)
(* Recorded files are on the server                                        *)
(***************************************************************************)

AllFields == {"op", "step", "owner", "name", "path", "file", "read", "serial"}

\* Owners for whose files a free name is looked for.
Searched(o) == KindOf[o] \in {"sales", "erp"}

Stored(o, r) == server[r.path] # 0 /\ (Searched(o) => server[r.path] = r.file)
Removes(k, o, r) == req[k].op = "remove" /\ req[k].owner = o /\ req[k].path = r.path

Uploading(q) ==
  /\ q.op = "upload" /\ q.step \in {"probe", "put", "record", "log"} /\ KindOf[q.owner] # "place"
  /\ q.step \in {"probe", "log"} => KindOf[q.owner] = "sales"
  /\ q.name \in Names /\ (~Searched(q.owner) => q.path = <<q.owner, q.name, 0>>)
Removing(q) ==
  /\ q.op = "remove" /\ q.step \in {"unlink", "record"} /\ KindOf[q.owner] \in {"erp", "dispatch"}
  /\ q.name = q.path[2]
Storing(q) ==
  q.op = "store" /\ q.step \in {"find", "make", "write", "date"} /\ KindOf[q.owner] = "place"

\* Files in the folder of an owner.
FilesOf(o, entries) == \A r \in entries : r = [path |-> r.path, file |-> r.file] /\ r.path[1] = o

RequestShape(q) ==
  q # Idle =>
    /\ DOMAIN q = AllFields /\ q.owner \in Owners /\ q.path[1] = q.owner /\ FilesOf(q.owner, q.read)
    /\ Uploading(q) \/ Removing(q) \/ Storing(q)

\* The file of an upload is new: it is nowhere before it is put, and no other upload's.
FileIsNew(q) ==
  q.op = "upload" =>
    /\ q.file \in 1..started
    /\ q.step \in {"probe", "put"} => \A p \in Paths : server[p] # q.file

Apart(q, c) ==
  /\ q # Idle /\ c # Idle /\ q.owner = c.owner => q.owner \in mixed
  /\ q.op = "upload" /\ c.op = "upload" => q.file # c.file

\* The sales desk never deletes a file.
SalesOK(o) ==
  KindOf[o] = "sales" =>
    /\ \A r \in records[o] : r.path \in Paths /\ server[r.path] # 0
    /\ \A k \in Clerks : req[k].owner = o /\ req[k].op = "upload" /\ req[k].step \in {"put", "record"} =>
         /\ req[k].path \in Paths
         /\ req[k].step = "record" => server[req[k].path] # 0

\* What the request that is alone on an owner knows of its list.
Knows(q, o) ==
  q.owner = o =>
    /\ q.op = "upload" /\ q.step \in {"put", "record"} =>
         q.path \in Paths /\ (Searched(o) => \A r \in records[o] : r.path # q.path)
    /\ q.op = "upload" /\ q.step = "record" => Stored(o, Entry(q))
    /\ KindOf[o] \in JsonLists => q.read = records[o]
    /\ q.op = "remove" /\ KindOf[o] = "erp" => \A r \in records[o] : r.path = q.path => r = Entry(q)

ListOK(o) ==
  /\ \A r \in records[o] :
       /\ r.path \in Paths
       /\ KindOf[o] = "dispatch" => r.path = <<o, NameIn(r), 0>>
       /\ Stored(o, r) \/ \E k \in Clerks : Removes(k, o, r)
  /\ Searched(o) => \A r, s \in records[o] : r.path = s.path => r = s

OwnerOK(o) == KindOf[o] # "place" /\ o \notin mixed => ListOK(o) /\ \A k \in Clerks : Knows(req[k], o)

ServerOK ==
  /\ started \in 0..MaxRequests /\ server \in [Paths -> 0..started]
  /\ \A p, q \in Paths : server[p] = server[q] /\ server[p] # 0 => p = q

FilesInv ==
  /\ ServerOK /\ DOMAIN req = Clerks /\ DOMAIN records = Owners
  /\ \A k \in Clerks : RequestShape(req[k]) /\ FileIsNew(req[k])
  /\ \A k, c \in Clerks : k # c => Apart(req[k], req[c])
  /\ \A o \in Owners : FilesOf(o, records[o]) /\ SalesOK(o) /\ OwnerOK(o)

LEMMA Facts ==
  /\ MaxRequests \in Nat /\ Unset \notin Owners /\ KindOf \in [Owners -> Kinds]
  /\ Idle.op = "idle" /\ Idle.step = "idle" /\ Idle.owner = Unset
  BY AttachmentsAssumption DEF Idle

LEMMA SmallestExists ==
  ASSUME NEW S \in SUBSET Nat, S # {}
  PROVE  \E i \in S : \A j \in S : i <= j
<1>1. PICK n \in S : \A y \in S : ~(<<y, n>> \in OpToRel(<, Nat))
  BY NatLessThanWellFounded, WFMin
<1>2. \A y \in S : ~(y < n)
  BY <1>1 DEF OpToRel
<1>3. \A y \in S : n <= y
  BY <1>2
<1> QED BY <1>3

\* There are more numbers to add to a name than files on the server.
LEMMA FreeName ==
  ASSUME ServerOK, NEW o \in Owners, NEW n \in Names, NEW taken,
         \A i \in 0..MaxRequests : <<o, n, i>> \in taken => server[<<o, n, i>>] # 0
  PROVE  LET path == FirstFree(o, n, taken) IN
         path \in Paths /\ path \notin taken /\ path[1] = o
<1> DEFINE free == {i \in 0..MaxRequests : <<o, n, i>> \notin taken}
           f == [i \in 0..MaxRequests |-> server[<<o, n, i>>]]
<1>1. free # {}
  <2> SUFFICES ASSUME free = {} PROVE FALSE
    OBVIOUS
  <2>1. \A i \in 0..MaxRequests : <<o, n, i>> \in Paths /\ server[<<o, n, i>>] # 0
    BY DEF Paths
  <2>2. \A p \in Paths : server[p] \in 0..MaxRequests
    BY Facts DEF ServerOK
  <2>3. \A i \in 0..MaxRequests : server[<<o, n, i>>] \in 1..MaxRequests
    BY <2>1, <2>2, Facts
  <2>4. f \in [0..MaxRequests -> 1..MaxRequests]
    BY <2>3
  <2>5. ASSUME NEW i \in 0..MaxRequests, NEW j \in 0..MaxRequests, f[i] = f[j] PROVE i = j
    <3>1. <<o, n, i>> = <<o, n, j>>
      BY <2>1, <2>5 DEF ServerOK
    <3> QED BY <3>1
  <2>6. f \in Injection(0..MaxRequests, 1..MaxRequests)
    <3> HIDE DEF f
    <3> QED BY <2>4, <2>5 DEF Injection, IsInjective
  <2>7. IsFiniteSet(1..MaxRequests) /\ Cardinality(1..MaxRequests) = MaxRequests
    BY Facts, FS_Interval
  <2>8. Cardinality(0..MaxRequests) = MaxRequests + 1
    BY Facts, FS_Interval
  <2>9. Cardinality(0..MaxRequests) <= Cardinality(1..MaxRequests)
    <3> HIDE DEF f
    <3> QED BY <2>6, <2>7, FS_Injection
  <2> QED BY <2>7, <2>8, <2>9, Facts
<1>2. \E i \in free : \A j \in free : i <= j
  <2>1. free \in SUBSET Nat
    BY Facts
  <2> HIDE DEF free
  <2> QED BY <1>1, <2>1, SmallestExists
<1> DEFINE i == CHOOSE i \in free : \A j \in free : i <= j
<1>3. i \in free
  BY <1>2
<1>4. FirstFree(o, n, taken) = <<o, n, i>>
  BY DEF FirstFree
<1> HIDE DEF i
<1> QED BY <1>3, <1>4 DEF Paths

LEMMA InvRecorded == FilesInv => RecordedFileIsThere
<1> SUFFICES ASSUME FilesInv, NEW o \in Owners, KindOf[o] # "place", NEW r \in records[o]
             PROVE  /\ ~Disturbed(o) \/ KindOf[o] = "sales" => server[r.path] # 0
                    /\ ~Disturbed(o) /\ KindOf[o] \in {"sales", "erp"} =>
                         /\ server[r.path] = r.file
                         /\ \A s \in records[o] : s.path = r.path => s = r
  BY DEF RecordedFileIsThere
<1>1. KindOf[o] = "sales" => server[r.path] # 0
  BY DEF FilesInv, SalesOK
<1>2. ASSUME ~Disturbed(o)
      PROVE  Stored(o, r) /\ (Searched(o) => \A s \in records[o] : s.path = r.path => s = r)
  <2>1. ListOK(o)
    BY <1>2 DEF FilesInv, OwnerOK, Disturbed
  <2>2. ASSUME NEW k \in Clerks, Removes(k, o, r) PROVE FALSE
    BY <1>2, <2>2, Facts DEF Disturbed, Active, Removes
  <2> QED BY <2>1, <2>2 DEF ListOK
<1> QED BY <1>1, <1>2 DEF Stored, Searched

\* A step of one request leaves the other owners' files and lists alone.
LEMMA OthersKept ==
  ASSUME FilesInv, NEW k \in Clerks, NEW o \in Owners, NEW p \in Owners, p # o,
         req[k] = Idle \/ req[k].owner = o, req'[k] = Idle \/ req'[k].owner = o,
         \A c \in Clerks \ {k} : req'[c] = req[c], records'[p] = records[p],
         mixed \subseteq mixed', \A path \in Paths : path[1] # o => server'[path] = server[path]
  PROVE  FilesOf(p, records[p])' /\ SalesOK(p)' /\ OwnerOK(p)'
<1>0. FilesOf(p, records[p])
  BY DEF FilesInv
<1>1. req[k].owner # p /\ req'[k].owner # p
  BY Facts
<1>2. ASSUME NEW c \in Clerks, req'[c].owner = p PROVE c # k /\ req'[c] = req[c] /\ req[c].path[1] = p
  <2>1. c # k /\ req'[c] = req[c]
    BY <1>1, <1>2
  <2>2. req[c] # Idle
    BY <1>2, <2>1, Facts
  <2> QED BY <1>2, <2>1, <2>2 DEF FilesInv, RequestShape
<1>3. SalesOK(p)' /\ FilesOf(p, records[p])'
  BY <1>0, <1>2 DEF FilesInv, SalesOK, FilesOf
<1>4. ASSUME KindOf[p] # "place", p \notin mixed PROVE ListOK(p)'
  <2>1. ListOK(p)
    BY <1>4 DEF FilesInv, OwnerOK
  <2>2. ASSUME NEW r \in records[p] PROVE Stored(p, r)' \/ \E c \in Clerks : Removes(c, p, r)'
    <3>1. CASE Stored(p, r)
      BY <1>0, <2>1, <3>1 DEF ListOK, Stored, FilesOf
    <3>2. CASE \E c \in Clerks : Removes(c, p, r)
      <4>1. PICK c \in Clerks : Removes(c, p, r)
        BY <3>2
      <4>2. req'[c] = req[c]
        BY <1>1, <4>1 DEF Removes
      <4> QED BY <4>1, <4>2 DEF Removes
    <3> QED BY <2>1, <2>2, <3>1, <3>2 DEF ListOK
  <2> QED BY <2>1, <2>2 DEF ListOK
<1>5. ASSUME KindOf[p] # "place", p \notin mixed, NEW c \in Clerks PROVE Knows(req[c], p)'
  <2>1. CASE req'[c].owner = p
    <3>1. req'[c] = req[c] /\ req[c].path[1] = p /\ Knows(req[c], p)
      BY <1>2, <1>5, <2>1 DEF FilesInv, OwnerOK
    <3> QED BY <2>1, <3>1 DEF Knows, Stored, Entry
  <2>2. CASE req'[c].owner # p
    BY <2>2 DEF Knows
  <2> QED BY <2>1, <2>2
<1>6. OwnerOK(p)'
  BY <1>4, <1>5 DEF OwnerOK
<1> QED BY <1>3, <1>6

\* What a step of one request has to keep.
LEMMA FilesStep ==
  ASSUME FilesInv, NEW k \in Clerks, NEW o \in Owners, NEW q,
         req[k] = Idle \/ req[k].owner = o, q = Idle \/ q.owner = o,
         req' = [req EXCEPT ![k] = q],
         DOMAIN records' = Owners, \A p \in Owners \ {o} : records'[p] = records[p],
         mixed \subseteq mixed', started <= started', ServerOK',
         \A path \in Paths : path[1] # o => server'[path] = server[path],
         \A path \in Paths : \/ server'[path] \in {server[path], 0}
                             \/ req[k].op = "upload" /\ server'[path] = req[k].file,
         RequestShape(q), FileIsNew(q)',
         \A c \in Clerks \ {k} : Apart(q, req[c])',
         FilesOf(o, records'[o]), SalesOK(o)', OwnerOK(o)'
  PROVE  FilesInv'
<1>1. DOMAIN req' = Clerks /\ req'[k] = q /\ \A c \in Clerks \ {k} : req'[c] = req[c]
  BY DEF FilesInv
<1>2. ASSUME NEW c \in Clerks PROVE RequestShape(req[c])' /\ FileIsNew(req[c])'
  <2>1. CASE c = k
    BY <1>1, <2>1 DEF RequestShape, FileIsNew, Uploading, Removing, Storing, Searched, FilesOf
  <2>2. CASE c # k
    <3>1. req'[c] = req[c] /\ RequestShape(req[c]) /\ FileIsNew(req[c]) /\ Apart(req[k], req[c])
      BY <1>1, <2>2 DEF FilesInv
    <3>2. RequestShape(req[c])'
      BY <3>1 DEF RequestShape, Uploading, Removing, Storing, Searched, FilesOf
    <3>3. started \in Nat /\ started' \in Nat
      BY Facts DEF FilesInv, ServerOK
    <3>4. FileIsNew(req[c])'
      <4> SUFFICES ASSUME req[c].op = "upload"
                   PROVE  /\ req[c].file \in 1..started'
                          /\ req[c].step \in {"probe", "put"} => \A p \in Paths : server'[p] # req[c].file
        BY <3>1 DEF FileIsNew
      <4>1. req[c].file \in 1..started
        BY <3>1 DEF FileIsNew
      <4>2. req[c].file \in 1..started' /\ req[c].file # 0
        BY <3>3, <4>1
      <4>3. ASSUME req[c].step \in {"probe", "put"}, NEW p \in Paths PROVE server'[p] # req[c].file
        <5>1. server[p] # req[c].file
          BY <3>1, <4>3 DEF FileIsNew
        <5>2. req[k].op = "upload" => req[k].file # req[c].file
          BY <3>1 DEF Apart
        <5> QED BY <4>2, <5>1, <5>2
      <4> QED BY <4>2, <4>3
    <3> QED BY <3>2, <3>4
  <2> QED BY <2>1, <2>2
<1>3. ASSUME NEW c \in Clerks, NEW d \in Clerks, c # d PROVE Apart(req[c], req[d])'
  <2>1. Apart(req[c], req[d])
    BY <1>3 DEF FilesInv
  <2>2. CASE c = k
    <3>1. Apart(q, req[d])' /\ req'[c] = q
      BY <1>1, <1>3, <2>2
    <3> QED BY <3>1 DEF Apart
  <2>3. CASE d = k
    <3>1. Apart(q, req[c])' /\ req'[d] = q
      BY <1>1, <1>3, <2>3
    <3> QED BY <3>1 DEF Apart
  <2>4. CASE c # k /\ d # k
    BY <1>1, <2>1, <2>4 DEF Apart
  <2> QED BY <2>2, <2>3, <2>4
<1>4. ASSUME NEW p \in Owners PROVE FilesOf(p, records[p])' /\ SalesOK(p)' /\ OwnerOK(p)'
  <2>1. CASE p = o
    BY <2>1 DEF FilesOf
  <2>2. CASE p # o
    BY <1>1, <2>2, OthersKept
  <2> QED BY <2>1, <2>2
<1> QED BY <1>1, <1>2, <1>3, <1>4 DEF FilesInv

\* With an owner that no requests have overlapped on, a request that runs is alone.
LEMMA Alone ==
  ASSUME FilesInv, NEW k \in Clerks, NEW c \in Clerks, req[k] # Idle, req[k].owner \in Owners,
         req[c].owner = req[k].owner, req[k].owner \notin mixed
  PROVE  c = k
<1>1. req[c] # Idle
  BY Facts
<1> QED BY <1>1 DEF FilesInv, Apart

-----------------------------------------------------------------------------

LEMMA StartFiles ==
  ASSUME FilesInv, NEW k \in Clerks, NEW q, Start(k, q), q.owner \in Owners, q # Idle,
         RequestShape(q), q.file = started + 1 \/ q.op # "upload",
         q.op = "upload" => q.step \in {"probe", "put"},
         q.op = "upload" /\ q.step = "put" => KindOf[q.owner] # "sales",
         KindOf[q.owner] # "place" /\ q.owner \notin mixed /\ (\A c \in Clerks : req[c].owner # q.owner) =>
           Knows(q, q.owner)
  PROVE  FilesInv'
<1> DEFINE o == q.owner
<1>1. /\ req[k] = Idle /\ started < MaxRequests /\ started' = started + 1
      /\ req' = [req EXCEPT ![k] = q] /\ UNCHANGED <<server, records>>
      /\ mixed' = IF \E c \in Active : req[c].owner = q.owner THEN mixed \cup {q.owner} ELSE mixed
  BY DEF Start, tables
<1>2. started \in 0..MaxRequests /\ \A p \in Paths : server[p] \in 0..started
  BY DEF FilesInv, ServerOK
<1>3. started' \in 0..MaxRequests /\ started <= started' /\ started \in Nat /\ \A p \in Paths : server[p] \in 0..started'
  BY <1>1, <1>2, Facts
<1>4. ServerOK'
  <2>1. server' \in [Paths -> 0..started']
    BY <1>1, <1>3 DEF FilesInv, ServerOK
  <2> QED BY <1>1, <1>3, <2>1 DEF FilesInv, ServerOK
<1>5. FileIsNew(q)'
  <2>1. \A p \in Paths : server[p] # started + 1
    BY <1>2, <1>3
  <2> QED BY <1>1, <1>3, <2>1 DEF FileIsNew
<1>6. ASSUME NEW c \in Clerks \ {k} PROVE Apart(q, req[c])'
  <2>1. req'[c] = req[c]
    BY <1>1, <1>6 DEF FilesInv
  <2>2. req[c] # Idle /\ q.owner = req[c].owner => q.owner \in mixed'
    BY <1>1 DEF Active
  <2>3. q.op = "upload" /\ req[c].op = "upload" => q.file # req[c].file
    <3>1. req[c].op = "upload" => req[c].file \in 1..started
      BY DEF FilesInv, FileIsNew
    <3> QED BY <1>3, <3>1
  <2> QED BY <2>1, <2>2, <2>3 DEF Apart
<1>7. DOMAIN req' = Clerks /\ req'[k] = q /\ \A c \in Clerks \ {k} : req'[c] = req[c]
  BY <1>1 DEF FilesInv
<1>8. SalesOK(o)'
  <2>1. SalesOK(o)
    BY DEF FilesInv
  <2>2. ASSUME NEW c \in Clerks, req'[c].owner = o, req'[c].op = "upload", req'[c].step \in {"put", "record"},
               KindOf[o] = "sales"
        PROVE  c # k
    BY <1>7, <2>2
  <2> QED BY <1>1, <1>7, <2>1, <2>2 DEF SalesOK
<1>9. OwnerOK(o)'
  <2> SUFFICES ASSUME KindOf[o] # "place", o \notin mixed'
               PROVE  ListOK(o)' /\ \A c \in Clerks : Knows(req[c], o)'
    BY DEF OwnerOK
  <2>1. o \notin mixed /\ \A c \in Clerks : req[c].owner # o
    BY <1>1, Facts DEF Active
  <2>2. ListOK(o) /\ Knows(q, o)
    BY <2>1 DEF FilesInv, OwnerOK
  <2>3. ListOK(o)'
    <3>1. \A r \in records[o] : Stored(o, r)
      BY <2>1, <2>2 DEF ListOK, Removes
    <3> QED BY <1>1, <2>2, <3>1 DEF ListOK, Stored
  <2>4. ASSUME NEW c \in Clerks PROVE Knows(req[c], o)'
    <3>1. CASE c = k
      BY <1>1, <1>7, <2>2, <3>1 DEF Knows, Stored, Entry
    <3>2. CASE c # k
      BY <1>7, <2>1, <3>2 DEF Knows
    <3> QED BY <3>1, <3>2
  <2> QED BY <2>3, <2>4
<1>10. mixed \subseteq mixed'
  BY <1>1
<1>11. DOMAIN records' = Owners /\ \A p \in Owners \ {o} : records'[p] = records[p]
  BY <1>1 DEF FilesInv
<1> HIDE DEF o
<1>12. o \in Owners /\ q.owner = o
  BY DEF o
<1>13. \A path \in Paths : server'[path] = server[path]
  BY <1>1
<1>14. FilesOf(o, records'[o])
  BY <1>1, <1>12 DEF FilesInv
<1> QED BY <1>1, <1>3, <1>4, <1>5, <1>6, <1>8, <1>9, <1>10, <1>11, <1>12, <1>13, <1>14, FilesStep

LEMMA UploadFiles ==
  ASSUME FilesInv, NEW k \in Clerks, NEW o \in Owners, NEW n \in Names, UploadRead(k, o, n)
  PROVE  FilesInv'
<1> DEFINE q == [op |-> "upload", step |-> IF KindOf[o] = "sales" THEN "probe" ELSE "put",
                 owner |-> o, name |-> n, path |-> PathFor(o, n), file |-> started + 1,
                 read |-> records[o], serial |-> Len(trail[o]) + 1]
<1>1. Start(k, q) /\ KindOf[o] # "place"
  BY DEF UploadRead
<1>2. PathFor(o, n)[1] = o /\ (~Searched(o) => PathFor(o, n) = <<o, n, 0>>)
  BY DEF PathFor, FirstFree, Searched
<1>3. q # Idle /\ q.op = "upload"
  BY Facts
<1>4. RequestShape(q)
  BY <1>1, <1>2 DEF RequestShape, AllFields, Uploading, FilesInv
<1>5. ASSUME o \notin mixed, \A c \in Clerks : req[c].owner # o PROVE Knows(q, o)
  <2>1. ListOK(o) /\ ServerOK
    BY <1>1, <1>5 DEF FilesInv, OwnerOK
  <2>2. \A r \in records[o] : Stored(o, r)
    BY <1>5, <2>1 DEF ListOK, Removes
  <2>3. CASE KindOf[o] = "erp"
    <3> DEFINE taken == {r.path : r \in records[o]}
    <3>1. \A p \in taken : server[p] # 0
      BY <2>2 DEF Stored
    <3>2. PathFor(o, n) \in Paths /\ PathFor(o, n) \notin taken
      <4>1. PathFor(o, n) = FirstFree(o, n, taken)
        BY <2>3 DEF PathFor
      <4> HIDE DEF taken
      <4> QED BY <2>1, <3>1, <4>1, FreeName
    <3> QED BY <2>3, <3>2 DEF Knows, JsonLists
  <2>4. CASE KindOf[o] = "sales"
    BY <2>4 DEF Knows, JsonLists
  <2>5. CASE ~Searched(o)
    <3>1. PathFor(o, n) \in Paths
      BY <1>2, <2>5, Facts DEF Paths
    <3> QED BY <2>5, <3>1 DEF Knows, Searched
  <2> QED BY <2>3, <2>4, <2>5 DEF Searched
<1>6. q.owner = o /\ q.file = started + 1 /\ q.step \in {"probe", "put"} /\ (q.step = "put" => KindOf[o] # "sales")
  OBVIOUS
<1> HIDE DEF q
<1> QED BY <1>1, <1>3, <1>4, <1>5, <1>6, StartFiles

LEMMA RemoveFiles ==
  ASSUME FilesInv, NEW k \in Clerks, NEW o \in Owners, NEW r \in records[o], RemoveRead(k, o, r)
  PROVE  FilesInv'
<1> DEFINE q == [op |-> "remove", step |-> "unlink", owner |-> o, name |-> NameIn(r),
                 path |-> r.path, file |-> r.file, read |-> records[o], serial |-> 0]
<1>1. Start(k, q) /\ KindOf[o] \in {"erp", "dispatch"}
  BY DEF RemoveRead
<1>2. FilesOf(o, records[o]) /\ r.path[1] = o /\ r = [path |-> r.path, file |-> r.file]
  BY DEF FilesInv, FilesOf
<1>3. q # Idle /\ q.op = "remove" /\ q.owner = o
  BY Facts
<1>4. RequestShape(q)
  BY <1>1, <1>2 DEF RequestShape, AllFields, Removing, NameIn
<1>5. Entry(q) = r
  BY <1>2 DEF Entry
<1>6. ASSUME o \notin mixed PROVE Knows(q, o)
  <2>1. ListOK(o)
    BY <1>1, <1>6 DEF FilesInv, OwnerOK
  <2>2. KindOf[o] = "erp" => \A s \in records[o] : s.path = r.path => s = r
    BY <2>1 DEF ListOK, Searched
  <2>3. q.path = r.path /\ q.read = records[o] /\ q.op = "remove"
    OBVIOUS
  <2> HIDE DEF q
  <2> QED BY <1>5, <2>2, <2>3 DEF Knows
<1> HIDE DEF q
<1> QED BY <1>1, <1>3, <1>4, <1>6, StartFiles

LEMMA PlaceFiles ==
  ASSUME FilesInv, NEW k \in Clerks, NEW o \in Owners, NEW n \in Names, NEW named \in BOOLEAN,
         PlaceRead(k, o, n, named)
  PROVE  FilesInv'
<1> DEFINE q == [op |-> "store", step |-> IF named THEN "find" ELSE "write", owner |-> o,
                 name |-> n, path |-> <<o, n, 0>>, file |-> 0, read |-> records[o], serial |-> 0]
<1>1. Start(k, q) /\ KindOf[o] = "place"
  BY DEF PlaceRead
<1>2. q # Idle /\ q.op = "store" /\ q.owner = o
  BY Facts
<1>3. RequestShape(q)
  BY <1>1 DEF RequestShape, AllFields, Storing, FilesInv
<1> HIDE DEF q
<1> QED BY <1>1, <1>2, <1>3, StartFiles

-----------------------------------------------------------------------------

\* A request that runs takes a step, or ends.
LEMMA StepOn ==
  ASSUME FilesInv, NEW k \in Clerks, req[k] # Idle, NEW o, o = req[k].owner, NEW q,
         req' = [req EXCEPT ![k] = q], mixed \subseteq mixed', started' = started,
         q = Idle \/ (q.op = req[k].op /\ q.owner = o /\ q.file = req[k].file /\ RequestShape(q)),
         q.op = "upload" /\ q.step \in {"probe", "put"} => req[k].step = "probe" /\ server' = server,
         DOMAIN records' = Owners, \A p \in Owners \ {o} : records'[p] = records[p],
         FilesOf(o, records'[o]), ServerOK',
         \A path \in Paths : path[1] # o => server'[path] = server[path],
         \A path \in Paths : \/ server'[path] \in {server[path], 0}
                             \/ req[k].op = "upload" /\ server'[path] = req[k].file,
         KindOf[o] = "sales" =>
           /\ \A path \in Paths : server[path] # 0 => server'[path] # 0
           /\ \A r \in records'[o] : r.path \in Paths /\ server'[r.path] # 0
           /\ q.op = "upload" /\ q.step \in {"put", "record"} =>
                q.path \in Paths /\ (q.step = "record" => server'[q.path] # 0),
         KindOf[o] # "place" /\ o \notin mixed' /\ ListOK(o) /\ Knows(req[k], o)
           /\ (\A c \in Clerks : req[c].owner = o => c = k) => ListOK(o)' /\ Knows(q, o)'
  PROVE  FilesInv'
<1>0. o \in Owners /\ RequestShape(req[k]) /\ FileIsNew(req[k])
  BY DEF FilesInv, RequestShape
<1>1. DOMAIN req' = Clerks /\ req'[k] = q /\ \A c \in Clerks \ {k} : req'[c] = req[c]
  BY DEF FilesInv
<1>2. q = Idle \/ q.owner = o
  OBVIOUS
<1>3. RequestShape(q)
  BY DEF RequestShape
<1>4. FileIsNew(q)'
  <2>1. CASE q = Idle
    BY <2>1, Facts DEF FileIsNew
  <2>2. CASE q.op = req[k].op /\ q.file = req[k].file
    <3> SUFFICES ASSUME q.op = "upload"
                 PROVE  /\ q.file \in 1..started
                        /\ q.step \in {"probe", "put"} => \A p \in Paths : server'[p] # q.file
      BY DEF FileIsNew
    <3> QED BY <1>0, <2>2 DEF FileIsNew
  <2> QED BY <2>1, <2>2
<1>5. ASSUME NEW c \in Clerks \ {k} PROVE Apart(q, req[c])'
  <2>1. req'[c] = req[c] /\ Apart(req[k], req[c])
    BY <1>1, <1>5 DEF FilesInv
  <2>2. CASE q = Idle
    BY <2>2, Facts DEF Apart
  <2>3. CASE q.op = req[k].op /\ q.owner = o /\ q.file = req[k].file
    BY <2>1, <2>3 DEF Apart
  <2> QED BY <2>2, <2>3
<1>6. SalesOK(o)'
  <2> SUFFICES ASSUME KindOf[o] = "sales"
               PROVE  /\ \A r \in records'[o] : r.path \in Paths /\ server'[r.path] # 0
                      /\ \A c \in Clerks : req'[c].owner = o /\ req'[c].op = "upload"
                              /\ req'[c].step \in {"put", "record"} =>
                           /\ req'[c].path \in Paths
                           /\ req'[c].step = "record" => server'[req'[c].path] # 0
    BY DEF SalesOK
  <2>1. ASSUME NEW c \in Clerks, req'[c].owner = o, req'[c].op = "upload", req'[c].step \in {"put", "record"}
        PROVE  /\ req'[c].path \in Paths
               /\ req'[c].step = "record" => server'[req'[c].path] # 0
    <3>1. CASE c = k
      BY <1>1, <2>1, <3>1
    <3>2. CASE c # k
      <4>1. req'[c] = req[c]
        BY <1>1, <3>2
      <4>2. /\ req[c].path \in Paths
            /\ req[c].step = "record" => server[req[c].path] # 0
        BY <1>0, <2>1, <4>1 DEF FilesInv, SalesOK
      <4> QED BY <4>1, <4>2
    <3> QED BY <3>1, <3>2
  <2> QED BY <2>1
<1>7. OwnerOK(o)'
  <2> SUFFICES ASSUME KindOf[o] # "place", o \notin mixed'
               PROVE  ListOK(o)' /\ \A c \in Clerks : Knows(req[c], o)'
    BY DEF OwnerOK
  <2>1. \A c \in Clerks : req[c].owner = o => c = k
    BY <1>0, Alone
  <2>2. ListOK(o) /\ Knows(req[k], o)
    BY <1>0 DEF FilesInv, OwnerOK
  <2>3. ListOK(o)' /\ Knows(q, o)'
    BY <2>1, <2>2
  <2>4. ASSUME NEW c \in Clerks PROVE Knows(req[c], o)'
    <3>1. CASE c = k
      <4>1. req'[c] = q
        BY <1>1, <3>1
      <4> QED BY <2>3, <4>1 DEF Knows, Stored, Entry
    <3>2. CASE c # k
      <4>1. req'[c].owner # o
        BY <1>1, <2>1, <3>2
      <4> QED BY <4>1 DEF Knows
    <3> QED BY <3>1, <3>2
  <2> QED BY <2>3, <2>4
<1>8. started <= started'
  BY Facts DEF FilesInv, ServerOK
<1>9. req[k] = Idle \/ req[k].owner = o
  OBVIOUS
<1> QED BY <1>0, <1>2, <1>3, <1>4, <1>5, <1>6, <1>7, <1>8, <1>9, FilesStep

\* What Goto leaves of the request.
LEMMA GotoIs ==
  ASSUME FilesInv, NEW k \in Clerks, req[k] # Idle, NEW step, Goto(k, step)
  PROVE  \E q : /\ req' = [req EXCEPT ![k] = q]
                /\ step = "idle" => q = Idle
                /\ step # "idle" =>
                     /\ DOMAIN q = AllFields /\ q.step = step /\ q.op = req[k].op /\ q.owner = req[k].owner
                     /\ q.name = req[k].name /\ q.path = req[k].path /\ q.file = req[k].file
                     /\ q.read = req[k].read
<1>1. RequestShape(req[k])
  BY DEF FilesInv
<1>2. CASE step = "idle"
  BY <1>2 DEF Goto
<1>3. CASE step # "idle"
  <2> DEFINE q == [req[k] EXCEPT !.step = step]
  <2>1. req' = [req EXCEPT ![k] = q]
    BY <1>3 DEF Goto
  <2>2. /\ DOMAIN q = AllFields /\ q.step = step /\ q.op = req[k].op /\ q.owner = req[k].owner
        /\ q.name = req[k].name /\ q.path = req[k].path /\ q.file = req[k].file
        /\ q.read = req[k].read
    BY <1>1 DEF RequestShape, AllFields
  <2> HIDE DEF q
  <2> QED BY <1>3, <2>1, <2>2
<1> QED BY <1>2, <1>3

\* Steps that touch neither files nor lists, and end in a step without a claim on them.
LEMMA QuietStep ==
  ASSUME FilesInv, NEW k \in Clerks, req[k] # Idle, NEW step, Goto(k, step),
         UNCHANGED <<server, records, started>>, mixed \subseteq mixed',
         step \in {"idle", "make", "write"},
         step # "idle" => req[k].op = "store",
         req[k].op = "remove" => req[k].owner \in mixed'
  PROVE  FilesInv'
<1>1. PICK q : /\ req' = [req EXCEPT ![k] = q]
               /\ step = "idle" => q = Idle
               /\ step # "idle" =>
                     /\ DOMAIN q = AllFields /\ q.step = step /\ q.op = req[k].op /\ q.owner = req[k].owner
                     /\ q.name = req[k].name /\ q.path = req[k].path /\ q.file = req[k].file
                     /\ q.read = req[k].read
  BY GotoIs
<1>2. PICK o : o = req[k].owner
  OBVIOUS
<1>3. o \in Owners /\ RequestShape(req[k])
  BY <1>2 DEF FilesInv, RequestShape
<1>4. q = Idle \/ (q.op = req[k].op /\ q.owner = o /\ q.file = req[k].file /\ RequestShape(q))
  <2>1. CASE step # "idle"
    <3>1. Storing(req[k])
      BY <1>3, <2>1 DEF RequestShape, Uploading, Removing
    <3> QED BY <1>1, <1>2, <1>3, <2>1, <3>1 DEF RequestShape, Storing
  <2> QED BY <1>1, <2>1
<1>5. q.op \in {"idle", "store"}
  BY <1>1, Facts
<1>6. ServerOK' /\ DOMAIN records' = Owners /\ FilesOf(o, records'[o]) /\ SalesOK(o)
  BY <1>3 DEF FilesInv, ServerOK
<1>7. ASSUME KindOf[o] # "place", o \notin mixed', ListOK(o), Knows(req[k], o) PROVE ListOK(o)' /\ Knows(q, o)'
  <2>0. ~Storing(req[k])
    BY <1>2, <1>7 DEF Storing
  <2>1. req[k].op # "remove" /\ q = Idle
    <3>1. req[k].op # "store"
      BY <1>3, <2>0 DEF RequestShape, Uploading, Removing
    <3> QED BY <1>1, <1>2, <1>7, <3>1
  <2>2. Knows(q, o)'
    BY <1>3, <2>1, Facts DEF Knows
  <2>3. \A c \in Clerks : req[c].op = "remove" => req'[c] = req[c]
    BY <1>1, <2>1 DEF FilesInv
  <2>4. \A r \in records[o] : Stored(o, r)' \/ \E c \in Clerks : Removes(c, o, r)'
    BY <1>7, <2>3 DEF ListOK, Stored, Removes
  <2>5. ListOK(o)'
    BY <1>7, <2>4 DEF ListOK
  <2> QED BY <2>2, <2>5
<1>8. KindOf[o] = "sales" =>
           /\ \A path \in Paths : server[path] # 0 => server'[path] # 0
           /\ \A r \in records'[o] : r.path \in Paths /\ server'[r.path] # 0
           /\ q.op = "upload" /\ q.step \in {"put", "record"} =>
                q.path \in Paths /\ (q.step = "record" => server'[q.path] # 0)
  BY <1>5, <1>6 DEF SalesOK
<1> QED BY <1>1, <1>2, <1>4, <1>5, <1>6, <1>7, <1>8, StepOn

LEMMA ProbeFiles ==
  ASSUME FilesInv, NEW k \in Clerks, Probe(k)
  PROVE  FilesInv'
<1>1. PICK o : o = req[k].owner
  OBVIOUS
<1>2. PICK q : q = [req[k] EXCEPT !.step = "put",
                                  !.path = FirstFree(req[k].owner, req[k].name, {p \in Paths : server[p] # 0})]
  OBVIOUS
<1>3. req[k].step = "probe" /\ req' = [req EXCEPT ![k] = q] /\ UNCHANGED <<server, records, started, mixed>>
  BY <1>2 DEF Probe, tables
<1>4. req[k] # Idle /\ RequestShape(req[k])
  BY <1>3, Facts DEF FilesInv
<1>5. o \in Owners /\ Uploading(req[k]) /\ KindOf[o] = "sales" /\ req[k].name \in Names
  BY <1>1, <1>3, <1>4 DEF RequestShape, Uploading, Removing, Storing
<1>6. LET path == FirstFree(o, req[k].name, {p \in Paths : server[p] # 0}) IN
      path \in Paths /\ server[path] = 0 /\ path[1] = o
  <2> DEFINE taken == {p \in Paths : server[p] # 0}
  <2>1. \A p : p \in taken <=> p \in Paths /\ server[p] # 0
    OBVIOUS
  <2> HIDE DEF taken
  <2>2. LET path == FirstFree(o, req[k].name, taken) IN
        path \in Paths /\ path \notin taken /\ path[1] = o
    BY <1>5, <2>1, FreeName DEF FilesInv
  <2>3. LET path == FirstFree(o, req[k].name, taken) IN
        path \in Paths /\ server[path] = 0 /\ path[1] = o
    BY <2>1, <2>2
  <2> QED BY <2>3 DEF taken
<1>7. /\ DOMAIN q = AllFields /\ q.step = "put" /\ q.op = "upload" /\ q.owner = o /\ q.file = req[k].file
      /\ q.name = req[k].name /\ q.read = req[k].read
      /\ q.path \in Paths /\ server[q.path] = 0 /\ q.path[1] = o
  <2> DEFINE path == FirstFree(req[k].owner, req[k].name, {p \in Paths : server[p] # 0})
  <2>1. path \in Paths /\ server[path] = 0 /\ path[1] = o
    BY <1>1, <1>6
  <2>2. q = [req[k] EXCEPT !.step = "put", !.path = path]
    BY <1>2
  <2> HIDE DEF path
  <2> QED BY <1>1, <1>4, <1>5, <2>1, <2>2 DEF RequestShape, Uploading, AllFields
<1>8. RequestShape(q)
  BY <1>1, <1>4, <1>5, <1>7 DEF RequestShape, Uploading, Searched
<1>9. ServerOK' /\ DOMAIN records' = Owners /\ FilesOf(o, records'[o]) /\ SalesOK(o)
  BY <1>3, <1>5 DEF FilesInv, ServerOK
<1>10. ASSUME o \notin mixed', ListOK(o), \A c \in Clerks : req[c].owner = o => c = k
       PROVE  ListOK(o)' /\ Knows(q, o)'
  <2>1. \A r \in records[o] : Stored(o, r)
    BY <1>1, <1>5, <1>10 DEF ListOK, Removes, Uploading
  <2>2. \A r \in records[o] : r.path # q.path
    BY <1>7, <2>1 DEF Stored
  <2>3. \A r \in records[o] : Stored(o, r)'
    BY <1>3, <2>1 DEF Stored
  <2>4. ListOK(o)'
    BY <1>3, <1>10, <2>3 DEF ListOK
  <2>5. Knows(q, o)'
    BY <1>3, <1>5, <1>7, <2>2 DEF Knows, JsonLists
  <2> QED BY <2>4, <2>5
<1>11. \A r \in records'[o] : r.path \in Paths /\ server'[r.path] # 0
  BY <1>3, <1>5, <1>9 DEF SalesOK
<1>12. req[k].op = "upload"
  BY <1>5 DEF Uploading
<1> QED BY <1>1, <1>3, <1>4, <1>7, <1>8, <1>9, <1>10, <1>11, <1>12, StepOn

-----------------------------------------------------------------------------

\* The file that is put has a name that no record of the folder has, or replaces a file.
LEMMA PutFiles ==
  ASSUME FilesInv, NEW k \in Clerks, Put(k)
  PROVE  FilesInv'
<1>1. PICK o : o = req[k].owner
  OBVIOUS
<1>2. PICK p : p = req[k].path
  OBVIOUS
<1>3. PICK f : f = req[k].file
  OBVIOUS
<1>4. /\ req[k].step = "put" /\ Goto(k, "record") /\ server' = [server EXCEPT ![p] = f]
      /\ UNCHANGED <<records, started, mixed>>
  BY <1>2, <1>3 DEF Put, tables
<1>5. req[k] # Idle /\ RequestShape(req[k]) /\ FileIsNew(req[k])
  BY <1>4, Facts DEF FilesInv
<1>6. o \in Owners /\ Uploading(req[k]) /\ p[1] = o /\ req[k].op = "upload" /\ KindOf[o] # "place"
  BY <1>1, <1>2, <1>4, <1>5 DEF RequestShape, Uploading, Removing, Storing
<1>7. f \in 1..started /\ \A path \in Paths : server[path] # f
  BY <1>3, <1>4, <1>5, <1>6 DEF FileIsNew
<1>8. started \in 0..MaxRequests /\ server \in [Paths -> 0..started]
  BY DEF FilesInv, ServerOK
<1>9. f # 0 /\ f \in 0..started
  BY <1>7, <1>8, Facts
<1>10. \A path \in Paths : server'[path] = IF path = p THEN f ELSE server[path]
  BY <1>4, <1>8
<1>11. ServerOK'
  <2>1. server' \in [Paths -> 0..started]
    BY <1>4, <1>8, <1>9
  <2>2. ASSUME NEW a \in Paths, NEW b \in Paths, server'[a] = server'[b], server'[a] # 0 PROVE a = b
    BY <1>7, <1>10, <2>2 DEF FilesInv, ServerOK
  <2> QED BY <1>4, <1>8, <2>1, <2>2 DEF ServerOK
<1>12. PICK q : /\ req' = [req EXCEPT ![k] = q]
                /\ DOMAIN q = AllFields /\ q.step = "record" /\ q.op = "upload" /\ q.owner = o
                /\ q.name = req[k].name /\ q.path = p /\ q.file = f /\ q.read = req[k].read
  BY <1>1, <1>2, <1>3, <1>4, <1>5, <1>6, GotoIs
<1>13. RequestShape(q)
  BY <1>1, <1>2, <1>5, <1>6, <1>12 DEF RequestShape, Uploading, Searched
<1>14. DOMAIN records' = Owners /\ FilesOf(o, records'[o]) /\ SalesOK(o)
  BY <1>4, <1>6 DEF FilesInv
<1>15. KindOf[o] = "sales" => /\ \A r \in records'[o] : r.path \in Paths /\ server'[r.path] # 0
                              /\ p \in Paths /\ server'[p] # 0
  <2>1. KindOf[o] = "sales" => p \in Paths
    BY <1>1, <1>2, <1>4, <1>6, <1>14 DEF SalesOK
  <2> QED BY <1>4, <1>9, <1>10, <1>14, <2>1 DEF SalesOK
<1>16. ASSUME o \notin mixed', ListOK(o), Knows(req[k], o), \A c \in Clerks : req[c].owner = o => c = k
       PROVE  ListOK(o)' /\ Knows(q, o)'
  <2>1. p \in Paths /\ (Searched(o) => \A r \in records[o] : r.path # p)
    BY <1>1, <1>2, <1>4, <1>6, <1>16 DEF Knows
  <2>2. KindOf[o] \in JsonLists => req[k].read = records[o]
    BY <1>1, <1>16 DEF Knows
  <2>3. ASSUME NEW r \in records[o] PROVE Stored(o, r)'
    <3>1. Stored(o, r) /\ r.path \in Paths
      BY <1>6, <1>16 DEF ListOK, Removes
    <3> QED BY <1>9, <1>10, <2>1, <3>1 DEF Stored, Searched
  <2>4. ListOK(o)'
    BY <1>4, <1>16, <2>3 DEF ListOK, Searched
  <2>5. Stored(o, Entry(q))'
    BY <1>9, <1>10, <1>12, <2>1 DEF Stored, Entry
  <2>6. Knows(q, o)'
    BY <1>4, <1>12, <2>1, <2>2, <2>5 DEF Knows, Searched
  <2> QED BY <2>4, <2>6
<1>17. \A path \in Paths : path[1] # o => server'[path] = server[path]
  BY <1>6, <1>10
<1>18. \A path \in Paths : server'[path] = server[path] \/ server'[path] = req[k].file
  BY <1>3, <1>10
<1>19. \A path \in Paths : server[path] # 0 => server'[path] # 0
  BY <1>9, <1>10
<1>20. ASSUME KindOf[o] = "sales"
       PROVE  /\ \A path \in Paths : server[path] # 0 => server'[path] # 0
              /\ \A r \in records'[o] : r.path \in Paths /\ server'[r.path] # 0
              /\ q.op = "upload" /\ q.step \in {"put", "record"} =>
                   q.path \in Paths /\ (q.step = "record" => server'[q.path] # 0)
  BY <1>12, <1>15, <1>19, <1>20
<1>21. \A path \in Paths : \/ server'[path] \in {server[path], 0}
                           \/ req[k].op = "upload" /\ server'[path] = req[k].file
  BY <1>6, <1>18
<1>22. q = Idle \/ (q.op = req[k].op /\ q.owner = o /\ q.file = req[k].file /\ RequestShape(q))
  BY <1>3, <1>6, <1>12, <1>13
<1>23. q.step = "record"
  BY <1>12
<1>24. mixed \subseteq mixed' /\ started' = started /\ \A a \in Owners \ {o} : records'[a] = records[a]
  BY <1>4
<1> QED BY <1>1, <1>5, <1>11, <1>12, <1>14, <1>16, <1>17, <1>20, <1>21, <1>22, <1>23, <1>24, StepOn

\* The entry that is recorded is of the file that was put.
LEMMA RecordFiles ==
  ASSUME FilesInv, NEW k \in Clerks, Record(k)
  PROVE  FilesInv'
<1>1. PICK o : o = req[k].owner
  OBVIOUS
<1>2. PICK e : e = Entry(req[k])
  OBVIOUS
<1>3. PICK new : new = Recorded(req[k])
  OBVIOUS
<1>4. PICK step : step = IF KindOf[o] = "sales" THEN "log" ELSE "idle"
  OBVIOUS
<1>5. /\ req[k].step = "record" /\ req[k].op = "upload" /\ Goto(k, step)
      /\ records' = [records EXCEPT ![o] = new]
      /\ UNCHANGED <<server, started, mixed>>
  BY <1>1, <1>3, <1>4 DEF Record
<1>6. req[k] # Idle /\ RequestShape(req[k])
  BY <1>5, Facts DEF FilesInv
<1>7. o \in Owners /\ Uploading(req[k]) /\ KindOf[o] # "place" /\ FilesOf(o, records[o]) /\ SalesOK(o)
  BY <1>1, <1>5, <1>6 DEF FilesInv, RequestShape, Uploading, Removing, Storing
<1>8. e = [path |-> e.path, file |-> e.file] /\ e.path = req[k].path /\ e.file = req[k].file /\ e.path[1] = o
  BY <1>1, <1>2, <1>6 DEF Entry, RequestShape
<1>9. KindOf[o] \in Kinds
  BY <1>7, Facts
<1>10. \/ new \in {records[o], records[o] \cup {e}}
       \/ KindOf[o] \in JsonLists /\ new = req[k].read \cup {e}
  BY <1>1, <1>2, <1>3, <1>7, <1>9 DEF Recorded, WrittenList, Kinds, JsonLists
<1>11. records'[o] = new /\ DOMAIN records' = Owners /\ \A p \in Owners \ {o} : records'[p] = records[p]
  BY <1>5, <1>7 DEF FilesInv
<1>12. FilesOf(o, new)
  BY <1>1, <1>6, <1>7, <1>8, <1>10 DEF FilesOf, RequestShape
<1>13. ServerOK'
  BY <1>5 DEF FilesInv, ServerOK
<1>14. PICK q : /\ req' = [req EXCEPT ![k] = q]
                /\ step = "idle" => q = Idle
                /\ step # "idle" =>
                     /\ DOMAIN q = AllFields /\ q.step = step /\ q.op = req[k].op /\ q.owner = req[k].owner
                     /\ q.name = req[k].name /\ q.path = req[k].path /\ q.file = req[k].file
                     /\ q.read = req[k].read
  BY <1>5, <1>6, GotoIs
<1>15. q = Idle \/ (q.op = "upload" /\ q.step = "log" /\ q.owner = o /\ q.file = req[k].file /\ RequestShape(q))
  <2>1. CASE KindOf[o] = "sales"
    <3>1. /\ DOMAIN q = AllFields /\ q.step = "log" /\ q.op = "upload" /\ q.owner = o
          /\ q.name = req[k].name /\ q.path = req[k].path /\ q.file = req[k].file /\ q.read = req[k].read
      BY <1>1, <1>4, <1>5, <1>14, <2>1
    <3>2. Uploading(q)
      BY <1>1, <1>7, <2>1, <3>1 DEF Uploading, Searched
    <3> QED BY <1>1, <1>6, <1>7, <3>1, <3>2 DEF RequestShape
  <2> QED BY <1>4, <1>14, <2>1
<1>16. q.op = "idle" \/ q.step = "log"
  BY <1>15, Facts
<1>17. KindOf[o] = "sales" => \A r \in records'[o] : r.path \in Paths /\ server'[r.path] # 0
  <2>1. KindOf[o] = "sales" => e.path \in Paths /\ server[e.path] # 0
    BY <1>1, <1>5, <1>7, <1>8 DEF SalesOK
  <2> QED BY <1>5, <1>7, <1>10, <1>11, <2>1 DEF SalesOK, JsonLists
<1>18. ASSUME o \notin mixed', ListOK(o), Knows(req[k], o), \A c \in Clerks : req[c].owner = o => c = k
       PROVE  ListOK(o)' /\ Knows(q, o)'
  <2>1. e.path \in Paths /\ Stored(o, e) /\ (Searched(o) => \A r \in records[o] : r.path # e.path)
    BY <1>1, <1>2, <1>5, <1>8, <1>18 DEF Knows
  <2>2. new \in {records[o], records[o] \cup {e}}
    BY <1>1, <1>10, <1>18 DEF Knows
  <2>3. \A r \in records[o] : Stored(o, r)
    BY <1>5, <1>18 DEF ListOK, Removes
  <2>4. KindOf[o] = "dispatch" => e.path = <<o, NameIn(e), 0>>
    BY <1>1, <1>7, <1>8 DEF Uploading, Searched, NameIn
  <2>5. \A r \in new : r.path \in Paths /\ (KindOf[o] = "dispatch" => r.path = <<o, NameIn(r), 0>>) /\ Stored(o, r)
    BY <1>18, <2>1, <2>2, <2>3, <2>4 DEF ListOK
  <2>6. Searched(o) => \A r, s \in new : r.path = s.path => r = s
    BY <1>18, <2>1, <2>2 DEF ListOK
  <2>7. ListOK(o)'
    BY <1>5, <1>11, <2>5, <2>6 DEF ListOK, Stored, Searched
  <2>8. Knows(q, o)'
    BY <1>4, <1>7, <1>14, <1>15, <1>16, Facts DEF Knows, JsonLists
  <2> QED BY <2>7, <2>8
<1>19. ASSUME KindOf[o] = "sales"
       PROVE  /\ \A path \in Paths : server[path] # 0 => server'[path] # 0
              /\ \A r \in records'[o] : r.path \in Paths /\ server'[r.path] # 0
              /\ q.op = "upload" /\ q.step \in {"put", "record"} =>
                   q.path \in Paths /\ (q.step = "record" => server'[q.path] # 0)
  BY <1>5, <1>16, <1>17, <1>19
<1>20. \A path \in Paths : \/ server'[path] \in {server[path], 0}
                           \/ req[k].op = "upload" /\ server'[path] = req[k].file
  BY <1>5
<1>21. q = Idle \/ (q.op = req[k].op /\ q.owner = o /\ q.file = req[k].file /\ RequestShape(q))
  BY <1>5, <1>15
<1>22. ~(q.op = "upload" /\ q.step \in {"probe", "put"})
  BY <1>16
<1>23. mixed \subseteq mixed' /\ started' = started /\ server' = server
  BY <1>5
<1>24. FilesOf(o, records'[o])
  BY <1>11, <1>12
<1> QED BY <1>1, <1>6, <1>11, <1>13, <1>14, <1>18, <1>19, <1>20, <1>21, <1>22, <1>23, <1>24, StepOn

-----------------------------------------------------------------------------

\* A removal that has deleted the file still has to remove its record.
LEMMA UnlinkFiles ==
  ASSUME FilesInv, NEW k \in Clerks, NEW fails \in BOOLEAN, Unlink(k, fails)
  PROVE  FilesInv'
<1>1. PICK o : o = req[k].owner
  OBVIOUS
<1>2. PICK p : p = req[k].path
  OBVIOUS
<1>3. /\ req[k].step = "unlink" /\ Goto(k, "record") /\ UNCHANGED <<records, started, mixed>>
      /\ server' = server \/ server' = [server EXCEPT ![p] = 0]
  BY <1>2 DEF Unlink, tables
<1>4. req[k] # Idle /\ RequestShape(req[k])
  BY <1>3, Facts DEF FilesInv
<1>5. o \in Owners /\ Removing(req[k]) /\ p[1] = o /\ req[k].op = "remove"
  BY <1>1, <1>2, <1>3, <1>4 DEF RequestShape, Uploading, Removing, Storing
<1>6. started \in 0..MaxRequests /\ server \in [Paths -> 0..started] /\ 0 \in 0..started
  BY Facts DEF FilesInv, ServerOK
<1>7. \A path \in Paths : server'[path] = server[path] \/ (path = p /\ server'[path] = 0)
  BY <1>3, <1>6
<1>8. ServerOK'
  <2>1. server' \in [Paths -> 0..started]
    BY <1>3, <1>6
  <2>2. ASSUME NEW a \in Paths, NEW b \in Paths, server'[a] = server'[b], server'[a] # 0 PROVE a = b
    BY <1>7, <2>2 DEF FilesInv, ServerOK
  <2> QED BY <1>3, <1>6, <2>1, <2>2 DEF ServerOK
<1>9. PICK q : /\ req' = [req EXCEPT ![k] = q]
               /\ DOMAIN q = AllFields /\ q.step = "record" /\ q.op = "remove" /\ q.owner = o
               /\ q.name = req[k].name /\ q.path = p /\ q.file = req[k].file /\ q.read = req[k].read
  BY <1>1, <1>2, <1>3, <1>4, <1>5, GotoIs
<1>10. RequestShape(q)
  BY <1>1, <1>2, <1>4, <1>5, <1>9 DEF RequestShape, Removing
<1>11. DOMAIN records' = Owners /\ FilesOf(o, records'[o])
  BY <1>3, <1>5 DEF FilesInv
<1>12. KindOf[o] \in {"erp", "dispatch"}
  BY <1>1, <1>5 DEF Removing
<1>13. ASSUME ListOK(o), Knows(req[k], o), \A c \in Clerks : req[c].owner = o => c = k
       PROVE  ListOK(o)' /\ Knows(q, o)'
  <2>1. req'[k] = q
    BY <1>9 DEF FilesInv
  <2>2. ASSUME NEW r \in records[o] PROVE Stored(o, r)' \/ Removes(k, o, r)'
    <3>1. CASE r.path = p
      BY <1>9, <2>1, <3>1 DEF Removes
    <3>2. CASE r.path # p
      <4>1. Stored(o, r) /\ r.path \in Paths
        BY <1>2, <1>13, <3>2 DEF ListOK, Removes
      <4> QED BY <1>7, <3>2, <4>1 DEF Stored, Searched
    <3> QED BY <3>1, <3>2
  <2>3. ListOK(o)'
    BY <1>3, <1>13, <2>2 DEF ListOK, Searched
  <2>4. Entry(q) = Entry(req[k])
    BY <1>2, <1>9 DEF Entry
  <2>5. q.path = req[k].path /\ records' = records /\ req[k].op = "remove" /\ req[k].owner = o
    BY <1>1, <1>2, <1>3, <1>5, <1>9
  <2>6. KindOf[o] = "erp" => \A r \in records'[o] : r.path = q.path => r = Entry(q)
    BY <1>13, <2>4, <2>5 DEF Knows
  <2>7. KindOf[o] \in JsonLists => q.read = records'[o]
    BY <1>9, <1>13, <2>5 DEF Knows
  <2>8. Entry(q)' = Entry(q)
    BY DEF Entry
  <2>9. Knows(q, o)'
    BY <1>9, <2>6, <2>7, <2>8 DEF Knows
  <2> QED BY <2>3, <2>9
<1>14. \A path \in Paths : path[1] # o => server'[path] = server[path]
  BY <1>5, <1>7
<1>15. \A path \in Paths : server'[path] \in {server[path], 0}
  BY <1>7
<1>16. q = Idle \/ (q.op = req[k].op /\ q.owner = o /\ q.file = req[k].file /\ RequestShape(q))
  BY <1>5, <1>9, <1>10
<1>17. q.op # "upload" /\ KindOf[o] # "sales"
  BY <1>9, <1>12
<1>18. mixed \subseteq mixed' /\ started' = started /\ \A a \in Owners \ {o} : records'[a] = records[a]
  BY <1>3
<1> QED BY <1>1, <1>4, <1>8, <1>9, <1>11, <1>13, <1>14, <1>15, <1>16, <1>17, <1>18, StepOn

\* Records of the file that was removed are gone, whether its name or its row was removed.
LEMMA ForgetFiles ==
  ASSUME FilesInv, NEW k \in Clerks, Forget(k)
  PROVE  FilesInv'
<1>1. PICK o : o = req[k].owner
  OBVIOUS
<1>2. PICK new : new = IF KindOf[o] = "erp" THEN records[o] \ {Entry(req[k])}
                       ELSE {r \in req[k].read : NameIn(r) # req[k].name}
  OBVIOUS
<1>3. req[k].op = "remove" /\ req[k].step = "record" /\ Goto(k, "idle") /\ UNCHANGED <<server, started, mixed>>
  BY DEF Forget
<1>4. req[k] # Idle /\ RequestShape(req[k])
  BY <1>3, Facts DEF FilesInv
<1>5. o \in Owners /\ Removing(req[k]) /\ FilesOf(o, records[o]) /\ FilesOf(o, req[k].read)
  BY <1>1, <1>3, <1>4 DEF FilesInv, RequestShape, Uploading, Storing
<1>6. records' = [records EXCEPT ![o] = new]
  BY <1>1, <1>2, <1>3, <1>5 DEF Forget, FilesInv
<1>7. DOMAIN records' = Owners /\ records'[o] = new /\ \A a \in Owners \ {o} : records'[a] = records[a]
  BY <1>5, <1>6 DEF FilesInv
<1>8. KindOf[o] \in {"erp", "dispatch"} /\ req[k].name = req[k].path[2]
  BY <1>1, <1>5 DEF Removing
<1>9. FilesOf(o, records'[o])
  BY <1>2, <1>5, <1>7 DEF FilesOf
<1>10. PICK q : q = Idle /\ req' = [req EXCEPT ![k] = q]
  BY <1>3, <1>4, GotoIs
<1>11. ServerOK'
  BY <1>3 DEF FilesInv, ServerOK
<1>12. ASSUME ListOK(o), Knows(req[k], o), \A c \in Clerks : req[c].owner = o => c = k
       PROVE  ListOK(o)' /\ Knows(q, o)'
  <2>1. new \subseteq records[o]
    BY <1>1, <1>2, <1>8, <1>12 DEF Knows, JsonLists
  <2>2. ASSUME NEW r \in new PROVE r.path # req[k].path
    <3>1. CASE KindOf[o] = "erp"
      <4>1. r \in records[o] /\ (r.path = req[k].path => r = Entry(req[k]))
        BY <1>1, <1>3, <1>12, <2>1, <2>2, <3>1 DEF Knows
      <4> QED BY <1>2, <2>2, <3>1, <4>1
    <3>2. CASE KindOf[o] # "erp"
      BY <1>2, <1>8, <3>2 DEF NameIn
    <3> QED BY <3>1, <3>2
  <2>3. \A r \in new : Stored(o, r)
    BY <1>12, <2>1, <2>2 DEF ListOK, Removes
  <2>4. ListOK(o)'
    BY <1>3, <1>7, <1>12, <2>1, <2>3 DEF ListOK, Stored, Searched
  <2>5. Knows(q, o)'
    BY <1>5, <1>10, Facts DEF Knows
  <2> QED BY <2>4, <2>5
<1>13. q.op = "idle" /\ KindOf[o] # "sales"
  BY <1>8, <1>10, Facts
<1>14. mixed \subseteq mixed' /\ started' = started /\ server' = server
  BY <1>3
<1> QED BY <1>1, <1>4, <1>7, <1>9, <1>10, <1>11, <1>12, <1>13, <1>14, StepOn

-----------------------------------------------------------------------------

LEMMA WriteFiles ==
  ASSUME FilesInv, NEW k \in Clerks, WritePlaces(k)
  PROVE  FilesInv'
<1>1. PICK o : o = req[k].owner
  OBVIOUS
<1>2. PICK new : new = WrittenList(req[k])
  OBVIOUS
<1>3. /\ req[k].step = "write" /\ records' = [records EXCEPT ![o] = new] /\ Goto(k, "date")
      /\ UNCHANGED <<server, started, mixed>>
  BY <1>1, <1>2 DEF WritePlaces
<1>4. req[k] # Idle /\ RequestShape(req[k])
  BY <1>3, Facts DEF FilesInv
<1>5. o \in Owners /\ Storing(req[k]) /\ KindOf[o] = "place" /\ FilesOf(o, req[k].read) /\ req[k].path[1] = o
  BY <1>1, <1>3, <1>4 DEF RequestShape, Uploading, Removing, Storing
<1>6. DOMAIN records' = Owners /\ records'[o] = new /\ \A a \in Owners \ {o} : records'[a] = records[a]
  BY <1>3, <1>5 DEF FilesInv
<1>7. FilesOf(o, new)
  BY <1>2, <1>5 DEF FilesOf, WrittenList, Entry
<1>8. ServerOK'
  BY <1>3 DEF FilesInv, ServerOK
<1>9. PICK q : /\ req' = [req EXCEPT ![k] = q]
               /\ DOMAIN q = AllFields /\ q.step = "date" /\ q.op = req[k].op /\ q.owner = o
               /\ q.name = req[k].name /\ q.path = req[k].path /\ q.file = req[k].file
               /\ q.read = req[k].read
  BY <1>1, <1>3, <1>4, GotoIs
<1>10. RequestShape(q)
  BY <1>5, <1>9 DEF RequestShape, Storing
<1>11. q.op = "store" /\ KindOf[o] # "sales"
  BY <1>5, <1>9 DEF Storing
<1>12. q = Idle \/ (q.op = req[k].op /\ q.owner = o /\ q.file = req[k].file /\ RequestShape(q))
  BY <1>9, <1>10
<1>13. mixed \subseteq mixed' /\ started' = started /\ server' = server /\ FilesOf(o, records'[o])
  BY <1>3, <1>6, <1>7
<1> QED BY <1>1, <1>4, <1>5, <1>6, <1>8, <1>9, <1>11, <1>12, <1>13, StepOn

\* A step that no request takes, and that gives one owner other places, or no list.
LEMMA ListFiles ==
  ASSUME FilesInv, NEW o \in Owners, NEW new, records' = [records EXCEPT ![o] = new],
         UNCHANGED <<server, req>>, mixed \subseteq mixed', started \in Nat,
         started' \in {started, started + 1}, started' \in 0..MaxRequests,
         FilesOf(o, new), KindOf[o] # "place" => new \subseteq records[o] /\ (Shared(o) \/ o \in mixed')
  PROVE  FilesInv'
<1>2. DOMAIN records' = Owners /\ records'[o] = new /\ \A a \in Owners \ {o} : records'[a] = records[a]
  BY DEF FilesInv
<1>3. ASSUME NEW p \in Owners PROVE FilesOf(p, records[p])' /\ SalesOK(p)' /\ OwnerOK(p)'
  <2>1. CASE p = o
    <3>1. FilesOf(o, records[o])'
      BY <1>2 DEF FilesOf
    <3>2. SalesOK(o)'
      <4>1. SalesOK(o)
        BY DEF FilesInv
      <4> QED BY <1>2, <4>1 DEF SalesOK
    <3>3. ASSUME KindOf[o] # "place", o \notin mixed'
          PROVE  ListOK(o)' /\ \A c \in Clerks : Knows(req[c], o)'
      <4>1. records'[o] \subseteq records[o] /\ KindOf[o] \notin JsonLists /\ OwnerOK(o)
        BY <1>2, <3>3 DEF Shared, JsonLists, FilesInv
      <4>2. \A c \in Clerks : Knows(req[c], o)
        BY <3>3, <4>1 DEF OwnerOK
      <4>3. \A c \in Clerks : Knows(req[c], o)'
        BY <4>1, <4>2 DEF Knows, Stored, Searched, Entry
      <4>4. ListOK(o)'
        BY <3>3, <4>1 DEF OwnerOK, ListOK, Stored, Removes, Searched
      <4> QED BY <4>3, <4>4
    <3> QED BY <2>1, <3>1, <3>2, <3>3 DEF OwnerOK
  <2>2. CASE p # o
    <3>1. records'[p] = records[p] /\ FilesOf(p, records[p]) /\ SalesOK(p) /\ OwnerOK(p)
      BY <1>2, <2>2 DEF FilesInv
    <3>2. FilesOf(p, records[p])' /\ SalesOK(p)'
      BY <3>1 DEF FilesOf, SalesOK
    <3>3. ListOK(p) => ListOK(p)'
      BY <3>1 DEF ListOK, Stored, Removes, Searched
    <3>4. \A c \in Clerks : Knows(req[c], p) => Knows(req[c], p)'
      BY <3>1 DEF Knows, Stored, Searched, Entry
    <3> QED BY <3>1, <3>2, <3>3, <3>4 DEF OwnerOK
  <2> QED BY <2>1, <2>2
<1>4. ServerOK'
  <2>1. server \in [Paths -> 0..started] /\ \A p, q \in Paths : server[p] = server[q] /\ server[p] # 0 => p = q
    BY DEF FilesInv, ServerOK
  <2>2. \A i \in 0..started : i \in 0..started'
    OBVIOUS
  <2>3. server' \in [Paths -> 0..started']
    BY <2>1, <2>2
  <2> QED BY <2>1, <2>3 DEF ServerOK
<1>5. ASSUME NEW c \in Clerks PROVE RequestShape(req[c])' /\ FileIsNew(req[c])'
  <2>1. RequestShape(req[c])'
    BY DEF FilesInv, RequestShape, Uploading, Removing, Storing, Searched, FilesOf
  <2>2. FileIsNew(req[c])
    BY DEF FilesInv
  <2>3. FileIsNew(req[c])'
    BY <2>2 DEF FileIsNew
  <2> QED BY <2>1, <2>3
<1>6. \A c, d \in Clerks : c # d => Apart(req[c], req[d])'
  BY DEF FilesInv, Apart
<1> QED BY <1>2, <1>3, <1>4, <1>5, <1>6 DEF FilesInv

LEMMA ClearFiles ==
  ASSUME FilesInv, NEW o \in Owners, ClearPlaces(o)
  PROVE  FilesInv'
<1>1. /\ KindOf[o] = "place" /\ records' = [records EXCEPT ![o] = {}]
      /\ UNCHANGED <<server, req, started, mixed>> /\ FilesOf(o, {})
  BY DEF ClearPlaces, FilesOf
<1>2. started \in 0..MaxRequests /\ started \in Nat
  BY Facts DEF FilesInv, ServerOK
<1> QED BY <1>1, <1>2, ListFiles

LEMMA DropFiles ==
  ASSUME FilesInv, NEW o \in Owners, NEW S \in SUBSET records[o], NEW archived \in BOOLEAN,
         Drop(o, S, archived)
  PROVE  FilesInv'
<1>1. /\ records' = [records EXCEPT ![o] = records[o] \ S] /\ UNCHANGED <<server, req>>
      /\ started < MaxRequests /\ started' = started + 1 /\ FilesOf(o, records[o] \ S)
      /\ mixed' = IF Shared(o) THEN mixed ELSE mixed \cup {o}
  BY DEF Drop, FilesInv, FilesOf
<1>2. started \in 0..MaxRequests /\ started \in Nat /\ started' \in 0..MaxRequests
  BY <1>1, Facts DEF FilesInv, ServerOK
<1> QED BY <1>1, <1>2, ListFiles

LEMMA OverwriteFiles ==
  ASSUME FilesInv, NEW o \in Owners, NEW given \in {{}} \cup {{r} : r \in Places(o)}, NEW D,
         OverwritePlaces(o, given, D)
  PROVE  FilesInv'
<1>1. /\ records' = [records EXCEPT ![o] = given] /\ UNCHANGED <<server, req, mixed>>
      /\ started < MaxRequests /\ started' = started + 1 /\ KindOf[o] = "place"
  BY DEF OverwritePlaces
<1>2. started \in 0..MaxRequests /\ started \in Nat /\ started' \in 0..MaxRequests
  BY <1>1, Facts DEF FilesInv, ServerOK
<1>3. FilesOf(o, given)
  <2>1. \A r \in Places(o) : r = [path |-> r.path, file |-> r.file] /\ r.path[1] = o
    BY DEF Places
  <2>2. \A r \in given : r \in Places(o)
    OBVIOUS
  <2> QED BY <2>1, <2>2 DEF FilesOf
<1> QED BY <1>1, <1>2, <1>3, ListFiles

\* A folder is deleted, with those in it: none of the sales desk's, and none that is judged.
LEMMA PurgeFiles ==
  ASSUME FilesInv, NEW o \in Owners, Purge(o)
  PROVE  FilesInv'
<1>1. /\ server' = [p \in Paths |-> IF p[1] \in Inside[o] THEN 0 ELSE server[p]]
      /\ mixed' = mixed \cup Inside[o] /\ UNCHANGED <<records, req, started>>
      /\ KindOf[o] # "sales"
  BY DEF Purge
<1>2. \A p \in Inside[o] : KindOf[p] # "sales"
  BY <1>1, AttachmentsAssumption
<1>3. started \in 0..MaxRequests /\ server \in [Paths -> 0..started] /\ 0 \in 0..started
  BY Facts DEF FilesInv, ServerOK
<1>4. \A p \in Paths : server'[p] = IF p[1] \in Inside[o] THEN 0 ELSE server[p]
  BY <1>1
<1>5. ServerOK'
  <2>1. server' \in [Paths -> 0..started]
    BY <1>1, <1>3
  <2>2. ASSUME NEW p \in Paths, NEW q \in Paths, server'[p] = server'[q], server'[p] # 0 PROVE p = q
    BY <1>4, <2>2 DEF FilesInv, ServerOK
  <2> QED BY <1>1, <1>3, <2>1, <2>2 DEF ServerOK
<1>6. ASSUME NEW c \in Clerks PROVE RequestShape(req[c])' /\ FileIsNew(req[c])'
  <2>1. RequestShape(req[c])'
    BY <1>1 DEF FilesInv, RequestShape, Uploading, Removing, Storing, Searched, FilesOf
  <2>2. FileIsNew(req[c])
    BY DEF FilesInv
  <2>3. req[c].op = "upload" => req[c].file # 0
    BY <1>3, <2>2, Facts DEF FileIsNew
  <2>4. FileIsNew(req[c])'
    BY <1>1, <1>4, <2>2, <2>3 DEF FileIsNew
  <2> QED BY <2>1, <2>4
<1>7. \A c, d \in Clerks : c # d => Apart(req[c], req[d])'
  BY <1>1 DEF FilesInv, Apart
<1>8. ASSUME NEW p \in Owners PROVE FilesOf(p, records[p])' /\ SalesOK(p)' /\ OwnerOK(p)'
  <2>1. FilesOf(p, records[p]) /\ SalesOK(p) /\ OwnerOK(p)
    BY DEF FilesInv
  <2>2. CASE p \in Inside[o]
    BY <1>1, <1>2, <2>1, <2>2 DEF FilesOf, SalesOK, OwnerOK
  <2>3. CASE p \notin Inside[o]
    <3>1. \A path \in Paths : path[1] = p => server'[path] = server[path]
      BY <1>4, <2>3
    <3>2. \A c \in Clerks : req[c].owner = p => req[c].path[1] = p
      BY Facts DEF FilesInv, RequestShape
    <3>3. SalesOK(p)'
      BY <1>1, <2>1, <3>1, <3>2 DEF SalesOK, FilesOf
    <3>4. ListOK(p) => ListOK(p)'
      BY <1>1, <2>1, <3>1 DEF ListOK, Stored, Removes, Searched, FilesOf
    <3>5. \A c \in Clerks : Knows(req[c], p) => Knows(req[c], p)'
      BY <1>1, <3>1, <3>2 DEF Knows, Stored, Searched, Entry
    <3> QED BY <1>1, <2>1, <3>3, <3>4, <3>5 DEF OwnerOK, FilesOf
  <2> QED BY <2>2, <2>3
<1> QED BY <1>1, <1>5, <1>6, <1>7, <1>8 DEF FilesInv

LEMMA FilesInit == AttachInit => FilesInv
<1> SUFFICES ASSUME AttachInit PROVE FilesInv
  OBVIOUS
<1>1. /\ server = [p \in Paths |-> 0] /\ records = [o \in Owners |-> {}]
      /\ req = [k \in Clerks |-> Idle] /\ started = 0
  BY DEF AttachInit
<1>2. ServerOK
  BY <1>1, Facts DEF ServerOK
<1>3. \A k \in Clerks : RequestShape(req[k]) /\ FileIsNew(req[k])
  BY <1>1, Facts DEF RequestShape, FileIsNew
<1>4. \A k, c \in Clerks : Apart(req[k], req[c])
  BY <1>1, Facts DEF Apart
<1>5. ASSUME NEW o \in Owners PROVE FilesOf(o, records[o]) /\ SalesOK(o) /\ OwnerOK(o)
  <2>1. records[o] = {} /\ \A k \in Clerks : req[k].owner # o
    BY <1>1, Facts
  <2> QED BY <2>1 DEF FilesOf, SalesOK, OwnerOK, ListOK, Knows
<1> QED BY <1>1, <1>2, <1>3, <1>4, <1>5 DEF FilesInv

LEMMA FilesNext == FilesInv /\ [AttachNext]_fileVars => FilesInv'
<1> SUFFICES ASSUME FilesInv, [AttachNext]_fileVars PROVE FilesInv'
  OBVIOUS
<1>s. ASSUME NEW k \in Clerks, req[k].step # "idle"
      PROVE  req[k] # Idle /\ RequestShape(req[k])
  BY <1>s, Facts DEF FilesInv
<1>1. ASSUME NEW k \in Clerks, Log(k) PROVE FilesInv'
  <2>1. req[k].step = "log" /\ Goto(k, "idle") /\ UNCHANGED <<server, records, started, mixed>>
    BY <1>1 DEF Log
  <2>2. req[k].op # "remove" /\ req[k] # Idle
    BY <1>s, <2>1 DEF RequestShape, Uploading, Removing, Storing
  <2> QED BY <2>1, <2>2, QuietStep
<1>2. ASSUME NEW k \in Clerks, FindTransporter(k) PROVE FilesInv'
  <2>1. PICK step : step \in {"make", "write"} /\ Goto(k, step)
    BY <1>2 DEF FindTransporter
  <2>2. req[k].step = "find" /\ UNCHANGED <<server, records, started, mixed>>
    BY <1>2 DEF FindTransporter, tables
  <2>3. req[k].op = "store" /\ req[k] # Idle
    BY <1>s, <2>2 DEF RequestShape, Uploading, Removing, Storing
  <2> QED BY <2>1, <2>2, <2>3, QuietStep
<1>3. ASSUME NEW k \in Clerks, MakeTransporter(k) PROVE FilesInv'
  <2>1. req[k].step = "make" /\ Goto(k, "write") /\ UNCHANGED <<server, records, started, mixed>>
    BY <1>3 DEF MakeTransporter
  <2>2. req[k].op = "store" /\ req[k] # Idle
    BY <1>s, <2>1 DEF RequestShape, Uploading, Removing, Storing
  <2> QED BY <2>1, <2>2, QuietStep
<1>4. ASSUME NEW k \in Clerks, DateStorage(k) PROVE FilesInv'
  <2>1. req[k].step = "date" /\ Goto(k, "idle") /\ UNCHANGED <<server, records, started, mixed>>
    BY <1>4 DEF DateStorage
  <2>2. req[k].op # "remove" /\ req[k] # Idle
    BY <1>s, <2>1 DEF RequestShape, Uploading, Removing, Storing
  <2> QED BY <2>1, <2>2, QuietStep
<1>5. ASSUME NEW k \in Clerks, Fail(k) PROVE FilesInv'
  <2>1. req[k] # Idle /\ Goto(k, "idle") /\ UNCHANGED <<server, records, started>>
    BY <1>5 DEF Fail, tables
  <2>2. mixed \subseteq mixed' /\ (req[k].op = "remove" => req[k].owner \in mixed')
    BY <1>5 DEF Fail
  <2> QED BY <2>1, <2>2, QuietStep
<1>6. ASSUME UNCHANGED fileVars PROVE FilesInv'
  <2>1. UNCHANGED <<server, records, req, started, mixed>>
    BY <1>6 DEF fileVars
  <2> QED BY <2>1 DEF FilesInv, ServerOK, RequestShape, FileIsNew, Uploading, Removing, Storing, Searched,
                      FilesOf, Apart, SalesOK, OwnerOK, ListOK, Knows, Stored, Removes, Entry
<1> QED BY <1>1, <1>2, <1>3, <1>4, <1>5, <1>6, UploadFiles, PlaceFiles, RemoveFiles, UnlinkFiles,
           ProbeFiles, PutFiles, RecordFiles, ForgetFiles, WriteFiles, ClearFiles, DropFiles,
           OverwriteFiles, PurgeFiles DEF AttachNext

\* A file that is recorded is on the server, under the name that was looked for and as it
\* was recorded, unless requests on its folder overlapped, its removal runs or was cut
\* short, or its folder was deleted with an archive; a file of the sales desk whatever
\* overlaps and is archived.  It rests on the name that is chosen
\* being free (there are more numbers to add than requests), on an upload recording the
\* file it put, and on a removal that deletes a file before its record being there to
\* remove that one.
THEOREM RecordedAlwaysThere == AttachSpec => []RecordedFileIsThere
<1>1. AttachInit => FilesInv
  BY FilesInit
<1>2. FilesInv /\ [AttachNext]_fileVars => FilesInv'
  BY FilesNext
<1>3. FilesInv => RecordedFileIsThere
  BY InvRecorded
<1> QED BY <1>1, <1>2, <1>3, PTL DEF AttachSpec
=============================================================================
