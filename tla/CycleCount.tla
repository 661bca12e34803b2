----------------------------- MODULE CycleCount -----------------------------
(***************************************************************************)
(* Cycle count audits: CycleCountService, and the numbering it shares with *)
(* the BOM audits (nextAuditNo).  A clerk uploads the stock, previews a    *)
(* plan of storage bins, and releases it: one transaction makes an audit   *)
(* for each operator.  Every audit takes a number under an advisory lock,  *)
(* from a counter of the month that survives the deletion of audits; only  *)
(* a month that has no counter yet starts from the numbers in the table.   *)
(* Numbers of movements only rank the candidates and are left out.         *)
(***************************************************************************)
EXTENDS Integers, Sequences, FiniteSets

CONSTANTS
  Bins,         \* storage bins, in their natural order
  Uploads,      \* the stock files there are to upload
  RowsOf,       \* rows of a file, after cleaning
  ColumnsOf,    \* which of the optional columns "cnc" and "class" a file has
  Criteria,     \* the filters that clerks choose
  Picks,        \* bound: the sets of bins that clerks pick from the candidates
  Operators,    \* users with the role USER
  Clerks,       \* releases that can run at a time
  Months,       \* bound: the months numbered 1..Months
  MaxPerMonth,  \* AUDIT_NO_MAX_PER_MONTH
  Legacy,       \* audits of month 1 made before there were counters
  None

ASSUME CycleCountAssumption ==
  /\ Criteria \subseteq [cnc : {"BOTH", "WITH_CNC", "WITHOUT_CNC"}, classes : (SUBSET {"A", "B", "C"}) \ {{}}]
  /\ Bins \subseteq Nat /\ IsFiniteSet(Bins) /\ Picks \subseteq (SUBSET Bins) \ {{}}
  /\ Months \in Nat \ {0} /\ MaxPerMonth \in Nat \ {0}
  /\ Legacy \in 0..MaxPerMonth
  /\ None \notin Int \cup Clerks \cup Operators \cup Uploads

Numbers == (1..Months) \X (1..MaxPerMonth)
Classes == {"A", "B", "C"}
Row == [bin : Bins \cup {None}, material : BOOLEAN, qty : {"invalid", "zero", "some"},
        long : BOOLEAN, cnc : {"yes", "no", None}, class : Classes \cup {None}]

VARIABLES
  uploads,  \* CycleCountStockUpload: the files stored
  audits,   \* CycleCountAudit with its locations
  counter,  \* AuditNoSequence of the prefix, by month
  month,    \* the month in IST
  lock,     \* who holds the advisory lock
  job,      \* the releases: from the preview to the commit
  given,    \* history: numbers that a release has committed
  twice     \* history: ... and another one again

vars == <<uploads, audits, counter, month, lock, job, given, twice>>

Idle == [step |-> "idle", upload |-> None, criteria |-> None, plan |-> {}, groups |-> <<>>,
         taken |-> <<>>]
Audit == [no : Numbers, operator : Operators \cup {None}, bins : SUBSET Bins]
Group == [operator : Operators, bins : SUBSET Bins]

CountTypeOK ==
  /\ uploads \subseteq Uploads
  /\ audits \subseteq Audit
  /\ counter \in [1..Months -> 0..MaxPerMonth \cup {None}]
  /\ month \in 1..Months
  /\ lock \in Clerks \cup {None}
  /\ \A k \in Clerks :
       /\ job[k].step \in {"idle", "seen", "number"}
       /\ job[k].plan \subseteq Bins
       /\ job[k].groups \in Seq(Group) /\ job[k].taken \in Seq(Numbers)
       /\ Len(job[k].taken) <= Len(job[k].groups)
       \* Who has taken a number holds the lock, to the end of the transaction.
       /\ lock = k <=> job[k].taken # <<>>
  /\ given \subseteq Numbers /\ twice \subseteq given

NumbersOf(m) == {a.no[2] : a \in {x \in audits : x.no[1] = m}}

OldAudits == {[no |-> <<1, i>>, operator |-> None, bins |-> {}] : i \in 1..Legacy}

CountInit ==
  /\ uploads = {} /\ audits = OldAudits
  /\ counter = [m \in 1..Months |-> None] /\ month = 1
  /\ lock = None /\ job = [k \in Clerks |-> Idle]
  /\ given = {} /\ twice = {}

-----------------------------------------------------------------------------
(***************************************************************************)
(* Stock and plan                                                          *)
(***************************************************************************)

\* A row without excludeReason.
Valid(r) == r.bin # None /\ r.material /\ r.qty = "some" /\ ~r.long
StockAt(u, b) == {r \in RowsOf[u] : Valid(r) /\ r.bin = b}

\* uploadStock: a file without a valid row is refused.
UploadStock(u) ==
  /\ \E r \in RowsOf[u] : Valid(r)
  /\ uploads' = uploads \cup {u}
  /\ UNCHANGED <<audits, counter, month, lock, job, given, twice>>

\* A filter applies if the file has its column; one row of the bin has to match.
CncMatches(u, c, b) ==
  \/ "cnc" \notin ColumnsOf[u] \/ c.cnc = "BOTH"
  \/ \E r \in StockAt(u, b) : r.cnc = IF c.cnc = "WITH_CNC" THEN "yes" ELSE "no"
ClassMatches(u, c, b) ==
  \/ "class" \notin ColumnsOf[u] \/ c.classes = Classes
  \/ \E r \in StockAt(u, b) : r.class \in c.classes
Candidates(u, c) ==
  {b \in Bins : StockAt(u, b) # {} /\ CncMatches(u, c, b) /\ ClassMatches(u, c, b)}

\* previewPlan: the busiest, random ones, or those the clerk ticks.
PreviewPlan(k, u, c) ==
  /\ job[k].step = "idle" /\ u \in uploads
  /\ \E plan \in Picks \cap SUBSET Candidates(u, c) :
       job' = [job EXCEPT ![k] = [Idle EXCEPT !.step = "seen", !.upload = u, !.criteria = c,
                                              !.plan = plan]]
  /\ UNCHANGED <<uploads, audits, counter, month, lock, given, twice>>

Discard(k) ==
  /\ job[k].step = "seen"
  /\ job' = [job EXCEPT ![k] = Idle]
  /\ UNCHANGED <<uploads, audits, counter, month, lock, given, twice>>

-----------------------------------------------------------------------------
(***************************************************************************)
(* Releasing a plan                                                        *)
(***************************************************************************)

\* The bins in their order, cut into as many equal parts as there are operators; an
\* operator for whom nothing is left gets no audit.  A version that rounds down.
Rank(b, S) == Cardinality({x \in S : x <= b})
Part(S, size, i) == {b \in S : (Rank(b, S) - 1) \div size = i - 1}
PartSizeDown(S, n) == Cardinality(S) \div n
PartSize(S, n) == (Cardinality(S) + n - 1) \div n

Groups(S, operators) ==
  LET size == PartSize(S, Len(operators))
      filled == {i \in DOMAIN operators : Part(S, size, i) # {}}  \* always the first ones
  IN [i \in filled |-> [operator |-> operators[i], bins |-> Part(S, size, i)]]

\* createAudits, up to its transaction: no more operators than locations, and the plan is
\* checked against the candidates there are now.
Release(k, operators) ==
  LET q == job[k] IN
  /\ q.step = "seen"
  /\ Len(operators) <= Cardinality(q.plan)
  /\ q.plan \subseteq Candidates(q.upload, q.criteria)
  /\ job' = [job EXCEPT ![k].step = "number", ![k].groups = Groups(q.plan, operators)]
  /\ UNCHANGED <<uploads, audits, counter, month, lock, given, twice>>

Largest(S) == IF S = {} THEN 0 ELSE CHOOSE x \in S : \A y \in S : y <= x

\* Numbers of month m that k's own transaction has taken.
TakenIn(k, m) == {job[k].taken[i][2] : i \in {j \in DOMAIN job[k].taken : job[k].taken[j][1] = m}}

\* The last number, as k's transaction sees it; and in a version without the counter.
LastInTable(k) == Largest(NumbersOf(month) \cup TakenIn(k, month))
LastNumber(k) ==
  IF TakenIn(k, month) # {} THEN Largest(TakenIn(k, month))
  ELSE IF counter[month] # None THEN counter[month]
  ELSE Largest(NumbersOf(month))

\* A transaction that ends gives the lock back; in a faulty version whoever holds it.
UnlockAny(k) == lock' = None
Unlock(k) == lock' = IF lock = k THEN None ELSE lock

\* nextAuditNo for the next group: the lock is kept to the end of the transaction, and
\* at the limit of the month the whole release is refused.
TakeNumber(k) ==
  LET q == job[k]  next == LastNumber(k) + 1 IN
  /\ q.step = "number" /\ Len(q.taken) < Len(q.groups)
  /\ lock \in {None, k}
  /\ IF next > MaxPerMonth
     THEN /\ job' = [job EXCEPT ![k] = Idle]
          /\ Unlock(k)
     ELSE /\ job' = [job EXCEPT ![k].taken = Append(@, <<month, next>>)]
          /\ lock' = k
  /\ UNCHANGED <<uploads, audits, counter, month, given, twice>>

AuditsOf(q) ==
  {[no |-> q.taken[i], operator |-> q.groups[i].operator, bins |-> q.groups[i].bins]
     : i \in DOMAIN q.taken}

\* AuditNoSequence as k's transaction leaves it.
CounterAfter(k) ==
  [m \in 1..Months |-> IF TakenIn(k, m) = {} THEN counter[m] ELSE Largest(TakenIn(k, m))]

\* The answer may be lost: then the clerk still has the plan and may release it again.
Commit(k, lost) ==
  LET q == job[k] IN
  /\ q.step = "number" /\ Len(q.taken) = Len(q.groups)
  /\ audits' = audits \cup AuditsOf(q)
  /\ counter' = CounterAfter(k)
  /\ given' = given \cup {a.no : a \in AuditsOf(q)}
  /\ twice' = twice \cup (given \cap {a.no : a \in AuditsOf(q)})
  /\ Unlock(k)
  /\ job' = [job EXCEPT ![k] = IF lost THEN [q EXCEPT !.step = "seen", !.groups = <<>>, !.taken = <<>>]
                               ELSE Idle]
  /\ UNCHANGED <<uploads, month>>

\* A failure, a timeout or a restart rolls back numbers and counter with the audits.
Fail(k) ==
  /\ job[k].step = "number"
  /\ job' = [job EXCEPT ![k] = [@ EXCEPT !.step = "seen", !.groups = <<>>, !.taken = <<>>]]
  /\ Unlock(k)
  /\ UNCHANGED <<uploads, audits, counter, month, given, twice>>

\* remove: no operator can start a cycle count yet, so every audit is still ASSIGNED.
Remove(a) ==
  /\ a \in audits
  /\ audits' = audits \ {a}
  /\ UNCHANGED <<uploads, counter, month, lock, job, given, twice>>

NextMonth ==
  /\ month < Months /\ month' = month + 1
  /\ UNCHANGED <<uploads, audits, counter, lock, job, given, twice>>

\* Lists of different operators.
OperatorLists ==
  UNION {{s \in [1..n -> Operators] : \A i, j \in 1..n : s[i] = s[j] => i = j}
           : n \in 1..Cardinality(Operators)}

CountNext ==
  \/ \E u \in Uploads : UploadStock(u)
  \/ \E k \in Clerks :
       \/ \E u \in Uploads, c \in Criteria : PreviewPlan(k, u, c)
       \/ \E operators \in OperatorLists : Release(k, operators)
       \/ \E lost \in BOOLEAN : Commit(k, lost)
       \/ Discard(k) \/ TakeNumber(k) \/ Fail(k)
  \/ \E a \in audits : Remove(a)
  \/ NextMonth

CountSpec == CountInit /\ [][CountNext]_vars

-----------------------------------------------------------------------------
(***************************************************************************)
(* Properties                                                              *)
(***************************************************************************)

\* However releases, failures and deletions interleave, and over the turn of a month: no
\* number is given twice, also not one whose audit was deleted; nor is it one that the
\* table has, so that the retry for a number that clashes has nothing to do; and a
\* counter misses no number (those of before the counters may have been given by hand).
NumbersAccounted ==
  /\ twice = {}
  /\ \A k \in Clerks : \A i \in DOMAIN job[k].taken :
       LET no == job[k].taken[i] IN no[2] \notin NumbersOf(no[1]) /\ no \notin given
  /\ \A m \in 1..Months : counter[m] # None =>
       /\ \A n \in NumbersOf(m) : n <= counter[m]
       /\ \A n \in 1..counter[m] : <<m, n>> \in given \/ (m = 1 /\ n <= Legacy)

\* However releases overlap, fail and are repeated, each is seen as one step: the whole plan
\* that its clerk has seen becomes audits, each bin in one, each audit with an operator of its
\* own, under the next numbers of the month; or nothing happens (createAudits, nextAuditNo).
Book == INSTANCE AuditBook WITH plan <- [k \in Clerks |-> job[k].plan], Old <- OldAudits
BookSpec == Book!BookSpec
=============================================================================
