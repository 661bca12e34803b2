------------------------- MODULE CycleCount_proofs --------------------------
(***************************************************************************)
(* Theorems about CycleCount, for any stock, clerks and months.            *)
(***************************************************************************)
EXTENDS CycleCount, FiniteSetTheorems, FunctionTheorems, WellFoundedInduction, TLAPS

-----------------------------------------------------------------------------
(***************************************************************************)
(* The largest of a set of numbers                                         *)
(***************************************************************************)

LEMMA LargestExists ==
  ASSUME NEW N \in Nat, NEW S \in SUBSET (1..N), S # {}
  PROVE  Largest(S) \in S /\ \A y \in S : y <= Largest(S)
<1> DEFINE T == {n \in Nat : \E x \in S : n = N - x}
<1>0. \A x \in S : x \in Nat /\ x <= N /\ N - x \in T
  OBVIOUS
<1>1. T \subseteq Nat /\ T # {}
  BY <1>0
<1>2. PICK n \in T : \A y \in T : ~(<<y, n>> \in OpToRel(<, Nat))
  BY <1>1, NatLessThanWellFounded, WFMin
<1>3. \A y \in T : ~(y < n)
  BY <1>1, <1>2 DEF OpToRel
<1> HIDE DEF T
<1>4. PICK x \in S : n = N - x
  BY <1>2 DEF T
<1>5. \A y \in S : y <= x
  <2> SUFFICES ASSUME NEW y \in S PROVE y <= x
    OBVIOUS
  <2>1. ~(N - y < N - x)
    BY <1>0, <1>3, <1>4
  <2>2. x \in Nat /\ y \in Nat
    BY <1>0, <1>4
  <2> QED BY <2>1, <2>2
<1> QED BY <1>4, <1>5 DEF Largest

-----------------------------------------------------------------------------
(***************************************************************************)
(* The numbers of a month                                                  *)
(***************************************************************************)

Fields == {"step", "upload", "criteria", "plan", "groups", "taken"}

\* Numbers are taken in one transaction at a time, the one with the lock.
JobsOK ==
  /\ DOMAIN job = Clerks
  /\ \A k \in Clerks :
       /\ DOMAIN job[k] = Fields
       /\ job[k].taken \in Seq(Numbers)
       /\ job[k].step # "number" => job[k].taken = <<>>
       /\ lock = k <=> job[k].taken # <<>>

TablesOK ==
  /\ month \in 1..Months
  /\ \A a \in audits : a.no \in Numbers
  /\ given \subseteq Numbers /\ twice = {}

\* Numbers of a month that the counter, or what was there before it, accounts for.
Counted(m, n) == IF counter[m] # None THEN n <= counter[m] ELSE m = 1 /\ n <= Legacy

MonthOK(m) ==
  /\ counter[m] \in (0..MaxPerMonth) \cup {None}
  /\ \A n \in NumbersOf(m) : Counted(m, n)
  /\ \A n : <<m, n>> \in given => counter[m] # None /\ n <= counter[m]
  /\ counter[m] # None => \A n \in 1..counter[m] : <<m, n>> \in given \/ (m = 1 /\ n <= Legacy)

\* A number that is taken is above all that are used, and leaves no number out.
TakenOK(k, m) ==
  \A n \in TakenIn(k, m) :
    /\ counter[m] # None => counter[m] < n
    /\ \A x \in NumbersOf(m) : x < n
    /\ \A p \in 1..n : p \in TakenIn(k, m) \/ Counted(m, p)

NumbersInv ==
  /\ JobsOK /\ TablesOK
  /\ \A m \in 1..Months : MonthOK(m) /\ \A k \in Clerks : TakenOK(k, m)

LEMMA Bounds ==
  /\ Months \in Nat /\ MaxPerMonth \in Nat /\ Legacy \in Nat /\ Legacy <= MaxPerMonth
  /\ None \notin Int /\ None \notin Clerks
  BY CycleCountAssumption

LEMMA TakenAre ==
  ASSUME NEW k, job[k].taken \in Seq(Numbers)
  PROVE  /\ \A m, n : n \in TakenIn(k, m) <=> \E i \in DOMAIN job[k].taken : job[k].taken[i] = <<m, n>>
         /\ \A m : TakenIn(k, m) \in SUBSET (1..MaxPerMonth)
         /\ \A m : TakenIn(k, m) # {} => m \in 1..Months
         /\ job[k].taken = <<>> => \A m : TakenIn(k, m) = {}
<1>1. \A i \in DOMAIN job[k].taken : job[k].taken[i] \in Numbers
  OBVIOUS
<1>2. \A no \in Numbers : no = <<no[1], no[2]>> /\ no[1] \in 1..Months /\ no[2] \in 1..MaxPerMonth
  BY DEF Numbers
<1>3. ASSUME NEW m, NEW n
      PROVE  n \in TakenIn(k, m) <=> \E i \in DOMAIN job[k].taken : job[k].taken[i] = <<m, n>>
  BY <1>1, <1>2 DEF TakenIn
<1>4. \A m, n : n \in TakenIn(k, m) => <<m, n>> \in Numbers
  BY <1>1, <1>3
<1>5. \A m, n : n \in TakenIn(k, m) => m \in 1..Months /\ n \in 1..MaxPerMonth
  BY <1>4 DEF Numbers
<1>6. job[k].taken = <<>> => \A m : TakenIn(k, m) = {}
  BY <1>3
<1> QED BY <1>3, <1>5, <1>6

LEMMA NumbersOfType ==
  ASSUME TablesOK, NEW m
  PROVE  /\ NumbersOf(m) \in SUBSET (1..MaxPerMonth)
         /\ \A n : n \in NumbersOf(m) <=> \E a \in audits : a.no = <<m, n>>
<1>1. \A a \in audits : a.no = <<a.no[1], a.no[2]>> /\ a.no[2] \in 1..MaxPerMonth
  BY DEF TablesOK, Numbers
<1> QED BY <1>1 DEF NumbersOf

\* What nextAuditNo goes on from.
LEMMA NextNumber ==
  ASSUME NumbersInv, NEW k \in Clerks
  PROVE  LET last == LastNumber(k) IN
         /\ last \in 0..MaxPerMonth
         /\ \A x \in TakenIn(k, month) : x <= last
         /\ \A x \in NumbersOf(month) : x <= last
         /\ counter[month] # None => counter[month] <= last
         /\ \A p \in 1..last : p \in TakenIn(k, month) \/ Counted(month, p)
<1> DEFINE T == TakenIn(k, month)
           N == NumbersOf(month)
           last == LastNumber(k)
<1>1. T \in SUBSET (1..MaxPerMonth) /\ N \in SUBSET (1..MaxPerMonth)
  BY TakenAre, NumbersOfType DEF NumbersInv, JobsOK
<1>2. MonthOK(month) /\ TakenOK(k, month)
  BY DEF NumbersInv, TablesOK
<1>3. CASE T # {}
  <2>1. last = Largest(T) /\ last \in T /\ \A y \in T : y <= last
    BY <1>1, <1>3, LargestExists, Bounds DEF LastNumber
  <2>2. last \in Nat /\ last <= MaxPerMonth
    BY <1>1, <2>1, Bounds
  <2>3. \A x \in N : x \in Nat /\ x < last
    BY <1>1, <1>2, <2>1 DEF TakenOK
  <2>4. counter[month] # None => counter[month] \in Nat /\ counter[month] < last
    BY <1>2, <2>1 DEF TakenOK, MonthOK
  <2> QED BY <1>2, <2>1, <2>2, <2>3, <2>4, Bounds DEF TakenOK
<1>4. CASE T = {} /\ counter[month] # None
  <2>1. last = counter[month] /\ last \in 0..MaxPerMonth
    BY <1>2, <1>4 DEF LastNumber, MonthOK
  <2> QED BY <1>2, <1>4, <2>1, Bounds DEF MonthOK, Counted
<1>5. CASE T = {} /\ counter[month] = None
  <2>1. last = Largest(N)
    BY <1>5 DEF LastNumber
  <2>2. CASE N = {}
    BY <1>5, <2>1, <2>2, Bounds DEF Largest
  <2>3. CASE N # {}
    <3>1. last \in N /\ \A y \in N : y <= last
      BY <1>1, <2>1, <2>3, LargestExists, Bounds
    <3>2. month = 1 /\ last <= Legacy /\ last \in 1..MaxPerMonth
      BY <1>1, <1>2, <1>5, <3>1 DEF MonthOK, Counted
    <3>3. \A p \in 1..last : Counted(month, p)
      BY <1>5, <3>2, Bounds DEF Counted
    <3> QED BY <1>5, <3>1, <3>2, <3>3, Bounds
  <2> QED BY <2>2, <2>3
<1> QED BY <1>3, <1>4, <1>5

-----------------------------------------------------------------------------
(***************************************************************************)
(* Steps                                                                   *)
(***************************************************************************)

\* Steps of a job that take no number and leave the tables alone: k gives back what
\* it had, if anything.
LEMMA JobOnly ==
  ASSUME NumbersInv, NEW k \in Clerks, NEW q,
         job' = [job EXCEPT ![k] = q], DOMAIN q = Fields,
         \/ q.taken = <<>> /\ Unlock(k)
         \/ q.taken = job[k].taken /\ q.step = "number" /\ lock' = lock,
         UNCHANGED <<audits, counter, month, given, twice>>
  PROVE  NumbersInv'
<1>1. \A j \in Clerks \ {k} : job'[j] = job[j]
  BY DEF NumbersInv, JobsOK
<1>2. job'[k] = q
  BY DEF NumbersInv, JobsOK
<1>3. \A j \in Clerks \ {k} : lock' = j <=> lock = j
  BY Bounds DEF Unlock
<1>4. lock' = k <=> q.taken # <<>>
  BY Bounds DEF Unlock, NumbersInv, JobsOK
<1>5. q.taken \in Seq(Numbers)
  <2>1. <<>> \in Seq(Numbers) /\ job[k].taken \in Seq(Numbers)
    BY DEF NumbersInv, JobsOK
  <2> QED BY <2>1
<1>6. JobsOK'
  <2>1. DOMAIN job' = Clerks
    BY DEF NumbersInv, JobsOK
  <2>2. ASSUME NEW j \in Clerks
        PROVE  /\ DOMAIN job'[j] = Fields /\ job'[j].taken \in Seq(Numbers)
               /\ job'[j].step # "number" => job'[j].taken = <<>>
               /\ lock' = j <=> job'[j].taken # <<>>
    <3>1. CASE j = k
      BY <1>2, <1>4, <1>5, <3>1
    <3>2. CASE j # k
      BY <1>1, <1>3, <3>2 DEF NumbersInv, JobsOK
    <3> QED BY <3>1, <3>2
  <2> QED BY <2>1, <2>2 DEF JobsOK
<1>7. TablesOK'
  BY DEF NumbersInv, TablesOK
<1>8. ASSUME NEW m \in 1..Months PROVE MonthOK(m)'
  BY <1>8 DEF NumbersInv, MonthOK, Counted, NumbersOf
<1>9. ASSUME NEW m \in 1..Months, NEW j \in Clerks PROVE TakenOK(j, m)'
  <2>1. TakenOK(j, m)
    BY DEF NumbersInv
  <2>2. TakenIn(j, m)' = TakenIn(j, m) \/ TakenIn(j, m)' = {}
    BY <1>1, <1>2 DEF TakenIn
  <2> QED BY <2>1, <2>2 DEF TakenOK, Counted, NumbersOf
<1> QED BY <1>6, <1>7, <1>8, <1>9 DEF NumbersInv

LEMMA TakeStep ==
  ASSUME NumbersInv, NEW k \in Clerks, TakeNumber(k)
  PROVE  NumbersInv'
<1> DEFINE last == LastNumber(k)
           next == last + 1
           no == <<month, next>>
           taken == Append(job[k].taken, no)
<1>1. CASE next > MaxPerMonth
  <2>1. job' = [job EXCEPT ![k] = Idle] /\ Unlock(k) /\ UNCHANGED <<audits, counter, month, given, twice>>
    BY <1>1 DEF TakeNumber
  <2> QED BY <2>1, JobOnly DEF Idle, Fields
<1>2. CASE ~(next > MaxPerMonth)
  <2>1. /\ job' = [job EXCEPT ![k].taken = taken] /\ lock' = k
        /\ UNCHANGED <<audits, counter, month, given, twice>>
        /\ lock \in {None, k} /\ job[k].step = "number"
    BY <1>2 DEF TakeNumber
  <2>2. last \in 0..MaxPerMonth
    BY NextNumber
  <2>3. month \in 1..Months /\ next \in 1..MaxPerMonth /\ no \in Numbers
    BY <1>2, <2>2, Bounds DEF NumbersInv, TablesOK, Numbers
  <2>4. job[k].taken \in Seq(Numbers)
    BY DEF NumbersInv, JobsOK
  <2>5. taken \in Seq(Numbers) /\ taken # <<>>
    BY <2>3, <2>4
  <2>6. /\ DOMAIN job' = Clerks /\ \A j \in Clerks : DOMAIN job'[j] = Fields
        /\ job'[k].taken = taken /\ job'[k].step = "number"
        /\ \A j \in Clerks \ {k} : job'[j] = job[j] /\ job[j].taken = <<>>
    <3>1. \A j \in Clerks \ {k} : job[j].taken = <<>>
      BY <2>1, Bounds DEF NumbersInv, JobsOK
    <3> HIDE DEF taken
    <3> QED BY <2>1, <3>1 DEF NumbersInv, JobsOK, Fields
  <2>7. JobsOK'
    <3> HIDE DEF taken
    <3>1. ASSUME NEW j \in Clerks
          PROVE  /\ job'[j].taken \in Seq(Numbers)
                 /\ job'[j].step # "number" => job'[j].taken = <<>>
                 /\ lock' = j <=> job'[j].taken # <<>>
      <4>1. CASE j = k
        BY <2>1, <2>5, <2>6, <4>1
      <4>2. CASE j # k
        BY <2>1, <2>6, <4>2 DEF NumbersInv, JobsOK
      <4> QED BY <4>1, <4>2
    <3> QED BY <2>6, <3>1 DEF JobsOK
  <2>8. TablesOK'
    BY <2>1 DEF NumbersInv, TablesOK
  <2>9. ASSUME NEW m \in 1..Months PROVE MonthOK(m)'
    BY <2>1 DEF NumbersInv, MonthOK, Counted, NumbersOf
  <2>10. ASSUME NEW m \in 1..Months
         PROVE  TakenIn(k, m)' = IF m = month THEN TakenIn(k, m) \cup {next} ELSE TakenIn(k, m)
    <3>1. \A n : n \in TakenIn(k, m) <=> \E i \in DOMAIN job[k].taken : job[k].taken[i] = <<m, n>>
      BY <2>4, TakenAre
    <3>2. \A n : n \in TakenIn(k, m)' <=> \E i \in DOMAIN taken : taken[i] = <<m, n>>
      <4>1. \A i \in DOMAIN taken : taken[i] = <<taken[i][1], taken[i][2]>>
        <5>1. \A i \in DOMAIN taken : taken[i] \in Numbers
          BY <2>5
        <5> QED BY <5>1 DEF Numbers
      <4> HIDE DEF taken
      <4> QED BY <2>6, <4>1 DEF TakenIn
    <3>3. \A x : (\E i \in DOMAIN taken : taken[i] = x)
                  <=> (x = no \/ \E i \in DOMAIN job[k].taken : job[k].taken[i] = x)
      <4>1. DOMAIN job[k].taken = 1..Len(job[k].taken) /\ Len(job[k].taken) \in Nat
        BY <2>4
      <4>2. /\ DOMAIN taken = 1..(Len(job[k].taken) + 1)
            /\ \A i \in 1..Len(job[k].taken) : taken[i] = job[k].taken[i]
            /\ taken[Len(job[k].taken) + 1] = no
        BY <2>3, <2>4
      <4>3. \A i \in 1..(Len(job[k].taken) + 1) : i \in 1..Len(job[k].taken) \/ i = Len(job[k].taken) + 1
        BY <4>1
      <4>4. /\ Len(job[k].taken) + 1 \in 1..(Len(job[k].taken) + 1)
            /\ \A i \in 1..Len(job[k].taken) : i \in 1..(Len(job[k].taken) + 1)
        BY <4>1
      <4> HIDE DEF taken, no
      <4> QED BY <4>1, <4>2, <4>3, <4>4
    <3> HIDE DEF taken
    <3> QED BY <3>1, <3>2, <3>3
  <2>11. ASSUME NEW m \in 1..Months, NEW j \in Clerks PROVE TakenOK(j, m)'
    <3>1. TakenOK(j, m)
      BY DEF NumbersInv
    <3>2. CASE j # k \/ m # month
      <4>1. TakenIn(j, m)' = TakenIn(j, m)
        <5>1. CASE j # k
          BY <2>6, <5>1 DEF TakenIn
        <5>2. CASE j = k /\ m # month
          BY <2>10, <5>2
        <5> QED BY <3>2, <5>1, <5>2
      <4> QED BY <2>1, <3>1, <4>1 DEF TakenOK, Counted, NumbersOf
    <3>3. CASE j = k /\ m = month
      <4>1. TakenIn(k, m)' = TakenIn(k, month) \cup {next}
        BY <2>10, <3>3
      <4>2. /\ \A x \in TakenIn(k, month) : x <= last
            /\ \A x \in NumbersOf(month) : x <= last
            /\ counter[month] # None => counter[month] <= last
            /\ \A p \in 1..last : p \in TakenIn(k, month) \/ Counted(month, p)
        BY NextNumber
      <4>3. NumbersOf(month) \in SUBSET (1..MaxPerMonth) /\ counter[month] \in (0..MaxPerMonth) \cup {None}
        BY <2>3, NumbersOfType DEF NumbersInv, MonthOK
      <4>4. /\ counter[month] # None => counter[month] < next
            /\ \A x \in NumbersOf(month) : x < next
            /\ \A p \in 1..next : p \in TakenIn(k, month) \cup {next} \/ Counted(month, p)
        BY <2>2, <4>2, <4>3, Bounds
      <4> HIDE DEF next
      <4>5. /\ NumbersOf(m)' = NumbersOf(m) /\ counter' = counter
            /\ \A p : Counted(m, p)' <=> Counted(m, p)
        BY <2>1 DEF NumbersOf, Counted
      <4> QED BY <3>1, <3>3, <4>1, <4>4, <4>5 DEF TakenOK
    <3> QED BY <3>2, <3>3
  <2> QED BY <2>7, <2>8, <2>9, <2>11 DEF NumbersInv
<1> QED BY <1>1, <1>2

\* The numbers that a release commits.
LEMMA Committed ==
  ASSUME NumbersInv, NEW k \in Clerks, NEW lost \in BOOLEAN, Commit(k, lost)
  PROVE  /\ \A m \in 1..Months : NumbersOf(m)' = NumbersOf(m) \cup TakenIn(k, m)
         /\ \A m, n : <<m, n>> \in given' <=> <<m, n>> \in given \/ n \in TakenIn(k, m)
         /\ \A m \in 1..Months :
              counter'[m] = IF TakenIn(k, m) = {} THEN counter[m] ELSE Largest(TakenIn(k, m))
         /\ TablesOK'
<1> DEFINE taken == job[k].taken
           new == AuditsOf(job[k])
<1>1. taken \in Seq(Numbers)
  BY DEF NumbersInv, JobsOK
<1>2. /\ \A a \in new : \E i \in DOMAIN taken : a.no = taken[i]
      /\ \A i \in DOMAIN taken : \E a \in new : a.no = taken[i]
  <2> DEFINE made(i) == [no |-> taken[i], operator |-> job[k].groups[i].operator,
                         bins |-> job[k].groups[i].bins]
  <2>1. new = {made(i) : i \in DOMAIN taken}
    BY DEF AuditsOf
  <2>2. \A i : made(i).no = taken[i]
    OBVIOUS
  <2> HIDE DEF made, new
  <2> QED BY <2>1, <2>2
<1>3. /\ audits' = audits \cup new
      /\ given' = given \cup {a.no : a \in new}
      /\ twice' = twice \cup (given \cap {a.no : a \in new})
      /\ counter' = CounterAfter(k) /\ month' = month
  BY DEF Commit
<1>4. \A m, n : n \in TakenIn(k, m) <=> \E i \in DOMAIN taken : taken[i] = <<m, n>>
  BY <1>1, TakenAre
<1>5. \A m, n : n \in TakenIn(k, m) <=> \E a \in new : a.no = <<m, n>>
  BY <1>2, <1>4, ZenonT(60)
<1>6. \A a \in new : a.no \in Numbers
  BY <1>1, <1>2
<1> HIDE DEF new
<1>7. ASSUME NEW m \in 1..Months PROVE NumbersOf(m)' = NumbersOf(m) \cup TakenIn(k, m)
  <2>1. \A n : n \in NumbersOf(m)' <=> \E a \in audits' : a.no = <<m, n>>
    <3>1. \A a \in audits' : a.no \in Numbers
      BY <1>3, <1>6 DEF NumbersInv, TablesOK
    <3>2. \A no \in Numbers : no = <<no[1], no[2]>>
      BY DEF Numbers
    <3> QED BY <3>1, <3>2 DEF NumbersOf
  <2>2. \A n : n \in NumbersOf(m) <=> \E a \in audits : a.no = <<m, n>>
    BY NumbersOfType DEF NumbersInv
  <2> QED BY <1>3, <1>5, <2>1, <2>2
<1>8. \A m, n : <<m, n>> \in given' <=> <<m, n>> \in given \/ n \in TakenIn(k, m)
  BY <1>3, <1>5
<1>9. \A m \in 1..Months :
        counter'[m] = IF TakenIn(k, m) = {} THEN counter[m] ELSE Largest(TakenIn(k, m))
  BY <1>3 DEF CounterAfter
<1>10. ASSUME NEW a \in new PROVE a.no \notin given
  <2>1. PICK m \in 1..Months, n \in 1..MaxPerMonth : a.no = <<m, n>>
    BY <1>6 DEF Numbers
  <2>2. n \in TakenIn(k, m) /\ MonthOK(m) /\ TakenOK(k, m)
    BY <1>5, <2>1 DEF NumbersInv
  <2> QED BY <2>1, <2>2, Bounds DEF MonthOK, TakenOK
<1>11. TablesOK'
  BY <1>3, <1>6, <1>10 DEF NumbersInv, TablesOK
<1> QED BY <1>7, <1>8, <1>9, <1>11

LEMMA CommitStep ==
  ASSUME NumbersInv, NEW k \in Clerks, NEW lost \in BOOLEAN, Commit(k, lost)
  PROVE  NumbersInv'
<1> DEFINE q == IF lost THEN [job[k] EXCEPT !.step = "seen", !.groups = <<>>, !.taken = <<>>] ELSE Idle
<1>1. job' = [job EXCEPT ![k] = q] /\ Unlock(k)
  BY DEF Commit
<1>2. DOMAIN q = Fields /\ q.taken = <<>>
  BY DEF NumbersInv, JobsOK, Fields, Idle
<1> HIDE DEF q
<1>3. /\ \A j \in Clerks \ {k} : job'[j] = job[j]
      /\ job'[k] = q /\ DOMAIN job' = Clerks
  BY <1>1 DEF NumbersInv, JobsOK
<1>4. JobsOK'
  <2>1. ASSUME NEW j \in Clerks
        PROVE  /\ DOMAIN job'[j] = Fields /\ job'[j].taken \in Seq(Numbers)
               /\ job'[j].step # "number" => job'[j].taken = <<>>
               /\ lock' = j <=> job'[j].taken # <<>>
    <3>1. CASE j = k
      <4>1. <<>> \in Seq(Numbers)
        OBVIOUS
      <4>2. lock' # k
        BY <1>1, Bounds DEF Unlock
      <4> QED BY <1>2, <1>3, <3>1, <4>1, <4>2
    <3>2. CASE j # k
      BY <1>1, <1>3, <3>2, Bounds DEF NumbersInv, JobsOK, Unlock
    <3> QED BY <3>1, <3>2
  <2> QED BY <1>3, <2>1 DEF JobsOK
<1>5. ASSUME NEW m \in 1..Months, TakenIn(k, m) # {}
      PROVE  /\ Largest(TakenIn(k, m)) \in TakenIn(k, m) /\ Largest(TakenIn(k, m)) \in 1..MaxPerMonth
             /\ \A y \in TakenIn(k, m) : y \in 1..MaxPerMonth /\ y <= Largest(TakenIn(k, m))
  <2>1. TakenIn(k, m) \in SUBSET (1..MaxPerMonth)
    BY TakenAre DEF NumbersInv, JobsOK
  <2> QED BY <1>5, <2>1, LargestExists, Bounds
<1>6. ASSUME NEW m \in 1..Months PROVE MonthOK(m)'
  <2> DEFINE T == TakenIn(k, m)
  <2>1. MonthOK(m) /\ TakenOK(k, m)
    BY DEF NumbersInv
  <2>2. /\ NumbersOf(m)' = NumbersOf(m) \cup T
        /\ \A n : <<m, n>> \in given' <=> <<m, n>> \in given \/ n \in T
        /\ counter'[m] = IF T = {} THEN counter[m] ELSE Largest(T)
    BY Committed
  <2>3. CASE T = {}
    BY <2>1, <2>2, <2>3 DEF MonthOK, Counted
  <2>4. CASE T # {}
    <3> DEFINE top == Largest(T)
    <3>1. top \in T /\ top \in 1..MaxPerMonth /\ \A y \in T : y \in 1..MaxPerMonth /\ y <= top
      BY <1>5, <2>4
    <3>2. counter'[m] = top /\ top # None
      BY <2>2, <2>4, <3>1, Bounds
    <3>3. NumbersOf(m) \in SUBSET (1..MaxPerMonth)
      BY NumbersOfType DEF NumbersInv
    <3>4. /\ \A x \in NumbersOf(m) : x <= top
          /\ counter[m] # None => counter[m] \in 0..MaxPerMonth /\ counter[m] < top
          /\ \A p \in 1..top : p \in T \/ Counted(m, p)
      BY <2>1, <3>1, <3>3 DEF TakenOK, MonthOK
    <3> HIDE DEF T, top
    <3>5. \A n : <<m, n>> \in given => n <= top
      <4> SUFFICES ASSUME NEW n, <<m, n>> \in given PROVE n <= top
        OBVIOUS
      <4>1. counter[m] # None /\ n <= counter[m]
        BY <2>1 DEF MonthOK
      <4>2. n \in 1..MaxPerMonth
        BY DEF NumbersInv, TablesOK, Numbers
      <4> QED BY <3>1, <3>4, <4>1, <4>2, Bounds
    <3>6. \A n \in 1..top : <<m, n>> \in given' \/ (m = 1 /\ n <= Legacy)
      <4> SUFFICES ASSUME NEW n \in 1..top PROVE <<m, n>> \in given' \/ (m = 1 /\ n <= Legacy)
        OBVIOUS
      <4>1. CASE n \in T
        BY <2>2, <4>1
      <4>2. CASE Counted(m, n)
        BY <2>1, <2>2, <3>1, <3>4, <4>2 DEF Counted, MonthOK
      <4> QED BY <3>4, <4>1, <4>2
    <3>7. \A n \in NumbersOf(m)' : n <= top
      BY <2>2, <3>1, <3>4
    <3>8. \A n : <<m, n>> \in given' => n <= top
      BY <2>2, <3>1, <3>5
    <3> QED BY <3>1, <3>2, <3>6, <3>7, <3>8 DEF MonthOK, Counted
  <2> QED BY <2>3, <2>4
<1>7. ASSUME NEW m \in 1..Months, NEW j \in Clerks PROVE TakenOK(j, m)'
  <2>1. CASE j = k
    <3>1. TakenIn(k, m)' = {}
      BY <1>2, <1>3 DEF TakenIn
    <3> QED BY <2>1, <3>1 DEF TakenOK
  <2>2. CASE j # k
    <3>1. TakenOK(j, m) /\ TakenIn(j, m)' = TakenIn(j, m)
      BY <1>3, <2>2 DEF NumbersInv, TakenIn
    <3>2. CASE TakenIn(j, m) = {}
      BY <3>1, <3>2 DEF TakenOK
    <3>3. CASE TakenIn(j, m) # {}
      <4>1. job[j].taken # <<>> /\ job[j].taken \in Seq(Numbers) /\ job[k].taken \in Seq(Numbers)
        BY <3>3, TakenAre DEF NumbersInv, JobsOK
      <4>2. job[k].taken = <<>>
        BY <2>2, <4>1 DEF NumbersInv, JobsOK
      <4>3. TakenIn(k, m) = {}
        BY <4>1, <4>2, TakenAre
      <4>4. NumbersOf(m)' = NumbersOf(m) /\ counter'[m] = counter[m]
        BY <4>3, Committed
      <4> QED BY <3>1, <4>4 DEF TakenOK, Counted
    <3> QED BY <3>2, <3>3
  <2> QED BY <2>1, <2>2
<1>8. TablesOK'
  BY Committed
<1> QED BY <1>4, <1>6, <1>7, <1>8 DEF NumbersInv

LEMMA RemoveStep ==
  ASSUME NumbersInv, NEW a \in audits, Remove(a)
  PROVE  NumbersInv'
<1>1. audits' \subseteq audits /\ UNCHANGED <<counter, month, lock, job, given, twice>>
  BY DEF Remove
<1>2. \A m : NumbersOf(m)' \subseteq NumbersOf(m)
  BY <1>1 DEF NumbersOf
<1>3. JobsOK' /\ TablesOK'
  BY <1>1 DEF NumbersInv, JobsOK, TablesOK
<1>4. ASSUME NEW m \in 1..Months PROVE MonthOK(m)' /\ \A k \in Clerks : TakenOK(k, m)'
  <2>1. MonthOK(m) /\ \A k \in Clerks : TakenOK(k, m)
    BY DEF NumbersInv
  <2>2. \A k : TakenIn(k, m)' = TakenIn(k, m)
    BY <1>1 DEF TakenIn
  <2>3. MonthOK(m)'
    BY <1>1, <1>2, <2>1 DEF MonthOK, Counted
  <2> QED BY <1>1, <1>2, <2>1, <2>2, <2>3 DEF TakenOK, Counted
<1> QED BY <1>3, <1>4 DEF NumbersInv

LEMMA CountStep == NumbersInv /\ [CountNext]_vars => NumbersInv'
<1> SUFFICES ASSUME NumbersInv, [CountNext]_vars PROVE NumbersInv'
  OBVIOUS
<1>u. ASSUME UNCHANGED <<audits, counter, lock, job, given, twice>>, month' \in 1..Months
      PROVE  NumbersInv'
  <2>1. JobsOK' /\ TablesOK'
    BY <1>u DEF NumbersInv, JobsOK, TablesOK
  <2>2. \A k, m : TakenIn(k, m)' = TakenIn(k, m) /\ NumbersOf(m)' = NumbersOf(m)
    BY <1>u DEF TakenIn, NumbersOf
  <2>3. \A m \in 1..Months : MonthOK(m)'
    BY <1>u, <2>2 DEF NumbersInv, MonthOK, Counted
  <2>4. \A m \in 1..Months, k \in Clerks : TakenOK(k, m)'
    BY <1>u, <2>2 DEF NumbersInv, TakenOK, Counted
  <2> QED BY <2>1, <2>3, <2>4 DEF NumbersInv
<1>m. month \in 1..Months
  BY DEF NumbersInv, TablesOK
<1>1. ASSUME NEW u \in Uploads, UploadStock(u) PROVE NumbersInv'
  BY <1>1, <1>u, <1>m DEF UploadStock
<1>2. CASE NextMonth
  <2>1. month' \in 1..Months
    BY <1>2, <1>m, Bounds DEF NextMonth
  <2> QED BY <1>2, <1>u, <2>1 DEF NextMonth
<1>3. CASE UNCHANGED vars
  BY <1>3, <1>u, <1>m DEF vars
<1>4. ASSUME NEW a \in audits, Remove(a) PROVE NumbersInv'
  BY <1>4, RemoveStep
\* A step of a job that has no number, to one that has none, keeps the lock.
<1>k. ASSUME NEW k \in Clerks, job[k].step # "number", lock' = lock PROVE Unlock(k)
  BY <1>k, Bounds DEF Unlock, NumbersInv, JobsOK
<1>5. ASSUME NEW k \in Clerks, NEW u \in Uploads, NEW c \in Criteria, PreviewPlan(k, u, c)
      PROVE  NumbersInv'
  <2>1. PICK plan : job' = [job EXCEPT ![k] = [Idle EXCEPT !.step = "seen", !.upload = u,
                                                           !.criteria = c, !.plan = plan]]
    BY <1>5 DEF PreviewPlan
  <2> DEFINE q == [Idle EXCEPT !.step = "seen", !.upload = u, !.criteria = c, !.plan = plan]
  <2>2. DOMAIN q = Fields /\ q.taken = <<>>
    BY DEF Idle, Fields
  <2>3. Unlock(k)
    BY <1>5, <1>k DEF PreviewPlan
  <2> HIDE DEF q
  <2> QED BY <1>5, <2>1, <2>2, <2>3, JobOnly DEF PreviewPlan, q
<1>6. ASSUME NEW k \in Clerks, Discard(k) PROVE NumbersInv'
  <2>1. Unlock(k)
    BY <1>6, <1>k DEF Discard
  <2>2. DOMAIN Idle = Fields /\ Idle.taken = <<>>
    BY DEF Idle, Fields
  <2> QED BY <1>6, <2>1, <2>2, JobOnly DEF Discard
<1>7. ASSUME NEW k \in Clerks, NEW operators, Release(k, operators) PROVE NumbersInv'
  <2> DEFINE q == [job[k] EXCEPT !.step = "number", !.groups = Groups(job[k].plan, operators)]
  <2>1. Unlock(k)
    BY <1>7, <1>k DEF Release
  <2>2. DOMAIN q = Fields /\ q.taken = <<>>
    BY <1>7 DEF Release, NumbersInv, JobsOK, Fields
  <2>3. job' = [job EXCEPT ![k] = q]
    BY <1>7 DEF Release, NumbersInv, JobsOK
  <2> HIDE DEF q
  <2> QED BY <1>7, <2>1, <2>2, <2>3, JobOnly DEF Release
<1>8. ASSUME NEW k \in Clerks, Fail(k) PROVE NumbersInv'
  <2> DEFINE q == [job[k] EXCEPT !.step = "seen", !.groups = <<>>, !.taken = <<>>]
  <2>1. DOMAIN q = Fields /\ q.taken = <<>>
    BY DEF NumbersInv, JobsOK, Fields
  <2> QED BY <1>8, <2>1, JobOnly DEF Fail
<1> QED
  BY <1>1, <1>2, <1>3, <1>4, <1>5, <1>6, <1>7, <1>8, TakeStep, CommitStep DEF CountNext

LEMMA CountInitInv == CountInit => NumbersInv
<1> SUFFICES ASSUME CountInit PROVE NumbersInv
  OBVIOUS
<1>1. JobsOK
  <2>1. Idle.taken = <<>> /\ DOMAIN Idle = Fields
    BY DEF Idle, Fields
  <2>2. <<>> \in Seq(Numbers)
    OBVIOUS
  <2>3. DOMAIN job = Clerks /\ (\A k \in Clerks : job[k] = Idle) /\ lock = None
    BY DEF CountInit
  <2> QED BY <2>1, <2>2, <2>3, Bounds DEF JobsOK
<1>2. \A a \in audits : \E i \in 1..Legacy : a.no = <<1, i>>
  BY DEF CountInit, OldAudits
<1>3. TablesOK
  <2>1. 1 \in 1..Months /\ \A i \in 1..Legacy : i \in 1..MaxPerMonth
    BY CycleCountAssumption
  <2>2. \A a \in audits : a.no \in Numbers
    BY <1>2, <2>1 DEF Numbers
  <2> QED BY <2>1, <2>2 DEF CountInit, TablesOK
<1>4. ASSUME NEW m \in 1..Months PROVE MonthOK(m) /\ \A k \in Clerks : TakenOK(k, m)
  <2>1. counter[m] = None /\ given = {}
    BY DEF CountInit
  <2>2. \A n \in NumbersOf(m) : m = 1 /\ n <= Legacy
    BY <1>2, <1>3, NumbersOfType
  <2>3. \A k \in Clerks : TakenIn(k, m) = {}
    BY DEF CountInit, Idle, TakenIn
  <2> QED BY <2>1, <2>2, <2>3 DEF MonthOK, TakenOK, Counted
<1> QED BY <1>1, <1>3, <1>4 DEF NumbersInv

LEMMA InvAccounts == NumbersInv => NumbersAccounted
<1> SUFFICES ASSUME NumbersInv PROVE NumbersAccounted
  OBVIOUS
<1>1. twice = {}
  BY DEF NumbersInv, TablesOK
<1>2. ASSUME NEW k \in Clerks, NEW i \in DOMAIN job[k].taken
      PROVE  LET no == job[k].taken[i] IN no[2] \notin NumbersOf(no[1]) /\ no \notin given
  <2> DEFINE no == job[k].taken[i]
  <2>1. job[k].taken \in Seq(Numbers) /\ no \in Numbers
    BY DEF NumbersInv, JobsOK
  <2> HIDE DEF no
  <2>2. PICK m \in 1..Months, n \in 1..MaxPerMonth : no = <<m, n>>
    BY <2>1 DEF Numbers
  <2>3. n \in TakenIn(k, m)
    BY <2>1, <2>2, TakenAre DEF no
  <2>4. MonthOK(m) /\ TakenOK(k, m)
    BY DEF NumbersInv
  <2>5. n \notin NumbersOf(m)
    BY <2>3, <2>4 DEF TakenOK
  <2>6. <<m, n>> \notin given
    BY <2>3, <2>4, Bounds DEF TakenOK, MonthOK
  <2> QED BY <2>2, <2>5, <2>6 DEF no
<1>3. ASSUME NEW m \in 1..Months, counter[m] # None
      PROVE  /\ \A n \in NumbersOf(m) : n <= counter[m]
             /\ \A n \in 1..counter[m] : <<m, n>> \in given \/ (m = 1 /\ n <= Legacy)
  BY <1>3 DEF NumbersInv, MonthOK, Counted
<1> QED BY <1>1, <1>2, <1>3 DEF NumbersAccounted

\* However releases, failures, deletions and the turn of a month interleave, no number is
\* given twice, none that is taken clashes, and the counter leaves none out.
THEOREM NumbersNeverReused == CountSpec => []NumbersAccounted
  BY CountInitInv, CountStep, InvAccounts, PTL DEF CountSpec

-----------------------------------------------------------------------------
(***************************************************************************)
(* Sharing a plan out                                                      *)
(***************************************************************************)

\* What the groups of a release are to be: of all bins of the plan and no other, every bin
\* in one, every one with a bin and an operator of its own.
Splits(groups, plan) ==
  /\ groups \in Seq(Group)
  /\ plan = UNION {groups[i].bins : i \in DOMAIN groups}
  /\ \A i \in DOMAIN groups : groups[i].bins # {}
  /\ \A i, j \in DOMAIN groups : i # j =>
       groups[i].bins \cap groups[j].bins = {} /\ groups[i].operator # groups[j].operator

\* Ranks number the bins of a set from 1.
LEMMA RankNumbers ==
  ASSUME NEW S \in SUBSET Nat, IsFiniteSet(S)
  PROVE  /\ Cardinality(S) \in Nat
         /\ \A b \in S : Rank(b, S) \in 1..Cardinality(S)
         /\ \A r \in 1..Cardinality(S) : \E b \in S : Rank(b, S) = r
<1> DEFINE upto(b) == {x \in S : x <= b}
           f == [b \in S |-> Rank(b, S)]
           n == Cardinality(S)
<1>0. n \in Nat
  BY FS_CardinalityType
<1>1. ASSUME NEW b \in S
      PROVE  IsFiniteSet(upto(b)) /\ Cardinality(upto(b)) \in 1..n /\ Rank(b, S) = Cardinality(upto(b))
  <2>1. IsFiniteSet(upto(b)) /\ Cardinality(upto(b)) <= n
    BY FS_Subset
  <2>2. Cardinality(upto(b)) \in Nat
    BY <2>1, FS_CardinalityType
  <2>3. Cardinality(upto(b)) # 0
    <3>1. b \in upto(b)
      OBVIOUS
    <3> HIDE DEF upto
    <3> QED BY <2>1, <3>1, FS_EmptySet
  <2> QED BY <1>0, <2>1, <2>2, <2>3 DEF Rank
<1>2. ASSUME NEW x \in S, NEW y \in S, x < y PROVE f[x] # f[y]
  <2>1. x \in Nat /\ y \in Nat /\ \A z \in S : z \in Nat /\ (z <= x => z <= y)
    BY <1>2
  <2>2. y \in upto(y) /\ y \notin upto(x) /\ \A z \in upto(x) : z \in upto(y)
    BY <1>2, <2>1
  <2> HIDE DEF upto
  <2>3. Cardinality(upto(x)) # Cardinality(upto(y))
    <3>1. upto(x) \in SUBSET upto(y)
      BY <2>2
    <3> QED BY <1>1, <2>2, <3>1, FS_Subset
  <2> QED BY <1>1, <2>3
<1>3. f \in [S -> 1..n]
  BY <1>1
<1>4. \A x, y \in S : x < y \/ y < x \/ x = y
  OBVIOUS
<1>5. f \in Injection(S, 1..n)
  <2> HIDE DEF f
  <2> QED BY <1>2, <1>3, <1>4 DEF Injection, IsInjective
<1>6. IsFiniteSet(1..n) /\ Cardinality(1..n) = n
  BY <1>0, FS_Interval
<1>7. f \in Surjection(S, 1..n)
  <2> HIDE DEF f
  <2> QED BY <1>5, <1>6, FS_Injection
<1>8. \A r \in 1..n : \E b \in S : f[b] = r
  <2> HIDE DEF f
  <2> QED BY <1>7 DEF Surjection
<1> QED BY <1>0, <1>1, <1>8

LEMMA Division ==
  ASSUME NEW a \in Nat, NEW d \in Nat \ {0}
  PROVE  a \div d \in Nat /\ d * (a \div d) <= a /\ a < d * (a \div d) + d
  OBVIOUS

LEMMA Quotient ==
  ASSUME NEW a \in Nat, NEW d \in Nat \ {0}, NEW q \in Int
  PROVE  a \div d = q <=> d * q <= a /\ a < d * q + d
  OBVIOUS

LEMMA Product ==
  ASSUME NEW d \in Nat, NEW i \in Int, NEW j \in Int
  PROVE  /\ d * i \in Int /\ d * (i - 1) = d * i - d
         /\ i <= j => d * i <= d * j
  OBVIOUS

\* No operator but the last ones is left without a bin, and no bin without an operator.
LEMMA PartsFilled ==
  ASSUME NEW S \in SUBSET Nat, IsFiniteSet(S), NEW n \in Nat \ {0}, n <= Cardinality(S)
  PROVE  LET size == PartSize(S, n) IN
         /\ \A b \in S : \E i \in 1..n : b \in Part(S, size, i)
         /\ \A i, j \in 1..n : j <= i /\ Part(S, size, i) # {} => Part(S, size, j) # {}
         /\ \A i, j \in 1..n : i # j => Part(S, size, i) \cap Part(S, size, j) = {}
<1> DEFINE size == PartSize(S, n)
           c == Cardinality(S)
<1>1. c \in Nat \ {0}
  BY RankNumbers
<1>2. size \in Nat \ {0} /\ c <= n * size
  <2> DEFINE a == c + n - 1
  <2>1. a \in Nat /\ size = a \div n /\ a >= n
    BY <1>1 DEF PartSize
  <2> HIDE DEF a, size
  <2>2. size \in Nat /\ n * size <= a /\ a < n * size + n
    BY <2>1, Division
  <2>3. size # 0
    BY <2>1, <2>2
  <2>4. n * size \in Int /\ a = c + n - 1
    BY <2>2, Product DEF a
  <2> QED BY <1>1, <2>2, <2>3, <2>4
<1> HIDE DEF size
<1>3. \A b \in S, i \in Int :
        b \in Part(S, size, i) <=> size * i - size < Rank(b, S) /\ Rank(b, S) <= size * i
  <2> SUFFICES ASSUME NEW b \in S, NEW i \in Int
               PROVE  b \in Part(S, size, i) <=> size * i - size < Rank(b, S) /\ Rank(b, S) <= size * i
    OBVIOUS
  <2> DEFINE a == Rank(b, S) - 1
             q == i - 1
  <2>1. a \in Nat /\ q \in Int
    BY <1>1, RankNumbers
  <2>2. b \in Part(S, size, i) <=> a \div size = q
    BY DEF Part
  <2>3. size * q = size * i - size /\ size * i \in Int
    BY <1>2, Product
  <2> HIDE DEF q
  <2>4. a \div size = q <=> size * q <= a /\ a < size * q + size
    BY <1>2, <2>1, Quotient
  <2> QED BY <1>1, <1>2, <2>1, <2>2, <2>3, <2>4, RankNumbers
<1>4. ASSUME NEW b \in S PROVE \E i \in 1..n : b \in Part(S, size, i)
  <2> DEFINE a == Rank(b, S) - 1
             i == (a \div size) + 1
  <2>1. a \in Nat /\ a < c
    BY <1>1, RankNumbers
  <2>2. a \div size \in Nat /\ size * (a \div size) <= a /\ a < size * (a \div size) + size
    BY <1>2, <2>1, Division
  <2>3. i \in Nat \ {0} /\ b \in Part(S, size, i)
    BY <2>2 DEF Part
  <2>4. a \div size < n
    <3> DEFINE p == a \div size
    <3>1. size * p <= a /\ p \in Nat
      BY <2>2
    <3> HIDE DEF p, a
    <3>2. CASE n <= p
      <4>1. size * n <= size * p /\ size * n \in Int /\ size * p \in Int /\ size * n = n * size
        BY <1>2, <3>1, <3>2, Product
      <4> QED BY <1>1, <1>2, <2>1, <3>1, <4>1
    <3> QED BY <3>1, <3>2 DEF p
  <2>5. i \in 1..n
    BY <2>2, <2>3, <2>4
  <2> QED BY <2>3, <2>5
<1>5. ASSUME NEW i \in 1..n, NEW j \in 1..n, j <= i, Part(S, size, i) # {}
      PROVE  Part(S, size, j) # {}
  <2>1. PICK b \in S : b \in Part(S, size, i)
    BY <1>5 DEF Part
  <2> DEFINE r == size * j - size + 1
  <2>2. size * i \in Int /\ size * j \in Int /\ size * j <= size * i /\ i \in Int /\ j \in Int
    BY <1>2, <1>5, Product
  <2>3. size * i - size < Rank(b, S) /\ Rank(b, S) \in 1..c
    BY <1>3, <2>1, <2>2, RankNumbers
  <2>4. size * j - size >= 0
    <3>1. size * 1 <= size * j /\ size * 1 = size
      BY <1>2, <1>5, Product
    <3> QED BY <1>2, <2>2, <3>1
  <2>5. r \in 1..c /\ r <= size * j
    BY <1>1, <1>2, <2>2, <2>3, <2>4
  <2>6. PICK x \in S : Rank(x, S) = r
    BY <2>5, RankNumbers
  <2>7. size * j - size < r
    BY <1>2, <2>2
  <2>8. x \in Part(S, size, j)
    BY <1>3, <2>2, <2>5, <2>6, <2>7
  <2> QED BY <2>8
<1>6. \A i, j \in 1..n : i # j => Part(S, size, i) \cap Part(S, size, j) = {}
  <2> SUFFICES ASSUME NEW i \in 1..n, NEW j \in 1..n, NEW b \in Part(S, size, i), b \in Part(S, size, j)
               PROVE  i = j
    OBVIOUS
  <2>1. (Rank(b, S) - 1) \div size = i - 1 /\ (Rank(b, S) - 1) \div size = j - 1
    BY DEF Part
  <2> QED BY <2>1
<1> QED BY <1>4, <1>5, <1>6 DEF size

\* createAudits shares out the whole plan.
LEMMA GroupsSplit ==
  ASSUME NEW S \in SUBSET Bins, NEW operators \in OperatorLists, Len(operators) <= Cardinality(S)
  PROVE  Splits(Groups(S, operators), S)
<1> DEFINE n == Len(operators)
           size == PartSize(S, n)
           filled == {i \in 1..n : Part(S, size, i) # {}}
           groups == Groups(S, operators)
<1>1. S \in SUBSET Nat /\ IsFiniteSet(S)
  BY CycleCountAssumption, FS_Subset
<1>2. PICK l \in Nat \ {0} : operators \in [1..l -> Operators] /\ \A i, j \in 1..l : operators[i] = operators[j] => i = j
  BY DEF OperatorLists
<1>3. /\ n \in Nat \ {0} /\ operators \in [1..n -> Operators]
      /\ \A i, j \in 1..n : operators[i] = operators[j] => i = j
  BY <1>2
<1>4. /\ \A b \in S : \E i \in 1..n : b \in Part(S, size, i)
      /\ \A i, j \in 1..n : j <= i /\ Part(S, size, i) # {} => Part(S, size, j) # {}
      /\ \A i, j \in 1..n : i # j => Part(S, size, i) \cap Part(S, size, j) = {}
  BY <1>1, <1>3, PartsFilled
<1>5. groups = [i \in filled |-> [operator |-> operators[i], bins |-> Part(S, size, i)]]
  BY <1>3 DEF Groups
<1>6. \A i : Part(S, size, i) \subseteq S
  BY DEF Part
<1> HIDE DEF size, groups, n
<1>7. PICK m \in 0..n : filled = 1..m
  <2>1. filled \in SUBSET (1..n)
    OBVIOUS
  <2>2. \A i \in filled, j \in 1..n : j <= i => j \in filled
    BY <1>4
  <2> HIDE DEF filled
  <2>3. CASE filled = {}
    BY <1>3, <2>3
  <2>4. CASE filled # {}
    <3>1. Largest(filled) \in filled /\ \A y \in filled : y <= Largest(filled)
      BY <1>3, <2>1, <2>4, LargestExists
    <3>2. PICK m \in filled : \A y \in filled : y <= m
      BY <3>1
    <3>3. m \in 1..n /\ m \in 0..n
      BY <1>3, <2>1
    <3>4. \A x : x \in filled <=> x \in 1..m
      <4>1. \A x \in filled : x \in 1..m
        <5>1. \A x \in filled : x \in 1..n /\ x <= m
          BY <2>1, <3>2
        <5>2. \A x \in 1..n : x <= m => x \in 1..m
          BY <3>3
        <5> QED BY <5>1, <5>2
      <4>2. \A x \in 1..m : x \in 1..n /\ x <= m
        BY <1>3, <3>3
      <4>3. \A x \in 1..m : x \in filled
        BY <2>2, <4>2
      <4> QED BY <4>1, <4>3
    <3>5. filled = 1..m
      BY <3>4
    <3> QED BY <3>3, <3>5
  <2> QED BY <2>3, <2>4
<1>8. \A i \in 1..m : groups[i] = [operator |-> operators[i], bins |-> Part(S, size, i)]
  BY <1>5, <1>7
<1>9. \A i \in 1..m : /\ groups[i].operator = operators[i] /\ groups[i].bins = Part(S, size, i)
                       /\ groups[i] \in Group
  <2> SUFFICES ASSUME NEW i \in 1..m
               PROVE  /\ groups[i].operator = operators[i] /\ groups[i].bins = Part(S, size, i)
                      /\ groups[i] \in Group
    OBVIOUS
  <2>1. operators[i] \in Operators
    BY <1>3, <1>7
  <2>2. Part(S, size, i) \in SUBSET Bins
    BY <1>6
  <2>3. groups[i] = [operator |-> operators[i], bins |-> Part(S, size, i)]
    BY <1>8
  <2>4. [operator |-> operators[i], bins |-> Part(S, size, i)] \in Group
    BY <2>1, <2>2 DEF Group
  <2> QED BY <2>3, <2>4
<1>10. DOMAIN groups = 1..m /\ groups \in Seq(Group)
  <2>1. groups = [i \in 1..m |-> groups[i]]
    BY <1>5, <1>7
  <2> QED BY <1>9, <2>1
<1>11. S = UNION {groups[i].bins : i \in 1..m}
  <2>1. \A b \in S : \E i \in filled : b \in Part(S, size, i)
    BY <1>4
  <2>2. \A b \in S : \E i \in 1..m : b \in groups[i].bins
    BY <1>7, <1>9, <2>1
  <2>3. \A i \in 1..m : groups[i].bins \subseteq S
    BY <1>6, <1>9
  <2> QED BY <2>2, <2>3
<1>12. ASSUME NEW i \in 1..m, NEW j \in 1..m, i # j
       PROVE  groups[i].bins \cap groups[j].bins = {} /\ groups[i].operator # groups[j].operator
  <2>1. i \in 1..n /\ j \in 1..n
    BY <1>7
  <2> QED BY <1>3, <1>4, <1>9, <1>12, <2>1
<1>13. \A i \in 1..m : groups[i].bins # {}
  BY <1>7, <1>9
<1>14. Splits(groups, S)
  BY <1>10, <1>11, <1>12, <1>13 DEF Splits
<1> QED BY <1>14 DEF groups

-----------------------------------------------------------------------------
(***************************************************************************)
(* Types, and the plans of the releases                                    *)
(***************************************************************************)

JobPlanned(q) ==
  /\ q.step \in {"idle", "seen", "number"} /\ q.plan \subseteq Bins
  /\ Len(q.taken) <= Len(q.groups)
  /\ IF q.step = "number" THEN Splits(q.groups, q.plan) ELSE q.groups = <<>>

PlansInv ==
  /\ NumbersInv
  /\ uploads \subseteq Uploads /\ audits \subseteq Audit
  /\ counter = [m \in 1..Months |-> counter[m]]
  /\ lock \in Clerks \cup {None}
  /\ \A k \in Clerks : JobPlanned(job[k])

LEMMA TypesOf == PlansInv => CountTypeOK
<1> SUFFICES ASSUME PlansInv PROVE CountTypeOK
  OBVIOUS
<1>1. counter \in [1..Months -> 0..MaxPerMonth \cup {None}]
  <2>1. \A m \in 1..Months : counter[m] \in 0..MaxPerMonth \cup {None}
    BY DEF PlansInv, NumbersInv, MonthOK
  <2> QED BY <2>1 DEF PlansInv
<1>2. ASSUME NEW k \in Clerks
      PROVE  /\ job[k].step \in {"idle", "seen", "number"} /\ job[k].plan \subseteq Bins
             /\ job[k].groups \in Seq(Group) /\ job[k].taken \in Seq(Numbers)
             /\ Len(job[k].taken) <= Len(job[k].groups)
             /\ lock = k <=> job[k].taken # <<>>
  <2>1. JobPlanned(job[k])
    BY DEF PlansInv
  <2>2. job[k].groups \in Seq(Group)
    <3>1. <<>> \in Seq(Group)
      OBVIOUS
    <3> QED BY <2>1, <3>1 DEF JobPlanned, Splits
  <2> QED BY <2>1, <2>2 DEF PlansInv, NumbersInv, JobsOK, JobPlanned
<1>3. month \in 1..Months /\ given \subseteq Numbers /\ twice \subseteq given
  BY DEF PlansInv, NumbersInv, TablesOK
<1>4. uploads \subseteq Uploads /\ audits \subseteq Audit /\ lock \in Clerks \cup {None}
  BY DEF PlansInv
<1> QED BY <1>1, <1>2, <1>3, <1>4 DEF CountTypeOK

LEMMA IdlePlanned == JobPlanned(Idle)
  BY DEF JobPlanned, Idle

\* A job that goes back to the plan, or to the start.
LEMMA SeenPlanned ==
  ASSUME NEW q, JobPlanned(q), DOMAIN q = Fields
  PROVE  JobPlanned([q EXCEPT !.step = "seen", !.groups = <<>>, !.taken = <<>>])
  BY DEF JobPlanned, Fields

\* Steps of one job that add no audit.
LEMMA PlansJob ==
  ASSUME PlansInv, NumbersInv', NEW k \in Clerks, NEW q, job' = [job EXCEPT ![k] = q], JobPlanned(q),
         lock' \in {lock, None, k}, UNCHANGED <<uploads, audits, counter>>
  PROVE  PlansInv'
<1>1. ASSUME NEW j \in Clerks PROVE JobPlanned(job'[j])
  <2>1. job'[j] = IF j = k THEN q ELSE job[j]
    BY DEF PlansInv, NumbersInv, JobsOK
  <2> QED BY <2>1 DEF PlansInv
<1>2. counter' = [m \in 1..Months |-> counter'[m]]
  BY DEF PlansInv
<1>3. uploads' \subseteq Uploads /\ audits' \subseteq Audit /\ lock' \in Clerks \cup {None}
  BY DEF PlansInv
<1> QED BY <1>1, <1>2, <1>3 DEF PlansInv

LEMMA TakePlans ==
  ASSUME PlansInv, NumbersInv', NEW k \in Clerks, TakeNumber(k)
  PROVE  PlansInv'
<1> DEFINE no == <<month, LastNumber(k) + 1>>
           q == [job[k] EXCEPT !.taken = Append(@, no)]
<1>0. /\ UNCHANGED <<uploads, audits, counter>> /\ lock' \in {lock, None, k}
      /\ job[k].step = "number" /\ Len(job[k].taken) < Len(job[k].groups)
  BY DEF TakeNumber, Unlock
<1>1. DOMAIN job[k] = Fields /\ job[k].taken \in Seq(Numbers) /\ JobPlanned(job[k])
  BY DEF PlansInv, NumbersInv, JobsOK
<1>2. CASE job' = [job EXCEPT ![k] = Idle]
  BY <1>0, <1>2, IdlePlanned, PlansJob
<1>3. CASE job' = [job EXCEPT ![k].taken = Append(@, no)]
  <2>1. job' = [job EXCEPT ![k] = q]
    BY <1>3 DEF PlansInv, NumbersInv, JobsOK
  <2>2. Len(Append(job[k].taken, no)) = Len(job[k].taken) + 1
    BY <1>1
  <2> DEFINE taken == Append(job[k].taken, no)
  <2> HIDE DEF no, taken
  <2>3. /\ q.step = job[k].step /\ q.plan = job[k].plan /\ q.groups = job[k].groups
        /\ q.taken = taken
    BY <1>1 DEF Fields, taken
  <2>4. job[k].groups \in Seq(Group)
    BY <1>0, <1>1 DEF JobPlanned, Splits
  <2>5. Len(taken) <= Len(job[k].groups)
    BY <1>0, <1>1, <2>2, <2>4 DEF taken
  <2> HIDE DEF q
  <2>6. JobPlanned(q)
    BY <1>0, <1>1, <2>3, <2>5 DEF JobPlanned
  <2> QED BY <1>0, <2>1, <2>6, PlansJob
<1> QED BY <1>2, <1>3 DEF TakeNumber

\* The audits that a release makes are those of its groups.
LEMMA NewAudits ==
  ASSUME PlansInv, NEW k \in Clerks, NEW lost \in BOOLEAN, Commit(k, lost)
  PROVE  LET groups == job[k].groups  new == AuditsOf(job[k]) IN
         /\ Splits(groups, job[k].plan)
         /\ new \subseteq Audit /\ new \cap audits = {}
         /\ \A a \in new : \E i \in DOMAIN groups : a.operator = groups[i].operator /\ a.bins = groups[i].bins
         /\ \A i \in DOMAIN groups : \E a \in new : a.bins = groups[i].bins
         /\ \A a, b \in new : a # b => \E i, j \in DOMAIN groups :
              i # j /\ a.operator = groups[i].operator /\ a.bins = groups[i].bins
                    /\ b.operator = groups[j].operator /\ b.bins = groups[j].bins
<1> DEFINE groups == job[k].groups
           taken == job[k].taken
           new == AuditsOf(job[k])
           made(i) == [no |-> taken[i], operator |-> groups[i].operator, bins |-> groups[i].bins]
<1>1. job[k].step = "number" /\ Len(taken) = Len(groups)
  BY DEF Commit
<1>2. Splits(groups, job[k].plan) /\ groups \in Seq(Group) /\ taken \in Seq(Numbers)
  BY <1>1 DEF PlansInv, JobPlanned, NumbersInv, JobsOK, Splits
<1>3. DOMAIN taken = DOMAIN groups
  BY <1>1, <1>2
<1>4. new = {made(i) : i \in DOMAIN groups}
  BY <1>3 DEF AuditsOf
<1>5. \A i \in DOMAIN groups : /\ made(i).no = taken[i] /\ made(i).operator = groups[i].operator
                               /\ made(i).bins = groups[i].bins
  OBVIOUS
<1>6. ASSUME NEW i \in DOMAIN groups PROVE made(i) \in Audit /\ made(i) \notin audits
  <2>1. groups[i] \in Group /\ taken[i] \in Numbers
    BY <1>2, <1>3
  <2>2. groups[i].operator \in Operators /\ groups[i].bins \in SUBSET Bins
    BY <2>1 DEF Group
  <2>3. made(i) \in Audit
    BY <2>1, <2>2 DEF Audit
  <2>4. taken[i][2] \notin NumbersOf(taken[i][1])
    BY <1>3, InvAccounts DEF PlansInv, NumbersAccounted
  <2>5. made(i).no = taken[i]
    OBVIOUS
  <2> HIDE DEF made
  <2>6. made(i) \notin audits
    BY <2>4, <2>5 DEF NumbersOf
  <2> QED BY <2>3, <2>6
<1> HIDE DEF made, groups, taken, new
<1>7. \A a, b \in new : a # b => \E i, j \in DOMAIN groups : i # j /\ a = made(i) /\ b = made(j)
  BY <1>4
<1>8. \A a \in new : \E i \in DOMAIN groups : a = made(i)
  BY <1>4
<1>9. \A i \in DOMAIN groups : made(i) \in new
  BY <1>4
<1>10. new \subseteq Audit /\ new \cap audits = {}
  BY <1>6, <1>8
<1>11. \A a, b \in new : a # b => \E i, j \in DOMAIN groups :
              i # j /\ a.operator = groups[i].operator /\ a.bins = groups[i].bins
                    /\ b.operator = groups[j].operator /\ b.bins = groups[j].bins
  BY <1>5, <1>7
<1>12. \A a \in new : \E i \in DOMAIN groups : a.operator = groups[i].operator /\ a.bins = groups[i].bins
  BY <1>5, <1>8
<1>13. \A i \in DOMAIN groups : \E a \in new : a.bins = groups[i].bins
  BY <1>5, <1>9
<1> QED BY <1>2, <1>10, <1>11, <1>12, <1>13 DEF groups, new

LEMMA CommitPlans ==
  ASSUME PlansInv, NumbersInv', NEW k \in Clerks, NEW lost \in BOOLEAN, Commit(k, lost)
  PROVE  PlansInv'
<1> DEFINE q == IF lost THEN [job[k] EXCEPT !.step = "seen", !.groups = <<>>, !.taken = <<>>] ELSE Idle
<1>1. /\ job' = [job EXCEPT ![k] = q] /\ lock' \in {lock, None} /\ uploads' = uploads
      /\ audits' = audits \cup AuditsOf(job[k]) /\ counter' = CounterAfter(k)
  BY DEF Commit, Unlock
<1>2. JobPlanned(q)
  <2>1. JobPlanned(job[k]) /\ DOMAIN job[k] = Fields
    BY DEF PlansInv, NumbersInv, JobsOK
  <2> QED BY <2>1, IdlePlanned, SeenPlanned
<1> HIDE DEF q
<1>3. ASSUME NEW j \in Clerks PROVE JobPlanned(job'[j])
  <2>1. job'[j] = IF j = k THEN q ELSE job[j]
    BY <1>1 DEF PlansInv, NumbersInv, JobsOK
  <2> QED BY <1>2, <2>1 DEF PlansInv
<1>4. audits' \subseteq Audit
  BY <1>1, NewAudits DEF PlansInv
<1>5. counter' = [m \in 1..Months |-> counter'[m]]
  BY <1>1 DEF CounterAfter
<1>6. uploads' \subseteq Uploads /\ lock' \in Clerks \cup {None}
  BY <1>1 DEF PlansInv
<1> QED BY <1>3, <1>4, <1>5, <1>6 DEF PlansInv

LEMMA PlansStep == PlansInv /\ [CountNext]_vars => PlansInv'
<1> SUFFICES ASSUME PlansInv, [CountNext]_vars PROVE PlansInv'
  OBVIOUS
<1>n. NumbersInv'
  BY CountStep DEF PlansInv
<1>u. ASSUME UNCHANGED <<counter, lock, job>>, uploads' \subseteq Uploads, audits' \subseteq audits
      PROVE  PlansInv'
  BY <1>n, <1>u DEF PlansInv
<1>1. ASSUME NEW u \in Uploads, UploadStock(u) PROVE PlansInv'
  BY <1>1, <1>u DEF UploadStock, PlansInv
<1>2. CASE NextMonth
  BY <1>2, <1>u DEF NextMonth, PlansInv
<1>3. CASE UNCHANGED vars
  BY <1>3, <1>u DEF vars, PlansInv
<1>4. ASSUME NEW a \in audits, Remove(a) PROVE PlansInv'
  BY <1>4, <1>u DEF Remove, PlansInv
<1>5. ASSUME NEW k \in Clerks, NEW u \in Uploads, NEW c \in Criteria, PreviewPlan(k, u, c)
      PROVE  PlansInv'
  <2>1. PICK plan \in Picks : job' = [job EXCEPT ![k] = [Idle EXCEPT !.step = "seen", !.upload = u,
                                                           !.criteria = c, !.plan = plan]]
    BY <1>5 DEF PreviewPlan
  <2> DEFINE q == [Idle EXCEPT !.step = "seen", !.upload = u, !.criteria = c, !.plan = plan]
  <2>2. plan \subseteq Bins
    BY CycleCountAssumption
  <2>3. JobPlanned(q)
    BY <2>2 DEF JobPlanned, Idle
  <2> HIDE DEF q
  <2> QED BY <1>n, <1>5, <2>1, <2>3, PlansJob DEF PreviewPlan, q
<1>6. ASSUME NEW k \in Clerks, Discard(k) PROVE PlansInv'
  BY <1>n, <1>6, IdlePlanned, PlansJob DEF Discard
<1>7. ASSUME NEW k \in Clerks, NEW operators \in OperatorLists, Release(k, operators) PROVE PlansInv'
  <2> DEFINE groups == Groups(job[k].plan, operators)
             q == [job[k] EXCEPT !.step = "number", !.groups = groups]
  <2>1. JobPlanned(job[k]) /\ DOMAIN job[k] = Fields /\ job[k].step = "seen" /\ job[k].taken = <<>>
    BY <1>7 DEF Release, PlansInv, NumbersInv, JobsOK
  <2>2. Splits(groups, job[k].plan)
    BY <1>7, <2>1, GroupsSplit DEF Release, JobPlanned
  <2> HIDE DEF groups
  <2>3. /\ q.step = "number" /\ q.plan = job[k].plan /\ q.groups = groups /\ q.taken = <<>>
    BY <2>1 DEF Fields
  <2>4. job' = [job EXCEPT ![k] = q]
    BY <1>7 DEF Release, PlansInv, NumbersInv, JobsOK, groups
  <2> HIDE DEF q
  <2>5. Len(q.taken) <= Len(q.groups)
    <3>1. Len(groups) \in Nat
      BY <2>2 DEF Splits
    <3> QED BY <2>3, <3>1
  <2>6. JobPlanned(q)
    BY <2>1, <2>2, <2>3, <2>5 DEF JobPlanned
  <2> QED BY <1>n, <1>7, <2>4, <2>6, PlansJob DEF Release
<1>8. ASSUME NEW k \in Clerks, Fail(k) PROVE PlansInv'
  <2> DEFINE q == [job[k] EXCEPT !.step = "seen", !.groups = <<>>, !.taken = <<>>]
  <2>1. JobPlanned(q)
    BY SeenPlanned DEF PlansInv, NumbersInv, JobsOK
  <2>2. job' = [job EXCEPT ![k] = q] /\ lock' \in {lock, None}
    BY <1>8 DEF Fail, Unlock
  <2> HIDE DEF q
  <2> QED BY <1>n, <1>8, <2>1, <2>2, PlansJob DEF Fail
<1> QED
  BY <1>n, <1>1, <1>2, <1>3, <1>4, <1>5, <1>6, <1>7, <1>8, TakePlans, CommitPlans DEF CountNext

LEMMA PlansInit == CountInit => PlansInv
<1> SUFFICES ASSUME CountInit PROVE PlansInv
  OBVIOUS
<1>1. ASSUME NEW a \in audits PROVE a \in Audit
  <2>1. PICK i \in 1..Legacy : a = [no |-> <<1, i>>, operator |-> None, bins |-> {}]
    BY DEF CountInit, OldAudits
  <2>2. <<1, i>> \in Numbers
    BY CycleCountAssumption DEF Numbers
  <2> QED BY <2>1, <2>2 DEF Audit
<1>2. \A k \in Clerks : JobPlanned(job[k])
  BY IdlePlanned DEF CountInit
<1>3. counter = [m \in 1..Months |-> counter[m]] /\ uploads \subseteq Uploads /\ lock \in Clerks \cup {None}
  BY DEF CountInit
<1> QED BY <1>1, <1>2, <1>3, CountInitInv DEF PlansInv

\* Every variable of the cycle counts keeps its type, for any stock files, plans, operators
\* and clerks; who has taken a number holds the lock of nextAuditNo, and no more numbers are
\* taken than a release has groups.
THEOREM CountTypeCorrect == CountSpec => []CountTypeOK
  BY PlansInit, PlansStep, TypesOf, PTL DEF CountSpec

-----------------------------------------------------------------------------
(***************************************************************************)
(* Releases are those of the book                                          *)
(***************************************************************************)

\* A clerk has a plan from the preview on, and a release takes no number twice.
JobBooked(q) ==
  /\ q.step = "idle" <=> q.plan = {}
  /\ \A i, j \in DOMAIN q.taken : i # j => q.taken[i] # q.taken[j]

BookInv == PlansInv /\ \A k \in Clerks : JobBooked(job[k])

LEMMA IdleBooked == JobBooked(Idle) /\ Idle.plan = {} /\ Idle.taken = <<>>
  BY DEF JobBooked, Idle

LEMMA JobChanged ==
  ASSUME BookInv, NEW k \in Clerks, NEW q, job' = [job EXCEPT ![k] = q]
  PROVE  /\ job'[k] = q /\ \A j \in Clerks \ {k} : job'[j] = job[j]
         /\ [j \in Clerks |-> job'[j].plan] = [[j \in Clerks |-> job[j].plan] EXCEPT ![k] = q.plan]
         /\ PlansInv' /\ JobBooked(q) => BookInv'
<1>1. DOMAIN job = Clerks
  BY DEF BookInv, PlansInv, NumbersInv, JobsOK
<1>2. job'[k] = q /\ \A j \in Clerks \ {k} : job'[j] = job[j]
  BY <1>1
<1>3. [j \in Clerks |-> job'[j].plan] = [[j \in Clerks |-> job[j].plan] EXCEPT ![k] = q.plan]
  <2> DEFINE before == [j \in Clerks |-> job[j].plan]
             after == [j \in Clerks |-> job'[j].plan]
  <2>1. \A j \in Clerks : after[j] = [before EXCEPT ![k] = q.plan][j]
    BY <1>2
  <2> QED BY <2>1
<1>4. ASSUME PlansInv', JobBooked(q) PROVE BookInv'
  <2>1. \A j \in Clerks : JobBooked(job'[j])
    BY <1>2, <1>4 DEF BookInv
  <2> QED BY <1>4, <2>1 DEF BookInv
<1> QED BY <1>2, <1>3, <1>4

\* The numbers of one release differ.
LEMMA TakeBooked ==
  ASSUME BookInv, PlansInv', NEW k \in Clerks, TakeNumber(k)
  PROVE  /\ BookInv' /\ UNCHANGED <<audits, given>>
         /\ \E q : job' = [job EXCEPT ![k] = q] /\ (q = Idle \/ q.plan = job[k].plan)
<1> DEFINE last == LastNumber(k)
           no == <<month, last + 1>>
           old == job[k].taken
           taken == Append(old, no)
<1>1. UNCHANGED <<audits, given>> /\ job[k].step = "number"
  BY DEF TakeNumber
<1>2. /\ DOMAIN job = Clerks /\ DOMAIN job[k] = Fields /\ old \in Seq(Numbers) /\ JobBooked(job[k])
      /\ NumbersInv /\ month \in 1..Months
  BY DEF BookInv, PlansInv, NumbersInv, JobsOK, TablesOK
<1>3. CASE job' = [job EXCEPT ![k] = Idle]
  BY <1>1, <1>3, IdleBooked, JobChanged
<1>4. CASE job' = [job EXCEPT ![k].taken = Append(@, no)]
  <2> DEFINE q == [job[k] EXCEPT !.taken = taken]
  <2>1. job' = [job EXCEPT ![k] = q]
    BY <1>2, <1>4
  <2>2. q.step = job[k].step /\ q.plan = job[k].plan /\ q.taken = taken
    BY <1>2 DEF Fields
  <2>3. last \in Nat /\ \A x \in TakenIn(k, month) : x <= last
    BY <1>2, NextNumber, Bounds
  <2>4. \A i \in DOMAIN old : old[i] # no
    <3>1. \A i \in DOMAIN old : old[i] = no => last + 1 \in TakenIn(k, month)
      BY <1>2, TakenAre
    <3> QED BY <2>3, <3>1
  <2>5. /\ DOMAIN taken = 1..(Len(old) + 1) /\ Len(old) \in Nat /\ DOMAIN old = 1..Len(old)
        /\ \A i \in 1..Len(old) : taken[i] = old[i]
        /\ taken[Len(old) + 1] = no
    <3> HIDE DEF no
    <3>1. old \in Seq(Numbers \cup {no})
      BY <1>2
    <3> QED BY <3>1
  <2>6. \A i \in 1..(Len(old) + 1) : i \in 1..Len(old) \/ i = Len(old) + 1
    BY <2>5
  <2> HIDE DEF taken, no, old
  <2>7. \A i, j \in DOMAIN taken : i # j => taken[i] # taken[j]
    <3>1. \A i, j \in DOMAIN old : i # j => old[i] # old[j]
      BY <1>2 DEF JobBooked, old
    <3> QED BY <2>4, <2>5, <2>6, <3>1
  <2>8. JobBooked(q)
    BY <1>2, <2>2, <2>7 DEF JobBooked
  <2> HIDE DEF q
  <2> QED BY <1>1, <2>1, <2>2, <2>8, JobChanged
<1> QED BY <1>3, <1>4 DEF TakeNumber

LEMMA BookStep == BookInv /\ [CountNext]_vars => BookInv'
<1> SUFFICES ASSUME BookInv, [CountNext]_vars PROVE BookInv'
  OBVIOUS
<1>p. PlansInv'
  BY PlansStep DEF BookInv
<1>u. ASSUME job' = job PROVE BookInv'
  BY <1>p, <1>u DEF BookInv
<1>j. /\ PlansInv /\ DOMAIN job = Clerks
      /\ \A k \in Clerks : DOMAIN job[k] = Fields /\ JobBooked(job[k])
                           /\ (job[k].step # "number" => job[k].taken = <<>>)
  BY DEF BookInv, PlansInv, NumbersInv, JobsOK
<1>1. ASSUME NEW k \in Clerks, NEW u \in Uploads, NEW c \in Criteria, PreviewPlan(k, u, c)
      PROVE  BookInv'
  <2>1. PICK chosen \in Picks : job' = [job EXCEPT ![k] = [Idle EXCEPT !.step = "seen", !.upload = u,
                                                             !.criteria = c, !.plan = chosen]]
    BY <1>1 DEF PreviewPlan
  <2>2. chosen # {}
    BY CycleCountAssumption
  <2>3. JobBooked([Idle EXCEPT !.step = "seen", !.upload = u, !.criteria = c, !.plan = chosen])
    BY <2>2 DEF JobBooked, Idle
  <2> QED BY <1>p, <2>1, <2>3, JobChanged
<1>2. ASSUME NEW k \in Clerks, Discard(k) PROVE BookInv'
  BY <1>p, <1>2, IdleBooked, JobChanged DEF Discard
<1>3. ASSUME NEW k \in Clerks, NEW operators, Release(k, operators) PROVE BookInv'
  <2> DEFINE groups == Groups(job[k].plan, operators)
             q == [job[k] EXCEPT !.step = "number", !.groups = groups]
  <2>1. job' = [job EXCEPT ![k] = q] /\ job[k].step = "seen"
    BY <1>3, <1>j DEF Release
  <2> HIDE DEF groups
  <2>2. JobBooked(q)
    BY <1>j, <2>1 DEF JobBooked, Fields
  <2> HIDE DEF q
  <2> QED BY <1>p, <2>1, <2>2, JobChanged
<1>4. ASSUME NEW k \in Clerks, JobBooked(job[k]), DOMAIN job[k] = Fields, job[k].step = "number"
      PROVE  JobBooked([job[k] EXCEPT !.step = "seen", !.groups = <<>>, !.taken = <<>>])
  BY <1>4 DEF JobBooked, Fields
<1>5. ASSUME NEW k \in Clerks, Fail(k) PROVE BookInv'
  <2> DEFINE q == [job[k] EXCEPT !.step = "seen", !.groups = <<>>, !.taken = <<>>]
  <2>1. job' = [job EXCEPT ![k] = q] /\ JobBooked(q)
    BY <1>4, <1>5, <1>j DEF Fail
  <2> HIDE DEF q
  <2> QED BY <1>p, <2>1, JobChanged
<1>6. ASSUME NEW k \in Clerks, NEW lost \in BOOLEAN, Commit(k, lost) PROVE BookInv'
  <2> DEFINE q == IF lost THEN [job[k] EXCEPT !.step = "seen", !.groups = <<>>, !.taken = <<>>] ELSE Idle
  <2>1. job' = [job EXCEPT ![k] = q] /\ JobBooked(q)
    BY <1>4, <1>6, <1>j, IdleBooked DEF Commit
  <2> HIDE DEF q
  <2> QED BY <1>p, <2>1, JobChanged
<1>7. ASSUME \/ \E u \in Uploads : UploadStock(u)
             \/ \E a \in audits : Remove(a)
             \/ NextMonth
             \/ UNCHANGED vars
      PROVE  BookInv'
  BY <1>7, <1>u DEF UploadStock, Remove, NextMonth, vars
<1> QED BY <1>p, <1>1, <1>2, <1>3, <1>5, <1>6, <1>7, TakeBooked DEF CountNext

\* The numbers of the audits that a release makes.
LEMMA NewNumbers ==
  ASSUME BookInv, NEW k \in Clerks, NEW lost \in BOOLEAN, Commit(k, lost)
  PROVE  LET new == AuditsOf(job[k]) IN
         /\ \A a \in new : a.no \in Numbers
         /\ \A m, n : n \in TakenIn(k, m) <=> <<m, n>> \in Book!NumbersIn(new)
         /\ \A a, b \in new : a # b => a.no # b.no
<1> DEFINE groups == job[k].groups
           taken == job[k].taken
           new == AuditsOf(job[k])
           made(i) == [no |-> taken[i], operator |-> groups[i].operator, bins |-> groups[i].bins]
<1>1. taken \in Seq(Numbers) /\ \A i, j \in DOMAIN taken : i # j => taken[i] # taken[j]
  BY DEF BookInv, JobBooked, PlansInv, NumbersInv, JobsOK
<1>2. new = {made(i) : i \in DOMAIN taken}
  BY DEF AuditsOf
<1>3. \A i : made(i).no = taken[i]
  OBVIOUS
<1>4. \A m, n : n \in TakenIn(k, m) <=> \E i \in DOMAIN taken : taken[i] = <<m, n>>
  BY <1>1, TakenAre
<1> HIDE DEF made, groups, taken, new
<1>5. \A m, n : n \in TakenIn(k, m) <=> <<m, n>> \in Book!NumbersIn(new)
  BY <1>2, <1>3, <1>4 DEF Book!NumbersIn
<1>6. \A a \in new : a.no \in Numbers
  BY <1>1, <1>2, <1>3
<1>7. \A a, b \in new : a # b => a.no # b.no
  BY <1>1, <1>2, <1>3
<1> QED BY <1>5, <1>6, <1>7 DEF new

LEMMA InOrder ==
  ASSUME BookInv, NEW k \in Clerks, NEW lost \in BOOLEAN, Commit(k, lost)
  PROVE  Book!NextInOrder(AuditsOf(job[k]))
<1> DEFINE new == AuditsOf(job[k])
<1>1. /\ \A a \in new : a.no \in Numbers
      /\ \A m, n : n \in TakenIn(k, m) <=> <<m, n>> \in Book!NumbersIn(new)
      /\ \A a, b \in new : a # b => a.no # b.no
  BY NewNumbers
<1>2. NumbersInv /\ given \subseteq Numbers /\ \A a \in audits : a.no \in Numbers
  BY DEF BookInv, PlansInv, NumbersInv, TablesOK
<1> HIDE DEF new
<1>3. ASSUME NEW a \in new PROVE \E m \in 1..Months, n \in 1..MaxPerMonth : n \in TakenIn(k, m) /\ a.no = <<m, n>>
  BY <1>1 DEF Numbers, Book!NumbersIn
<1>4. ASSUME NEW m \in 1..Months, NEW n \in TakenIn(k, m), n \in 1..MaxPerMonth
      PROVE  /\ \A p : <<m, p>> \in given \cup Book!NumbersIn(audits) => p < n
             /\ \A p \in 1..n : <<m, p>> \in given \cup Book!NumbersIn(OldAudits) \cup Book!NumbersIn(new)
  <2>1. MonthOK(m) /\ TakenOK(k, m)
    BY <1>2 DEF NumbersInv
  <2>2. \A p : <<m, p>> \in given => p < n
    BY <1>2, <1>4, <2>1, Bounds DEF MonthOK, TakenOK, Numbers
  <2>3. \A p : <<m, p>> \in Book!NumbersIn(audits) => p < n
    BY <1>2, <2>1, NumbersOfType DEF NumbersInv, TakenOK, Book!NumbersIn
  <2>4. \A p \in 1..n : m = 1 /\ p <= Legacy => <<m, p>> \in Book!NumbersIn(OldAudits)
    <3> SUFFICES ASSUME NEW p \in 1..n, m = 1, p <= Legacy PROVE <<m, p>> \in Book!NumbersIn(OldAudits)
      OBVIOUS
    <3>1. p \in 1..Legacy
      BY Bounds
    <3>2. [no |-> <<1, p>>, operator |-> None, bins |-> {}] \in OldAudits
      BY <3>1 DEF OldAudits
    <3> QED BY <3>2 DEF Book!NumbersIn
  <2>5. \A p \in 1..n : Counted(m, p) => <<m, p>> \in given \/ (m = 1 /\ p <= Legacy)
    BY <1>4, <2>1, Bounds DEF Counted, MonthOK
  <2> QED BY <1>1, <2>1, <2>2, <2>3, <2>4, <2>5 DEF TakenOK
<1>5. ASSUME NEW a \in new
      PROVE  /\ \A used \in given \cup Book!NumbersIn(audits) :
                  used[1] = a.no[1] => used[2] < a.no[2]
             /\ \A n \in 1..a.no[2] :
                  <<a.no[1], n>> \in given \cup Book!NumbersIn(OldAudits) \cup Book!NumbersIn(new)
  <2>1. PICK m \in 1..Months, n \in 1..MaxPerMonth : n \in TakenIn(k, m) /\ a.no = <<m, n>>
    BY <1>3
  <2>2. a.no[1] = m /\ a.no[2] = n
    BY <2>1
  <2>3. \A used \in given \cup Book!NumbersIn(audits) : used = <<used[1], used[2]>>
    BY <1>2 DEF Numbers, Book!NumbersIn
  <2> QED BY <1>4, <2>1, <2>2, <2>3
<1>6. Book!NextInOrder(new)
  BY <1>1, <1>5 DEF Book!NextInOrder
<1> QED BY <1>6 DEF new

LEMMA CommitReleases ==
  ASSUME BookInv, NEW k \in Clerks, NEW lost \in BOOLEAN, Commit(k, lost)
  PROVE  Book!Release(k)
<1> DEFINE new == AuditsOf(job[k])
           groups == job[k].groups
           plan == [j \in Clerks |-> job[j].plan]
           after == [j \in Clerks |-> job'[j].plan]
           q == IF lost THEN [job[k] EXCEPT !.step = "seen", !.groups = <<>>, !.taken = <<>>] ELSE Idle
<1>1. /\ Splits(groups, job[k].plan)
      /\ new \cap audits = {} /\ audits' = audits \cup new
      /\ \A a \in new : \E i \in DOMAIN groups : a.operator = groups[i].operator /\ a.bins = groups[i].bins
      /\ \A i \in DOMAIN groups : \E a \in new : a.bins = groups[i].bins
      /\ \A a, b \in new : a # b => \E i, j \in DOMAIN groups :
           i # j /\ a.operator = groups[i].operator /\ a.bins = groups[i].bins
                 /\ b.operator = groups[j].operator /\ b.bins = groups[j].bins
  BY NewAudits DEF BookInv, Commit
<1>2. Book!NextInOrder(new)
  BY InOrder
<1>3. given' = given \cup Book!NumbersIn(new) /\ job' = [job EXCEPT ![k] = q] /\ job[k].step = "number"
  BY DEF Commit, Book!NumbersIn
<1>4. DOMAIN job[k] = Fields /\ job[k].plan # {}
  BY <1>3 DEF BookInv, JobBooked, PlansInv, NumbersInv, JobsOK
<1>5. q.plan \in {job[k].plan, {}}
  BY <1>4, IdleBooked DEF Fields
<1> HIDE DEF new, groups, q
<1>6. after \in {plan, [plan EXCEPT ![k] = {}]}
  <2>1. after = [plan EXCEPT ![k] = q.plan]
    BY <1>3, JobChanged
  <2>2. plan = [plan EXCEPT ![k] = job[k].plan]
    OBVIOUS
  <2> HIDE DEF plan, after
  <2>3. CASE q.plan = job[k].plan
    BY <2>1, <2>2, <2>3
  <2>4. CASE q.plan = {}
    BY <2>1, <2>4
  <2> QED BY <1>5, <2>3, <2>4
<1>7. job[k].plan = UNION {a.bins : a \in new}
  <2>1. job[k].plan = UNION {groups[i].bins : i \in DOMAIN groups}
    BY <1>1 DEF Splits
  <2>2. {groups[i].bins : i \in DOMAIN groups} = {a.bins : a \in new}
    BY <1>1
  <2> QED BY <2>1, <2>2
<1>8. \A a \in new : a.operator \in Operators /\ a.bins # {}
  <2>1. \A i \in DOMAIN groups : groups[i].operator \in Operators /\ groups[i].bins # {}
    <3>1. \A i \in DOMAIN groups : groups[i] \in Group /\ groups[i].bins # {}
      BY <1>1 DEF Splits
    <3> QED BY <3>1 DEF Group
  <2> SUFFICES ASSUME NEW a \in new PROVE a.operator \in Operators /\ a.bins # {}
    OBVIOUS
  <2>2. PICK i \in DOMAIN groups : a.operator = groups[i].operator /\ a.bins = groups[i].bins
    BY <1>1
  <2> QED BY <2>1, <2>2
<1>9. ASSUME NEW a \in new, NEW b \in new, a # b
      PROVE  a.operator # b.operator /\ a.bins \cap b.bins = {}
  <2>1. PICK i \in DOMAIN groups, j \in DOMAIN groups :
          /\ i # j /\ a.operator = groups[i].operator /\ a.bins = groups[i].bins
          /\ b.operator = groups[j].operator /\ b.bins = groups[j].bins
    BY <1>1, <1>9
  <2>2. groups[i].bins \cap groups[j].bins = {} /\ groups[i].operator # groups[j].operator
    BY <1>1, <2>1 DEF Splits
  <2> QED BY <2>1, <2>2
<1>10. new # {} /\ audits' \ audits = new /\ audits \subseteq audits'
  BY <1>1, <1>4, <1>7
<1>11. plan[k] = job[k].plan
  OBVIOUS
<1>12. Book!SharedOut(new, plan[k])
  BY <1>7, <1>8, <1>9, <1>11 DEF Book!SharedOut
<1> QED BY <1>2, <1>3, <1>6, <1>10, <1>12 DEF Book!Release

LEMMA BookSimulated == BookInv /\ [CountNext]_vars => [Book!BookNext]_(Book!bookVars)
<1> SUFFICES ASSUME BookInv, [CountNext]_vars PROVE [Book!BookNext]_(Book!bookVars)
  OBVIOUS
<1> DEFINE plan == [j \in Clerks |-> job[j].plan]
           after == [j \in Clerks |-> job'[j].plan]
<1>0. DOMAIN job = Clerks /\ \A k \in Clerks : JobBooked(job[k]) /\ plan[k] = job[k].plan
  BY DEF BookInv, PlansInv, NumbersInv, JobsOK
<1>u. ASSUME after = plan, UNCHANGED <<audits, given>> PROVE UNCHANGED Book!bookVars
  BY <1>u DEF Book!bookVars
\* What a step of one job does to its plan.
<1>j. ASSUME NEW k \in Clerks, NEW q, job' = [job EXCEPT ![k] = q] PROVE after = [plan EXCEPT ![k] = q.plan]
  BY <1>j, JobChanged
<1>k. ASSUME NEW k \in Clerks PROVE plan = [plan EXCEPT ![k] = job[k].plan]
  OBVIOUS
<1> HIDE DEF plan, after
<1>1. ASSUME NEW k \in Clerks, NEW u \in Uploads, NEW c \in Criteria, PreviewPlan(k, u, c)
      PROVE  \E S \in SUBSET Bins : Book!Choose(k, S)
  <2>1. PICK chosen \in Picks : job' = [job EXCEPT ![k] = [Idle EXCEPT !.step = "seen", !.upload = u,
                                                             !.criteria = c, !.plan = chosen]]
    BY <1>1 DEF PreviewPlan
  <2> DEFINE q == [Idle EXCEPT !.step = "seen", !.upload = u, !.criteria = c, !.plan = chosen]
  <2>2. chosen # {} /\ chosen \in SUBSET Bins
    BY CycleCountAssumption
  <2>3. q.plan = chosen
    BY DEF Idle
  <2> HIDE DEF q
  <2>4. after = [plan EXCEPT ![k] = chosen]
    BY <1>j, <2>1, <2>3 DEF q
  <2>5. plan[k] = {} /\ UNCHANGED <<audits, given>>
    BY <1>0, <1>1 DEF PreviewPlan, JobBooked
  <2> QED BY <2>2, <2>4, <2>5 DEF Book!Choose, plan, after
<1>2. ASSUME NEW k \in Clerks, job' = [job EXCEPT ![k] = Idle], job[k].step # "idle",
             UNCHANGED <<audits, given>>
      PROVE  Book!Drop(k)
  <2>1. after = [plan EXCEPT ![k] = {}]
    BY <1>2, <1>j, IdleBooked
  <2>2. plan[k] # {}
    BY <1>0, <1>2 DEF JobBooked
  <2> QED BY <1>2, <2>1, <2>2 DEF Book!Drop, plan, after
<1>3. ASSUME NEW k \in Clerks, NEW q, job' = [job EXCEPT ![k] = q], q.plan = job[k].plan,
             UNCHANGED <<audits, given>>
      PROVE  UNCHANGED Book!bookVars
  <2>1. after = [plan EXCEPT ![k] = q.plan]
    BY <1>3, <1>j
  <2>2. after = plan
    BY <1>3, <1>k, <2>1
  <2> QED BY <1>3, <1>u, <2>2
<1>4. ASSUME NEW k \in Clerks, Discard(k) PROVE Book!Drop(k)
  BY <1>2, <1>4 DEF Discard
<1>5. ASSUME NEW k \in Clerks, NEW operators, Release(k, operators) PROVE UNCHANGED Book!bookVars
  <2> DEFINE groups == Groups(job[k].plan, operators)
             q == [job[k] EXCEPT !.step = "number", !.groups = groups]
  <2>1. job' = [job EXCEPT ![k] = q] /\ UNCHANGED <<audits, given>>
    BY <1>0, <1>5 DEF Release
  <2> HIDE DEF groups
  <2>2. q.plan = job[k].plan
    BY DEF BookInv, PlansInv, NumbersInv, JobsOK, Fields
  <2> HIDE DEF q
  <2> QED BY <1>3, <2>1, <2>2
<1>6. ASSUME NEW k \in Clerks, Fail(k) PROVE UNCHANGED Book!bookVars
  <2> DEFINE q == [job[k] EXCEPT !.step = "seen", !.groups = <<>>, !.taken = <<>>]
  <2>1. job' = [job EXCEPT ![k] = q] /\ UNCHANGED <<audits, given>>
    BY <1>6 DEF Fail
  <2>2. q.plan = job[k].plan
    BY DEF BookInv, PlansInv, NumbersInv, JobsOK, Fields
  <2> HIDE DEF q
  <2> QED BY <1>3, <2>1, <2>2
<1>7. ASSUME NEW k \in Clerks, TakeNumber(k) PROVE Book!Drop(k) \/ UNCHANGED Book!bookVars
  <2>1. PlansInv' /\ job[k].step # "idle"
    BY <1>7, PlansStep DEF BookInv, TakeNumber
  <2>2. UNCHANGED <<audits, given>> /\ \E q : job' = [job EXCEPT ![k] = q] /\ (q = Idle \/ q.plan = job[k].plan)
    BY <1>7, <2>1, TakeBooked
  <2> QED BY <1>2, <1>3, <2>1, <2>2
<1>8. ASSUME NEW a \in audits, Remove(a) PROVE Book!Withdraw(a)
  <2>1. job' = job /\ audits' = audits \ {a} /\ given' = given
    BY <1>8 DEF Remove
  <2>2. after = plan
    BY <2>1 DEF after, plan
  <2> QED BY <2>1, <2>2 DEF Book!Withdraw, after, plan
<1>9. ASSUME (\E u \in Uploads : UploadStock(u)) \/ NextMonth \/ UNCHANGED vars
      PROVE  UNCHANGED Book!bookVars
  <2>1. job' = job /\ UNCHANGED <<audits, given>>
    BY <1>9 DEF UploadStock, NextMonth, vars
  <2>2. after = plan
    BY <2>1 DEF after, plan
  <2> QED BY <1>u, <2>1, <2>2
<1> QED
  BY <1>1, <1>4, <1>5, <1>6, <1>7, <1>8, <1>9, CommitReleases DEF CountNext, Book!BookNext

\* However releases overlap, fail, are repeated and cross the turn of a month, each is seen as
\* one step of AuditBook: the whole plan its clerk has seen becomes audits under the next
\* numbers, or nothing happens; for any bins, clerks, operators and months.
THEOREM ReleasesAreAtomic == CountSpec => BookSpec
<1>1. CountInit => Book!BookInit /\ BookInv
  <2> SUFFICES ASSUME CountInit PROVE Book!BookInit /\ BookInv
    OBVIOUS
  <2>1. /\ job = [k \in Clerks |-> Idle] /\ audits = OldAudits /\ given = {}
    BY DEF CountInit
  <2>2. [k \in Clerks |-> job[k].plan] = [k \in Clerks |-> {}]
    BY <2>1, IdleBooked
  <2> QED BY <2>1, <2>2, IdleBooked, PlansInit DEF Book!BookInit, BookInv
<1> QED
  BY <1>1, BookStep, BookSimulated, PTL DEF CountSpec, BookSpec, Book!BookSpec
=============================================================================
