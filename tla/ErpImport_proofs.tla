------------------------- MODULE ErpImport_proofs ---------------------------
(***************************************************************************)
(* Theorems about ErpImport, for any orders, files, imports and bounds.    *)
(***************************************************************************)
EXTENDS ErpImport, FiniteSetTheorems, TLAPS

-----------------------------------------------------------------------------
(***************************************************************************)
(* The imports and their locks                                             *)
(***************************************************************************)

\* The number that an import has locked.
Held(q) == IF q.step \in Locking /\ q.name # None THEN {q.name[1]} ELSE {}

JobsOK == job \in [Jobs -> Job] /\ \A j \in Jobs : Consistent(job[j])

JobInv == JobsOK /\ locks \subseteq Numbers /\ LockedByOne

LEMMA NumbersInNames ==
  \A n \in Names : n[1] \in Numbers /\ n[2] \in Obds
  BY DEF Names

LEMMA TimersSweep == Timers \subseteq Sweeps
  BY ErpImportAssumption

LEMMA HeldByOne ==
  ASSUME JobsOK
  PROVE  LockedByOne <=>
           \A n \in Numbers : /\ n \in locks <=> \E j \in Jobs : n \in Held(job[j])
                              /\ \A i, j \in Jobs : n \in Held(job[i]) /\ n \in Held(job[j]) => i = j
<1>1. \A n : Holding(n) = {j \in Jobs : n \in Held(job[j])}
  BY DEF Holding, Held
<1> QED BY <1>1 DEF LockedByOne

LEMMA HeldIsNumber ==
  ASSUME NEW q \in Job PROVE Held(q) \subseteq Numbers
<1>1. q.name \in Names \cup {None}
  BY DEF Job
<1> QED BY <1>1, NumbersInNames DEF Held

LEMMA IdleType == Idle \in Job /\ Consistent(Idle) /\ Held(Idle) = {}
  BY DEF Idle, Job, Consistent, Held, Locking, Reading

\* A step of one import that keeps what it has locked.
LEMMA KeepLock ==
  ASSUME JobInv, NEW j \in Jobs, NEW q \in Job, Consistent(q),
         job' = [job EXCEPT ![j] = q], locks' = locks, Held(q) = Held(job[j])
  PROVE  JobInv'
<1>1. JobsOK'
  BY DEF JobInv, JobsOK, Consistent
<1>2. \A i \in Jobs : Held(job'[i]) = Held(job[i])
  BY DEF JobInv, JobsOK
<1>3. LockedByOne'
  BY <1>1, <1>2, HeldByOne, SMTT(40) DEF JobInv, LockedByOne, Holding, Held, JobsOK
<1> QED BY <1>1, <1>3 DEF JobInv

\* A step that ends an import from the drive, with its lock.
LEMMA FreeLock ==
  ASSUME JobInv, NEW j \in Jobs, NEW q \in Job, Consistent(q),
         job' = [job EXCEPT ![j] = q], locks' = locks \ Held(job[j]), Held(q) = {}
  PROVE  JobInv'
<1>1. JobsOK'
  BY DEF JobInv, JobsOK, Consistent
<1>2. /\ \A i \in Jobs \ {j} : Held(job'[i]) = Held(job[i])
      /\ Held(job'[j]) = {}
  BY DEF JobInv, JobsOK
<1>3. ASSUME NEW n \in Numbers
      PROVE  /\ n \in locks' <=> Holding(n)' # {}
             /\ \A i, k \in Holding(n)' : i = k
  <2>1. Holding(n)' = {i \in Jobs : n \in Held(job'[i])}
    BY DEF Holding, Held
  <2>2. /\ n \in locks <=> \E i \in Jobs : n \in Held(job[i])
        /\ \A i, k \in Jobs : n \in Held(job[i]) /\ n \in Held(job[k]) => i = k
    BY HeldByOne DEF JobInv
  <2> QED BY <1>2, <2>1, <2>2
<1>4. LockedByOne'
  BY <1>3 DEF LockedByOne
<1> QED BY <1>1, <1>4 DEF JobInv

\* A step that locks a number for an import that has none.
LEMMA TakeLock ==
  ASSUME JobInv, NEW j \in Jobs, NEW q \in Job, Consistent(q), NEW m \in Numbers, m \notin locks,
         job' = [job EXCEPT ![j] = q], locks' = locks \cup {m},
         Held(job[j]) = {}, Held(q) = {m}
  PROVE  JobInv'
<1>1. JobsOK'
  BY DEF JobInv, JobsOK, Consistent
<1>2. /\ \A i \in Jobs \ {j} : Held(job'[i]) = Held(job[i])
      /\ Held(job'[j]) = {m}
  BY DEF JobInv, JobsOK
<1>3. ASSUME NEW n \in Numbers
      PROVE  /\ n \in locks' <=> Holding(n)' # {}
             /\ \A i, k \in Holding(n)' : i = k
  <2>1. Holding(n)' = {i \in Jobs : n \in Held(job'[i])}
    BY DEF Holding, Held
  <2>2. /\ n \in locks <=> \E i \in Jobs : n \in Held(job[i])
        /\ \A i, k \in Jobs : n \in Held(job[i]) /\ n \in Held(job[k]) => i = k
    BY HeldByOne DEF JobInv
  <2> QED BY <1>2, <2>1, <2>2
<1>4. LockedByOne'
  BY <1>3 DEF LockedByOne
<1> QED BY <1>1, <1>4 DEF JobInv

LEMMA FieldTypes ==
  ASSUME JobsOK, NEW j \in Jobs
  PROVE  /\ job[j] \in Job /\ job[j].order \in Orders \cup {None} /\ job[j].name \in Names \cup {None}
         /\ job[j].file \in Files \cup {None} /\ job[j].todo \in SUBSET Listed
         /\ job[j].known \in BOOLEAN /\ Consistent(job[j])
  BY DEF JobsOK, Job

LEMMA AfterType ==
  ASSUME JobsOK, NEW j \in Jobs
  PROVE  After(j) \in Job /\ Consistent(After(j)) /\ Held(After(j)) = {}
<1>1. job[j].todo \in SUBSET Listed
  BY FieldTypes
<1> QED BY <1>1, IdleType DEF After, Idle, Job, Consistent, Held, Locking, Reading

LEMMA FinishJob ==
  ASSUME JobInv, NEW j \in Jobs, job[j].step \in Locking, Finish(j)
  PROVE  JobInv'
<1>1. locks' = locks \ Held(job[j])
  BY DEF Finish, Held
<1>2. job' = [job EXCEPT ![j] = After(j)]
  BY DEF Finish
<1> QED BY <1>1, <1>2, AfterType, FreeLock DEF JobInv

LEMMA FailJob ==
  ASSUME JobInv, NEW j \in Jobs, job[j].step \in Locking, Fail(j)
  PROVE  JobInv'
<1>1. CASE job[j].name = None
  BY <1>1, FinishJob DEF Fail
<1>2. CASE job[j].name # None
  <2> DEFINE q == [job[j] EXCEPT !.step = "setAside"]
  <2>1. job' = [job EXCEPT ![j] = q] /\ locks' = locks
    BY <1>2 DEF Fail
  <2>2. q \in Job /\ Consistent(q) /\ Held(q) = Held(job[j])
    BY <1>2, FieldTypes DEF JobInv, Job, Consistent, Held, Locking, Reading
  <2> QED BY <2>1, <2>2, KeepLock
<1> QED BY <1>1, <1>2

\* Steps that work on a job keep the locks right.
LEMMA JobStep == ImportTypeOK /\ JobInv /\ [ImportNext]_vars => JobInv'
<1> SUFFICES ASSUME ImportTypeOK, JobInv, [ImportNext]_vars PROVE JobInv'
  OBVIOUS
<1> USE ErpImportAssumption
<1>t. JobsOK
  BY DEF JobInv
\* Steps that leave the jobs alone.
<1>u. ASSUME UNCHANGED <<job, locks>> PROVE JobInv'
  BY <1>u DEF JobInv, JobsOK, LockedByOne, Holding
<1>1. ASSUME NEW j \in Clerks, NEW n \in Numbers, NEW given \in Overrides \cup {None},
             StartDrive(j, n, given)
      PROVE  JobInv'
  <2>1. j \in Jobs /\ Held(job[j]) = {}
    BY <1>1, IdleType DEF StartDrive, Jobs
  <2>2. PICK o \in OrdersOf(n) : LET b == IF given = None THEN obd[o] ELSE given IN
          job' = [job EXCEPT ![j] = [Idle EXCEPT !.step = IF b = obd[o] THEN "look" ELSE "correct",
                                                 !.order = o, !.name = <<n, b>>]]
    BY <1>1 DEF StartDrive
  <2> DEFINE b == IF given = None THEN obd[o] ELSE given
             q == [Idle EXCEPT !.step = IF b = obd[o] THEN "look" ELSE "correct",
                               !.order = o, !.name = <<n, b>>]
  <2>3. o \in Orders
    BY DEF OrdersOf
  <2>4. b \in Obds
    BY <2>3 DEF ImportTypeOK
  <2>5. <<n, b>> \in Names /\ <<n, b>> # None
    BY <2>4 DEF Names
  <2>6. job' = [job EXCEPT ![j] = q]
    BY <2>2
  <2> HIDE DEF b
  <2>7. q \in Job /\ Consistent(q) /\ Held(q) = {n}
    BY <2>3, <2>5 DEF Idle, Job, Consistent, Held, Locking, Reading
  <2>8. n \notin locks /\ locks' = locks \cup {n}
    BY <1>1 DEF StartDrive
  <2> HIDE DEF q
  <2> QED BY <2>1, <2>6, <2>7, <2>8, TakeLock
<1>2. ASSUME NEW j \in Clerks, NEW f \in Files, StartUpload(j, f)
      PROVE  JobInv'
  <2> DEFINE q == [Idle EXCEPT !.step = "validate", !.file = f]
  <2>1. j \in Jobs /\ Held(job[j]) = {}
    BY <1>2, IdleType DEF StartUpload, Jobs
  <2>2. q \in Job /\ Consistent(q) /\ Held(q) = {}
    BY DEF Idle, Job, Consistent, Held, Locking, Reading
  <2>3. job' = [job EXCEPT ![j] = q] /\ locks' = locks
    BY <1>2 DEF StartUpload
  <2> QED BY <2>1, <2>2, <2>3, KeepLock
<1>3. ASSUME NEW j \in Sweeps, NEW ns, List(j, ns)
      PROVE  JobInv'
  <2> DEFINE listed == UNION {OrdersOf(n) : n \in ns}
             all == {[order |-> o, obd |-> obd[o], done |-> rows[o] # None] : o \in listed}
             q == [Idle EXCEPT !.step = "next", !.todo = all]
  <2>1. j \in Jobs /\ Held(job[j]) = {}
    BY <1>3, IdleType DEF List, Jobs
  <2>2. \A o \in Orders : [order |-> o, obd |-> obd[o], done |-> rows[o] # None] \in Listed
    <3> SUFFICES ASSUME NEW o \in Orders
                 PROVE  [order |-> o, obd |-> obd[o], done |-> rows[o] # None] \in Listed
      OBVIOUS
    <3>1. obd[o] \in Obds /\ (rows[o] # None) \in BOOLEAN
      BY DEF ImportTypeOK
    <3> QED BY <3>1 DEF Listed
  <2>5. all \in SUBSET Listed
    <3>1. listed \subseteq Orders
      BY DEF OrdersOf
    <3> QED BY <2>2, <3>1
  <2>3. job' = [job EXCEPT ![j] = q] /\ locks' = locks
    BY <1>3 DEF List
  <2> HIDE DEF all, listed
  <2>4. q \in Job /\ Consistent(q) /\ Held(q) = {}
    BY <2>5 DEF Idle, Job, Consistent, Held, Locking, Reading
  <2> QED BY <2>1, <2>3, <2>4, KeepLock
<1>4. ASSUME NEW j \in Sweeps, NEW t \in job[j].todo, Take(j, t)
      PROVE  JobInv'
  <2> DEFINE n == NumberOf[t.order]
             q == [job[j] EXCEPT !.step = "look", !.order = t.order,
                                 !.name = <<NumberOf[t.order], t.obd>>, !.todo = job[j].todo \ {t}]
  <2>1. j \in Jobs /\ job[j].step = "next"
    BY <1>4 DEF Take, Jobs
  <2>2. Held(job[j]) = {}
    BY <2>1 DEF Held, Locking, Reading
  <2>3. t.order \in Orders /\ t.obd \in Obds
    BY <1>t, <2>1, FieldTypes DEF Listed
  <2>4. n \in Numbers /\ <<NumberOf[t.order], t.obd>> \in Names /\ <<NumberOf[t.order], t.obd>> # None
    BY <2>3 DEF Numbers, Names
  <2>5. job' = [job EXCEPT ![j] = q]
    BY <1>4 DEF Take
  <2>6. q \in Job /\ Consistent(q) /\ Held(q) = {n}
    BY <1>t, <2>1, <2>3, <2>4, FieldTypes, ZenonT(60) DEF Job, Consistent, Held, Locking, Reading
  <2>7. n \notin locks /\ locks' = locks \cup {n}
    BY <1>4 DEF Take, MayTake
  <2> HIDE DEF q, n
  <2> QED BY <2>1, <2>2, <2>4, <2>5, <2>6, <2>7, TakeLock
<1>5. ASSUME NEW j \in Jobs, NEW t \in job[j].todo, Skip(j, t)
      PROVE  JobInv'
  <2> DEFINE q == IF job[j].todo = {t} THEN Idle ELSE [job[j] EXCEPT !.todo = job[j].todo \ {t}]
  <2>1. job[j].step = "next" /\ job' = [job EXCEPT ![j] = q] /\ locks' = locks
    BY <1>5 DEF Skip
  <2>2. Held(job[j]) = {}
    BY <2>1 DEF Held, Locking, Reading
  <2>3. q \in Job /\ Consistent(q) /\ Held(q) = {}
    BY <1>t, <2>1, FieldTypes, IdleType DEF Job, Consistent, Held, Locking, Reading
  <2> QED BY <2>1, <2>2, <2>3, KeepLock
<1>6. ASSUME NEW j \in Jobs, Correct(j)
      PROVE  JobInv'
  <2>1. job[j].step = "correct"
    BY <1>6 DEF Correct
  <2>2. CASE GiveUp(j)
    BY <2>1, <2>2, FinishJob DEF GiveUp, Locking
  <2>3. CASE job' = [job EXCEPT ![j].step = "look"] /\ locks' = locks
    <3> DEFINE q == [job[j] EXCEPT !.step = "look"]
    <3>1. q \in Job /\ Consistent(q) /\ Held(q) = Held(job[j])
      BY <1>t, <2>1, FieldTypes DEF Job, Consistent, Held, Locking, Reading
    <3> QED BY <2>3, <3>1, KeepLock
  <2> QED BY <1>6, <2>2, <2>3 DEF Correct
<1>7. ASSUME NEW j \in Jobs, Look(j)
      PROVE  JobInv'
  <2> DEFINE f == folder["active"][job[j].name]
  <2>1. job[j].step = "look"
    BY <1>7 DEF Look
  <2>2. CASE GiveUp(j)
    BY <2>1, <2>2, FinishJob DEF GiveUp, Locking
  <2>3. CASE f # None /\ job' = [job EXCEPT ![j].step = "validate", ![j].file = f] /\ locks' = locks
    <3> DEFINE q == [job[j] EXCEPT !.step = "validate", !.file = f]
    <3>1. job[j].name \in Names
      BY <1>t, <2>1, FieldTypes DEF Consistent
    <3>2. f \in Files
      BY <2>3, <3>1 DEF ImportTypeOK, Folders
    <3>3. job' = [job EXCEPT ![j] = q]
      BY <2>3, <1>t DEF JobsOK
    <3> HIDE DEF f
    <3>4. q \in Job /\ Consistent(q) /\ Held(q) = Held(job[j])
      <4>1. q \in Job
        BY <1>t, <3>2, FieldTypes DEF Job, Locking, Reading
      <4>2. Consistent(q) /\ Held(q) = Held(job[j])
        BY <1>t, <2>1, <3>2, FieldTypes DEF Job, Consistent, Held, Locking, Reading
      <4> QED BY <4>1, <4>2
    <3> QED BY <2>3, <3>3, <3>4, KeepLock
  <2> QED BY <1>7, <2>2, <2>3 DEF Look
<1>8. ASSUME NEW j \in Jobs, LookFails(j)
      PROVE  JobInv'
  <2>1. job[j].step = "look" /\ (Fail(j) \/ Finish(j))
    BY <1>8 DEF LookFails, GiveUp
  <2> QED BY <2>1, FinishJob, FailJob DEF Locking
<1>9. ASSUME NEW j \in Jobs, Validate(j)
      PROVE  JobInv'
  <2>1. job[j].step = "validate"
    BY <1>9 DEF Validate
  <2>2. CASE Fail(j)
    BY <2>1, <2>2, FailJob DEF Locking, Reading
  <2>3. ASSUME NEW o \in Orders, job' = [job EXCEPT ![j].step = "customer", ![j].order = o],
               locks' = locks
        PROVE  JobInv'
    <3> DEFINE q == [job[j] EXCEPT !.step = "customer", !.order = o]
    <3>1. job' = [job EXCEPT ![j] = q]
      BY <2>3, <1>t DEF JobsOK
    <3>2. q \in Job /\ Consistent(q) /\ Held(q) = Held(job[j])
      BY <1>t, <2>1, FieldTypes, ZenonT(60) DEF Job, Consistent, Held, Locking, Reading
    <3> QED BY <2>3, <3>1, <3>2, KeepLock
  <2> QED BY <1>9, <2>2, <2>3 DEF Validate
<1>10. ASSUME NEW j \in Jobs, FindCustomer(j)
       PROVE  JobInv'
  <2> DEFINE c == CustomerOf[job[j].file]
             known == \E d \in Customers : customers[d] > 0 /\ d[1] = c[1] /\ (Addressed(c) => d = c)
             q == [job[j] EXCEPT !.step = "store", !.known = known]
  <2>1. job[j].step = "customer" /\ locks' = locks
    BY <1>10 DEF FindCustomer
  <2>2. job' = [job EXCEPT ![j] = q]
    BY <1>10, <1>t DEF FindCustomer, JobsOK
  <2>3. known \in BOOLEAN
    OBVIOUS
  <2> HIDE DEF known
  <2>4. q \in Job /\ Consistent(q) /\ Held(q) = Held(job[j])
    BY <1>t, <2>1, <2>3, FieldTypes, ZenonT(60) DEF Job, Consistent, Held, Locking, Reading
  <2> QED BY <2>1, <2>2, <2>4, KeepLock
<1>11. ASSUME NEW j \in Jobs, Store(j)
       PROVE  JobInv'
  <2>1. job[j].step = "store"
    BY <1>11 DEF Store
  <2>2. CASE Finish(j)
    BY <2>1, <2>2, FinishJob DEF Locking, Reading
  <2>3. CASE job[j].name # None /\ job' = [job EXCEPT ![j].step = "move"] /\ locks' = locks
    <3> DEFINE q == [job[j] EXCEPT !.step = "move"]
    <3>1. q \in Job /\ Consistent(q) /\ Held(q) = Held(job[j])
      BY <1>t, <2>1, <2>3, FieldTypes DEF Job, Consistent, Held, Locking, Reading
    <3> QED BY <2>3, <3>1, KeepLock
  <2> QED BY <1>11, <2>2, <2>3 DEF Store
<1>12. ASSUME NEW j \in Jobs, CustomerClashes(j) \/ StoreFails(j)
       PROVE  JobInv'
  <2>1. job[j].step \in Locking /\ Fail(j)
    BY <1>12 DEF CustomerClashes, StoreFails, Locking, Reading
  <2> QED BY <2>1, FailJob
<1>13. ASSUME NEW j \in Jobs, Move(j) \/ MoveFails(j) \/ SetAside(j) \/ SetAsideFails(j)
       PROVE  JobInv'
  <2>1. job[j].step \in Locking /\ (Finish(j) \/ Fail(j))
    BY <1>13 DEF Move, MoveFails, SetAside, SetAsideFails, Locking, Reading
  <2> QED BY <2>1, FinishJob, FailJob
<1>14. ASSUME Restart
       PROVE  JobInv'
  <2>1. job' = [i \in Jobs |-> Idle] /\ locks' = {}
    BY <1>14 DEF Restart
  <2>2. JobsOK'
    BY <2>1, IdleType DEF JobsOK, Consistent
  <2>3. \A i \in Jobs : job'[i].step = "idle"
    BY <2>1 DEF Idle
  <2>4. LockedByOne'
    BY <2>1, <2>3 DEF LockedByOne, Holding, Locking, Reading
  <2> QED BY <2>1, <2>2, <2>4 DEF JobInv
<1>15. ASSUME NEW f \in Files, Deliver(f) PROVE JobInv'
  BY <1>15, <1>u DEF Deliver
<1>16. ASSUME NEW n \in Names, CleanUp(n) PROVE JobInv'
  BY <1>16, <1>u DEF CleanUp
<1>17. CASE DatesChange \/ UNCHANGED vars
  BY <1>17, <1>u DEF DatesChange, vars
<1> QED
  BY <1>1, <1>2, <1>3, <1>4, <1>5, <1>6, <1>7, <1>8, <1>9, <1>10, <1>11, <1>12, <1>13,
     <1>14, <1>15, <1>16, <1>17, TimersSweep DEF ImportNext, Progress, TimerFires, StartBulk

-----------------------------------------------------------------------------
(***************************************************************************)
(* The tables and the folders                                              *)
(***************************************************************************)

TablesOK ==
  /\ obd \in [Orders -> Obds]
  /\ rows \in [Orders -> Files \cup {None}]
  /\ customers \in [Customers -> Nat]
  /\ stored \subseteq Files
  /\ by \in [Orders -> {"none", "upload", "drive", "sweep"}]

FoldersOK == folder \in [Folders -> [Names -> Files \cup {None}]]

CountersOK ==
  /\ due \subseteq Numbers
  /\ faults \in 0..MaxFaults /\ tries \in 0..MaxTries
  /\ delivered \subseteq Files /\ replaced \subseteq Files

LEMMA TypeParts ==
  /\ ImportTypeOK <=> TablesOK /\ FoldersOK /\ CountersOK /\ JobsOK /\ locks \subseteq Numbers
  /\ ImportTypeOK' <=> TablesOK' /\ FoldersOK' /\ CountersOK' /\ JobsOK' /\ locks' \subseteq Numbers
  BY DEF ImportTypeOK, TablesOK, FoldersOK, CountersOK, JobsOK

LEMMA FaultCounted ==
  ASSUME ImportTypeOK, Fault PROVE faults' \in 0..MaxFaults
<1>1. MaxFaults \in Nat /\ faults \in 0..MaxFaults
  BY ErpImportAssumption DEF ImportTypeOK
<1> QED BY <1>1 DEF Fault

LEMMA TryCounted ==
  ASSUME ImportTypeOK, tries < MaxTries, tries' = tries + 1 PROVE tries' \in 0..MaxTries
<1>1. MaxTries \in Nat /\ tries \in 0..MaxTries
  BY ErpImportAssumption DEF ImportTypeOK
<1> QED BY <1>1

\* Moving a file out of the active folder; the file that has its name goes with it.
LEMMA MovedFile ==
  ASSUME ImportTypeOK, NEW n \in Names, NEW d \in {"archive", "error"}
  PROVE  /\ Moved(n, d) \in [Folders -> [Names -> Files \cup {None}]]
         /\ \A m \in Names : m # n => /\ Moved(n, d)["active"][m] = folder["active"][m]
                                     /\ Moved(n, d)["archive"][m] = folder["archive"][m]
         /\ Moved(n, d)["active"][n] = None
         /\ Moved(n, d)["archive"][n] = IF d = "archive" THEN folder["active"][n]
                                        ELSE folder["archive"][n]
<1>1. folder \in [Folders -> [Names -> Files \cup {None}]]
  BY DEF ImportTypeOK
<1>2. folder["active"][n] \in Files \cup {None}
  BY <1>1 DEF Folders
<1> QED BY <1>1, <1>2 DEF Moved, Folders

LEMMA MovingName ==
  ASSUME ImportTypeOK, NEW j \in Jobs, job[j].step \in {"look", "move", "setAside"}
  PROVE  job[j].name \in Names
  BY FieldTypes DEF ImportTypeOK, JobsOK, Consistent

LEMMA StoreTables ==
  ASSUME ImportTypeOK, NEW j \in Jobs, Store(j)
  PROVE  TablesOK'
<1>1. job[j].file \in Files /\ job[j].order \in Orders
  BY FieldTypes DEF Store, ImportTypeOK, JobsOK, Consistent
<1>2. rows' \in [Orders -> Files \cup {None}] /\ stored' \subseteq Files /\ obd' = obd
  BY <1>1 DEF Store, ImportTypeOK
<1>3. Kind(j) \in {"none", "upload", "drive", "sweep"}
  BY DEF Kind
<1>4. by' \in [Orders -> {"none", "upload", "drive", "sweep"}]
  BY <1>1, <1>3 DEF Store, ImportTypeOK
<1>5. CustomerOf[job[j].file] \in Customers
  BY <1>1 DEF Customers
<1>6. customers' \in [Customers -> Nat]
  BY <1>5 DEF Store, ImportTypeOK
<1> QED BY <1>2, <1>4, <1>6 DEF TablesOK, ImportTypeOK

LEMMA DataStep == ImportTypeOK /\ [ImportNext]_vars => TablesOK' /\ FoldersOK' /\ CountersOK'
<1> SUFFICES ASSUME ImportTypeOK, [ImportNext]_vars PROVE TablesOK' /\ FoldersOK' /\ CountersOK'
  OBVIOUS
<1>p. TablesOK /\ FoldersOK /\ CountersOK
  BY TypeParts
<1>t. ASSUME UNCHANGED tables PROVE TablesOK'
  BY <1>p, <1>t DEF TablesOK, tables
<1>f. ASSUME UNCHANGED folder PROVE FoldersOK'
  BY <1>p, <1>f DEF FoldersOK
<1>c. ASSUME UNCHANGED <<drops, faults>> PROVE CountersOK'
  BY <1>p, <1>c DEF CountersOK, drops
<1>d. ASSUME UNCHANGED drops, Fault PROVE CountersOK'
  BY <1>p, <1>d, FaultCounted DEF CountersOK, drops
<1>1. ASSUME NEW f \in Files, Deliver(f) PROVE TablesOK' /\ FoldersOK' /\ CountersOK'
  <2>1. TablesOK'
    BY <1>1, <1>t DEF Deliver
  <2>2. NameOf[f] \in Names
    BY ErpImportAssumption
  <2>3. FoldersOK'
    BY <1>1, <1>p, <2>2 DEF Deliver, FoldersOK, Folders
  <2>4. CountersOK'
    BY <1>1, <1>p DEF Deliver, CountersOK
  <2> QED BY <2>1, <2>3, <2>4
<1>2. ASSUME NEW j \in Clerks, NEW n \in Numbers, NEW given \in Overrides \cup {None},
             StartDrive(j, n, given)
      PROVE  TablesOK' /\ FoldersOK' /\ CountersOK'
  BY <1>2, <1>t, <1>f, <1>p, TryCounted DEF StartDrive, CountersOK
<1>3. ASSUME NEW j \in Clerks, NEW f \in Files, StartUpload(j, f)
      PROVE  TablesOK' /\ FoldersOK' /\ CountersOK'
  BY <1>3, <1>t, <1>f, <1>p, TryCounted DEF StartUpload, CountersOK
<1>4. ASSUME NEW j \in Jobs, NEW t, TimerFires(j) \/ Take(j, t) \/ Skip(j, t)
      PROVE  TablesOK' /\ FoldersOK' /\ CountersOK'
  BY <1>4, <1>t, <1>f, <1>c DEF TimerFires, List, Take, Skip, drops
<1>14. ASSUME NEW j \in Jobs, NEW ns, StartBulk(j, ns)
       PROVE  TablesOK' /\ FoldersOK' /\ CountersOK'
  BY <1>14, <1>t, <1>f, <1>p, TryCounted DEF StartBulk, List, CountersOK
<1>15. CASE DatesChange
  BY <1>15, <1>t, <1>f, <1>p DEF DatesChange, CountersOK
<1>5. ASSUME NEW j \in Jobs, Correct(j) PROVE TablesOK' /\ FoldersOK' /\ CountersOK'
  <2> DEFINE new == [obd EXCEPT ![job[j].order] = job[j].name[2]]
  <2>1. job[j].name \in Names
    BY <1>5, FieldTypes DEF Correct, ImportTypeOK, JobsOK, Consistent
  <2>2. new \in [Orders -> Obds]
    BY <2>1, NumbersInNames DEF ImportTypeOK
  <2>3. obd' = obd \/ obd' = new
    BY <1>5 DEF Correct
  <2> HIDE DEF new
  <2>4. TablesOK'
    BY <1>5, <1>p, <2>2, <2>3 DEF Correct, TablesOK
  <2> QED BY <1>5, <1>f, <1>c, <2>4 DEF Correct
<1>6. ASSUME NEW j \in Jobs,
             Look(j) \/ Validate(j) \/ FindCustomer(j) \/ CustomerClashes(j)
      PROVE  TablesOK' /\ FoldersOK' /\ CountersOK'
  BY <1>6, <1>t, <1>f, <1>c DEF Look, Validate, FindCustomer, CustomerClashes
<1>7. ASSUME NEW j \in Jobs, LookFails(j) \/ StoreFails(j) \/ SetAsideFails(j)
      PROVE  TablesOK' /\ FoldersOK' /\ CountersOK'
  BY <1>7, <1>t, <1>f, <1>d DEF LookFails, StoreFails, SetAsideFails
<1>8. ASSUME NEW j \in Jobs, Store(j) PROVE TablesOK' /\ FoldersOK' /\ CountersOK'
  BY <1>8, <1>f, <1>c, StoreTables DEF Store
<1>9. ASSUME NEW j \in Jobs, Move(j) \/ SetAside(j) PROVE TablesOK' /\ FoldersOK' /\ CountersOK'
  <2>1. job[j].name \in Names
    BY <1>9, MovingName DEF Move, SetAside
  <2>2. FoldersOK'
    BY <1>9, <1>p, <2>1, MovedFile DEF Move, SetAside, ErrorFolder, FoldersOK
  <2> QED BY <1>9, <1>t, <1>c, <2>2 DEF Move, SetAside
<1>10. ASSUME NEW j \in Jobs, MoveFails(j) PROVE TablesOK' /\ FoldersOK' /\ CountersOK'
  <2>1. job[j].name \in Names
    BY <1>10, MovingName DEF MoveFails
  <2>2. CASE folder' = Moved(job[j].name, "archive")
    BY <1>10, <1>p, <1>t, <1>d, <2>1, <2>2, MovedFile DEF MoveFails, FoldersOK
  <2>3. CASE folder' # Moved(job[j].name, "archive")
    <3>1. FoldersOK'
      BY <1>10, <1>p, <2>3 DEF MoveFails, FoldersOK, Folders
    <3> QED BY <1>10, <1>t, <1>d, <3>1 DEF MoveFails
  <2> QED BY <2>2, <2>3
<1>11. ASSUME NEW n \in Names, CleanUp(n) PROVE TablesOK' /\ FoldersOK' /\ CountersOK'
  <2>1. FoldersOK'
    BY <1>11, <1>p DEF CleanUp, FoldersOK, Folders
  <2> QED BY <1>11, <1>t, <1>c, <2>1 DEF CleanUp
<1>12. ASSUME Restart PROVE TablesOK' /\ FoldersOK' /\ CountersOK'
  BY <1>12, <1>t, <1>f, <1>d DEF Restart
<1>13. CASE UNCHANGED vars
  BY <1>13, <1>t, <1>f, <1>c DEF vars, tables, drops
<1> QED
  BY <1>1, <1>2, <1>3, <1>4, <1>5, <1>6, <1>7, <1>8, <1>9, <1>10, <1>11, <1>12, <1>13,
     <1>14, <1>15, TimersSweep DEF ImportNext, Progress, Jobs

LEMMA ImportInitInv == ImportInit => ImportTypeOK /\ JobInv
<1> SUFFICES ASSUME ImportInit PROVE ImportTypeOK /\ JobInv
  OBVIOUS
<1>1. JobsOK
  BY IdleType DEF ImportInit, JobsOK
<1>2. LockedByOne
  <2>1. \A j \in Jobs : job[j].step = "idle"
    BY DEF ImportInit, Idle
  <2> QED BY <2>1 DEF ImportInit, LockedByOne, Holding, Locking, Reading
<1>3. TablesOK /\ FoldersOK /\ CountersOK
  BY ErpImportAssumption DEF ImportInit, TablesOK, FoldersOK, CountersOK
<1>4. locks = {}
  BY DEF ImportInit
<1> QED BY <1>1, <1>2, <1>3, <1>4, TypeParts DEF JobInv

LEMMA ImportStepInv == ImportTypeOK /\ JobInv /\ [ImportNext]_vars => (ImportTypeOK /\ JobInv)'
  BY JobStep, DataStep, TypeParts DEF JobInv

LEMMA ImportInv == ImportSpec => [](ImportTypeOK /\ JobInv)
  BY ImportInitInv, ImportStepInv, PTL DEF ImportSpec

\* Every state of the importer is typed: what a job works on is there when its step
\* needs it, whatever fails and however imports overlap.
THEOREM ImportTyped == ImportSpec => []ImportTypeOK
  BY ImportInv, PTL

\* No path through an import from the drive loses or doubles the lock of its number.
THEOREM LocksHeldOnce == ImportSpec => []LockedByOne
<1>1. JobInv => LockedByOne
  BY DEF JobInv
<1> QED BY <1>1, ImportInv, PTL

-----------------------------------------------------------------------------
(***************************************************************************)
(* What a step does to one import                                          *)
(***************************************************************************)

Change(i) ==
  \/ job'[i] = job[i]
  \/ job'[i].step \in {"idle", "next", "look", "correct", "setAside"}
  \/ job'[i].step = "validate" /\ job'[i].name = None /\ i \in Clerks
  \/ Look(i) /\ job'[i].step = "validate" /\ job'[i].name = job[i].name
           /\ job'[i].file = folder["active"][job[i].name]
  \/ job[i].step = "validate" /\ job'[i].step = "customer" /\ job'[i].name = job[i].name
           /\ job'[i].file = job[i].file
  \/ FindCustomer(i) /\ job'[i].step = "store" /\ job'[i].name = job[i].name
           /\ job'[i].file = job[i].file
  \/ Store(i) /\ job'[i].step = "move" /\ job'[i].name = job[i].name
           /\ job'[i].file = job[i].file

LEMMA EndChanges ==
  ASSUME JobsOK, NEW j \in Jobs, Finish(j) \/ Fail(j)
  PROVE  /\ job'[j].step \in {"idle", "next", "setAside"}
         /\ \A i \in Jobs \ {j} : job'[i] = job[i]
<1>1. After(j).step \in {"idle", "next"}
  BY DEF After, Idle
<1>2. CASE Finish(j)
  BY <1>1, <1>2 DEF Finish, JobsOK
<1>3. CASE Fail(j) /\ ~Finish(j)
  <2>1. job' = [job EXCEPT ![j].step = "setAside"]
    BY <1>3 DEF Fail
  <2>2. job[j] \in Job
    BY FieldTypes
  <2> QED BY <2>1, <2>2 DEF JobsOK, Job
<1> QED BY <1>2, <1>3

LEMMA Changes ==
  ASSUME JobsOK, [ImportNext]_vars, NEW i \in Jobs
  PROVE  Change(i)
<1>u. ASSUME UNCHANGED job PROVE Change(i)
  BY <1>u DEF Change
<1>e. ASSUME NEW j \in Jobs, Finish(j) \/ Fail(j) PROVE Change(i)
  BY <1>e, EndChanges DEF Change
<1>1. ASSUME NEW j \in Clerks, NEW n \in Numbers, NEW given \in Overrides \cup {None},
             StartDrive(j, n, given)
      PROVE  Change(i)
  <2>1. PICK o \in OrdersOf(n) : LET b == IF given = None THEN obd[o] ELSE given IN
          job' = [job EXCEPT ![j] = [Idle EXCEPT !.step = IF b = obd[o] THEN "look" ELSE "correct",
                                                 !.order = o, !.name = <<n, b>>]]
    BY <1>1 DEF StartDrive
  <2> QED BY <2>1 DEF Change, Idle, JobsOK
<1>2. ASSUME NEW j \in Clerks, NEW f \in Files, StartUpload(j, f) PROVE Change(i)
  BY <1>2 DEF StartUpload, Change, Idle, JobsOK
<1>3. ASSUME NEW j \in Sweeps, NEW ns, List(j, ns) PROVE Change(i)
  BY <1>3 DEF List, Change, Idle, JobsOK
<1>4. ASSUME NEW j \in Sweeps, NEW t \in job[j].todo, Take(j, t) PROVE Change(i)
  <2> DEFINE q == [job[j] EXCEPT !.step = "look", !.order = t.order,
                                 !.name = <<NumberOf[t.order], t.obd>>, !.todo = job[j].todo \ {t}]
  <2>1. job' = [job EXCEPT ![j] = q]
    BY <1>4 DEF Take
  <2>2. j \in Jobs
    BY DEF Jobs
  <2>3. job[j] \in Job
    BY <2>2, FieldTypes
  <2>4. q.step = "look"
    BY <2>3 DEF Job
  <2> HIDE DEF q
  <2> QED BY <2>1, <2>4 DEF Change, JobsOK
<1>5. ASSUME NEW j \in Jobs, NEW t \in job[j].todo, Skip(j, t) PROVE Change(i)
  <2> DEFINE q == IF job[j].todo = {t} THEN Idle ELSE [job[j] EXCEPT !.todo = job[j].todo \ {t}]
  <2>1. job' = [job EXCEPT ![j] = q] /\ job[j].step = "next"
    BY <1>5 DEF Skip
  <2>2. q.step \in {"idle", "next"}
    BY <2>1, FieldTypes DEF Job, Idle
  <2> HIDE DEF q
  <2> QED BY <2>1, <2>2 DEF Change, JobsOK
<1>6. ASSUME NEW j \in Jobs, Correct(j) PROVE Change(i)
  <2>1. CASE GiveUp(j)
    BY <1>e, <2>1 DEF GiveUp
  <2>2. CASE job' = [job EXCEPT ![j].step = "look"]
    BY <2>2, FieldTypes DEF Change, JobsOK, Job
  <2> QED BY <1>6, <2>1, <2>2 DEF Correct
<1>7. ASSUME NEW j \in Jobs, Look(j) PROVE Change(i)
  <2>1. CASE GiveUp(j)
    BY <1>e, <2>1 DEF GiveUp
  <2>2. CASE job' = [job EXCEPT ![j].step = "validate", ![j].file = folder["active"][job[j].name]]
    BY <1>7, <2>2, FieldTypes DEF Change, JobsOK, Job
  <2> QED BY <1>7, <2>1, <2>2 DEF Look
<1>8. ASSUME NEW j \in Jobs, Validate(j) PROVE Change(i)
  <2>1. CASE Fail(j)
    BY <1>e, <2>1
  <2>2. ASSUME NEW o \in Orders, job' = [job EXCEPT ![j].step = "customer", ![j].order = o]
        PROVE  Change(i)
    BY <1>8, <2>2, FieldTypes DEF Change, JobsOK, Job, Validate
  <2> QED BY <1>8, <2>1, <2>2 DEF Validate
<1>9. ASSUME NEW j \in Jobs, FindCustomer(j) PROVE Change(i)
  <2>1. PICK k \in BOOLEAN : job' = [job EXCEPT ![j].step = "store", ![j].known = k]
    BY <1>9 DEF FindCustomer
  <2> QED BY <1>9, <2>1, FieldTypes DEF Change, JobsOK, Job
<1>10. ASSUME NEW j \in Jobs, Store(j) PROVE Change(i)
  <2>1. CASE Finish(j)
    BY <1>e, <2>1
  <2>2. CASE job' = [job EXCEPT ![j].step = "move"]
    BY <1>10, <2>2, FieldTypes DEF Change, JobsOK, Job
  <2> QED BY <1>10, <2>1, <2>2 DEF Store
<1>11. ASSUME NEW j \in Jobs,
              \/ CustomerClashes(j) \/ StoreFails(j) \/ LookFails(j)
              \/ Move(j) \/ MoveFails(j) \/ SetAside(j) \/ SetAsideFails(j)
       PROVE  Change(i)
  <2>1. Finish(j) \/ Fail(j)
    BY <1>11 DEF CustomerClashes, StoreFails, LookFails, Move, MoveFails, SetAside, SetAsideFails,
                 GiveUp
  <2> QED BY <1>e, <2>1
<1>12. ASSUME Restart PROVE Change(i)
  BY <1>12 DEF Restart, Change, Idle
<1>13. ASSUME NEW f \in Files, Deliver(f) PROVE Change(i)
  BY <1>13, <1>u DEF Deliver
<1>14. ASSUME NEW n \in Names, CleanUp(n) PROVE Change(i)
  BY <1>14, <1>u DEF CleanUp
<1>15. CASE DatesChange \/ UNCHANGED vars
  BY <1>15, <1>u DEF DatesChange, vars
<1> QED
  BY <1>1, <1>2, <1>3, <1>4, <1>5, <1>6, <1>7, <1>8, <1>9, <1>10, <1>11, <1>12, <1>13,
     <1>14, <1>15, TimersSweep DEF ImportNext, Progress, TimerFires, StartBulk

-----------------------------------------------------------------------------
(***************************************************************************)
(* The archive                                                             *)
(***************************************************************************)

\* While a file is imported it is what lies in the active folder under its name, unless
\* it was replaced there or taken away; what is about to be moved is stored.
ActiveOf(j) ==
  /\ job[j].step \in {"validate", "customer", "store", "move"} /\ job[j].name # None
       => folder["active"][job[j].name] \in {job[j].file, None} \cup replaced
  /\ job[j].step = "move" => job[j].file \in stored

ArchiveInv == ArchivedWasStored /\ \A j \in Jobs : ActiveOf(j)

\* A step that puts no other file under a name keeps what is known of the imports.
LEMMA ActiveKept ==
  ASSUME ImportTypeOK, ArchiveInv, [ImportNext]_vars,
         stored \subseteq stored', replaced \subseteq replaced',
         \A n \in Names : folder'["active"][n] \in {folder["active"][n], None}
  PROVE  \A j \in Jobs : ActiveOf(j)'
<1> SUFFICES ASSUME NEW j \in Jobs PROVE ActiveOf(j)'
  OBVIOUS
<1>1. Change(j)
  BY Changes, TypeParts
<1>2. job[j].name \in Names \cup {None}
  BY FieldTypes, TypeParts
<1>3. CASE job'[j].name = job[j].name
  <2>1. Store(j) => job[j].file \in stored' /\ job[j].step = "store"
    BY DEF Store
  <2> QED BY <1>1, <1>2, <1>3, <2>1 DEF Change, ActiveOf, ArchiveInv, Look, FindCustomer
<1>4. CASE job'[j].name # job[j].name
  BY <1>1, <1>4 DEF Change, ActiveOf
<1> QED BY <1>3, <1>4

\* What an import archives it has stored, or it replaced the file that it has stored.
LEMMA MoveArchives ==
  ASSUME ImportTypeOK, ArchiveInv, NEW j \in Jobs, Move(j) \/ MoveFails(j),
         folder' = Moved(job[j].name, "archive")
  PROVE  ArchivedWasStored'
<1>1. job[j].name \in Names /\ job[j].step = "move"
  BY MovingName DEF Move, MoveFails
<1>2. folder["active"][job[j].name] \in stored \cup replaced \cup {None}
  BY <1>1, ErpImportAssumption DEF ArchiveInv, ActiveOf
<1>3. folder' = Moved(job[j].name, "archive") /\ stored' = stored /\ replaced' = replaced
  BY DEF Move, MoveFails, tables, drops
<1>4. ASSUME NEW n \in Names
      PROVE  \/ folder'["archive"][n] = folder["archive"][n]
             \/ n = job[j].name /\ folder'["archive"][n] = folder["active"][n]
  <2>1. CASE n = job[j].name
    BY <1>3, <2>1, MovedFile
  <2>2. CASE n # job[j].name
    BY <1>1, <1>3, <2>2, MovedFile
  <2> QED BY <2>1, <2>2
<1> QED BY <1>2, <1>3, <1>4 DEF ArchivedWasStored, ArchiveInv

LEMMA ArchiveStep == ImportTypeOK /\ ArchiveInv /\ [ImportNext]_vars => ArchiveInv'
<1> SUFFICES ASSUME ImportTypeOK, ArchiveInv, [ImportNext]_vars PROVE ArchiveInv'
  OBVIOUS
<1>k. ASSUME stored \subseteq stored', replaced' = replaced,
             \A n \in Names : folder'["active"][n] \in {folder["active"][n], None},
             \A n \in Names : folder'["archive"][n] \in {folder["archive"][n], None}
      PROVE  ArchiveInv'
  <2>1. ArchivedWasStored'
    BY <1>k DEF ArchivedWasStored, ArchiveInv
  <2> QED BY <1>k, <2>1, ActiveKept DEF ArchiveInv
<1>1. ASSUME NEW f \in Files, Deliver(f) PROVE ArchiveInv'
  <2>1. NameOf[f] \in Names
    BY ErpImportAssumption
  <2>2. /\ \A n \in Names \ {NameOf[f]} : folder'["active"][n] = folder["active"][n]
        /\ \A n \in Names : folder'["archive"][n] = folder["archive"][n]
        /\ folder'["active"][NameOf[f]] = f
    BY <1>1, <2>1 DEF Deliver, ImportTypeOK, Folders
  <2>3. stored' = stored /\ replaced \subseteq replaced' /\ job' = job
    BY <1>1 DEF Deliver, tables
  <2>4. ASSUME NEW j \in Jobs, job[j].step \in Reading, job[j].name = NameOf[f]
        PROVE  f \in replaced'
    BY <1>1, <2>4 DEF Deliver
  <2>5. ASSUME NEW j \in Jobs PROVE ActiveOf(j)'
    <3>1. job[j].name \in Names \cup {None}
      BY FieldTypes, TypeParts
    <3>2. CASE job[j].step \in {"validate", "customer", "store", "move"} /\ job[j].name = NameOf[f]
      BY <2>2, <2>3, <2>4, <3>2 DEF ActiveOf, Reading, ArchiveInv
    <3>3. CASE ~(job[j].step \in {"validate", "customer", "store", "move"}
                 /\ job[j].name = NameOf[f])
      BY <2>2, <2>3, <3>1, <3>3 DEF ActiveOf, ArchiveInv
    <3> QED BY <3>2, <3>3
  <2> QED BY <2>2, <2>3, <2>5 DEF ArchiveInv, ArchivedWasStored
<1>2. ASSUME NEW j \in Jobs, Move(j) \/ MoveFails(j), folder' = Moved(job[j].name, "archive")
      PROVE  ArchiveInv'
  <2>1. job[j].name \in Names /\ folder' = Moved(job[j].name, "archive")
    BY <1>2, MovingName DEF Move, MoveFails
  <2>2. \A n \in Names : folder'["active"][n] \in {folder["active"][n], None}
    BY <2>1, MovedFile
  <2>3. stored' = stored /\ replaced' = replaced
    BY <1>2 DEF Move, MoveFails, tables, drops
  <2> QED BY <1>2, <2>2, <2>3, MoveArchives, ActiveKept DEF ArchiveInv
<1>3. ASSUME NEW j \in Jobs, SetAside(j) PROVE ArchiveInv'
  <2>1. job[j].name \in Names
    BY <1>3, MovingName DEF SetAside
  <2>2. folder' = folder \/ folder' = Moved(job[j].name, "error")
    BY <1>3 DEF SetAside, ErrorFolder
  <2>3. \A n \in Names : /\ folder'["active"][n] \in {folder["active"][n], None}
                          /\ folder'["archive"][n] = folder["archive"][n]
    <3>1. CASE folder' = folder
      BY <3>1
    <3>2. CASE folder' = Moved(job[j].name, "error")
      BY <2>1, <3>2, MovedFile
    <3> QED BY <2>2, <3>1, <3>2
  <2>4. stored' = stored /\ replaced' = replaced
    BY <1>3 DEF SetAside, tables, drops
  <2> QED BY <1>k, <2>3, <2>4
<1>4. ASSUME NEW j \in Jobs, MoveFails(j), folder' # Moved(job[j].name, "archive") PROVE ArchiveInv'
  <2>1. job[j].name \in Names
    BY <1>4, MovingName DEF MoveFails
  <2>2. \A n \in Names : /\ folder'["active"][n] = folder["active"][n]
                          /\ folder'["archive"][n] \in {folder["archive"][n], None}
    BY <1>4, <2>1 DEF MoveFails, ImportTypeOK, Folders
  <2> QED BY <1>4, <1>k, <2>2 DEF MoveFails, tables, drops
<1>5. ASSUME NEW n \in Names, CleanUp(n) PROVE ArchiveInv'
  <2>1. \A m \in Names : /\ folder'["active"][m] = folder["active"][m]
                          /\ folder'["archive"][m] \in {folder["archive"][m], None}
    BY <1>5 DEF CleanUp, ImportTypeOK, Folders
  <2> QED BY <1>5, <1>k, <2>1 DEF CleanUp, tables, drops
<1>6. ASSUME folder' = folder, stored \subseteq stored', replaced' = replaced PROVE ArchiveInv'
  BY <1>6, <1>k
<1>7. ASSUME NEW j \in Clerks, NEW n, NEW given, StartDrive(j, n, given) \/ StartUpload(j, n)
      PROVE  ArchiveInv'
  BY <1>6, <1>7 DEF StartDrive, StartUpload, tables
<1>8. ASSUME NEW j \in Jobs, NEW t,
             \/ List(j, t) \/ Take(j, t) \/ Skip(j, t) \/ Correct(j) \/ Look(j) \/ LookFails(j)
             \/ Validate(j) \/ FindCustomer(j) \/ Store(j) \/ CustomerClashes(j) \/ StoreFails(j)
             \/ SetAsideFails(j)
      PROVE  ArchiveInv'
  <2>1. folder' = folder /\ stored \subseteq stored' /\ replaced' = replaced
    BY <1>8 DEF List, Take, Skip, Correct, Look, LookFails, Validate, FindCustomer, Store,
                CustomerClashes, StoreFails, SetAsideFails, tables, drops
  <2> QED BY <1>6, <2>1
<1>9. CASE Restart \/ DatesChange \/ UNCHANGED vars
  BY <1>6, <1>9 DEF Restart, DatesChange, vars, tables, drops
<1> QED
  <2>1. ASSUME NEW j \in Jobs, Move(j) \/ MoveFails(j) PROVE ArchiveInv'
    BY <1>2, <1>4, <2>1 DEF Move
  <2> QED
    BY <1>1, <1>3, <1>5, <1>7, <1>8, <1>9, <2>1, TimersSweep
    DEF ImportNext, Progress, Jobs, TimerFires, StartBulk

\* However imports, deliveries, failures and restarts interleave, the archive holds only
\* files that were stored and files that replaced one while it was being imported.
THEOREM ArchiveHoldsStored == ImportSpec => []ArchivedWasStored
<1>1. ImportInit => ArchiveInv
  <2> SUFFICES ASSUME ImportInit PROVE ArchiveInv
    OBVIOUS
  <2>1. \A j \in Jobs : ActiveOf(j)
    BY DEF ImportInit, Idle, ActiveOf
  <2> QED BY <2>1 DEF ImportInit, ArchiveInv, ArchivedWasStored, Folders
<1>2. ArchiveInv => ArchivedWasStored
  BY DEF ArchiveInv
<1> QED BY <1>1, <1>2, ArchiveStep, ImportTyped, PTL DEF ImportSpec

-----------------------------------------------------------------------------
(***************************************************************************)
(* The customers                                                           *)
(***************************************************************************)

\* The imports that have not found a customer and are about to make it.
Makers(c) == {j \in Jobs : job[j].step = "store" /\ ~job[j].known /\ CustomerOf[job[j].file] = c}

UploadsByClerks ==
  \A j \in Jobs :
    job[j].step \in {"validate", "customer", "store"} /\ job[j].name = None => j \in Clerks

CustomerInv ==
  \A c \in Customers :
    /\ Addressed(c) => customers[c] <= 1
    /\ ~Addressed(c) => customers[c] + Cardinality(Makers(c)) <= Overlapping

\* Imports from the drive are of different numbers, and only clerks upload.
LEMMA FewOverlap ==
  ASSUME NEW M \in SUBSET Jobs, NEW q \in [M -> Names \cup {None}],
         \A k \in M : q[k] = None => k \in Clerks,
         \A i, k \in M : q[i] # None /\ q[k] # None /\ q[i][1] = q[k][1] => i = k
  PROVE  /\ IsFiniteSet(M) /\ Cardinality(M) \in Nat /\ Overlapping \in Nat
         /\ Cardinality(M) <= Overlapping
<1> DEFINE U == {k \in M : q[k] = None}
           D == M \ U
           n == [k \in D |-> q[k][1]]
<1>1. IsFiniteSet(Jobs) /\ IsFiniteSet(Numbers) /\ IsFiniteSet(Clerks)
  <2>1. Clerks \subseteq Jobs
    BY DEF Jobs
  <2> QED BY <2>1, ErpImportAssumption, FS_Subset
<1>2. /\ Cardinality(Numbers) \in Nat /\ Cardinality(Clerks) \in Nat
      /\ IsFiniteSet(M) /\ Cardinality(M) \in Nat
  BY <1>1, FS_Subset, FS_CardinalityType
<1>3. IsFiniteSet(U) /\ Cardinality(U) \in Nat /\ Cardinality(U) <= Cardinality(Clerks)
  <2>1. U \subseteq Clerks
    OBVIOUS
  <2> QED BY <1>1, <2>1, FS_Subset, FS_CardinalityType
<1>4. IsFiniteSet(D) /\ Cardinality(D) \in Nat /\ Cardinality(D) <= Cardinality(Numbers)
  <2>1. n \in [D -> Numbers]
    BY NumbersInNames
  <2>2. \A i, k \in D : n[i] = n[k] => i = k
    OBVIOUS
  <2>3. n \in Injection(D, Numbers)
    BY <2>1, <2>2 DEF Injection, IsInjective
  <2> QED BY <1>1, <2>3, FS_Injection, FS_CardinalityType
<1>5. Cardinality(M) <= Cardinality(U) + Cardinality(D)
  <2>1. M = U \cup D /\ U \cap D = {}
    OBVIOUS
  <2>2. Cardinality(U \cap D) = 0
    BY <2>1, FS_EmptySet
  <2>3. Cardinality(U \cup D) = Cardinality(U) + Cardinality(D) - Cardinality(U \cap D)
    BY <1>3, <1>4, FS_Union
  <2> HIDE DEF U, D, n
  <2> QED BY <1>3, <1>4, <2>1, <2>2, <2>3
<1> HIDE DEF U, D, n
<1> QED BY <1>2, <1>3, <1>4, <1>5 DEF Overlapping

LEMMA MakersFinite ==
  ASSUME JobInv, UploadsByClerks, NEW c
  PROVE  /\ Overlapping \in Nat
         /\ IsFiniteSet(Makers(c)) /\ Cardinality(Makers(c)) \in Nat
         /\ Cardinality(Makers(c)) <= Overlapping
<1> DEFINE q == [k \in Makers(c) |-> job[k].name]
<1>1. Makers(c) \subseteq Jobs
  BY DEF Makers
<1>2. q \in [Makers(c) -> Names \cup {None}]
  BY <1>1 DEF JobInv, JobsOK, Job
<1>3. \A k \in Makers(c) : q[k] = None => k \in Clerks
  BY <1>1 DEF Makers, UploadsByClerks
<1>4. \A i, k \in Makers(c) : q[i] # None /\ q[k] # None /\ q[i][1] = q[k][1] => i = k
  <2> SUFFICES ASSUME NEW i \in Makers(c), NEW k \in Makers(c),
                      job[i].name # None, job[k].name # None, job[i].name[1] = job[k].name[1]
               PROVE  i = k
    OBVIOUS
  <2>1. job[i].name[1] \in Numbers
    BY <1>2, NumbersInNames
  <2>2. {i, k} \subseteq Holding(job[i].name[1])
    BY <1>1 DEF Holding, Makers, Locking, Reading
  <2> QED BY <2>1, <2>2 DEF JobInv, LockedByOne
<1> HIDE DEF q
<1> QED BY <1>1, <1>2, <1>3, <1>4, FewOverlap

LEMMA MakersFiniteNext ==
  ASSUME JobInv', UploadsByClerks', NEW c
  PROVE  /\ IsFiniteSet(Makers(c)') /\ Cardinality(Makers(c)') \in Nat
         /\ Cardinality(Makers(c)') <= Overlapping
<1> DEFINE q == [k \in Makers(c)' |-> job'[k].name]
<1>1. Makers(c)' \subseteq Jobs
  BY DEF Makers
<1>2. q \in [Makers(c)' -> Names \cup {None}]
  BY <1>1 DEF JobInv, JobsOK, Job
<1>3. \A k \in Makers(c)' : q[k] = None => k \in Clerks
  BY <1>1 DEF Makers, UploadsByClerks
<1>4. \A i, k \in Makers(c)' : q[i] # None /\ q[k] # None /\ q[i][1] = q[k][1] => i = k
  <2> SUFFICES ASSUME NEW i \in Makers(c)', NEW k \in Makers(c)',
                      job'[i].name # None, job'[k].name # None, job'[i].name[1] = job'[k].name[1]
               PROVE  i = k
    OBVIOUS
  <2>1. job'[i].name[1] \in Numbers
    BY <1>2, NumbersInNames
  <2>2. i \in Jobs /\ k \in Jobs /\ job'[i].step = "store" /\ job'[k].step = "store"
    BY DEF Makers
  <2> QED BY <2>1, <2>2 DEF JobInv, LockedByOne, Holding, Locking, Reading
<1> HIDE DEF q
<1> QED BY <1>1, <1>2, <1>3, <1>4, FewOverlap

LEMMA UploadStep == ImportTypeOK /\ JobInv /\ UploadsByClerks /\ [ImportNext]_vars => UploadsByClerks'
<1> SUFFICES ASSUME JobInv, UploadsByClerks, [ImportNext]_vars, NEW j \in Jobs,
                    job'[j].step \in {"validate", "customer", "store"}, job'[j].name = None
             PROVE  j \in Clerks
  BY DEF UploadsByClerks
<1>1. Change(j)
  BY Changes DEF JobInv
<1>2. CASE Look(j) /\ job'[j].name = job[j].name
  BY <1>2 DEF Look, JobInv, JobsOK, Consistent
<1> QED BY <1>1, <1>2 DEF Change, UploadsByClerks, FindCustomer, Store

\* An import that found nothing saw that the customer was not there.
LEMMA NewMaker ==
  ASSUME ImportTypeOK, NEW j \in Jobs, FindCustomer(j), ~job'[j].known
  PROVE  customers[CustomerOf[job[j].file]] = 0
<1> DEFINE c == CustomerOf[job[j].file]
<1>1. job[j].file \in Files
  BY FieldTypes, TypeParts DEF FindCustomer, Consistent
<1>2. c \in Customers
  BY <1>1 DEF Customers
<1>3. job'[j].known = \E d \in Customers : customers[d] > 0 /\ d[1] = c[1] /\ (Addressed(c) => d = c)
  BY FieldTypes, TypeParts, ZenonT(60) DEF FindCustomer, JobsOK, Job
<1>4. ~(customers[c] > 0)
  BY <1>2, <1>3
<1>5. customers[c] \in Nat
  BY <1>2 DEF ImportTypeOK
<1> QED BY <1>4, <1>5

\* A new maker of a customer is an import that has just looked for it.
LEMMA MakersShrink ==
  ASSUME ImportTypeOK, [ImportNext]_vars, NEW c \in Customers,
         \A j \in Jobs : FindCustomer(j) /\ CustomerOf[job[j].file] = c => job'[j].known
  PROVE  Makers(c)' \subseteq Makers(c)
<1> SUFFICES ASSUME NEW j \in Jobs, job'[j].step = "store", ~job'[j].known,
                    CustomerOf[job'[j].file] = c
             PROVE  j \in Makers(c)
  BY DEF Makers
<1>1. Change(j)
  BY Changes, TypeParts
<1>2. job'[j] = job[j]
  BY <1>1 DEF Change
<1> QED BY <1>2 DEF Makers

LEMMA StoreMakes ==
  ASSUME ImportTypeOK, JobInv, JobInv', UploadsByClerks, UploadsByClerks', CustomerInv,
         NEW j \in Jobs, Store(j), [ImportNext]_vars, NEW c \in Customers
  PROVE  /\ Addressed(c) => customers'[c] <= 1
         /\ ~Addressed(c) => customers'[c] + Cardinality(Makers(c)') <= Overlapping
<1>1. job[j].file \in Files
  BY FieldTypes, TypeParts DEF Store, Consistent
<1>2. customers[c] \in Nat
  BY DEF ImportTypeOK
<1>3. Makers(c)' \subseteq Makers(c)
  <2>1. ASSUME NEW i \in Jobs, FindCustomer(i) PROVE FALSE
    <3>1. job'[i].step = "store"
      BY <2>1, FieldTypes, TypeParts, ZenonT(60) DEF FindCustomer, JobsOK, Job
    <3>2. job[i].step = "customer"
      BY <2>1 DEF FindCustomer
    <3>3. CASE i = j
      BY <3>2, <3>3 DEF Store
    <3>4. CASE i # j
      <4>1. job'[i] = job[i]
        BY <3>4, EndChanges, TypeParts DEF Store, JobsOK
      <4> QED BY <3>1, <3>2, <4>1
    <3> QED BY <3>3, <3>4
  <2> QED BY <2>1, MakersShrink
<1>4. Cardinality(Makers(c)') <= Cardinality(Makers(c))
  BY <1>3, MakersFinite, FS_Subset
<1>5. CASE customers'[c] = customers[c]
  <2>1. /\ Cardinality(Makers(c)) \in Nat /\ Cardinality(Makers(c)') \in Nat
        /\ Overlapping \in Nat
    BY MakersFinite, MakersFiniteNext
  <2> QED BY <1>2, <1>4, <1>5, <2>1 DEF CustomerInv
<1>6. CASE customers'[c] # customers[c]
  <2>1. Missing(j) /\ CustomerOf[job[j].file] = c /\ customers'[c] = customers[c] + 1
    BY <1>1, <1>6 DEF Store, ImportTypeOK
  <2>2. CASE Addressed(c)
    BY <1>2, <2>1, <2>2 DEF Store, Clash
  <2>3. CASE ~Addressed(c)
    <3>1. j \in Makers(c)
      BY <2>1 DEF Makers, Missing, Store
    <3>2. job'[j].step # "store"
      <4>1. CASE Finish(j)
        BY <4>1, EndChanges, TypeParts
      <4>2. CASE job' = [job EXCEPT ![j].step = "move"]
        BY <4>2, FieldTypes, TypeParts DEF JobsOK, Job
      <4> QED BY <4>1, <4>2 DEF Store
    <3>3. Makers(c)' \subseteq Makers(c) \ {j}
      BY <1>3, <3>2 DEF Makers
    <3>4. Cardinality(Makers(c)') <= Cardinality(Makers(c)) - 1
      <4>1. IsFiniteSet(Makers(c) \ {j}) /\ Cardinality(Makers(c) \ {j}) = Cardinality(Makers(c)) - 1
        BY <3>1, MakersFinite, FS_RemoveElement
      <4> QED BY <3>3, <4>1, FS_Subset
    <3>5. /\ Cardinality(Makers(c)) \in Nat /\ Cardinality(Makers(c)') \in Nat
          /\ Overlapping \in Nat
      BY MakersFinite, MakersFiniteNext
    <3> QED BY <1>2, <2>1, <2>3, <3>4, <3>5 DEF CustomerInv
  <2> QED BY <2>2, <2>3
<1> QED BY <1>5, <1>6

LEMMA CustomerStep ==
  ImportTypeOK /\ JobInv /\ UploadsByClerks /\ CustomerInv /\ [ImportNext]_vars
    => UploadsByClerks' /\ CustomerInv'
<1>j. ASSUME ImportTypeOK, JobInv, UploadsByClerks, [ImportNext]_vars PROVE JobInv' /\ UploadsByClerks'
  BY <1>j, JobStep, UploadStep
<1> SUFFICES ASSUME ImportTypeOK, JobInv, JobInv', UploadsByClerks, UploadsByClerks', CustomerInv,
                    [ImportNext]_vars, NEW c \in Customers
             PROVE  /\ Addressed(c) => customers'[c] <= 1
                    /\ ~Addressed(c) => customers'[c] + Cardinality(Makers(c)') <= Overlapping
  BY <1>j DEF CustomerInv
<1>1. CASE \E j \in Jobs : Store(j)
  BY <1>1, StoreMakes
<1>2. CASE ~(\E j \in Jobs : Store(j))
  <2>1. customers' = customers
    BY <1>2 DEF ImportNext, Progress, Jobs, Deliver, StartDrive, StartUpload, TimerFires, StartBulk, List,
       DatesChange, Take, Skip, Correct, Look, LookFails, Validate, FindCustomer, CustomerClashes, StoreFails, Move, MoveFails,
       SetAside, SetAsideFails, Restart, CleanUp, tables, vars
  <2>2. customers[c] \in Nat
    BY DEF ImportTypeOK
  <2>3. CASE \E j \in Jobs : FindCustomer(j) /\ CustomerOf[job[j].file] = c /\ ~job'[j].known
    <3>1. customers[c] = 0
      BY <2>3, NewMaker
    <3>2. Cardinality(Makers(c)') \in Nat /\ Cardinality(Makers(c)') <= Overlapping
      BY MakersFiniteNext
    <3>3. Overlapping \in Nat
      BY MakersFinite
    <3> QED BY <2>1, <3>1, <3>2, <3>3
  <2>4. CASE ~(\E j \in Jobs : FindCustomer(j) /\ CustomerOf[job[j].file] = c /\ ~job'[j].known)
    <3>1. Makers(c)' \subseteq Makers(c)
      BY <2>4, MakersShrink
    <3>2. Cardinality(Makers(c)') <= Cardinality(Makers(c))
      BY <3>1, MakersFinite, FS_Subset
    <3>3. /\ Cardinality(Makers(c)) \in Nat /\ Cardinality(Makers(c)') \in Nat
          /\ Overlapping \in Nat
      BY MakersFinite, MakersFiniteNext
    <3> QED BY <2>1, <2>2, <3>2, <3>3 DEF CustomerInv
  <2> QED BY <2>3, <2>4
<1> QED BY <1>1, <1>2

\* A customer without an address is made at most once for each number, as the lock lets one
\* import of a number run, and once for each upload at a time; the unique key makes one with
\* an address once.
THEOREM CustomersMadeOnce == ImportSpec => []CustomersBounded
<1>1. ImportInit => UploadsByClerks /\ CustomerInv
  <2>1. ImportInit => UploadsByClerks
    BY DEF ImportInit, Idle, UploadsByClerks
  <2> SUFFICES ASSUME ImportInit, NEW c \in Customers
               PROVE  /\ customers[c] = 0
                      /\ customers[c] + Cardinality(Makers(c)) <= Overlapping
    BY <2>1 DEF CustomerInv
  <2> QED BY <2>1, ImportInitInv, MakersFinite DEF ImportInit
<1>2. ImportTypeOK /\ JobInv /\ UploadsByClerks /\ CustomerInv => CustomersBounded
  <2> SUFFICES ASSUME ImportTypeOK, JobInv, UploadsByClerks, CustomerInv, NEW c \in Customers
               PROVE  customers[c] <= IF Addressed(c) THEN 1 ELSE Overlapping
    BY DEF CustomersBounded
  <2>1. customers[c] \in Nat
    BY DEF ImportTypeOK
  <2> QED BY <2>1, MakersFinite DEF CustomerInv
<1> QED BY <1>1, <1>2, CustomerStep, ImportInv, PTL DEF ImportSpec

-----------------------------------------------------------------------------
(***************************************************************************)
(* The sweep and what was imported before                                  *)
(***************************************************************************)

\* A file in the folder was delivered under its name, and so was one that is imported
\* from there.
InHand == {"validate", "customer", "store", "move"}
ActiveDelivered ==
  \A n \in Names : LET f == folder["active"][n] IN f # None => f \in delivered /\ NameOf[f] = n
FromDrive(j) ==
  job[j].step \in InHand /\ job[j].name # None =>
    job[j].file \in delivered /\ NameOf[job[j].file] = job[j].name

\* Without faults, an order's rows that came from the folder are of no file that is still
\* to be stored from there, and their file has left the folder or is about to.
Unstored(j) ==
  job[j].step \in {"validate", "customer", "store"} /\ job[j].name # None =>
    \A o \in Orders : by[o] # "upload" => rows[o] # job[j].file
Leaving(f) == \E j \in Jobs : job[j].step = "move" /\ job[j].file = f
Taken(o) ==
  rows[o] # None /\ by[o] # "upload" =>
    rows[o] \in delivered /\ (folder["active"][NameOf[rows[o]]] # rows[o] \/ Leaving(rows[o]))

SourceInv == ActiveDelivered /\ \A j \in Jobs : FromDrive(j)
SweepInv ==
  /\ SourceInv
  /\ faults = 0 => (\A j \in Jobs : Unstored(j)) /\ (\A o \in Orders : Taken(o))

\* Files come into the folder only when they are delivered.
LEMMA ActiveFolder ==
  ASSUME ImportTypeOK, [ImportNext]_vars
  PROVE  \/ \E f \in Files : Deliver(f)
         \/ delivered' = delivered /\ \A n \in Names : folder'["active"][n] \in {folder["active"][n], None}
<1>1. ASSUME NEW j \in Jobs, Move(j) \/ SetAside(j)
      PROVE  delivered' = delivered /\ \A n \in Names : folder'["active"][n] \in {folder["active"][n], None}
  <2>1. job[j].name \in Names
    BY <1>1, MovingName DEF Move, SetAside
  <2>2. PICK d \in {"archive", "error"} : folder' = folder \/ folder' = Moved(job[j].name, d)
    BY <1>1 DEF Move, SetAside, ErrorFolder
  <2>3. CASE folder' = Moved(job[j].name, d)
    BY <1>1, <2>1, <2>3, MovedFile DEF Move, SetAside, drops
  <2>4. CASE folder' = folder
    BY <1>1, <2>4 DEF Move, SetAside, drops
  <2> QED BY <2>2, <2>3, <2>4
<1>2. ASSUME NEW j \in Jobs, MoveFails(j)
      PROVE  delivered' = delivered /\ \A n \in Names : folder'["active"][n] \in {folder["active"][n], None}
  <2>1. job[j].name \in Names
    BY <1>2, MovingName DEF MoveFails
  <2>2. CASE folder' = Moved(job[j].name, "archive")
    BY <1>2, <2>1, <2>2, MovedFile DEF MoveFails, drops
  <2>3. CASE folder' # Moved(job[j].name, "archive")
    BY <1>2, <2>1, <2>3 DEF MoveFails, ImportTypeOK, Folders, drops
  <2> QED BY <2>2, <2>3
<1>3. ASSUME NEW n \in Names, CleanUp(n)
      PROVE  delivered' = delivered /\ \A m \in Names : folder'["active"][m] = folder["active"][m]
  BY <1>3 DEF CleanUp, ImportTypeOK, Folders, drops
<1>4. ASSUME NEW j \in Jobs, NEW t, NEW g,
             \/ StartDrive(j, t, g) \/ StartUpload(j, t)
             \/ List(j, t) \/ Take(j, t) \/ Skip(j, t) \/ Correct(j) \/ Look(j) \/ LookFails(j)
             \/ Validate(j) \/ FindCustomer(j) \/ Store(j) \/ CustomerClashes(j) \/ StoreFails(j)
             \/ SetAsideFails(j)
      PROVE  delivered' = delivered /\ folder' = folder
  BY <1>4 DEF StartDrive, StartUpload, List, Take, Skip, Correct, Look, LookFails, Validate,
              FindCustomer, Store, CustomerClashes, StoreFails, SetAsideFails, drops
<1>5. CASE Restart \/ DatesChange \/ UNCHANGED vars
  BY <1>5 DEF Restart, DatesChange, vars, drops
<1> QED
  BY <1>1, <1>2, <1>3, <1>4, <1>5, TimersSweep DEF ImportNext, Progress, Jobs, TimerFires, StartBulk

LEMMA DeliverIs ==
  ASSUME ImportTypeOK, NEW f \in Files, Deliver(f)
  PROVE  /\ f \notin delivered /\ delivered' = delivered \cup {f} /\ NameOf[f] \in Names
         /\ folder'["active"][NameOf[f]] = f
         /\ \A n \in Names \ {NameOf[f]} : folder'["active"][n] = folder["active"][n]
         /\ job' = job /\ rows' = rows /\ by' = by
<1>1. NameOf[f] \in Names
  BY ErpImportAssumption
<1> QED BY <1>1 DEF Deliver, ImportTypeOK, Folders, tables

LEMMA SourceStep ==
  ImportTypeOK /\ JobInv /\ SourceInv /\ [ImportNext]_vars => SourceInv' /\ delivered \subseteq delivered'
<1> SUFFICES ASSUME ImportTypeOK, JobInv, SourceInv, [ImportNext]_vars
             PROVE  SourceInv' /\ delivered \subseteq delivered'
  OBVIOUS
<1>1. delivered \subseteq delivered'
  BY ActiveFolder, DeliverIs
<1>2. ActiveDelivered'
  <2>1. CASE \E f \in Files : Deliver(f)
    <3>1. PICK f \in Files : Deliver(f)
      BY <2>1
    <3> QED BY <3>1, DeliverIs DEF SourceInv, ActiveDelivered
  <2>2. CASE ~(\E f \in Files : Deliver(f))
    BY <2>2, ActiveFolder DEF SourceInv, ActiveDelivered
  <2> QED BY <2>1, <2>2
<1>3. ASSUME NEW j \in Jobs PROVE FromDrive(j)'
  <2>1. Change(j) /\ FromDrive(j)
    BY Changes, TypeParts DEF SourceInv
  <2>2. Consistent(job'[j])
    BY JobStep DEF JobInv, JobsOK, Consistent
  <2>3. CASE Look(j) /\ job'[j].step = "validate" /\ job'[j].name = job[j].name
           /\ job'[j].file = folder["active"][job[j].name]
    <3>1. job[j].name \in Names /\ folder["active"][job[j].name] # None
      BY <2>2, <2>3, MovingName DEF Look, Consistent
    <3> QED BY <1>1, <2>3, <3>1 DEF SourceInv, ActiveDelivered, FromDrive
  <2>4. CASE ~Look(j)
    BY <1>1, <2>1, <2>4 DEF Change, FromDrive, InHand, FindCustomer, Store
  <2> QED BY <1>1, <2>1, <2>3, <2>4 DEF Change, FromDrive, InHand, FindCustomer, Store
<1> QED BY <1>1, <1>2, <1>3 DEF SourceInv

\* Two imports of one file of the folder would have locked one number.
LEMMA OneImport ==
  ASSUME JobInv, SourceInv, NEW i \in Jobs, NEW j \in Jobs,
         job[i].step \in InHand, job[i].name # None,
         \/ job[j].step \in InHand /\ job[j].file = job[i].file
         \/ job[j].step = "look" /\ job[j].name = NameOf[job[i].file],
         job[j].name # None
  PROVE  i = j
<1>1. job[i].name = job[j].name
  BY DEF SourceInv, FromDrive
<1>2. job[i].name \in Names
  BY FieldTypes DEF JobInv
<1>3. job[i].name[1] \in Numbers /\ job[i].name[1] \in Held(job[i]) /\ job[i].name[1] \in Held(job[j])
  BY <1>1, <1>2, NumbersInNames DEF Held, Locking, Reading, InHand
<1> QED BY <1>3, HeldByOne DEF JobInv

\* Without faults, a file that is about to leave the folder stays so, or leaves it.
LEMMA MoverGoesOn ==
  ASSUME ImportTypeOK, [ImportNext]_vars, faults = 0, faults' = 0,
         NEW k \in Jobs, job[k].step = "move"
  PROVE  job'[k] = job[k] \/ Move(k)
<1>t. JobsOK
  BY TypeParts
<1>f. ~Fault
  BY DEF Fault
<1>e. ASSUME NEW j \in Jobs, j # k, Finish(j) \/ Fail(j) PROVE job'[k] = job[k]
  BY <1>t, <1>e, EndChanges
<1>1. ASSUME NEW j \in Clerks, NEW n, NEW g, StartDrive(j, n, g) \/ StartUpload(j, n) PROVE job'[k] = job[k]
  <2>1. job[j] = Idle /\ Idle.step = "idle"
    BY <1>1 DEF StartDrive, StartUpload, Idle
  <2>2. j # k
    BY <2>1
  <2> QED BY <1>t, <1>1, <2>2 DEF StartDrive, StartUpload, JobsOK
<1>2. ASSUME NEW j \in Jobs, NEW t, List(j, t) \/ Take(j, t) \/ Skip(j, t) PROVE job'[k] = job[k]
  <2>1. j # k
    BY <1>2 DEF List, Take, Skip, Idle
  <2> QED BY <1>t, <1>2, <2>1 DEF List, Take, Skip, JobsOK
<1>3. ASSUME NEW j \in Jobs,
             \/ Correct(j) \/ Look(j) \/ Validate(j) \/ FindCustomer(j) \/ Store(j) \/ CustomerClashes(j)
             \/ SetAside(j)
      PROVE  job'[k] = job[k]
  <2>1. j # k
    BY <1>3 DEF Correct, Look, Validate, FindCustomer, Store, CustomerClashes, SetAside
  <2>2. \/ Finish(j) \/ Fail(j)
        \/ \E q : job' = [job EXCEPT ![j] = q]
    BY <1>3 DEF Correct, Look, Validate, FindCustomer, Store, CustomerClashes, SetAside, GiveUp
  <2> QED BY <1>t, <1>e, <2>1, <2>2 DEF JobsOK
<1>4. ASSUME NEW j \in Jobs, Move(j) PROVE job'[k] = job[k] \/ Move(k)
  BY <1>e, <1>4 DEF Move
<1>5. ~(\E j \in Jobs : LookFails(j) \/ StoreFails(j) \/ MoveFails(j) \/ SetAsideFails(j)) /\ ~Restart
  BY <1>f DEF LookFails, StoreFails, MoveFails, SetAsideFails, Restart
<1>6. CASE UNCHANGED job
  BY <1>6
<1> QED
  BY <1>1, <1>2, <1>3, <1>4, <1>5, <1>6, TimersSweep
  DEF ImportNext, Progress, Jobs, Deliver, CleanUp, TimerFires, StartBulk, DatesChange, vars

LEMMA SweepStep == ImportTypeOK /\ JobInv /\ SweepInv /\ [ImportNext]_vars => SweepInv'
<1> SUFFICES ASSUME ImportTypeOK, JobInv, SweepInv, [ImportNext]_vars PROVE SweepInv'
  OBVIOUS
<1>1. SourceInv /\ SourceInv' /\ delivered \subseteq delivered' /\ JobInv'
  BY SourceStep, JobStep DEF SweepInv
<1> SUFFICES ASSUME faults' = 0 PROVE (\A j \in Jobs : Unstored(j)') /\ (\A o \in Orders : Taken(o)')
  BY <1>1 DEF SweepInv
<1>2. faults = 0
  <2>1. faults' = faults \/ Fault
    BY DEF ImportNext, Progress, Deliver, StartDrive, StartUpload, TimerFires, StartBulk, List, DatesChange,
           Take, Skip, Correct, Look, LookFails, Validate, FindCustomer, Store, CustomerClashes, StoreFails, Move, MoveFails, SetAside,
           SetAsideFails, Restart, CleanUp, drops, vars
  <2> QED BY <2>1 DEF Fault, ImportTypeOK
<1>3. (\A j \in Jobs : Unstored(j)) /\ (\A o \in Orders : Taken(o))
  BY <1>2 DEF SweepInv
<1>4. JobsOK
  BY DEF JobInv
<1>5. ASSUME NEW i \in Jobs, Store(i)
      PROVE  (\A j \in Jobs : Unstored(j)') /\ (\A o \in Orders : Taken(o)')
  <2>1. PICK f : f = job[i].file
    OBVIOUS
  <2>2. PICK o : o = job[i].order
    OBVIOUS
  <2>3. /\ job[i].step = "store" /\ rows' = [rows EXCEPT ![o] = f] /\ by' = [by EXCEPT ![o] = Kind(i)]
        /\ folder' = folder /\ delivered' = delivered
    BY <1>5, <2>1, <2>2 DEF Store, drops
  <2>4. f \in Files /\ o \in Orders
    BY <1>4, <2>1, <2>2, <2>3, FieldTypes DEF Consistent
  <2>5. /\ rows'[o] = f /\ by'[o] = Kind(i)
        /\ \A p \in Orders \ {o} : rows'[p] = rows[p] /\ by'[p] = by[p]
    BY <2>3, <2>4 DEF ImportTypeOK
  <2>6. \A j \in Jobs \ {i} : job'[j] = job[j]
    <3>1. CASE Finish(i)
      BY <1>4, <3>1, EndChanges
    <3>2. CASE job' = [job EXCEPT ![i].step = "move"]
      BY <1>4, <3>2 DEF JobsOK
    <3> QED BY <1>5, <3>1, <3>2 DEF Store
  <2>7. job'[i].step \notin {"validate", "customer", "store"}
    <3>1. CASE Finish(i)
      BY <1>4, <3>1, EndChanges
    <3>2. CASE job' = [job EXCEPT ![i].step = "move"]
      BY <1>4, <3>2, FieldTypes DEF JobsOK, Job
    <3> QED BY <1>5, <3>1, <3>2 DEF Store
  <2>8. CASE job[i].name = None
    <3>1. Kind(i) = "upload"
      BY <2>8 DEF Kind
    <3>2. ASSUME NEW j \in Jobs PROVE Unstored(j)'
      <4>1. CASE j = i
        BY <2>7, <4>1 DEF Unstored
      <4>2. CASE j # i
        BY <1>3, <2>5, <2>6, <3>1, <4>2 DEF Unstored
      <4> QED BY <4>1, <4>2
    <3>3. ASSUME NEW p \in Orders PROVE Taken(p)'
      <4>1. CASE p = o
        BY <2>5, <3>1, <4>1 DEF Taken
      <4>2. CASE p # o
        <5>1. \A j \in Jobs : job[j].step = "move" => job'[j] = job[j]
          BY <2>3, <2>6
        <5> QED BY <1>3, <2>3, <2>5, <4>2, <5>1 DEF Taken, Leaving
      <4> QED BY <4>1, <4>2
    <3> QED BY <3>2, <3>3
  <2>9. CASE job[i].name # None
    <3>1. job'[i].step = "move" /\ job'[i].file = f
      BY <1>4, <1>5, <2>1, <2>9, FieldTypes DEF Store, JobsOK, Job
    <3>2. f \in delivered /\ NameOf[f] = job[i].name
      BY <1>1, <2>1, <2>3, <2>9 DEF SourceInv, FromDrive, InHand
    <3>3. ASSUME NEW j \in Jobs PROVE Unstored(j)'
      <4>1. CASE j = i
        BY <2>7, <4>1 DEF Unstored
      <4>2. CASE j # i
        <5>1. job[j].step \in {"validate", "customer", "store"} /\ job[j].name # None => job[j].file # f
          BY <1>1, <2>1, <2>3, <2>9, <4>2, OneImport DEF InHand
        <5> QED BY <1>3, <2>5, <2>6, <4>2, <5>1 DEF Unstored
      <4> QED BY <4>1, <4>2
    <3>4. ASSUME NEW p \in Orders PROVE Taken(p)'
      <4>1. CASE p = o
        BY <2>3, <2>5, <3>1, <3>2, <4>1 DEF Taken, Leaving
      <4>2. CASE p # o
        <5>1. \A j \in Jobs : job[j].step = "move" => job'[j] = job[j]
          BY <2>3, <2>6
        <5> QED BY <1>3, <2>3, <2>5, <4>2, <5>1 DEF Taken, Leaving
      <4> QED BY <4>1, <4>2
    <3> QED BY <3>3, <3>4
  <2> QED BY <2>8, <2>9
<1>6. CASE ~(\E i \in Jobs : Store(i))
  <2>1. rows' = rows /\ by' = by
    BY <1>6 DEF ImportNext, Progress, Jobs, Deliver, StartDrive, StartUpload, TimerFires, StartBulk, List,
       DatesChange, Take, Skip, Correct, Look, LookFails, Validate, FindCustomer, CustomerClashes, StoreFails, Move, MoveFails, SetAside,
       SetAsideFails, Restart, CleanUp, tables, vars
  <2>2. ASSUME NEW j \in Jobs PROVE Unstored(j)'
    <3>1. Change(j)
      BY <1>4, Changes
    <3>2. CASE Look(j) /\ job'[j].step = "validate" /\ job'[j].name = job[j].name
               /\ job'[j].file = folder["active"][job[j].name]
      <4>1. PICK f : f = folder["active"][job[j].name]
        OBVIOUS
      <4>2. job[j].step = "look" /\ job[j].name \in Names /\ job[j].name # None
        BY <3>2, MovingName, ErpImportAssumption DEF Look
      <4>3. f # None
        <5>1. Consistent(job'[j])
          BY <1>1 DEF JobInv, JobsOK, Consistent
        <5> QED BY <3>2, <4>1, <5>1 DEF Consistent
      <4>4. NameOf[f] = job[j].name
        BY <1>1, <4>1, <4>2, <4>3 DEF SourceInv, ActiveDelivered
      <4>5. ~Leaving(f)
        <5> SUFFICES ASSUME NEW i \in Jobs, job[i].step = "move", job[i].file = f PROVE FALSE
          BY DEF Leaving
        <5>1. job[i].name # None
          BY <1>4, FieldTypes DEF Consistent
        <5>2. i = j
          BY <1>1, <4>2, <4>4, <5>1, OneImport DEF InHand
        <5> QED BY <4>2, <5>2
      <4>6. \A o \in Orders : by[o] # "upload" => rows[o] # f
        BY <1>3, <4>1, <4>3, <4>4, <4>5 DEF Taken
      <4> QED BY <2>1, <3>2, <4>1, <4>6 DEF Unstored
    <3>3. CASE /\ job'[j].step \in {"validate", "customer", "store"} => job'[j].name = None \/
                       /\ job[j].step \in {"validate", "customer", "store"}
                       /\ job'[j].name = job[j].name /\ job'[j].file = job[j].file
      BY <1>3, <2>1, <3>3 DEF Unstored
    <3> QED BY <3>1, <3>2, <3>3 DEF Change, FindCustomer
  <2>3. ASSUME NEW o \in Orders, rows[o] # None, by[o] # "upload"
        PROVE  \/ folder'["active"][NameOf[rows[o]]] # rows[o]
               \/ Leaving(rows[o])'
    <3>1. PICK f : f = rows[o]
      OBVIOUS
    <3>2. f \in delivered /\ f # None /\ (folder["active"][NameOf[f]] # f \/ Leaving(f))
      BY <1>3, <2>3, <3>1 DEF Taken
    <3>3. NameOf[f] \in Names
      BY <3>2, ErpImportAssumption DEF ImportTypeOK
    <3>4. ASSUME folder["active"][NameOf[f]] # f PROVE folder'["active"][NameOf[f]] # f
      <4>1. CASE \E g \in Files : Deliver(g)
        BY <3>1, <3>2, <3>3, <3>4, <4>1, DeliverIs
      <4>2. CASE ~(\E g \in Files : Deliver(g))
        BY <3>1, <3>2, <3>3, <3>4, <4>2, ActiveFolder
      <4> QED BY <4>1, <4>2
    <3>5. ASSUME NEW k \in Jobs, job[k].step = "move", job[k].file = f
          PROVE  folder'["active"][NameOf[f]] # f \/ Leaving(f)'
      <4>1. job[k].name \in Names /\ job[k].name # None
        BY <3>5, MovingName, ErpImportAssumption
      <4>2. NameOf[f] = job[k].name
        BY <1>1, <3>5, <4>1 DEF SourceInv, FromDrive, InHand
      <4>3. CASE job'[k] = job[k]
        BY <3>5, <4>3 DEF Leaving
      <4>4. CASE Move(k)
        <5>1. folder' = Moved(job[k].name, "archive")
          BY <4>4 DEF Move
        <5>2. folder'["active"][job[k].name] = None
          BY <4>1, <5>1, MovedFile
        <5> QED BY <3>2, <4>2, <5>2
      <4> QED BY <1>2, <3>5, <4>3, <4>4, MoverGoesOn
    <3>6. folder'["active"][NameOf[f]] # f \/ Leaving(f)'
      <4>1. CASE Leaving(f)
        <5>1. PICK k \in Jobs : job[k].step = "move" /\ job[k].file = f
          BY <4>1 DEF Leaving
        <5> QED BY <3>5, <5>1
      <4> QED BY <3>2, <3>4, <4>1
    <3>7. rows'[o] = f
      BY <2>1, <3>1
    <3> QED BY <3>1, <3>6, <3>7 DEF Leaving
  <2>4. ASSUME NEW o \in Orders PROVE Taken(o)'
    <3>1. rows[o] # None /\ by[o] # "upload" => rows[o] \in delivered'
      BY <1>1, <1>3 DEF Taken
    <3> QED BY <2>1, <2>3, <3>1 DEF Taken, Leaving
  <2> QED BY <2>2, <2>4
<1> QED BY <1>5, <1>6

\* A bulk import stores a file over rows that are not an upload's only if the file is
\* another, or if something failed.  A file is delivered once and leaves the folder under
\* the lock of the import that stored it, so that no later one finds it there.
THEOREM SweepAlwaysKeeps == ImportSpec => SweepKeepsImported
<1> DEFINE Keeps == \A j \in Sweeps, o \in Orders :
       job[j].step = "store" /\ job[j].order = o /\ job'[j].step = "move" /\ rows[o] # None
         => by[o] = "upload" \/ rows[o] # job[j].file \/ faults > 0
<1>1. ImportInit => SweepInv
  <2> SUFFICES ASSUME ImportInit PROVE SweepInv
    OBVIOUS
  <2>1. \A j \in Jobs : job[j].step = "idle"
    BY DEF ImportInit, Idle
  <2> QED BY <2>1 DEF ImportInit, SweepInv, SourceInv, ActiveDelivered, FromDrive, Unstored, Taken, InHand, Folders
<1>2. ImportTypeOK /\ JobInv /\ SweepInv /\ [ImportNext]_vars => Keeps
  <2> SUFFICES ASSUME ImportTypeOK, JobInv, SweepInv, [ImportNext]_vars, faults = 0,
                      NEW j \in Sweeps, NEW o \in Orders,
                      job[j].step = "store", job'[j].step = "move", by[o] # "upload"
               PROVE  rows[o] # job[j].file
    BY DEF ImportTypeOK
  <2>1. j \in Jobs
    BY DEF Jobs
  <2>2. Change(j) /\ JobInv'
    BY <2>1, Changes, JobStep DEF JobInv
  <2>3. job'[j].name # None
    BY <2>1, <2>2 DEF JobInv, JobsOK, Consistent
  <2>4. job[j].name # None
    BY <2>2, <2>3 DEF Change
  <2> QED BY <2>1, <2>4 DEF SweepInv, Unstored
<1>3. ImportTypeOK /\ JobInv /\ SweepInv /\ [ImportNext]_vars => SweepInv'
  BY SweepStep
<1>4. ImportTypeOK /\ JobInv /\ SweepInv /\ [ImportNext]_vars => [Keeps]_vars
  BY <1>2
<1> QED BY <1>1, <1>3, <1>4, ImportInv, PTL DEF ImportSpec, SweepKeepsImported
=============================================================================
