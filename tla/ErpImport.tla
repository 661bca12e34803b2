------------------------------ MODULE ErpImport ------------------------------
(***************************************************************************)
(* The import of ERP files: ErpMaterialImporterService.  The ERP drops     *)
(* files named after an order's number and outbound delivery (OBD) in the  *)
(* folder "active"; by day a timer imports those of the numbers due that   *)
(* day, clerks import numbers at any time or upload a file.  A file whose  *)
(* order has no OBD, or is not due any more, stays.  Importing replaces    *)
(* the order's materials in one transaction, then moves the file to        *)
(* "archive", or to "error" if anything failed.  Imports from the drive    *)
(* lock the order number in memory; a bulk import decides on what it read  *)
(* before the lock, and uploads take no lock.                              *)
(***************************************************************************)
EXTENDS Integers, FiniteSets

CONSTANTS
  Orders,      \* SalesOrder rows
  NumberOf,    \* saleOrderNumber of an order
  Obds,        \* outbound deliveries
  NoObd,       \* the empty one, of an order that has none yet: no file is named after it
  Files,       \* the files the ERP and the clerks send, by content
  SaysOf,      \* <<number, OBD>> a file's rows name, None if they do not agree
  NameOf,      \* <<number, OBD>> in a file's name
  CustomerOf,  \* <<name, address>> of the customer in a file's first row, the address or None
  Sweeps,      \* bulk imports that can run at a time
  Timers,      \* those of them that the timer starts: it does not wait for itself
  Clerks,      \* single imports and uploads that can run at a time
  Overrides,   \* OBDs a clerk may give instead of the order's
  MaxFaults,   \* bound: failures of SFTP or database, restarts
  MaxTries,    \* bound: imports and uploads the clerks start
  None

Numbers == {NumberOf[o] : o \in Orders}
Names == Numbers \X Obds
Jobs == Sweeps \cup Clerks
Customers == {CustomerOf[f] : f \in Files}
Addressed(c) == c[2] # None
Folders == {"active", "archive", "error"}

ASSUME ErpImportAssumption ==
  /\ IsFiniteSet(Numbers) /\ IsFiniteSet(Jobs) /\ Jobs # {} /\ Sweeps \cap Clerks = {} /\ Timers \subseteq Sweeps
  /\ SaysOf \in [Files -> Names \cup {None}] /\ NameOf \in [Files -> Names]
  /\ \A f \in Files, n \in Numbers : <<n, NoObd>> \notin {SaysOf[f], NameOf[f]}
  /\ Overrides \subseteq Obds \ {NoObd}
  /\ MaxFaults \in Nat /\ MaxTries \in Nat
  /\ None \notin Orders \cup Files \cup Names \cup Obds \cup Numbers

VARIABLES
  due,        \* numbers with an order whose delivery date is today
  obd,        \* SalesOrder.outboundDelivery
  rows,       \* the file an order's ERP_Material_Data is from; isErpImported with it
  customers,  \* how many Customer rows have a name and address
  folder,     \* the files in the three folders, by name
  locks,      \* activeImportLocks
  job,        \* the imports running
  faults,     \* how many faults there have been
  tries,      \* how many imports the clerks have started
  delivered,  \* history: files the ERP has dropped
  stored,     \* history: files whose rows were stored
  replaced,   \* history: files dropped over one whose import was running
  by          \* history: what stored an order's rows

vars == <<due, obd, rows, customers, folder, locks, job, faults, tries, delivered, stored, replaced, by>>
tables == <<obd, rows, customers, stored, by>>
drops == <<due, delivered, replaced, tries>>

Key(o) == <<NumberOf[o], obd[o]>>
OrdersOf(n) == {o \in Orders : NumberOf[o] = n}

Idle == [step |-> "idle", order |-> None, name |-> None, file |-> None, todo |-> {},
         known |-> FALSE]

Listed == [order : Orders, obd : Obds, done : BOOLEAN]
\* The import of one file, from finding it to setting it aside.
Reading == {"validate", "customer", "store", "move", "setAside"}
Locking == {"correct", "look"} \cup Reading
Job == [step : {"idle", "next"} \cup Locking, order : Orders \cup {None},
        name : Names \cup {None}, file : Files \cup {None}, todo : SUBSET Listed,
        known : BOOLEAN]

\* A job that works on a file has one, by then for an order; one from the drive a name.
Consistent(q) ==
  /\ q.step \in {"correct", "look", "move", "setAside"} => q.name # None
  /\ q.step \in {"validate", "customer", "store"} => q.file # None
  /\ q.step \in {"correct", "customer", "store"} => q.order # None

ImportTypeOK ==
  /\ due \subseteq Numbers
  /\ obd \in [Orders -> Obds]
  /\ rows \in [Orders -> Files \cup {None}]
  /\ customers \in [Customers -> Nat]
  /\ folder \in [Folders -> [Names -> Files \cup {None}]]
  /\ locks \subseteq Numbers
  /\ job \in [Jobs -> Job]
  /\ \A j \in Jobs : Consistent(job[j])
  /\ faults \in 0..MaxFaults /\ tries \in 0..MaxTries
  /\ delivered \subseteq Files /\ stored \subseteq Files /\ replaced \subseteq Files
  /\ by \in [Orders -> {"none", "upload", "drive", "sweep"}]

\* Orders of one number differ in their OBD (@@unique).
DistinctKeys(f) == \A o, p \in Orders : NumberOf[o] = NumberOf[p] /\ f[o] = f[p] => o = p

ImportInit ==
  /\ due \in SUBSET Numbers
  /\ obd \in {f \in [Orders -> Obds] : DistinctKeys(f)}
  /\ rows = [o \in Orders |-> None] /\ by = [o \in Orders |-> "none"]
  /\ customers = [c \in Customers |-> 0]
  /\ folder = [d \in Folders |-> [n \in Names |-> None]]
  /\ locks = {} /\ job = [j \in Jobs |-> Idle] /\ faults = 0 /\ tries = 0
  /\ delivered = {} /\ stored = {} /\ replaced = {}

-----------------------------------------------------------------------------
(***************************************************************************)
(* Starting an import                                                      *)
(***************************************************************************)

\* A day passes, or somebody moves a delivery date.
DatesChange ==
  /\ due' \in (SUBSET Numbers) \ {due}
  /\ UNCHANGED <<tables, delivered, replaced, tries, folder, locks, job, faults>>

\* A file dropped under a name replaces the one that is there.
Deliver(f) ==
  /\ f \notin delivered
  /\ delivered' = delivered \cup {f}
  /\ folder' = [folder EXCEPT !["active"][NameOf[f]] = f]
  /\ replaced' = IF \E j \in Jobs : job[j].step \in Reading /\ job[j].name = NameOf[f]
                 THEN replaced \cup {f} ELSE replaced
  /\ UNCHANGED <<tables, due, locks, job, faults, tries>>

\* importFromDrive: one of the orders of the number, whatever its OBD; an OBD that the
\* clerk gives is written to it before the file is looked for.
StartDrive(j, n, given) ==
  /\ job[j] = Idle
  /\ tries < MaxTries /\ tries' = tries + 1
  /\ n \notin locks
  /\ locks' = locks \cup {n}
  /\ \E o \in OrdersOf(n) :
       LET b == IF given = None THEN obd[o] ELSE given IN
       job' = [job EXCEPT ![j] = [Idle EXCEPT !.step = IF b = obd[o] THEN "look" ELSE "correct",
                                              !.order = o, !.name = <<n, b>>]]
  /\ UNCHANGED <<tables, due, delivered, replaced, folder, faults>>

\* processFile straight from the request: no lock, no folder.
StartUpload(j, f) ==
  /\ job[j] = Idle
  /\ tries < MaxTries /\ tries' = tries + 1
  /\ job' = [job EXCEPT ![j] = [Idle EXCEPT !.step = "validate", !.file = f]]
  /\ UNCHANGED <<tables, due, delivered, replaced, folder, locks, faults>>

\* bulkImportFromDrive: all the orders of the numbers, as they are now.
List(j, ns) ==
  /\ job[j] = Idle
  /\ ns # {}
  /\ job' = [job EXCEPT ![j] = [Idle EXCEPT !.step = "next", !.todo =
       {[order |-> o, obd |-> obd[o], done |-> rows[o] # None] : o \in UNION {OrdersOf(n) : n \in ns}}]]
  /\ UNCHANGED <<tables, due, delivered, replaced, folder, locks, faults>>

\* autoProcessActiveFolder, which lists nothing else, and a clerk's bulk import of any numbers.
TimerFires(j) == List(j, due) /\ UNCHANGED tries
StartBulk(j, ns) == List(j, ns) /\ tries < MaxTries /\ tries' = tries + 1

\* An order whose number is locked, or that was imported when listed, is skipped.
Skip(j, t) ==
  /\ job[j].step = "next" /\ t \in job[j].todo
  /\ NumberOf[t.order] \in locks \/ t.done
  /\ job' = [job EXCEPT ![j] =
       IF job[j].todo = {t} THEN Idle ELSE [job[j] EXCEPT !.todo = job[j].todo \ {t}]]
  /\ UNCHANGED <<tables, drops, folder, locks, faults>>

\* The lock as it is, the order as it was listed; and a version that ignores the lock.
MayTakeLocked(t) == ~t.done
MayTake(t) == NumberOf[t.order] \notin locks /\ ~t.done

Take(j, t) ==
  /\ job[j].step = "next" /\ t \in job[j].todo
  /\ MayTake(t)
  /\ locks' = locks \cup {NumberOf[t.order]}
  /\ job' = [job EXCEPT ![j] = [job[j] EXCEPT !.step = "look", !.order = t.order,
               !.name = <<NumberOf[t.order], t.obd>>, !.todo = job[j].todo \ {t}]]
  /\ UNCHANGED <<tables, drops, folder, faults>>

-----------------------------------------------------------------------------
(***************************************************************************)
(* The steps of an import                                                  *)
(***************************************************************************)

\* The finally block: an import from the drive ends by unlocking its number; a bulk
\* import goes on to its next order.
After(j) == IF job[j].todo = {} THEN Idle ELSE [Idle EXCEPT !.step = "next", !.todo = job[j].todo]
Finish(j) ==
  /\ job' = [job EXCEPT ![j] = After(j)]
  /\ locks' = IF job[j].name = None THEN locks ELSE locks \ {job[j].name[1]}

\* A version in which an import that ends early keeps the lock.
FinishLocked(j) ==
  /\ job' = [job EXCEPT ![j] = After(j)]
  /\ locks' = locks
GiveUp(j) == Finish(j)

\* An error while a file is processed: one from the drive is set aside.
Fail(j) ==
  IF job[j].name = None THEN Finish(j)
  ELSE job' = [job EXCEPT ![j].step = "setAside"] /\ UNCHANGED locks

Fault == faults < MaxFaults /\ faults' = faults + 1

\* The given OBD becomes the order's, unless another order of the number has it.
Correct(j) ==
  LET o == job[j].order  new == [obd EXCEPT ![o] = job[j].name[2]] IN
  /\ job[j].step = "correct"
  /\ IF DistinctKeys(new)
     THEN /\ obd' = new
          /\ job' = [job EXCEPT ![j].step = "look"]
          /\ UNCHANGED locks
     ELSE GiveUp(j) /\ UNCHANGED obd
  /\ UNCHANGED <<rows, customers, stored, by, drops, folder, faults>>

\* An order without an OBD has no file, and its number is unlocked all the same.
Look(j) ==
  LET f == folder["active"][job[j].name] IN
  /\ job[j].step = "look"
  /\ IF f = None THEN GiveUp(j)
     ELSE job' = [job EXCEPT ![j].step = "validate", ![j].file = f] /\ UNCHANGED locks
  /\ UNCHANGED <<tables, drops, folder, faults>>

\* A file that cannot be read stays where it is, unless it is a bulk import's.
LookFails(j) ==
  /\ job[j].step = "look" /\ folder["active"][job[j].name] # None
  /\ Fault
  /\ IF j \in Sweeps THEN Fail(j) ELSE GiveUp(j)
  /\ UNCHANGED <<tables, drops, folder>>

\* readFile, validateRecords and the look-up of the order in upsertRecords.
Acceptable(j, o) ==
  /\ Key(o) = SaysOf[job[j].file]
  /\ job[j].name # None => NumberOf[o] = job[j].name[1]

\* A version that goes on without an order.
ValidateUnchecked(j) ==
  /\ job[j].step = "validate"
  /\ job' = [job EXCEPT ![j].step = "customer"]
  /\ UNCHANGED <<tables, drops, folder, locks, faults>>

Validate(j) ==
  /\ job[j].step = "validate"
  /\ \/ \E o \in Orders :
          /\ Acceptable(j, o)
          /\ job' = [job EXCEPT ![j].step = "customer", ![j].order = o]
          /\ UNCHANGED locks
     \/ ~(\E o \in Orders : Acceptable(j, o)) /\ Fail(j)
  /\ UNCHANGED <<tables, drops, folder, faults>>

\* Inside the transaction: is there a customer of that name and, if given, address?
FindCustomer(j) ==
  LET c == CustomerOf[job[j].file] IN
  /\ job[j].step = "customer"
  /\ job' = [job EXCEPT ![j].step = "store", ![j].known =
       \E d \in Customers : customers[d] > 0 /\ d[1] = c[1] /\ (Addressed(c) => d = c)]
  /\ UNCHANGED <<tables, drops, folder, locks, faults>>

\* A customer that is not known is made, in a faulty version every one.
MissingAlways(j) == TRUE
Missing(j) == ~job[j].known

\* The key (name, address) holds for customers with an address: one that another import
\* has made since fails the transaction.
Clash(j) ==
  LET c == CustomerOf[job[j].file] IN Missing(j) /\ Addressed(c) /\ customers[c] > 0

Kind(j) == IF job[j].name = None THEN "upload" ELSE IF j \in Sweeps THEN "sweep" ELSE "drive"

\* ... and the rest of it: a new customer, the order, and its materials replaced.
Store(j) ==
  LET f == job[j].file IN
  /\ job[j].step = "store" /\ ~Clash(j)
  /\ rows' = [rows EXCEPT ![job[j].order] = f]
  /\ by' = [by EXCEPT ![job[j].order] = Kind(j)]
  /\ stored' = stored \cup {f}
  /\ customers' = IF Missing(j) THEN [customers EXCEPT ![CustomerOf[f]] = @ + 1] ELSE customers
  /\ IF job[j].name = None THEN Finish(j)
     ELSE job' = [job EXCEPT ![j].step = "move"] /\ UNCHANGED locks
  /\ UNCHANGED <<obd, drops, folder, faults>>

CustomerClashes(j) ==
  /\ job[j].step = "store" /\ Clash(j)
  /\ Fail(j)
  /\ UNCHANGED <<tables, drops, folder, faults>>

StoreFails(j) ==
  /\ job[j].step \in {"customer", "store"}
  /\ Fault /\ Fail(j)
  /\ UNCHANGED <<tables, drops, folder>>

Moved(n, d) == [folder EXCEPT !["active"][n] = None, ![d][n] = folder["active"][n]]

\* Whatever now has the name goes to the archive, over an older file of that name.
Move(j) ==
  /\ job[j].step = "move"
  /\ folder' = Moved(job[j].name, "archive")
  /\ Finish(j)
  /\ UNCHANGED <<tables, drops, faults>>

\* The log entry, the deletion of the older file or the renaming fails; a clerk's bulk
\* import writes its log entry last, with the file in the archive already.
MoveFails(j) ==
  /\ job[j].step = "move"
  /\ Fault
  /\ \/ UNCHANGED folder
     \/ folder' = [folder EXCEPT !["archive"][job[j].name] = None]
     \/ j \in Sweeps \ Timers /\ folder' = Moved(job[j].name, "archive")
  /\ Fail(j)
  /\ UNCHANGED <<tables, drops>>

\* The catch block: the file goes to "error", in a faulty version to "archive".
ErrorFolderSame == "archive"
ErrorFolder == "error"

SetAside(j) ==
  /\ job[j].step = "setAside"
  /\ folder' = IF folder["active"][job[j].name] = None THEN folder
               ELSE Moved(job[j].name, ErrorFolder)
  /\ Finish(j)
  /\ UNCHANGED <<tables, drops, faults>>

SetAsideFails(j) ==
  /\ job[j].step = "setAside"
  /\ Fault
  /\ Finish(j)
  /\ UNCHANGED <<tables, drops, folder>>

\* Locks are in memory, files and rows are not.
Restart ==
  /\ \E j \in Jobs : job[j] # Idle
  /\ Fault
  /\ job' = [j \in Jobs |-> Idle]
  /\ locks' = {}
  /\ UNCHANGED <<tables, drops, folder>>

\* cleanupOldArchiveFiles: a file leaves the archive a month later.
CleanUp(n) ==
  /\ folder["archive"][n] # None
  /\ folder' = [folder EXCEPT !["archive"][n] = None]
  /\ UNCHANGED <<tables, drops, locks, job, faults>>

Progress(j) ==
  \/ Correct(j) \/ Look(j) \/ Validate(j) \/ FindCustomer(j) \/ Store(j) \/ CustomerClashes(j)
  \/ Move(j) \/ SetAside(j)
  \/ \E t \in job[j].todo : Skip(j, t)

ImportNext ==
  \/ DatesChange
  \/ \E f \in Files : Deliver(f)
  \/ \E j \in Clerks, n \in Numbers, given \in Overrides \cup {None} : StartDrive(j, n, given)
  \/ \E j \in Clerks, f \in Files : StartUpload(j, f)
  \/ \E j \in Timers : TimerFires(j)
  \/ \E j \in Sweeps \ Timers, ns \in SUBSET Numbers : StartBulk(j, ns)
  \/ \E j \in Sweeps : \E t \in job[j].todo : Take(j, t)
  \/ \E j \in Jobs : \/ Progress(j)
                     \/ LookFails(j) \/ StoreFails(j) \/ MoveFails(j) \/ SetAsideFails(j)
  \/ \E n \in Names : CleanUp(n)
  \/ Restart

ImportSpec == ImportInit /\ [][ImportNext]_vars

\* The timer fires again and again on every day, and every import goes on.  Nobody has to
\* start one, and the day need not last until the file of an order has come.
FairImportSpec ==
  /\ ImportSpec
  /\ \A j \in Jobs : WF_vars(Progress(j))
  /\ \A j \in Timers : WF_vars(TimerFires(j))
  /\ \A j \in Sweeps, t \in Listed : WF_vars(Take(j, t))

-----------------------------------------------------------------------------
(***************************************************************************)
(* Properties                                                              *)
(***************************************************************************)

\* Jobs that import a file from the drive, between locking and unlocking.
Holding(n) == {j \in Jobs : job[j].step \in Locking /\ job[j].name # None /\ job[j].name[1] = n}

\* A number is locked exactly while one import from the drive works on it: no path of
\* importFromDrive or bulkImportFromDrive keeps the lock or enters beside another.
LockedByOne ==
  \A n \in Numbers : /\ n \in locks <=> Holding(n) # {}
                     /\ \A i, j \in Holding(n) : i = j

\* What lies in the archive has been stored, unless the ERP dropped it while the file
\* it replaced was being imported: then the new file is archived unread.
ArchivedWasStored ==
  \A n \in Names : folder["archive"][n] \in stored \cup replaced \cup {None}

\* Imports that run at the same time may each create the customer that they do not find:
\* one without an address, whose key has a NULL, once for each number, because of the
\* lock, and once for each upload.  Importing again later makes no more of them.
Overlapping == Cardinality(Numbers) + Cardinality(Clerks)
CustomersBounded ==
  \A c \in Customers : customers[c] <= IF Addressed(c) THEN 1 ELSE Overlapping

\* A bulk import, the timer's or a clerk's, replaces materials, and with them the counts
\* made since, only if they came by an upload (which takes no lock), if a newer file has
\* come, or if the file could not be moved away after an earlier import.
SweepKeepsImported ==
  [][\A j \in Sweeps, o \in Orders :
       job[j].step = "store" /\ job[j].order = o /\ job'[j].step = "move" /\ rows[o] # None
         => by[o] = "upload" \/ rows[o] # job[j].file \/ faults > 0]_vars

\* A file that waits for an order without materials, on a day on which an order of its
\* number is due, is imported or taken away, or the order gets another OBD, unless the
\* day ends before.  Of a file of another day, or of an order without an OBD, nothing is
\* promised: autoProcessActiveFolder leaves it in the folder.
WaitingFileHandled ==
  \A o \in Orders, n \in Names :
    (folder["active"][n] # None /\ rows[o] = None /\ Key(o) = n /\ n[1] \in due)
      ~> (folder["active"][n] = None \/ rows[o] # None \/ Key(o) # n \/ n[1] \notin due)
=============================================================================
