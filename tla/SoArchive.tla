------------------------------ MODULE SoArchive ------------------------------
(***************************************************************************)
(* The archive of dispatched orders: SoArchiveService beside the dispatch  *)
(* of orders.  Archiving copies an order with its dispatch rows, vehicle   *)
(* entries and import logs to the archive tables and deletes the           *)
(* originals; deleting clears the archive again.  Both decide on what they *)
(* read before their transaction.                                          *)
(***************************************************************************)
EXTENDS Dispatch

CONSTANTS
  NumberOf,  \* SalesOrder.saleOrderNumber; orders of one number differ in their OBD
  Jobs,      \* requests for the archive the server can have running at a time
  Sweep      \* the one that is autoArchiveDispatchedOrders

VARIABLES
  orderArchive,  \* SalesOrderArchive rows
  linkArchive,   \* Dispatch_SOArchive rows
  entryArchive,  \* VehicleEntryArchive rows
  logs,          \* order numbers with rows in ERPMaterialLog
  logArchive,    \* ... and in ERPMaterialLogArchive
  job            \* the archive requests running

archiveVars == <<orderArchive, linkArchive, entryArchive, logs, logArchive>>
allVars == <<vars, archiveVars, job>>

Numbers == {NumberOf[o] : o \in Orders}
OrdersOf(n) == {o \in Orders : NumberOf[o] = n}
DispatchesOf(o) == {d \in Dispatches : <<d, o>> \in links}
LinksOn(D) == {x \in links : x[1] \in D}

IdleJob == [step |-> "idle", order |-> None, number |-> None, links |-> {}, rows |-> {},
            entries |-> {}, logged |-> FALSE]

ArchiveTypeOK ==
  /\ TypeOK
  /\ orderArchive \subseteq Orders
  /\ linkArchive \subseteq Dispatches \X Orders
  /\ entryArchive \subseteq Entries
  /\ logs \subseteq Numbers /\ logArchive \subseteq Numbers
  /\ job \in [Jobs -> [step : {"idle", "archive", "purge"},
                       order : Orders \cup {None}, number : Numbers \cup {None},
                       links : SUBSET (Dispatches \X Orders),
                       rows : SUBSET (Dispatches \X Entries),
                       entries : SUBSET Entries, logged : BOOLEAN]]

\* Every order has been imported once, which leaves a log row under its number.
ArchiveInit ==
  /\ Init
  /\ orderArchive = {} /\ linkArchive = {} /\ entryArchive = {}
  /\ logs = Numbers /\ logArchive = {}
  /\ job = [j \in Jobs |-> IdleJob]

-----------------------------------------------------------------------------
(***************************************************************************)
(* archive, by hand or by autoArchiveDispatchedOrders                      *)
(***************************************************************************)

\* The order is found by its number and status, with its links, the other links of
\* their dispatches (counted), and the dispatches' entries.
ArchiveRead(j, n) ==
  /\ job[j] = IdleJob
  /\ \E o \in OrdersOf(n) :
       LET D == DispatchesOf(o) IN
       /\ status[o] = "Dispatched"
       /\ job' = [job EXCEPT ![j] =
            [step |-> "archive", order |-> o, number |-> n, links |-> LinksOn(D),
             rows |-> {<<d, entryOf[d]>> : d \in D}, entries |-> {}, logged |-> n \in logs]]
  /\ UNCHANGED <<vars, archiveVars>>

\* Rows a job read of dispatches that carry its order only, and a version that lets
\* another order go with it.
OwnRows(j) == {x \in job[j].rows : Cardinality({y \in job[j].links : y[1] = x[1]}) <= 2}
SoleRows(j) == {x \in job[j].rows : \A y \in job[j].links : y[1] = x[1] => y[2] = job[j].order}

Firsts(rows) == {x[1] : x \in rows}
EntriesIn(rows) == {x[2] : x \in rows}

\* Entries no dispatch uses once those are gone, and a version that does not count.
EntriesOf(rows) == EntriesIn(rows)
UnusedWithout(rows) ==
  {e \in EntriesIn(rows) : \A d \in Active \ Firsts(rows) : entryOf[d] # e}

\* Rows that are not in the archive yet (skipDuplicates).
NewRows(rows) == {x \in rows : x[1] \notin Firsts(dispatchArchive)}

\* archive without skipDuplicates: a row that is there makes it fail.
CanArchiveUnlessShared(j) ==
  /\ job[j].order \in Present
  /\ Firsts(SoleRows(j)) \subseteq Active
  /\ \A e \in UnusedWithout(SoleRows(j)) : entry[e] = "THERE"
  /\ NewRows(job[j].rows) = job[j].rows

\* What the transaction needs: the order and the dispatches to delete are still there,
\* and so are their entries; copied log rows keep their ids, which must be new.
CanArchive(j) ==
  /\ job[j].order \in Present
  /\ Firsts(SoleRows(j)) \subseteq Active
  /\ \A e \in UnusedWithout(SoleRows(j)) : entry[e] = "THERE"
  /\ ~(job[j].logged /\ job[j].number \in logArchive)

ArchiveWrite(j) ==
  LET o == job[j].order  n == job[j].number
      gone == SoleRows(j) IN
  /\ job[j].step = "archive"
  /\ CanArchive(j)
  /\ status' = [status EXCEPT ![o] = "GONE"]
  /\ stepped' = stepped \ {o}
  /\ links' = {x \in links : x[2] # o /\ x[1] \notin Firsts(gone)}
  /\ dispatch' = [d \in Dispatches |-> IF d \in Firsts(gone) THEN "DELETED" ELSE dispatch[d]]
  /\ entry' = [e \in Entries |-> IF e \in UnusedWithout(gone) THEN "DELETED" ELSE entry[e]]
  /\ orderArchive' = orderArchive \cup {o}
  /\ linkArchive' = linkArchive \cup {<<x[1], o>> : x \in job[j].rows}
  /\ entryArchive' = entryArchive \cup EntriesIn(job[j].rows)
  /\ dispatchArchive' = dispatchArchive \cup NewRows(job[j].rows)
  /\ logArchive' = IF job[j].logged THEN logArchive \cup {n} ELSE logArchive
  /\ logs' = IF job[j].logged /\ OrdersOf(n) \cap Present = {o} THEN logs \ {n} ELSE logs
  /\ job' = [job EXCEPT ![j] = IdleJob]
  /\ UNCHANGED <<entryOf, today, req>>

\* The transaction fails and rolls back.
ArchiveFails(j) ==
  /\ job[j].step = "archive"
  /\ ~CanArchive(j)
  /\ job' = [job EXCEPT ![j] = IdleJob]
  /\ UNCHANGED <<vars, archiveVars>>

-----------------------------------------------------------------------------
(***************************************************************************)
(* delete                                                                  *)
(***************************************************************************)

\* delete that takes every dispatch of the order's with it.
PurgeReadShared(j, n) ==
  LET mine == {x \in linkArchive : NumberOf[x[2]] = n}
      rows == {x \in dispatchArchive : x[1] \in Firsts(mine)}
      rest == dispatchArchive \ rows IN
  /\ j # Sweep
  /\ job[j] = IdleJob
  /\ OrdersOf(n) \cap orderArchive # {}
  /\ job' = [job EXCEPT ![j] =
       [IdleJob EXCEPT !.step = "purge", !.number = n, !.links = linkArchive, !.rows = rows,
          !.entries = (EntriesIn(rows) \ EntriesIn(rest)) \cap entryArchive]]
  /\ UNCHANGED <<vars, archiveVars>>

\* The archived dispatches that carry no other number, and the entries they alone use.
PurgeRead(j, n) ==
  LET mine == {x \in linkArchive : NumberOf[x[2]] = n}
      rows == {x \in dispatchArchive :
                 x[1] \in Firsts(mine) /\ \A y \in linkArchive \ mine : y[1] # x[1]}
      rest == dispatchArchive \ rows IN
  /\ j # Sweep
  /\ job[j] = IdleJob
  /\ OrdersOf(n) \cap orderArchive # {}
  /\ job' = [job EXCEPT ![j] =
       [IdleJob EXCEPT !.step = "purge", !.number = n, !.links = linkArchive, !.rows = rows,
          !.entries = (EntriesIn(rows) \ EntriesIn(rest)) \cap entryArchive]]
  /\ UNCHANGED <<vars, archiveVars>>

CanPurge(j) == /\ job[j].rows \subseteq dispatchArchive
               /\ job[j].entries \subseteq entryArchive

PurgeWrite(j) ==
  LET n == job[j].number IN
  /\ job[j].step = "purge"
  /\ CanPurge(j)
  /\ dispatchArchive' = dispatchArchive \ job[j].rows
  /\ entryArchive' = entryArchive \ job[j].entries
  /\ linkArchive' = {x \in linkArchive : NumberOf[x[2]] # n}
  /\ orderArchive' = orderArchive \ OrdersOf(n)
  /\ logArchive' = logArchive \ {n}
  /\ job' = [job EXCEPT ![j] = IdleJob]
  /\ UNCHANGED <<orderVars, dispatchVars, entry, today, req, logs>>

PurgeFails(j) ==
  /\ job[j].step = "purge"
  /\ ~CanPurge(j)
  /\ job' = [job EXCEPT ![j] = IdleJob]
  /\ UNCHANGED <<vars, archiveVars>>

ArchiveNext ==
  \/ Next /\ UNCHANGED <<archiveVars, job>>
  \/ \E j \in Jobs :
       \/ \E n \in Numbers : ArchiveRead(j, n) \/ PurgeRead(j, n)
       \/ ArchiveWrite(j) \/ ArchiveFails(j)
       \/ PurgeWrite(j) \/ PurgeFails(j)

ArchiveSpec == ArchiveInit /\ [][ArchiveNext]_allVars

\* Every night the sweep calls archive for each order that is dispatched long enough,
\* one after the other; nobody is obliged to anything else.
FairArchiveSpec ==
  /\ ArchiveSpec
  /\ \A n \in Numbers : SF_allVars(ArchiveRead(Sweep, n))
  /\ \A j \in Jobs : WF_allVars(ArchiveWrite(j) \/ ArchiveFails(j) \/ PurgeWrite(j) \/ PurgeFails(j))

-----------------------------------------------------------------------------
(***************************************************************************)
(* Properties                                                              *)
(***************************************************************************)

\* An order is Dispatched exactly while its Dispatched step has a date: putting it on a
\* vehicle, taking it off and archiving it keep the two together.
StepperAgrees ==
  \A o \in Orders : status[o] = "Dispatched" <=> o \in stepped

\* The entry of a vehicle that a dispatch uses is there, although archiving another
\* order deletes dispatches with their entries (archive counts their use).
EntryKept == \A d \in Active : entryOf[d] # None /\ entry[entryOf[d]] = "THERE"

\* An order that comes off its last vehicle goes back to F105 or to the archive, unless
\* it was put there after the removal or the archive had read the dispatch.
UnloadedUnlessLate ==
  [][\A o \in Orders :
       DispatchesOf(o) # {} /\ DispatchesOf(o)' = {} /\ status'[o] = "Dispatched" =>
         \E d \in DispatchesOf(o) :
           \/ \E r \in Requests : req[r].step = "remove" /\ req[r].dispatch = d
                                   /\ o \notin req[r].orders
           \/ \E j \in Jobs : job[j].step = "archive" /\ <<d, o>> \notin job[j].links]_allVars

\* An archived order's dispatches are in the archive too, and deleting another order
\* takes them only if the order was archived after the deletion had read its links.
ArchivedLinksResolve ==
  [][\A x \in linkArchive' :
       x[1] \notin Firsts(dispatchArchive') =>
         \/ x \in linkArchive /\ x[1] \notin Firsts(dispatchArchive)
         \/ \E j \in Jobs : job[j].step = "purge" /\ x \notin job[j].links]_allVars

\* "Archive a dispatched Sales Order": a dispatched order does not stay for ever, the
\* nightly sweep archives it unless it is taken off its vehicle.
DispatchedIsArchived ==
  \A o \in Orders : status[o] = "Dispatched" ~> status[o] # "Dispatched"
=============================================================================
