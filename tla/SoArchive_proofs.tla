-------------------------- MODULE SoArchive_proofs --------------------------
(***************************************************************************)
(* Proofs about the dispatch and the archive of orders, for any orders,    *)
(* dispatches, vehicle entries and numbers of requests.                    *)
(***************************************************************************)
EXTENDS SoArchive, TLAPS

-----------------------------------------------------------------------------
(***************************************************************************)
(* The inductive invariant.  A dispatch that carries an order is there and *)
(* has an entry that is there, so what an archive request reads are rows;  *)
(* a deletion's rows belong to one order number among the links it read.   *)
(***************************************************************************)

Request == [step : {"idle", "enter", "create", "update", "remove"},
            dispatch : Dispatches \cup {None},
            vehicle : Vehicles \cup {None},
            entry : Entries \cup {None},
            orders : SUBSET Orders]

RequestsInv ==
  /\ req \in [Requests -> Request]
  /\ \A r \in Requests : req[r].step \in {"create", "update"} => req[r].entry \in Entries

RowsType ==
  /\ status \in [Orders -> {"F105", "Dispatched", "GONE"}]
  /\ stepped \subseteq Orders
  /\ links \subseteq Dispatches \X Orders
  /\ dispatch \in [Dispatches -> RowStates]
  /\ entryOf \in [Dispatches -> Entries \cup {None}]
  /\ entry \in [Entries -> RowStates]
  /\ today \in [entries : SUBSET Entries, dispatches : SUBSET Dispatches]
  /\ dispatchArchive \subseteq Dispatches \X Entries

LinksActive == \A x \in links : x[1] \in Active

RowsInv == RowsType /\ EntryKept /\ LinksActive

rowVars == <<orderVars, dispatchVars, entry, today, dispatchArchive>>

Job == [step : {"idle", "archive", "purge"},
        order : Orders \cup {None}, number : Numbers \cup {None},
        links : SUBSET (Dispatches \X Orders),
        rows : SUBSET (Dispatches \X Entries),
        entries : SUBSET Entries, logged : BOOLEAN]

\* A deletion takes no dispatch that carries another number, as far as it read.
OwnNumberOnly(q) ==
  q.step = "purge" => \A y \in q.links : y[1] \in Firsts(q.rows) => NumberOf[y[2]] = q.number

JobsInv ==
  /\ job \in [Jobs -> Job]
  /\ \A j \in Jobs : /\ job[j].step # "idle" => job[j].number \in Numbers
                     /\ OwnNumberOnly(job[j])

ArchivesType ==
  /\ orderArchive \subseteq Orders
  /\ linkArchive \subseteq Dispatches \X Orders
  /\ entryArchive \subseteq Entries
  /\ logs \subseteq Numbers /\ logArchive \subseteq Numbers

ArchiveInv == RowsInv /\ RequestsInv /\ ArchivesType /\ JobsInv

LEMMA TypeOfParts == ArchiveTypeOK <=> /\ RowsType /\ req \in [Requests -> Request]
                                       /\ ArchivesType /\ job \in [Jobs -> Job]
  BY DEF ArchiveTypeOK, TypeOK, RowsType, Request, ArchivesType, Job

LEMMA InitHolds == ArchiveInit => ArchiveInv
<1> SUFFICES ASSUME ArchiveInit PROVE ArchiveInv
  OBVIOUS
<1>1. RowsInv
  BY DEF ArchiveInit, Init, RowsInv, RowsType, EntryKept, LinksActive, Active, RowStates
<1>2. RequestsInv
  BY DEF ArchiveInit, Init, RequestsInv, Request, Idle
<1>3. ArchivesType
  BY DEF ArchiveInit, ArchivesType
<1>4. JobsInv
  BY DEF ArchiveInit, JobsInv, Job, IdleJob, OwnNumberOnly
<1> QED BY <1>1, <1>2, <1>3, <1>4 DEF ArchiveInv

LEMMA RowsStay == RowsInv /\ UNCHANGED rowVars => RowsInv'
  BY DEF RowsInv, RowsType, EntryKept, LinksActive, Active, rowVars, orderVars, dispatchVars

-----------------------------------------------------------------------------
(***************************************************************************)
(* Steps of dispatch requests                                              *)
(***************************************************************************)

\* A step that replaces one request by a well-formed one keeps them all well-formed.
LEMMA ReplaceRequest ==
  ASSUME RequestsInv, NEW r \in Requests, NEW q \in Request,
         q.step \in {"create", "update"} => q.entry \in Entries,
         req' = [req EXCEPT ![r] = q]
  PROVE  RequestsInv'
  BY DEF RequestsInv

\* Every step leaves the requests well-formed.
LEMMA RequestsKeep ==
  ASSUME RowsInv, RequestsInv, Next
  PROVE  RequestsInv'
<1>1. Idle \in Request /\ Idle.step = "idle"
  BY DEF Idle, Request
<1>2. ASSUME NEW r \in Requests, NEW v \in Vehicles, EnterRead(r, v) PROVE RequestsInv'
  <2> DEFINE q == [Idle EXCEPT !.step = "enter", !.vehicle = v]
  <2>1. q \in Request /\ q.step = "enter"
    BY DEF Idle, Request
  <2> QED BY <1>2, <2>1, ReplaceRequest DEF EnterRead
<1>3. ASSUME NEW r \in Requests, NEW e \in Entries, NEW S \in SUBSET Orders, CreateRead(r, e, S)
      PROVE  RequestsInv'
  <2> DEFINE q == [Idle EXCEPT !.step = "create", !.entry = e, !.orders = S]
  <2>1. q \in Request /\ q.entry = e
    BY DEF Idle, Request
  <2> QED BY <1>3, <2>1, ReplaceRequest DEF CreateRead
<1>4. ASSUME NEW r \in Requests, NEW d \in Dispatches, NEW e \in Entries, UpdateRead(r, d, e)
      PROVE  RequestsInv'
  <2> DEFINE q == [Idle EXCEPT !.step = "update", !.dispatch = d, !.entry = e]
  <2>1. q \in Request /\ q.entry = e
    BY DEF Idle, Request
  <2> QED BY <1>4, <2>1, ReplaceRequest DEF UpdateRead
<1>5. ASSUME NEW r \in Requests, NEW d \in Dispatches, RemoveRead(r, d) PROVE RequestsInv'
  <2> DEFINE q == [Idle EXCEPT !.step = "remove", !.dispatch = d, !.orders = OrdersOn(d)]
  <2>1. q \in Request /\ q.step = "remove"
    BY DEF Idle, Request, OrdersOn
  <2> QED BY <1>5, <2>1, ReplaceRequest DEF RemoveRead
<1>6. ASSUME NEW r \in Requests, req' = [req EXCEPT ![r] = Idle] PROVE RequestsInv'
  BY <1>1, <1>6, ReplaceRequest
<1>7. ASSUME req' = req PROVE RequestsInv'
  BY <1>7 DEF RequestsInv
<1> QED
  BY <1>2, <1>3, <1>4, <1>5, <1>6, <1>7
  DEF Next, EnterWrite, CreateWrite, UpdateWrite, RemoveWrite, AddSO, RemoveSO, NextDay

\* Loading keeps the links at active dispatches.
LEMMA LoadKeeps ==
  ASSUME NEW d \in Dispatches, NEW S \in SUBSET Orders,
         status \in [Orders -> {"F105", "Dispatched", "GONE"}],
         stepped \subseteq Orders, links \subseteq Dispatches \X Orders, Load(d, S)
  PROVE  /\ status' \in [Orders -> {"F105", "Dispatched", "GONE"}]
         /\ stepped' \subseteq Orders
         /\ links' \subseteq Dispatches \X Orders
         /\ \A x \in links' : x \in links \/ x[1] = d
  BY DEF Load

LEMMA RevertKeeps ==
  ASSUME NEW S \in SUBSET Orders, status \in [Orders -> {"F105", "Dispatched", "GONE"}],
         stepped \subseteq Orders, Revert(S)
  PROVE  /\ status' \in [Orders -> {"F105", "Dispatched", "GONE"}]
         /\ stepped' \subseteq Orders
  BY DEF Revert

LEMMA CreateKeepsRows ==
  ASSUME RowsInv, RequestsInv, NEW r \in Requests, CreateWrite(r)
  PROVE  RowsInv'
<1> DEFINE e == req[r].entry
<1>1. e \in Entries /\ req[r].orders \subseteq Orders
  BY DEF CreateWrite, RequestsInv, Request
<1>2. CASE \E d \in Dispatches :
             /\ dispatch[d] = "NEW" /\ entry[e] = "THERE"
             /\ dispatch' = [dispatch EXCEPT ![d] = "THERE"]
             /\ entryOf' = [entryOf EXCEPT ![d] = e]
             /\ today' = [today EXCEPT !.dispatches = @ \cup {d}]
             /\ Load(d, req[r].orders)
  <2>1. PICK d \in Dispatches :
             /\ dispatch[d] = "NEW" /\ entry[e] = "THERE"
             /\ dispatch' = [dispatch EXCEPT ![d] = "THERE"]
             /\ entryOf' = [entryOf EXCEPT ![d] = e]
             /\ today' = [today EXCEPT !.dispatches = @ \cup {d}]
             /\ Load(d, req[r].orders)
    BY <1>2
  <2>2. UNCHANGED <<entry, dispatchArchive>>
    BY DEF CreateWrite
  <2>3. /\ status' \in [Orders -> {"F105", "Dispatched", "GONE"}]
        /\ stepped' \subseteq Orders
        /\ links' \subseteq Dispatches \X Orders
        /\ \A x \in links' : x \in links \/ x[1] = d
    BY <1>1, <2>1, LoadKeeps DEF RowsInv, RowsType
  <2>4. today' \in [entries : SUBSET Entries, dispatches : SUBSET Dispatches]
    BY <2>1 DEF RowsInv, RowsType
  <2>5. RowsType'
    BY <1>1, <2>1, <2>2, <2>3, <2>4 DEF RowsInv, RowsType, RowStates
  <2>6. Active' = Active \cup {d}
    BY <2>1 DEF Active, RowsInv, RowsType
  <2>7. EntryKept'
    <3> SUFFICES ASSUME NEW c \in Active'
                 PROVE  entryOf'[c] # None /\ entry'[entryOf'[c]] = "THERE"
      BY DEF EntryKept
    <3>1. CASE c = d
      BY <1>1, <2>1, <2>2, <3>1, DispatchAssumption DEF RowsInv, RowsType
    <3>2. CASE c # d
      BY <2>1, <2>2, <2>6, <3>2 DEF RowsInv, RowsType, EntryKept
    <3> QED BY <3>1, <3>2
  <2>8. LinksActive'
    BY <2>3, <2>6 DEF RowsInv, LinksActive
  <2> QED BY <2>5, <2>7, <2>8 DEF RowsInv
<1>3. CASE UNCHANGED <<orderVars, dispatchVars, today>>
  BY <1>3, RowsStay DEF CreateWrite, rowVars
<1> QED BY <1>2, <1>3 DEF CreateWrite

\* A changed vehicle is one whose entry is there.
LEMMA UpdateKeepsRows ==
  ASSUME RowsInv, RequestsInv, NEW r \in Requests, UpdateWrite(r)
  PROVE  RowsInv'
<1> DEFINE d == req[r].dispatch
           e == req[r].entry
<1>1. e \in Entries
  BY DEF UpdateWrite, RequestsInv, Request
<1>2. UNCHANGED <<orderVars, dispatch, entry, today, dispatchArchive>>
  BY DEF UpdateWrite
<1>3. CASE d \in Active /\ entry[e] = "THERE"
  <2>1. d \in Dispatches /\ entryOf' = [entryOf EXCEPT ![d] = e]
    BY <1>3 DEF UpdateWrite, Active
  <2>2. RowsType'
    BY <1>1, <1>2, <2>1 DEF RowsInv, RowsType, orderVars
  <2>3. EntryKept' /\ LinksActive'
    BY <1>1, <1>2, <1>3, <2>1, DispatchAssumption
    DEF RowsInv, RowsType, EntryKept, LinksActive, Active, orderVars
  <2> QED BY <2>2, <2>3 DEF RowsInv
<1>4. CASE ~(d \in Active /\ entry[e] = "THERE")
  BY <1>2, <1>4, RowsStay DEF UpdateWrite, rowVars, dispatchVars
<1> QED BY <1>3, <1>4

\* A deleted dispatch takes its links with it.
LEMMA RemoveKeepsRows ==
  ASSUME RowsInv, RequestsInv, NEW r \in Requests, RemoveWrite(r)
  PROVE  RowsInv'
<1> DEFINE d == req[r].dispatch
<1>1. UNCHANGED <<entryOf, entry, today, dispatchArchive>> /\ req[r].orders \subseteq Orders
  BY DEF RemoveWrite, RequestsInv, Request
<1>2. CASE /\ d \in Active
           /\ Revert(req[r].orders)
           /\ links' = links \ ({d} \X Orders)
           /\ dispatch' = [dispatch EXCEPT ![d] = "DELETED"]
  <2>1. /\ status' \in [Orders -> {"F105", "Dispatched", "GONE"}]
        /\ stepped' \subseteq Orders
    BY <1>1, <1>2, RevertKeeps DEF RowsInv, RowsType
  <2>2. RowsType'
    BY <1>1, <1>2, <2>1 DEF RowsInv, RowsType, RowStates
  <2>3. Active' = Active \ {d}
    BY <1>2 DEF Active, RowsInv, RowsType
  <2>4. EntryKept'
    BY <1>1, <2>3 DEF RowsInv, EntryKept
  <2>5. LinksActive'
    BY <1>2, <2>3 DEF RowsInv, RowsType, LinksActive
  <2> QED BY <2>2, <2>4, <2>5 DEF RowsInv
<1>3. CASE UNCHANGED <<orderVars, dispatch>>
  BY <1>1, <1>3, RowsStay DEF rowVars, dispatchVars
<1> QED BY <1>2, <1>3 DEF RemoveWrite

LEMMA RowsKeep ==
  ASSUME RowsInv, RequestsInv, Next
  PROVE  RowsInv'
<1>1. ASSUME NEW r \in Requests, EnterWrite(r) PROVE RowsInv'
  <2>1. UNCHANGED <<orderVars, dispatchVars, dispatchArchive>>
    BY <1>1 DEF EnterWrite
  <2>2. CASE \E e \in Entries : /\ entry' = [entry EXCEPT ![e] = "THERE"]
                                /\ today' = [today EXCEPT !.entries = @ \cup {e}]
    BY <2>1, <2>2 DEF RowsInv, RowsType, RowStates, EntryKept, LinksActive, Active, orderVars,
                      dispatchVars
  <2>3. CASE UNCHANGED <<entry, today>>
    BY <2>1, <2>3, RowsStay DEF rowVars
  <2> QED BY <1>1, <2>2, <2>3 DEF EnterWrite
<1>2. ASSUME NEW d \in Dispatches, NEW o \in Orders, AddSO(d, o) PROVE RowsInv'
  <2>1. /\ status' \in [Orders -> {"F105", "Dispatched", "GONE"}]
        /\ stepped' \subseteq Orders
        /\ links' \subseteq Dispatches \X Orders
        /\ \A x \in links' : x \in links \/ x[1] = d
    BY <1>2, LoadKeeps DEF AddSO, RowsInv, RowsType
  <2> QED BY <1>2, <2>1 DEF AddSO, RowsInv, RowsType, EntryKept, LinksActive, Active, dispatchVars
<1>3. ASSUME NEW d \in Dispatches, NEW o \in Orders, RemoveSO(d, o) PROVE RowsInv'
  <2>1. /\ status' \in [Orders -> {"F105", "Dispatched", "GONE"}]
        /\ stepped' \subseteq Orders
    BY <1>3, RevertKeeps DEF RemoveSO, RowsInv, RowsType
  <2> QED BY <1>3, <2>1 DEF RemoveSO, RowsInv, RowsType, EntryKept, LinksActive, Active, dispatchVars
<1>4. ASSUME NextDay PROVE RowsInv'
  BY <1>4 DEF NextDay, RowsInv, RowsType, EntryKept, LinksActive, Active, orderVars, dispatchVars
<1>5. ASSUME UNCHANGED rowVars PROVE RowsInv'
  BY <1>5, RowsStay
<1> QED
  BY <1>1, <1>2, <1>3, <1>4, <1>5, CreateKeepsRows, UpdateKeepsRows, RemoveKeepsRows
  DEF Next, EnterRead, CreateRead, UpdateRead, RemoveRead, rowVars

-----------------------------------------------------------------------------
(***************************************************************************)
(* Steps of archive requests                                               *)
(***************************************************************************)

LEMMA ReplaceJob ==
  ASSUME JobsInv, NEW j \in Jobs, NEW q \in Job, q.step # "idle" => q.number \in Numbers,
         OwnNumberOnly(q), job' = [job EXCEPT ![j] = q]
  PROVE  JobsInv'
  BY DEF JobsInv

LEMMA IdleJobType == IdleJob \in Job /\ IdleJob.step = "idle" /\ OwnNumberOnly(IdleJob)
  BY DEF IdleJob, Job, OwnNumberOnly

\* What archive reads are rows: a dispatch that carries the order has an entry.
LEMMA ArchiveReadKeeps ==
  ASSUME RowsInv, JobsInv, NEW j \in Jobs, NEW n \in Numbers, ArchiveRead(j, n)
  PROVE  JobsInv'
<1>1. PICK o \in OrdersOf(n) :
        job' = [job EXCEPT ![j] =
          [step |-> "archive", order |-> o, number |-> n, links |-> LinksOn(DispatchesOf(o)),
           rows |-> {<<d, entryOf[d]>> : d \in DispatchesOf(o)}, entries |-> {},
           logged |-> n \in logs]]
  BY DEF ArchiveRead
<1> DEFINE rows == {<<d, entryOf[d]>> : d \in DispatchesOf(o)}
           q == [step |-> "archive", order |-> o, number |-> n, links |-> LinksOn(DispatchesOf(o)),
                 rows |-> rows, entries |-> {}, logged |-> n \in logs]
<1>2. ASSUME NEW d \in DispatchesOf(o) PROVE <<d, entryOf[d]>> \in Dispatches \X Entries
  <2>1. <<d, o>> \in links /\ d \in Dispatches
    BY DEF DispatchesOf
  <2>2. d \in Active
    BY <2>1 DEF RowsInv, LinksActive
  <2>3. entryOf[d] \in Entries
    BY <2>1, <2>2 DEF RowsInv, RowsType, EntryKept
  <2> QED BY <2>1, <2>3
<1>3. rows \in SUBSET (Dispatches \X Entries)
  BY <1>2
<1>4. LinksOn(DispatchesOf(o)) \in SUBSET (Dispatches \X Orders)
  BY DEF LinksOn, RowsInv, RowsType
<1>5. o \in Orders
  BY DEF OrdersOf
<1> HIDE DEF rows
<1>6. q \in Job /\ q.step = "archive" /\ q.number = n
  BY <1>3, <1>4, <1>5 DEF Job
<1>7. OwnNumberOnly(q)
  BY <1>6 DEF OwnNumberOnly
<1> QED BY <1>1, <1>6, <1>7, ReplaceJob DEF rows

\* What delete reads: no link of another number leads to a row it takes.
LEMMA PurgeReadKeeps ==
  ASSUME RowsInv, ArchivesType, JobsInv, NEW j \in Jobs, NEW n \in Numbers, PurgeRead(j, n)
  PROVE  JobsInv'
<1> DEFINE mine == {x \in linkArchive : NumberOf[x[2]] = n}
           rows == {x \in dispatchArchive :
                      x[1] \in Firsts(mine) /\ \A y \in linkArchive \ mine : y[1] # x[1]}
           ents == (EntriesIn(rows) \ EntriesIn(dispatchArchive \ rows)) \cap entryArchive
           q == [IdleJob EXCEPT !.step = "purge", !.number = n, !.links = linkArchive,
                                !.rows = rows, !.entries = ents]
<1>1. job' = [job EXCEPT ![j] = q]
  BY DEF PurgeRead
<1>2. rows \subseteq Dispatches \X Entries /\ ents \subseteq Entries
  BY DEF RowsInv, RowsType, ArchivesType
<1>3. \A y \in linkArchive : y[1] \in Firsts(rows) => NumberOf[y[2]] = n
  BY DEF Firsts
<1> HIDE DEF rows, ents
<1>4. /\ q \in Job /\ q.step = "purge" /\ q.number = n /\ q.links = linkArchive /\ q.rows = rows
  BY <1>2 DEF Job, IdleJob, ArchivesType
<1>5. OwnNumberOnly(q)
  BY <1>3, <1>4 DEF OwnNumberOnly
<1> QED BY <1>1, <1>4, <1>5, ReplaceJob

\* The dispatches archive leaves keep their entries: it deletes those nobody uses.
LEMMA ArchiveWriteKeeps ==
  ASSUME ArchiveInv, NEW j \in Jobs, ArchiveWrite(j)
  PROVE  RowsInv' /\ ArchivesType'
<1> DEFINE o == job[j].order
           n == job[j].number
           gone == SoleRows(j)
<1> USE DEF ArchiveInv
<1>1. /\ job[j] \in Job /\ o \in Orders /\ n \in Numbers
      /\ job[j].rows \subseteq Dispatches \X Entries
  BY DEF ArchiveWrite, CanArchive, Present, JobsInv, Job
<1>2. /\ status' = [status EXCEPT ![o] = "GONE"]
      /\ stepped' = stepped \ {o}
      /\ links' = {x \in links : x[2] # o /\ x[1] \notin Firsts(gone)}
      /\ dispatch' = [d \in Dispatches |-> IF d \in Firsts(gone) THEN "DELETED" ELSE dispatch[d]]
      /\ entry' = [e \in Entries |-> IF e \in UnusedWithout(gone) THEN "DELETED" ELSE entry[e]]
      /\ dispatchArchive' = dispatchArchive \cup NewRows(job[j].rows)
      /\ UNCHANGED <<entryOf, today>>
  BY DEF ArchiveWrite
<1>3. RowsType'
  BY <1>1, <1>2 DEF RowsInv, RowsType, RowStates, NewRows
<1>4. Active' = Active \ Firsts(gone)
  BY <1>2 DEF Active
<1>5. EntryKept'
  <2> SUFFICES ASSUME NEW d \in Active \ Firsts(gone)
               PROVE  entryOf[d] # None /\ entry'[entryOf[d]] = "THERE"
    BY <1>2, <1>4 DEF EntryKept
  <2>1. entryOf[d] # None /\ entry[entryOf[d]] = "THERE"
    BY DEF RowsInv, EntryKept
  <2>2. entryOf[d] \in Entries
    BY <2>1 DEF RowsInv, RowsType, Active
  <2>3. entryOf[d] \notin UnusedWithout(gone)
    BY DEF UnusedWithout
  <2> QED BY <1>2, <2>1, <2>2, <2>3
<1>6. LinksActive'
  BY <1>2, <1>4 DEF RowsInv, LinksActive
<1>7. ArchivesType'
  <2>1. /\ linkArchive' = linkArchive \cup {<<x[1], o>> : x \in job[j].rows}
        /\ entryArchive' = entryArchive \cup EntriesIn(job[j].rows)
        /\ orderArchive' = orderArchive \cup {o}
        /\ logArchive' \subseteq logArchive \cup {n}
        /\ logs' \subseteq logs
    BY DEF ArchiveWrite
  <2>2. {<<x[1], o>> : x \in job[j].rows} \subseteq Dispatches \X Orders
    BY <1>1
  <2>3. EntriesIn(job[j].rows) \subseteq Entries
    BY <1>1 DEF EntriesIn
  <2> QED BY <1>1, <2>1, <2>2, <2>3 DEF ArchivesType
<1> QED BY <1>3, <1>5, <1>6, <1>7 DEF RowsInv

LEMMA PurgeWriteKeeps ==
  ASSUME ArchiveInv, NEW j \in Jobs, PurgeWrite(j)
  PROVE  RowsInv' /\ ArchivesType'
<1>1. /\ dispatchArchive' \subseteq dispatchArchive
      /\ UNCHANGED <<orderVars, dispatchVars, entry, today>>
  BY DEF PurgeWrite
<1>2. RowsInv'
  BY <1>1 DEF ArchiveInv, RowsInv, RowsType, EntryKept, LinksActive, Active, orderVars, dispatchVars
<1>3. ArchivesType'
  BY DEF PurgeWrite, ArchiveInv, ArchivesType
<1> QED BY <1>2, <1>3

LEMMA StepKeeps == ArchiveInv /\ [ArchiveNext]_allVars => ArchiveInv'
<1> SUFFICES ASSUME ArchiveInv, [ArchiveNext]_allVars PROVE ArchiveInv'
  OBVIOUS
<1>1. RowsInv /\ RequestsInv /\ ArchivesType /\ JobsInv
  BY DEF ArchiveInv
<1>2. CASE Next /\ UNCHANGED <<archiveVars, job>>
  <2>1. ArchivesType' /\ JobsInv'
    BY <1>1, <1>2 DEF archiveVars, ArchivesType, JobsInv
  <2> QED BY <1>1, <1>2, <2>1, RowsKeep, RequestsKeep DEF ArchiveInv
<1>3. ASSUME UNCHANGED <<vars, archiveVars>>, JobsInv' PROVE ArchiveInv'
  <2>1. UNCHANGED rowVars /\ req' = req /\ UNCHANGED archiveVars
    BY <1>3 DEF vars, rowVars
  <2>2. RequestsInv' /\ ArchivesType'
    BY <1>1, <2>1 DEF RequestsInv, archiveVars, ArchivesType
  <2> QED BY <1>1, <1>3, <2>1, <2>2, RowsStay DEF ArchiveInv
<1>4. ASSUME NEW j \in Jobs, job' = [job EXCEPT ![j] = IdleJob] PROVE JobsInv'
  BY <1>1, <1>4, IdleJobType, ReplaceJob
<1>5. ASSUME req' = req PROVE RequestsInv'
  BY <1>1, <1>5 DEF RequestsInv
<1>6. ASSUME NEW j \in Jobs, NEW n \in Numbers, ArchiveRead(j, n) \/ PurgeRead(j, n)
      PROVE  ArchiveInv'
  BY <1>1, <1>3, <1>6, ArchiveReadKeeps, PurgeReadKeeps DEF ArchiveRead, PurgeRead
<1>7. ASSUME NEW j \in Jobs, ArchiveWrite(j) PROVE ArchiveInv'
  BY <1>4, <1>5, <1>7, ArchiveWriteKeeps DEF ArchiveWrite, ArchiveInv
<1>8. ASSUME NEW j \in Jobs, PurgeWrite(j) PROVE ArchiveInv'
  BY <1>4, <1>5, <1>8, PurgeWriteKeeps DEF PurgeWrite, ArchiveInv
<1>9. ASSUME NEW j \in Jobs, ArchiveFails(j) \/ PurgeFails(j) PROVE ArchiveInv'
  BY <1>3, <1>4, <1>9 DEF ArchiveFails, PurgeFails
<1>10. CASE UNCHANGED allVars
  <2>1. UNCHANGED <<vars, archiveVars>> /\ job' = job
    BY <1>10 DEF allVars
  <2>2. JobsInv'
    BY <1>1, <2>1 DEF JobsInv
  <2> QED BY <1>3, <2>1, <2>2
<1> QED BY <1>2, <1>6, <1>7, <1>8, <1>9, <1>10 DEF ArchiveNext

\* The dispatch and the archive keep their types; every dispatch that carries an order
\* is there, and what the running requests have read is well-formed.
THEOREM InvariantHolds == ArchiveSpec => []ArchiveInv
  BY InitHolds, StepKeeps, PTL DEF ArchiveSpec

\* Type correctness of the dispatch and the archive.
THEOREM TypeCorrect == ArchiveSpec => []ArchiveTypeOK
<1>1. ArchiveInv => ArchiveTypeOK
  BY TypeOfParts DEF ArchiveInv, RowsInv, RequestsInv, JobsInv
<1> QED BY <1>1, InvariantHolds, PTL

\* An entry that a dispatch uses is never deleted, whatever archive requests with counts
\* and rows read long before are running.
THEOREM EntryAlwaysKept == ArchiveSpec => []EntryKept
<1>1. ArchiveInv => EntryKept
  BY DEF ArchiveInv, RowsInv
<1> QED BY <1>1, InvariantHolds, PTL

-----------------------------------------------------------------------------
(***************************************************************************)
(* Status and stepper                                                      *)
(***************************************************************************)

LEMMA StepperStep ==
  ArchiveInv /\ StepperAgrees /\ [ArchiveNext]_allVars => StepperAgrees'
<1> SUFFICES ASSUME ArchiveInv, StepperAgrees, [ArchiveNext]_allVars PROVE StepperAgrees'
  OBVIOUS
<1>1. status \in [Orders -> {"F105", "Dispatched", "GONE"}]
  BY DEF ArchiveInv, RowsInv, RowsType
<1>2. ASSUME NEW d, NEW S, Load(d, S) PROVE StepperAgrees'
  BY <1>2 DEF Load, StepperAgrees
<1>3. ASSUME NEW S, Revert(S) PROVE StepperAgrees'
  BY <1>3 DEF Revert, StepperAgrees
<1>4. ASSUME UNCHANGED orderVars PROVE StepperAgrees'
  BY <1>4 DEF orderVars, StepperAgrees
<1>5. ASSUME NEW o, status' = [status EXCEPT ![o] = "GONE"], stepped' = stepped \ {o}
      PROVE  StepperAgrees'
  BY <1>1, <1>5 DEF StepperAgrees
<1>6. CASE Next
  BY <1>2, <1>3, <1>4, <1>6
  DEF Next, EnterRead, EnterWrite, CreateRead, CreateWrite, UpdateRead, UpdateWrite, AddSO,
      RemoveSO, RemoveRead, RemoveWrite, NextDay
<1>7. ASSUME NEW j \in Jobs, ArchiveWrite(j) PROVE StepperAgrees'
  BY <1>5, <1>7 DEF ArchiveWrite
<1>8. ASSUME UNCHANGED vars PROVE StepperAgrees'
  BY <1>4, <1>8 DEF vars
<1>9. ASSUME NEW j \in Jobs, PurgeWrite(j) PROVE StepperAgrees'
  BY <1>4, <1>9 DEF PurgeWrite
<1> QED
  BY <1>6, <1>7, <1>8, <1>9
  DEF ArchiveNext, ArchiveRead, ArchiveFails, PurgeRead, PurgeFails, allVars

\* The status and the Dispatched step of an order agree at all times: every way to load
\* and unload it writes both in one transaction.
THEOREM StepperAlwaysAgrees == ArchiveSpec => []StepperAgrees
<1>1. ArchiveInit => StepperAgrees
  BY DEF ArchiveInit, Init, StepperAgrees
<1> QED BY <1>1, StepperStep, InvariantHolds, PTL DEF ArchiveSpec

-----------------------------------------------------------------------------
(***************************************************************************)
(* Leaving the last vehicle                                                *)
(***************************************************************************)

\* Why an order may come off its last vehicle and stay Dispatched.
Late(o) ==
  \E d \in DispatchesOf(o) :
    \/ \E r \in Requests : req[r].step = "remove" /\ req[r].dispatch = d /\ o \notin req[r].orders
    \/ \E j \in Jobs : job[j].step = "archive" /\ <<d, o>> \notin job[j].links

\* What archive takes from an order other than its own came late.
LEMMA ArchiveTakesLate ==
  ASSUME ArchiveInv, NEW j \in Jobs, ArchiveWrite(j), NEW o \in Orders,
         DispatchesOf(o) # {}, DispatchesOf(o)' = {}, status'[o] = "Dispatched"
  PROVE  Late(o)
<1>1. o # job[j].order
  BY DEF ArchiveWrite, ArchiveInv, RowsInv, RowsType
<1>2. PICK d \in Dispatches : <<d, o>> \in links
  BY DEF DispatchesOf
<1>3. <<d, o>> \notin links'
  BY DEF DispatchesOf
<1>4. d \in Firsts(SoleRows(j))
  BY <1>1, <1>2, <1>3 DEF ArchiveWrite
<1>5. PICK x \in SoleRows(j) : x[1] = d
  BY <1>4 DEF Firsts
<1>6. <<d, o>> \notin job[j].links
  BY <1>1, <1>5 DEF SoleRows
<1> QED BY <1>2, <1>6 DEF Late, DispatchesOf, ArchiveWrite

\* What removeDispatch takes without reverting it came late.
LEMMA RemoveTakesLate ==
  ASSUME ArchiveInv, NEW r \in Requests, RemoveWrite(r), NEW o \in Orders,
         DispatchesOf(o) # {}, DispatchesOf(o)' = {}, status'[o] = "Dispatched"
  PROVE  Late(o)
<1>1. PICK d \in Dispatches : <<d, o>> \in links
  BY DEF DispatchesOf
<1>2. <<d, o>> \notin links'
  BY DEF DispatchesOf
<1>3. links' = links \ ({req[r].dispatch} \X Orders) /\ Revert(req[r].orders)
  BY <1>1, <1>2 DEF RemoveWrite, orderVars
<1>4. req[r].dispatch = d
  BY <1>1, <1>2, <1>3
<1>5. o \notin req[r].orders
  BY <1>3 DEF Revert
<1> QED BY <1>1, <1>4, <1>5 DEF Late, DispatchesOf, RemoveWrite

\* Whatever removals and archive requests overlap, only an order put on the dispatch after
\* they had read it leaves its last vehicle with the status Dispatched.
THEOREM UnloadedAlwaysReverted == ArchiveSpec => UnloadedUnlessLate
<1>1. ASSUME ArchiveInv, [ArchiveNext]_allVars, NEW o \in Orders,
             DispatchesOf(o) # {}, DispatchesOf(o)' = {}, status'[o] = "Dispatched"
      PROVE  Late(o)
  <2>1. PICK d \in Dispatches : <<d, o>> \in links
    BY <1>1 DEF DispatchesOf
  <2>2. <<d, o>> \notin links'
    BY <1>1 DEF DispatchesOf
  <2>3. ~ UNCHANGED orderVars
    BY <2>1, <2>2 DEF orderVars
  <2>4. ASSUME NEW c, NEW S, Load(c, S) PROVE FALSE
    BY <2>1, <2>2, <2>4 DEF Load
  <2>5. CASE Next
    <3>1. \/ \E r \in Requests : RemoveWrite(r)
          \/ \E c \in Dispatches, p \in Orders : RemoveSO(c, p)
      BY <2>3, <2>4, <2>5
      DEF Next, EnterRead, EnterWrite, CreateRead, CreateWrite, UpdateRead, UpdateWrite, AddSO,
          RemoveRead, NextDay
    <3>2. ASSUME NEW c \in Dispatches, NEW p \in Orders, RemoveSO(c, p) PROVE FALSE
      <4>1. p = o
        BY <2>1, <2>2, <3>2 DEF RemoveSO
      <4> QED BY <1>1, <3>2, <4>1 DEF RemoveSO, Revert
    <3> QED BY <1>1, <3>1, <3>2, RemoveTakesLate
  <2>6. ASSUME NEW j \in Jobs, ArchiveWrite(j) PROVE Late(o)
    BY <1>1, <2>6, ArchiveTakesLate
  <2>7. ~ UNCHANGED vars
    BY <2>3 DEF vars
  <2> QED
    BY <1>1, <2>3, <2>5, <2>6, <2>7
    DEF ArchiveNext, ArchiveRead, ArchiveFails, PurgeRead, PurgeWrite, PurgeFails, allVars
<1>2. ArchiveInv /\ [ArchiveNext]_allVars =>
        [\A o \in Orders :
           DispatchesOf(o) # {} /\ DispatchesOf(o)' = {} /\ status'[o] = "Dispatched" =>
             \E d \in DispatchesOf(o) :
               \/ \E r \in Requests : req[r].step = "remove" /\ req[r].dispatch = d
                                       /\ o \notin req[r].orders
               \/ \E j \in Jobs : job[j].step = "archive" /\ <<d, o>> \notin job[j].links]_allVars
  BY <1>1 DEF Late
<1> QED BY <1>2, InvariantHolds, PTL DEF ArchiveSpec, UnloadedUnlessLate

-----------------------------------------------------------------------------
(***************************************************************************)
(* References in the archive                                               *)
(***************************************************************************)

\* An archived link loses its dispatch only if it appeared after the deletion had read
\* the links.
THEOREM LinksAlwaysResolve == ArchiveSpec => ArchivedLinksResolve
<1>1. ASSUME ArchiveInv, [ArchiveNext]_allVars, NEW x \in linkArchive',
             x[1] \notin Firsts(dispatchArchive')
      PROVE  \/ x \in linkArchive /\ x[1] \notin Firsts(dispatchArchive)
             \/ \E j \in Jobs : job[j].step = "purge" /\ x \notin job[j].links
  <2>1. CASE UNCHANGED <<linkArchive, dispatchArchive>>
    BY <1>1, <2>1
  <2>2. ASSUME NEW j \in Jobs, ArchiveWrite(j)
        PROVE  x \in linkArchive /\ x[1] \notin Firsts(dispatchArchive)
    <3>1. dispatchArchive' = dispatchArchive \cup NewRows(job[j].rows)
      BY <2>2 DEF ArchiveWrite
    <3>2. Firsts(dispatchArchive) \subseteq Firsts(dispatchArchive')
      BY <3>1 DEF Firsts
    <3>3. Firsts(job[j].rows) \subseteq Firsts(dispatchArchive')
      BY <3>1 DEF Firsts, NewRows
    <3>4. x \notin {<<y[1], job[j].order>> : y \in job[j].rows}
      BY <1>1, <3>3 DEF Firsts
    <3> QED BY <1>1, <2>2, <3>2, <3>4 DEF ArchiveWrite
  <2>3. ASSUME NEW j \in Jobs, PurgeWrite(j), x[1] \in Firsts(dispatchArchive), x \in job[j].links
        PROVE  FALSE
    <3>1. x[1] \in Firsts(job[j].rows)
      BY <1>1, <2>3 DEF PurgeWrite, Firsts
    <3>2. NumberOf[x[2]] = job[j].number
      BY <1>1, <2>3, <3>1 DEF ArchiveInv, JobsInv, OwnNumberOnly, PurgeWrite
    <3> QED BY <1>1, <2>3, <3>2 DEF PurgeWrite
  <2>4. ASSUME NEW j \in Jobs, PurgeWrite(j)
        PROVE  \/ x \in linkArchive /\ x[1] \notin Firsts(dispatchArchive)
               \/ \E k \in Jobs : job[k].step = "purge" /\ x \notin job[k].links
    BY <1>1, <2>3, <2>4 DEF PurgeWrite
  <2>5. CASE Next /\ UNCHANGED <<archiveVars, job>>
    <3>1. dispatchArchive' = dispatchArchive
      BY <2>5 DEF Next, EnterRead, EnterWrite, CreateRead, CreateWrite, UpdateRead, UpdateWrite,
                  AddSO, RemoveSO, RemoveRead, RemoveWrite, NextDay
    <3> QED BY <2>1, <2>5, <3>1 DEF archiveVars
  <2>6. CASE UNCHANGED <<vars, archiveVars>>
    BY <2>1, <2>6 DEF vars, archiveVars
  <2> QED
    BY <1>1, <2>2, <2>4, <2>5, <2>6
    DEF ArchiveNext, ArchiveRead, ArchiveFails, PurgeRead, PurgeFails, allVars
<1>2. ArchiveInv /\ [ArchiveNext]_allVars =>
        [\A x \in linkArchive' :
           x[1] \notin Firsts(dispatchArchive') =>
             \/ x \in linkArchive /\ x[1] \notin Firsts(dispatchArchive)
             \/ \E j \in Jobs : job[j].step = "purge" /\ x \notin job[j].links]_allVars
  BY <1>1
<1> QED BY <1>2, InvariantHolds, PTL DEF ArchiveSpec, ArchivedLinksResolve
=============================================================================
