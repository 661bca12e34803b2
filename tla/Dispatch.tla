------------------------------ MODULE Dispatch ------------------------------
(***************************************************************************)
(* Dispatch of sales orders: VehicleEntryService, which records vehicles   *)
(* at the gate, and DispatchService, which puts orders on them.            *)
(*                                                                         *)
(* A transaction is one step; what a handler reads before its transaction  *)
(* is a step of its own, so that requests interleave between the check and *)
(* the write that relies on it.  A write that the database refuses (a row  *)
(* that is gone, a foreign key, a duplicate) changes nothing.              *)
(***************************************************************************)
EXTENDS Naturals, FiniteSets

CONSTANTS
  Orders,      \* SalesOrder rows
  Dispatches,  \* ids of Dispatch rows in the order they are given out; bound: no more
  Entries,     \* ids of VehicleEntry rows in the order they are given out; bound: no more
  VehicleOf,   \* VehicleEntry.vehicleNumber
  Requests,    \* requests the server can have running at a time
  None

ASSUME DispatchAssumption ==
  /\ Dispatches \subseteq Nat
  /\ Entries \subseteq Nat
  /\ None \notin Dispatches \cup Entries \cup {VehicleOf[e] : e \in Entries}

VARIABLES
  status,           \* SalesOrder.status; GONE when the row is deleted
  stepped,          \* orders whose Dispatched step in SO_Status_Stepper has a date
  links,            \* Dispatch_SO rows, pairs of dispatch and order
  dispatch,         \* Dispatch rows: not yet there, there, or deleted
  entryOf,          \* Dispatch.vehicleEntryId
  entry,            \* VehicleEntry rows: not yet there, there, or deleted
  today,            \* rows created today: entries and dispatches
  dispatchArchive,  \* DispatchArchive rows, pairs of dispatch and vehicle entry
  req               \* the requests running

orderVars == <<status, stepped, links>>
dispatchVars == <<dispatch, entryOf>>
vars == <<orderVars, dispatchVars, entry, today, dispatchArchive, req>>

RowStates == {"NEW", "THERE", "DELETED"}
Vehicles == {VehicleOf[e] : e \in Entries}
Idle == [step |-> "idle", dispatch |-> None, vehicle |-> None, entry |-> None, orders |-> {}]

Present == {o \in Orders : status[o] # "GONE"}
Active == {d \in Dispatches : dispatch[d] = "THERE"}
OrdersOn(d) == {o \in Orders : <<d, o>> \in links}

TypeOK ==
  /\ status \in [Orders -> {"F105", "Dispatched", "GONE"}]
  /\ stepped \subseteq Orders
  /\ links \subseteq Dispatches \X Orders
  /\ dispatch \in [Dispatches -> RowStates]
  /\ entryOf \in [Dispatches -> Entries \cup {None}]
  /\ entry \in [Entries -> RowStates]
  /\ today \in [entries : SUBSET Entries, dispatches : SUBSET Dispatches]
  /\ dispatchArchive \subseteq Dispatches \X Entries
  /\ req \in [Requests -> [step : {"idle", "enter", "create", "update", "remove"},
                           dispatch : Dispatches \cup {None},
                           vehicle : Vehicles \cup {None},
                           entry : Entries \cup {None},
                           orders : SUBSET Orders]]

Init ==
  /\ status = [o \in Orders |-> "F105"]
  /\ stepped = {}
  /\ links = {}
  /\ dispatch = [d \in Dispatches |-> "NEW"]
  /\ entryOf = [d \in Dispatches |-> None]
  /\ entry = [e \in Entries |-> "NEW"]
  /\ today = [entries |-> {}, dispatches |-> {}]
  /\ dispatchArchive = {}
  /\ req = [r \in Requests |-> Idle]

-----------------------------------------------------------------------------
(***************************************************************************)
(* Vehicles at the gate                                                    *)
(***************************************************************************)

\* Today's entries of a vehicle.
EntriesToday(v) == {e \in today.entries : entry[e] = "THERE" /\ VehicleOf[e] = v}

\* VehicleEntryService.create: the check and the row are queries of their own.
EnterRead(r, v) ==
  /\ req[r] = Idle
  /\ EntriesToday(v) = {}
  /\ req' = [req EXCEPT ![r] = [Idle EXCEPT !.step = "enter", !.vehicle = v]]
  /\ UNCHANGED <<orderVars, dispatchVars, entry, today, dispatchArchive>>

EnterWrite(r) ==
  LET fresh == {e \in Entries : entry[e] = "NEW" /\ VehicleOf[e] = req[r].vehicle} IN
  /\ req[r].step = "enter"
  /\ \/ \E e \in fresh :
          /\ \A x \in fresh : e <= x
          /\ entry' = [entry EXCEPT ![e] = "THERE"]
          /\ today' = [today EXCEPT !.entries = @ \cup {e}]
     \/ fresh = {} /\ UNCHANGED <<entry, today>>
  /\ req' = [req EXCEPT ![r] = Idle]
  /\ UNCHANGED <<orderVars, dispatchVars, dispatchArchive>>

NextDay ==
  /\ today.entries # {}
  /\ today' = [entries |-> {}, dispatches |-> {}]
  /\ UNCHANGED <<orderVars, dispatchVars, entry, dispatchArchive, req>>

-----------------------------------------------------------------------------
(***************************************************************************)
(* Creating and changing a dispatch                                        *)
(***************************************************************************)

\* findTodayVehicleEntryForDispatch with the id of an entry: no dispatch has it yet,
\* archived ones included.
FreeById(e) ==
  /\ e \in EntriesToday(VehicleOf[e])
  /\ \A d \in Active : entryOf[d] # e
  /\ \A x \in dispatchArchive : x[2] # e

\* A vehicle used today by a dispatch other than d.
UsedToday(v, d) ==
  \E x \in (Active \cap today.dispatches) \ {d} : entryOf[x] # None /\ VehicleOf[entryOf[x]] = v

\* ... and with a vehicle number only: the latest of today's entries.
FreeByNumber(e, d) ==
  LET v == VehicleOf[e] IN
  /\ ~UsedToday(v, d)
  /\ e \in EntriesToday(v)
  /\ \A x \in EntriesToday(v) : x <= e

\* create; createMobileDispatchHeader, without orders.
CreateRead(r, e, S) ==
  /\ req[r] = Idle
  /\ FreeById(e) \/ FreeByNumber(e, None)
  /\ req' = [req EXCEPT ![r] = [Idle EXCEPT !.step = "create", !.entry = e, !.orders = S]]
  /\ UNCHANGED <<orderVars, dispatchVars, entry, today, dispatchArchive>>

\* What puts orders on a vehicle: the status and the stepper go with the links.
Load(d, S) ==
  /\ links' = links \cup ({d} \X S)
  /\ status' = [o \in Orders |-> IF o \in S THEN "Dispatched" ELSE status[o]]
  /\ stepped' = stepped \cup S

CreateWrite(r) ==
  LET fresh == {d \in Dispatches : dispatch[d] = "NEW"}
      e == req[r].entry IN
  /\ req[r].step = "create"
  /\ \/ /\ entry[e] = "THERE" /\ req[r].orders \subseteq Present
        /\ \E d \in fresh :
             /\ \A x \in fresh : d <= x
             /\ dispatch' = [dispatch EXCEPT ![d] = "THERE"]
             /\ entryOf' = [entryOf EXCEPT ![d] = e]
             /\ today' = [today EXCEPT !.dispatches = @ \cup {d}]
             /\ Load(d, req[r].orders)
     \/ /\ entry[e] # "THERE" \/ ~ req[r].orders \subseteq Present \/ fresh = {}
        /\ UNCHANGED <<orderVars, dispatchVars, today>>
  /\ req' = [req EXCEPT ![r] = Idle]
  /\ UNCHANGED <<entry, dispatchArchive>>

\* update, updateMobileDispatch with a vehicle number: the latest entry of the vehicle.
UpdateRead(r, d, e) ==
  /\ req[r] = Idle
  /\ d \in Active
  /\ FreeByNumber(e, d)
  /\ req' = [req EXCEPT ![r] = [Idle EXCEPT !.step = "update", !.dispatch = d, !.entry = e]]
  /\ UNCHANGED <<orderVars, dispatchVars, entry, today, dispatchArchive>>

\* update that leaves the dispatch without an entry.
UpdateWriteUnlinking(r) ==
  LET d == req[r].dispatch  e == req[r].entry IN
  /\ req[r].step = "update"
  /\ entryOf' = IF d \in Active /\ entry[e] = "THERE" THEN [entryOf EXCEPT ![d] = None]
                                                     ELSE entryOf
  /\ req' = [req EXCEPT ![r] = Idle]
  /\ UNCHANGED <<orderVars, dispatch, entry, today, dispatchArchive>>

UpdateWrite(r) ==
  LET d == req[r].dispatch  e == req[r].entry IN
  /\ req[r].step = "update"
  /\ entryOf' = IF d \in Active /\ entry[e] = "THERE" THEN [entryOf EXCEPT ![d] = e]
                                                     ELSE entryOf
  /\ req' = [req EXCEPT ![r] = Idle]
  /\ UNCHANGED <<orderVars, dispatch, entry, today, dispatchArchive>>

-----------------------------------------------------------------------------
(***************************************************************************)
(* Orders on a dispatch, removal of a dispatch                             *)
(***************************************************************************)

\* addDispatchSO, addMobileDispatchSO: whatever the order's status, and wherever else
\* it is.
AddSO(d, o) ==
  /\ d \in Active /\ o \in Present
  /\ <<d, o>> \notin links
  /\ Load(d, {o})
  /\ UNCHANGED <<dispatchVars, entry, today, dispatchArchive, req>>

\* A removal that does not undo the Dispatched step.
RevertStatusOnly(S) ==
  /\ status' = [o \in Orders |-> IF o \in S THEN "F105" ELSE status[o]]
  /\ stepped' = stepped

\* Back to F105, with the Dispatched step undone.
Revert(S) ==
  /\ status' = [o \in Orders |-> IF o \in S THEN "F105" ELSE status[o]]
  /\ stepped' = stepped \ S

\* removeDispatchSO.
RemoveSO(d, o) ==
  /\ <<d, o>> \in links
  /\ links' = links \ {<<d, o>>}
  /\ Revert({o})
  /\ UNCHANGED <<dispatchVars, entry, today, dispatchArchive, req>>

\* removeDispatch reads the dispatch with its orders ...
RemoveRead(r, d) ==
  /\ req[r] = Idle
  /\ d \in Active
  /\ req' = [req EXCEPT ![r] = [Idle EXCEPT !.step = "remove", !.dispatch = d,
                                            !.orders = OrdersOn(d)]]
  /\ UNCHANGED <<orderVars, dispatchVars, entry, today, dispatchArchive>>

\* removeDispatch that deletes the dispatch only.
RemoveWriteKeepingOrders(r) ==
  LET d == req[r].dispatch IN
  /\ req[r].step = "remove"
  /\ \/ /\ d \in Active /\ req[r].orders \subseteq Present
        /\ links' = links \ ({d} \X Orders)
        /\ dispatch' = [dispatch EXCEPT ![d] = "DELETED"]
        /\ UNCHANGED <<status, stepped>>
     \/ /\ d \notin Active \/ ~ req[r].orders \subseteq Present
        /\ UNCHANGED <<orderVars, dispatch>>
  /\ req' = [req EXCEPT ![r] = Idle]
  /\ UNCHANGED <<entryOf, entry, today, dispatchArchive>>

\* ... and reverts those; deleting it takes with it the links it has by then.
RemoveWrite(r) ==
  LET d == req[r].dispatch IN
  /\ req[r].step = "remove"
  /\ \/ /\ d \in Active /\ req[r].orders \subseteq Present
        /\ Revert(req[r].orders)
        /\ links' = links \ ({d} \X Orders)
        /\ dispatch' = [dispatch EXCEPT ![d] = "DELETED"]
     \/ /\ d \notin Active \/ ~ req[r].orders \subseteq Present
        /\ UNCHANGED <<orderVars, dispatch>>
  /\ req' = [req EXCEPT ![r] = Idle]
  /\ UNCHANGED <<entryOf, entry, today, dispatchArchive>>

Next ==
  \/ \E r \in Requests :
       \/ \E v \in Vehicles : EnterRead(r, v)
       \/ \E e \in Entries :
            \/ \E S \in SUBSET Orders : CreateRead(r, e, S)
            \/ \E d \in Dispatches : UpdateRead(r, d, e)
       \/ \E d \in Dispatches : RemoveRead(r, d)
       \/ EnterWrite(r) \/ CreateWrite(r) \/ UpdateWrite(r) \/ RemoveWrite(r)
  \/ \E d \in Dispatches, o \in Orders : AddSO(d, o) \/ RemoveSO(d, o)
  \/ NextDay

Spec == Init /\ [][Next]_vars
=============================================================================
