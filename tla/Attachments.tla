---------------------------- MODULE Attachments ----------------------------
(***************************************************************************)
(* Files that users attach, and the places finished goods are stored at.   *)
(* A file is put on the SFTP server first and recorded in the database     *)
(* afterwards.  The sales desk looks for a free name on the server, the    *)
(* ERP material files look for one among their records, and handhelds,     *)
(* dispatches and the gate use the name as it is, over a file that has it. *)
(* Records are rows of a table, or a JSON list in a column, which is read, *)
(* extended and written back whole; so is the list of an order's places.   *)
(***************************************************************************)
EXTENDS Integers, Sequences, FiniteSets

CONSTANTS
  Owners,       \* orders, dispatches and entries, each with a folder
  KindOf,       \* what an owner keeps in it
  Inside,       \* owners whose folders lie in an owner's folder, itself among them
  Names,        \* names of files, and of places
  Clerks,       \* requests that can run at a time
  MaxRequests,  \* bound: requests in a behaviour, and deletions and changes by the desk
  Unset

Kinds == {"sales", "erp", "field", "dispatch", "gate", "place"}
JsonLists == {"dispatch", "gate", "place"}

ASSUME AttachmentsAssumption ==
  /\ KindOf \in [Owners -> Kinds]
  /\ Inside \in [Owners -> SUBSET Owners]
  /\ \A o \in Owners : \A p \in Inside[o] : KindOf[p] = "sales" => KindOf[o] = "sales"
  /\ MaxRequests \in Nat
  /\ Unset \notin Owners \cup Names \cup Clerks \cup Nat

VARIABLES
  server,        \* the file at a path of the SFTP server
  records,       \* the files, or places, that an owner lists
  trail,         \* serial numbers in an order's audit_logs
  transporters,  \* how many Transporter rows have the name that is given
  dated,         \* orders whose step WIP Storage has a date
  ended,         \* orders, dispatches and entries that are deleted; folders archived
  req,           \* the requests running
  started,       \* how many there have been: each brings a file of its own
  mixed          \* history: owners not judged, as requests overlapped or were cut short,
                 \* their folder was deleted with an archive, or they are no more

fileVars == <<server, records, trail, transporters, dated, ended, req, started, mixed>>
tables == <<records, trail, transporters, dated, ended>>

\* A name, with the number that is added to it.
Paths == Owners \X Names \X (0..MaxRequests)
Idle == [op |-> "idle", step |-> "idle", owner |-> Unset, name |-> Unset, path |-> Unset,
         file |-> 0, read |-> {}, serial |-> 0]
Active == {k \in Clerks : req[k] # Idle}

\* A new order of the same number has the same folders of ERP material files; what else
\* belongs to a row goes with it, and writing it fails.
Shared(o) == KindOf[o] \in {"erp", "field"}
Lives(o) == Shared(o) \/ o \notin ended

Entry(q) == [path |-> q.path, file |-> q.file]
NameIn(r) == r.path[2]

AttachInit ==
  /\ server = [p \in Paths |-> 0]
  /\ records = [o \in Owners |-> {}] /\ trail = [o \in Owners |-> <<>>]
  /\ transporters = 0 /\ dated = {} /\ ended = {}
  /\ req = [k \in Clerks |-> Idle] /\ started = 0 /\ mixed = {}

Start(k, q) ==
  /\ req[k] = Idle /\ started < MaxRequests /\ Lives(q.owner)
  /\ started' = started + 1
  /\ req' = [req EXCEPT ![k] = q]
  /\ mixed' = IF \E c \in Active : req[c].owner = q.owner THEN mixed \cup {q.owner} ELSE mixed
  /\ UNCHANGED <<server, tables>>

Goto(k, step) == req' = [req EXCEPT ![k] = IF step = "idle" THEN Idle ELSE [@ EXCEPT !.step = step]]

-----------------------------------------------------------------------------
(***************************************************************************)
(* Uploads                                                                 *)
(***************************************************************************)

\* The name, or else the name with -1, -2, ..., whichever is the first not taken.
FirstFree(o, n, taken) ==
  LET free == {i \in 0..MaxRequests : <<o, n, i>> \notin taken} IN
  <<o, n, CHOOSE i \in free : \A j \in free : i <= j>>

\* uploadAndCreate and its variants for one order or the mobile application choose a name
\* that no record of the folder has; a version that takes the name as it is.
PathAsGiven(o, n) == <<o, n, 0>>
PathFor(o, n) ==
  IF KindOf[o] = "erp" THEN FirstFree(o, n, {r.path : r \in records[o]}) ELSE <<o, n, 0>>

UploadRead(k, o, n) ==
  /\ KindOf[o] # "place"
  /\ Start(k, [op |-> "upload", step |-> IF KindOf[o] = "sales" THEN "probe" ELSE "put",
               owner |-> o, name |-> n, path |-> PathFor(o, n), file |-> started + 1,
               read |-> records[o], serial |-> Len(trail[o]) + 1])

\* SalesCrudService asks the server until a name is free.
Probe(k) ==
  LET q == req[k] IN
  /\ q.step = "probe"
  /\ req' = [req EXCEPT ![k].step = "put",
       ![k].path = FirstFree(q.owner, q.name, {p \in Paths : server[p] # 0})]
  /\ UNCHANGED <<server, tables, started, mixed>>

Put(k) ==
  /\ req[k].step = "put"
  /\ server' = [server EXCEPT ![req[k].path] = req[k].file]
  /\ Goto(k, "record")
  /\ UNCHANGED <<tables, started, mixed>>

\* A row is inserted, by the key of ERP_Material_File only if no other has the path; a
\* list is written back as it was read, with the new entry.
WrittenListOnly(q) == {Entry(q)}
WrittenList(q) == q.read \cup {Entry(q)}
Recorded(q) ==
  CASE KindOf[q.owner] = "sales" -> records[q.owner] \cup {Entry(q)}
    [] KindOf[q.owner] \in {"erp", "field"} ->
         IF \E r \in records[q.owner] : r.path = q.path THEN records[q.owner]
         ELSE records[q.owner] \cup {Entry(q)}
    [] OTHER -> WrittenList(q)

Record(k) ==
  LET q == req[k] IN
  /\ q.op = "upload" /\ q.step = "record" /\ Lives(q.owner)
  /\ records' = [records EXCEPT ![q.owner] = Recorded(q)]
  /\ Goto(k, IF KindOf[q.owner] = "sales" THEN "log" ELSE "idle")
  /\ UNCHANGED <<server, trail, transporters, dated, ended, started, mixed>>

\* The sales desk adds to the audit trail with the serial number that it read.
Log(k) ==
  LET q == req[k] IN
  /\ q.step = "log"
  /\ trail' = IF Lives(q.owner) THEN [trail EXCEPT ![q.owner] = Append(@, q.serial)] ELSE trail
  /\ Goto(k, "idle")
  /\ UNCHANGED <<server, records, transporters, dated, ended, started, mixed>>

-----------------------------------------------------------------------------
(***************************************************************************)
(* Removals                                                                *)
(***************************************************************************)

\* remove of an ERP material file, deleteAttachment of a dispatch.
RemoveRead(k, o, r) ==
  /\ KindOf[o] \in {"erp", "dispatch"} /\ r \in records[o]
  /\ Start(k, [op |-> "remove", step |-> "unlink", owner |-> o, name |-> NameIn(r),
               path |-> r.path, file |-> r.file, read |-> records[o], serial |-> 0])

\* A failure to delete the file is logged, and the record goes all the same.
Unlink(k, fails) ==
  /\ req[k].step = "unlink"
  /\ server' = IF fails THEN server ELSE [server EXCEPT ![req[k].path] = 0]
  /\ Goto(k, "record")
  /\ UNCHANGED <<tables, started, mixed>>

Forget(k) ==
  LET q == req[k] IN
  /\ q.op = "remove" /\ q.step = "record" /\ Lives(q.owner)
  /\ records' = [records EXCEPT ![q.owner] =
       IF KindOf[q.owner] = "erp" THEN @ \ {Entry(q)} ELSE {r \in q.read : NameIn(r) # q.name}]
  /\ Goto(k, "idle")
  /\ UNCHANGED <<server, trail, transporters, dated, ended, started, mixed>>

\* The rows S go that an order, a dispatch or an entry has, without their files: its removal,
\* or its archive (a handheld's files go with the last order of their number, and an entry
\* with its last dispatch).  In a folder that orders share, S are the rows that name the
\* order.  Each list is a step of its own: no property relates two.
Drop(o, S, archived) ==
  /\ started < MaxRequests /\ started' = started + 1
  /\ Lives(o) /\ IF Shared(o) THEN S # {} ELSE S = records[o]
  /\ KindOf[o] \in {"field", "gate"} => archived
  /\ records' = [records EXCEPT ![o] = @ \ S]
  /\ ended' = IF Shared(o) /\ ~archived THEN ended ELSE ended \cup {o}
  /\ mixed' = IF Shared(o) THEN mixed ELSE mixed \cup {o}
  /\ UNCHANGED <<server, trail, transporters, dated, req>>

\* SoArchiveService.delete, and removeDispatch at its end: the folders of the files that
\* were listed are deleted, whatever is in them by now.
Purge(o) ==
  /\ KindOf[o] \in {"erp", "dispatch", "gate"} /\ o \in ended
  /\ server' = [p \in Paths |-> IF p[1] \in Inside[o] THEN 0 ELSE server[p]]
  /\ ended' = IF Shared(o) THEN ended \ {o} ELSE ended
  /\ mixed' = mixed \cup Inside[o]
  /\ UNCHANGED <<records, trail, transporters, dated, req, started>>

-----------------------------------------------------------------------------
(***************************************************************************)
(* Places of finished goods: FgStorageService.assignFgLocation             *)
(***************************************************************************)

PlaceRead(k, o, n, named) ==
  /\ KindOf[o] = "place"
  /\ Start(k, [op |-> "store", step |-> IF named THEN "find" ELSE "write", owner |-> o,
               name |-> n, path |-> <<o, n, 0>>, file |-> 0, read |-> records[o], serial |-> 0])

\* A transporter given by name is found, or else made.
FindTransporter(k) ==
  /\ req[k].step = "find"
  /\ Goto(k, IF transporters = 0 THEN "make" ELSE "write")
  /\ UNCHANGED <<server, tables, started, mixed>>

MakeTransporter(k) ==
  /\ req[k].step = "make"
  /\ transporters' = transporters + 1
  /\ Goto(k, "write")
  /\ UNCHANGED <<server, records, trail, dated, ended, started, mixed>>

WritePlaces(k) ==
  LET q == req[k] IN
  /\ q.step = "write" /\ Lives(q.owner)
  /\ records' = [records EXCEPT ![q.owner] = WrittenList(q)]
  /\ Goto(k, "date")
  /\ UNCHANGED <<server, trail, transporters, dated, ended, started, mixed>>

DateStorage(k) ==
  /\ req[k].step = "date" /\ Lives(req[k].owner)
  /\ dated' = dated \cup {req[k].owner}
  /\ Goto(k, "idle")
  /\ UNCHANGED <<server, records, trail, transporters, ended, started, mixed>>

\* A dispatch takes the order out of its places.
ClearPlaces(o) ==
  /\ KindOf[o] = "place" /\ records[o] # {}
  /\ records' = [records EXCEPT ![o] = {}]
  /\ UNCHANGED <<server, trail, transporters, dated, ended, req, started, mixed>>

\* The desk, in AdminOrderService.update, and a row of the Excel import write over them: one
\* place, or none, also when the desk sets the order back or to dispatched.  WIP Storage
\* gets a date with it, loses it or keeps it; those calls one by one are in OrderDesk.
Places(o) == {[path |-> <<o, n, 0>>, file |-> 0] : n \in Names}
OverwritePlaces(o, given, D) ==
  /\ started < MaxRequests /\ started' = started + 1
  /\ KindOf[o] = "place" /\ Lives(o)
  /\ records' = [records EXCEPT ![o] = given]
  /\ dated' = D
  /\ UNCHANGED <<server, trail, transporters, ended, req, mixed>>

-----------------------------------------------------------------------------

\* An error or a restart.  It matters to a removal that has deleted the file.
Fail(k) ==
  /\ req[k] # Idle
  /\ mixed' = IF req[k].op = "remove" THEN mixed \cup {req[k].owner} ELSE mixed
  /\ Goto(k, "idle")
  /\ UNCHANGED <<server, tables, started>>

AttachNext ==
  \/ \E k \in Clerks :
       \/ \E o \in Owners :
            \/ \E n \in Names : UploadRead(k, o, n) \/ \E named \in BOOLEAN : PlaceRead(k, o, n, named)
            \/ \E r \in records[o] : RemoveRead(k, o, r)
       \/ \E fails \in BOOLEAN : Unlink(k, fails)
       \/ Probe(k) \/ Put(k) \/ Record(k) \/ Log(k) \/ Forget(k)
       \/ FindTransporter(k) \/ MakeTransporter(k) \/ WritePlaces(k) \/ DateStorage(k)
       \/ Fail(k)
  \/ \E o \in Owners :
       \/ ClearPlaces(o) \/ Purge(o)
       \/ \E S \in SUBSET records[o], archived \in BOOLEAN : Drop(o, S, archived)
       \/ \E given \in {{}} \cup {{r} : r \in Places(o)}, D \in {dated, dated \cup {o}, dated \ {o}} :
            OverwritePlaces(o, given, D)

AttachSpec == AttachInit /\ [][AttachNext]_fileVars

-----------------------------------------------------------------------------
(***************************************************************************)
(* Properties                                                              *)
(***************************************************************************)

\* Requests on the owner overlapped, or one of its files is half removed.
Disturbed(o) == o \in mixed \/ \E k \in Active : req[k].owner = o /\ req[k].op = "remove"

\* A file that is recorded is on the server: a file of the sales desk whatever overlaps,
\* another unless requests on its folder overlapped, a removal runs or was cut short, or
\* the folder was deleted with an archive that had files in it or in one around it.
\* Where a free name is looked for, it is then also the file that was recorded and no
\* later one, and no two records share it.
RecordedFileIsThere ==
  \A o \in Owners : KindOf[o] # "place" =>
    \A r \in records[o] :
      /\ ~Disturbed(o) \/ KindOf[o] = "sales" => server[r.path] # 0
      /\ ~Disturbed(o) /\ KindOf[o] \in {"sales", "erp"} =>
           /\ server[r.path] = r.file
           /\ \A s \in records[o] : s.path = r.path => s = r

\* A request takes an entry from a list only if it removes that name, or writes back a list
\* that it read before the entry was there.  Otherwise entries go with an order that is
\* removed or archived, from the folders it shares with others of its number; a list is
\* emptied with the order, the dispatch or the entry that it belongs to; and the places of
\* an order that goes on are emptied, or written over with the one that a desk gives.
EntriesKept ==
  [][\A o \in Owners : \A r \in records[o] \ records'[o] :
       \/ /\ UNCHANGED req
          /\ \/ Shared(o) \/ (records'[o] = {} /\ o \in ended')
             \/ KindOf[o] = "place" /\ (records'[o] = {} \/ \E p \in Places(o) : records'[o] = {p})
       \/ \E k \in Clerks :
            /\ req[k].owner = o /\ req'[k] # req[k]
            /\ \/ req[k].op = "remove" /\ req[k].name = NameIn(r)
               \/ KindOf[o] \in JsonLists /\ r \notin req[k].read]_fileVars
=============================================================================
