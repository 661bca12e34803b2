----------------------------- MODULE MasterData -----------------------------
(***************************************************************************)
(* The tables that orders refer to, and the users: LookupService and       *)
(* UserService.  A row is created or renamed after a query that finds no   *)
(* row of the same name; only some tables have a key that would refuse a   *)
(* second one, and it tells spellings apart that the query does not.  A    *)
(* bulk import does a whole workbook in one transaction and ignores what   *)
(* fails in it.  Orders hold on to their rows by foreign keys, of which    *)
(* some refuse a deletion and some clear the order's column.               *)
(*                                                                         *)
(* A behaviour is about one of the tables.  A customer's name stands for   *)
(* name and address, a barcode's for its ERP code, a user's for the email. *)
(***************************************************************************)
EXTENDS Integers, Sequences, FiniteSets

CONSTANTS
  Kinds,        \* the tables looked at
  Names,        \* names, after trimming, in all their spellings
  WordOf,       \* the name that a spelling is compared as, without regard to case
  Orders,       \* orders that refer to a row
  Files,        \* sheets for the table in workbooks: sequences of [id, name]
  Clerks,       \* requests that can run at a time
  MaxRows,      \* bound: rows that are ever made
  MaxRequests,  \* bound: requests in a behaviour
  None

(***************************************************************************)
(* The tables: whether they have a unique key, what deleting a row does to *)
(* the orders that refer to it (prisma/migrations), what a bulk import     *)
(* does for a name without an id, and how other components look for a name *)
(* before they make a row: by name, by spelling, or not at all.            *)
(***************************************************************************)
Product == [unique |-> FALSE, onDelete |-> "restrict", bulk |-> "find", made |-> {"name"}]
Transporter == [unique |-> FALSE, onDelete |-> "restrict", bulk |-> "find", made |-> {"name", "spelling"}]
PlantCode == [unique |-> FALSE, onDelete |-> "free", bulk |-> "find", made |-> {}]
SalesZone == [unique |-> FALSE, onDelete |-> "restrict", bulk |-> "find", made |-> {}]
PackConfig == [unique |-> FALSE, onDelete |-> "clear", bulk |-> "find", made |-> {"spelling"}]
Customer == [unique |-> TRUE, onDelete |-> "restrict", bulk |-> "renameOnly", made |-> {"name"}]
Printer == [unique |-> FALSE, onDelete |-> "clear", bulk |-> "find", made |-> {}]
MaterialBarcode == [unique |-> TRUE, onDelete |-> "free", bulk |-> "insert", made |-> {"spelling"}]
User == [unique |-> TRUE, onDelete |-> "restrict", bulk |-> "none", made |-> {}]

Tables == [product |-> Product, transporter |-> Transporter, plant |-> PlantCode, zone |-> SalesZone,
           pack |-> PackConfig, customer |-> Customer, printer |-> Printer,
           barcode |-> MaterialBarcode, user |-> User]

Ids == 1..MaxRows

ASSUME MasterDataAssumption ==
  /\ Kinds \subseteq DOMAIN Tables
  /\ MaxRows \in Nat /\ MaxRequests \in Nat
  /\ \A f \in Files : f \in Seq([id : Ids \cup {None}, name : Names])
  /\ None \notin Names \cup Ids \cup Orders

VARIABLES
  kind,     \* the table of this behaviour
  rows,     \* the name of a row, None if there is no such row
  next,     \* the next id
  admins,   \* users with the role ADMIN
  refs,     \* the row an order refers to
  req,      \* the requests running
  started,  \* how many have been started
  excuses   \* history: what has happened that may leave two rows with one name

vars == <<kind, rows, next, admins, refs, req, started, excuses>>

Idle == [op |-> "idle", id |-> None, name |-> None, admin |-> FALSE, file |-> <<>>,
         makes |-> {}, stale |-> FALSE, loose |-> {}]
Table == Tables[kind]
Present == {i \in Ids : rows[i] # None}
Same(n, m) == WordOf[n] = WordOf[m]

\* Rows in which the query before a creation or renaming finds the name; of barcodes it
\* only finds the spelling.
Finds(n, i) ==
  {j \in Present \ {i} : IF kind = "barcode" THEN rows[j] = n ELSE Same(rows[j], n)}

Init ==
  /\ kind \in Kinds
  /\ \E n \in Names : rows = [i \in Ids |-> IF i = 1 THEN n ELSE None]
  /\ next = 2 /\ admins = IF kind = "user" THEN {1} ELSE {}
  /\ refs = [o \in Orders |-> None]
  /\ req = [k \in Clerks |-> Idle] /\ started = 0 /\ excuses = {}

Start(k, q) ==
  /\ req[k] = Idle /\ started < MaxRequests
  /\ started' = started + 1
  /\ req' = [req EXCEPT ![k] = q]
  /\ UNCHANGED <<kind, rows, next, admins, refs, excuses>>

\* The request ends; what others have read is out of date if it has changed the table.
End(k) ==
  req' = [c \in Clerks |-> IF c = k THEN Idle ELSE IF req[c] = Idle \/ rows' = rows THEN req[c]
                           ELSE [req[c] EXCEPT !.stale = TRUE]]

Excused(k) == excuses \cup req[k].loose \cup (IF req[k].stale THEN {"overlap"} ELSE {})

\* A write that the database refuses: the row is gone, or the key is taken.
Refused(k) ==
  /\ UNCHANGED <<rows, next, admins, excuses>>
  /\ End(k)
KeyTaken(t, n, i) == Table.unique /\ \E j \in Ids \ {i} : t[j] = n

-----------------------------------------------------------------------------
(***************************************************************************)
(* One row at a time                                                       *)
(***************************************************************************)

\* createX, UserService.create and AuthService.signup.
CreateRead(k, n, admin) ==
  /\ Finds(n, None) = {}
  /\ admin => kind = "user"
  /\ Start(k, [Idle EXCEPT !.op = "create", !.name = n, !.admin = admin])

\* Orders, imports and the places of finished goods make the row they do not find; the
\* Excel import of orders looks for the spelling.
EnsureRead(k, n, by) ==
  /\ by \in Table.made
  /\ IF by = "name" THEN Finds(n, None) = {} ELSE n \notin {rows[i] : i \in Present}
  /\ Start(k, [Idle EXCEPT !.op = "create", !.name = n,
                 !.loose = IF Finds(n, None) = {} THEN {} ELSE {"spelling"}])

CreateWrite(k) ==
  LET q == req[k] IN
  /\ q.op = "create"
  /\ IF KeyTaken(rows, q.name, None) THEN Refused(k)
     ELSE /\ next \in Ids /\ next' = next + 1
          /\ rows' = [rows EXCEPT ![next] = q.name]
          /\ admins' = IF q.admin THEN admins \cup {next} ELSE admins
          /\ excuses' = Excused(k) /\ End(k)
  /\ UNCHANGED <<kind, refs, started>>

\* updateX, UserService.update: a version that does not look.
OthersAny(n, i) == {}
Others(n, i) == Finds(n, i)

UpdateRead(k, i, n, admin) ==
  /\ i \in Present /\ Others(n, i) = {}
  /\ admin => kind = "user"
  /\ Start(k, [Idle EXCEPT !.op = "update", !.id = i, !.name = n, !.admin = admin])

UpdateWrite(k) ==
  LET q == req[k] IN
  /\ q.op = "update"
  /\ IF q.id \notin Present \/ KeyTaken(rows, q.name, q.id) THEN Refused(k)
     ELSE /\ rows' = [rows EXCEPT ![q.id] = q.name]
          /\ admins' = IF q.admin THEN admins \cup {q.id} ELSE admins \ {q.id}
          /\ excuses' = Excused(k) \cup (IF q.id \in admins \ admins' THEN {"demotion"} ELSE {})
          /\ End(k) /\ UNCHANGED next
  /\ UNCHANGED <<kind, refs, started>>

\* deleteX: the foreign keys decide.
Delete(i) ==
  /\ kind # "user" /\ i \in Present /\ started < MaxRequests
  /\ Table.onDelete = "restrict" => \A o \in Orders : refs[o] # i
  /\ rows' = [rows EXCEPT ![i] = None]
  /\ refs' = [o \in Orders |-> IF refs[o] = i THEN None ELSE refs[o]]
  /\ req' = [c \in Clerks |-> IF req[c] = Idle THEN Idle ELSE [req[c] EXCEPT !.stale = TRUE]]
  /\ started' = started + 1
  /\ UNCHANGED <<kind, next, admins, excuses>>

\* UserService.remove counts administrators and orders, then deletes; a version that does
\* not count.
LastAdminAny(i) == FALSE
LastAdmin(i) == i \in admins /\ Cardinality(admins) <= 1

RemoveRead(k, i) ==
  /\ kind = "user" /\ i \in Present
  /\ ~LastAdmin(i) /\ \A o \in Orders : refs[o] # i
  /\ Start(k, [Idle EXCEPT !.op = "remove", !.id = i])

RemoveWrite(k) ==
  LET q == req[k] IN
  /\ q.op = "remove"
  /\ IF q.id \notin Present \/ \E o \in Orders : refs[o] = q.id THEN Refused(k)
     ELSE /\ rows' = [rows EXCEPT ![q.id] = None]
          /\ admins' = admins \ {q.id}
          /\ excuses' = Excused(k) /\ End(k) /\ UNCHANGED next
  /\ UNCHANGED <<kind, refs, started>>

-----------------------------------------------------------------------------
(***************************************************************************)
(* processBulkImport                                                       *)
(***************************************************************************)

\* The rows of a sheet, one for each name at the place where it first occurs: its first
\* with an id if there is one.
ItemOf(f, i) ==
  LET given == {j \in DOMAIN f : Same(f[j].name, f[i].name) /\ f[j].id # None}
  IN IF given = {} THEN f[i] ELSE f[CHOOSE j \in given : \A l \in given : j <= l]
Firsts(f) == {i \in DOMAIN f : \A j \in DOMAIN f : j < i => ~Same(f[j].name, f[i].name)}
UniqueItems(f) == [i \in Firsts(f) |-> ItemOf(f, i)]

\* The table after the items of some places: one with an id renames that row, if there is
\* one, and the last of several is what stays.
Renaming(items, places, i) == {x \in places : items[x].id = i}
Renamed(t, items, places) ==
  [i \in Ids |-> LET own == Renaming(items, places, i) IN
     IF t[i] = None \/ own = {} THEN t[i] ELSE items[CHOOSE x \in own : \A y \in own : y <= x].name]
RenamedAll(t, items) == Renamed(t, items, DOMAIN items)
RenamedBefore(t, items, x) == Renamed(t, items, {y \in DOMAIN items : y < x})

\* For the others the queries are sent in their order, before any row is made; barcodes
\* and customers are not looked for.  A version that finds any row.
BulkFindsAny(t, n) == \E i \in Ids : t[i] # None
BulkFinds(t, n) == \E i \in Ids : t[i] # None /\ Same(t[i], n)
Makes(items) ==
  {x \in DOMAIN items :
     /\ items[x].id = None
     /\ \/ Table.bulk = "insert"
        \/ Table.bulk = "find" /\ ~BulkFinds(RenamedBefore(rows, items, x), items[x].name)}

BulkRead(k, f) ==
  LET items == UniqueItems(f) IN
  /\ Table.bulk # "none"
  /\ Start(k, [Idle EXCEPT !.op = "bulk", !.file = items, !.makes = Makes(items),
                 !.loose = IF \E x \in DOMAIN items : items[x].id # None THEN {"renaming"} ELSE {}])

\* A renaming that the key refuses aborts the transaction: everything else in it then
\* fails as well, errors are swallowed, and the import is reported as completed.
BulkAborts(items) ==
  \E x \in DOMAIN items : LET t == RenamedBefore(rows, items, x) IN
    items[x].id # None /\ t[items[x].id] # None /\ KeyTaken(t, items[x].name, items[x].id)

\* Barcodes are inserted unless their spelling is there.
BulkNew(t, items, makes) ==
  IF Table.bulk = "insert" THEN {x \in makes : \A i \in Ids : t[i] # items[x].name} ELSE makes

\* The rows that are made get the next ids in the order of their places.
Before(new, x) == {y \in new : y < x}
Stored(t, items, new) ==
  [i \in Ids |-> IF \E x \in new : i = next + Cardinality(Before(new, x))
                 THEN items[CHOOSE x \in new : i = next + Cardinality(Before(new, x))].name
                 ELSE t[i]]

BulkWrite(k) ==
  LET q == req[k]  t == RenamedAll(rows, q.file)  new == BulkNew(t, q.file, q.makes) IN
  /\ q.op = "bulk"
  /\ IF BulkAborts(q.file) THEN Refused(k)
     ELSE /\ next + Cardinality(new) <= MaxRows + 1 /\ next' = next + Cardinality(new)
          /\ rows' = Stored(t, q.file, new)
          /\ excuses' = Excused(k) /\ End(k) /\ UNCHANGED admins
  /\ UNCHANGED <<kind, refs, started>>

-----------------------------------------------------------------------------

\* An order takes a row, or another one.
Refer(o, i) ==
  /\ Table.onDelete # "free" /\ i \in Present /\ refs[o] # i
  /\ refs' = [refs EXCEPT ![o] = i]
  /\ UNCHANGED <<kind, rows, next, admins, req, started, excuses>>

\* An error or a restart between the calls of a request.
Fail(k) ==
  /\ req[k] # Idle
  /\ req' = [req EXCEPT ![k] = Idle]
  /\ UNCHANGED <<kind, rows, next, admins, refs, started, excuses>>

Next ==
  \/ \E k \in Clerks :
       \/ \E n \in Names :
            \/ \E admin \in BOOLEAN : CreateRead(k, n, admin) \/ \E i \in Ids : UpdateRead(k, i, n, admin)
            \/ \E by \in {"name", "spelling"} : EnsureRead(k, n, by)
       \/ \E i \in Ids : RemoveRead(k, i)
       \/ \E f \in Files : BulkRead(k, f)
       \/ CreateWrite(k) \/ UpdateWrite(k) \/ RemoveWrite(k) \/ BulkWrite(k) \/ Fail(k)
  \/ \E i \in Ids : Delete(i) \/ \E o \in Orders : Refer(o, i)

Spec == Init /\ [][Next]_vars

-----------------------------------------------------------------------------
(***************************************************************************)
(* Properties                                                              *)
(***************************************************************************)

\* Two rows share a name only after a request wrote on what another had changed since,
\* after a bulk import renamed a row, or, in two spellings, after something looked for
\* the spelling alone, as everything does that makes barcodes.
NamesDistinct ==
  \A i, j \in Present : i # j =>
    /\ rows[i] = rows[j] => excuses \cap {"overlap", "renaming"} # {}
    /\ Same(rows[i], rows[j]) => excuses \cap {"overlap", "renaming", "spelling"} # {} \/ kind = "barcode"

\* An administrator remains, unless the last one was given another role, or two removals
\* overlapped.
AdminRemains == kind = "user" => admins # {} \/ excuses \cap {"overlap", "demotion"} # {}

\* A bulk import that stores anything stores every name of its sheet: each is there when
\* it has ended, unless the sheet itself renames the row that has it, renames one row
\* twice or one that is gone, or another request wrote in between.  Of customers it only
\* renames those that have an id.
BulkStoresNames ==
  [][\A k \in Clerks :
       req[k].op = "bulk" /\ req'[k] = Idle /\ rows' # rows /\ ~req[k].stale =>
         \A x \in DOMAIN req[k].file : LET it == req[k].file[x] IN
           \/ \E i \in Ids : rows'[i] # None /\ Same(rows'[i], it.name)
           \/ it.id # None /\ rows[it.id] = None
           \/ it.id = None /\ Table.bulk = "renameOnly"
           \/ \E y \in DOMAIN req[k].file \ {x} : LET other == req[k].file[y] IN
                other.id # None /\ (other.id = it.id \/ (rows[other.id] # None /\ Same(rows[other.id], it.name)))]_vars
=============================================================================
