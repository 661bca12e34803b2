-------------------------- MODULE MasterData_proofs --------------------------
(***************************************************************************)
(* Theorems about MasterData, for any tables, names, sheets, rows and      *)
(* numbers of requests.                                                    *)
(***************************************************************************)
EXTENDS MasterData, FiniteSetTheorems, WellFoundedInduction, TLAPS

Ops == {"idle", "create", "update", "remove", "bulk"}
Fields == {"op", "id", "name", "admin", "file", "makes", "stale", "loose"}

\* A sheet's items are names of different words at places of the sheet.
ItemsOK(items) ==
  /\ \E f \in Files : DOMAIN items \subseteq DOMAIN f
  /\ \A x \in DOMAIN items : items[x].name \in Names /\ items[x].id \in Ids \cup {None}
  /\ \A x, y \in DOMAIN items : x # y => ~Same(items[x].name, items[y].name)

TablesOK ==
  /\ kind \in Kinds
  /\ rows \in [Ids -> Names \cup {None}]
  /\ next \in Nat \ {0} /\ \A i \in Ids : i >= next => rows[i] = None
  /\ IsFiniteSet(admins)
  /\ DOMAIN req = Clerks

RequestOK(q) ==
  /\ q.op \in Ops /\ DOMAIN q = Fields /\ q.stale \in BOOLEAN
  /\ q.op = "create" => q.name \in Names /\ q.id = None
  /\ q.op = "update" => q.name \in Names /\ q.id \in Ids
  /\ q.op = "remove" => kind = "user"
  /\ q.op = "bulk" =>
       /\ Table.bulk # "none" /\ ItemsOK(q.file)
       /\ q.makes \subseteq {x \in DOMAIN q.file : q.file[x].id = None}
       /\ "renaming" \in q.loose \/ \A x \in DOMAIN q.file : q.file[x].id = None

\* What a request has found is still so, unless it knows that the table has changed.
Clear(q) ==
  \A j \in Present \ {q.id} :
    rows[j] # q.name /\ (Same(rows[j], q.name) => "spelling" \in q.loose \/ kind = "barcode")
ReadOK(q) ==
  ~q.stale =>
    /\ q.op \in {"create", "update"} => Clear(q)
    /\ q.op = "remove" => admins \ {q.id} # {} \/ excuses \cap {"overlap", "demotion"} # {}
    /\ q.op = "bulk" => q.makes = Makes(q.file)

RequestsOK == \A k \in Clerks : RequestOK(req[k]) /\ ReadOK(req[k])

MasterInv == TablesOK /\ RequestsOK /\ NamesDistinct /\ AdminRemains

-----------------------------------------------------------------------------
(***************************************************************************)
(* Numbers, tables and sheets                                              *)
(***************************************************************************)

LEMMA LeastExists ==
  ASSUME NEW S \in SUBSET Nat, S # {}
  PROVE  \E i \in S : \A j \in S : i <= j
<1>1. PICK n \in S : \A y \in S : ~(<<y, n>> \in OpToRel(<, Nat))
  BY NatLessThanWellFounded, WFMin
<1>2. \A y \in S : ~(y < n)
  BY <1>1 DEF OpToRel
<1>3. \A y \in S : n <= y
  BY <1>2
<1> QED BY <1>3

LEMMA GreatestExists ==
  ASSUME NEW n \in Nat, NEW S \in SUBSET (1..n), S # {}
  PROVE  \E i \in S : \A j \in S : j <= i
<1> DEFINE D == {n - i : i \in S}
<1>1. D \in SUBSET Nat /\ D # {}
  <2>1. \A i \in S : n - i \in Nat
    OBVIOUS
  <2> QED BY <2>1
<1>2. PICK d \in D : \A e \in D : d <= e
  <2> HIDE DEF D
  <2> QED BY <1>1, LeastExists
<1>3. PICK i \in S : d = n - i
  OBVIOUS
<1>4. \A j \in S : n - i <= n - j
  BY <1>2, <1>3
<1>5. \A j \in S : j <= i
  BY <1>4
<1> QED BY <1>5

\* Of a set of places, each is after a number of others that no other place is after.
LEMMA PlacesRanked ==
  ASSUME NEW n \in Nat, NEW new \in SUBSET (1..n)
  PROVE  /\ Cardinality(new) \in Nat
         /\ \A x \in new : Cardinality(Before(new, x)) \in 0..(Cardinality(new) - 1)
         /\ \A x, y \in new : x # y => Cardinality(Before(new, x)) # Cardinality(Before(new, y))
<1>1. IsFiniteSet(new) /\ new \subseteq Nat
  <2>1. IsFiniteSet(1..n)
    BY FS_Interval
  <2>2. IsFiniteSet(new)
    BY <2>1, FS_Subset
  <2> QED BY <2>2
<1>2. ASSUME NEW S \in SUBSET new
      PROVE  /\ IsFiniteSet(S) /\ Cardinality(S) \in Nat
             /\ \A T \in SUBSET S : S # T => Cardinality(T) < Cardinality(S)
  <2>1. IsFiniteSet(S) /\ Cardinality(S) \in Nat
    BY <1>1, FS_Subset, FS_CardinalityType
  <2>2. ASSUME NEW T \in SUBSET S, S # T PROVE Cardinality(T) < Cardinality(S)
    <3>1. Cardinality(T) \in Nat /\ Cardinality(T) <= Cardinality(S) /\ Cardinality(T) # Cardinality(S)
      BY <2>1, <2>2, FS_Subset, FS_CardinalityType
    <3> QED BY <2>1, <3>1
  <2> QED BY <2>1, <2>2
<1>3. \A x \in new : Before(new, x) \in SUBSET new /\ x \notin Before(new, x)
  BY DEF Before
<1>4. ASSUME NEW x \in new, NEW y \in new, x < y
      PROVE  Cardinality(Before(new, x)) < Cardinality(Before(new, y))
  <2>1. x \in Before(new, y)
    BY <1>4 DEF Before
  <2>2. \A z \in Before(new, x) : z \in new /\ z < y
    BY <1>1, <1>4 DEF Before
  <2>3. Before(new, x) \in SUBSET Before(new, y)
    BY <2>2 DEF Before
  <2> QED BY <1>2, <1>3, <2>1, <2>3
<1>5. ASSUME NEW x \in new
      PROVE  Cardinality(Before(new, x)) \in 0..(Cardinality(new) - 1)
  <2>1. Cardinality(Before(new, x)) < Cardinality(new)
    BY <1>2, <1>3
  <2> QED BY <1>2, <1>3, <2>1
<1>6. ASSUME NEW x \in new, NEW y \in new, x # y
      PROVE  Cardinality(Before(new, x)) # Cardinality(Before(new, y))
  <2>1. x < y \/ y < x
    BY <1>6
  <2>2. Cardinality(Before(new, x)) \in Nat /\ Cardinality(Before(new, y)) \in Nat
    BY <1>2, <1>3
  <2> QED BY <1>4, <2>1, <2>2
<1> QED BY <1>2, <1>5, <1>6

LEMMA UniqueItemsOK == ASSUME NEW f \in Files PROVE ItemsOK(UniqueItems(f))
<1> DEFINE items == UniqueItems(f)
<1>1. f \in Seq([id : Ids \cup {None}, name : Names]) /\ DOMAIN f = 1..Len(f) /\ Len(f) \in Nat
  <2>1. f \in Seq([id : Ids \cup {None}, name : Names])
    BY MasterDataAssumption
  <2> QED BY <2>1
<1>2. DOMAIN items = Firsts(f) /\ Firsts(f) \subseteq DOMAIN f
  BY DEF UniqueItems, Firsts
<1>3. ASSUME NEW x \in DOMAIN items
      PROVE  \E j \in DOMAIN f : items[x] = f[j] /\ Same(f[j].name, f[x].name)
  <2> DEFINE given == {j \in DOMAIN f : Same(f[j].name, f[x].name) /\ f[j].id # None}
             first == CHOOSE j \in given : \A l \in given : j <= l
  <2>1. items[x] = IF given = {} THEN f[x] ELSE f[first]
    BY <1>2 DEF UniqueItems, ItemOf
  <2>2. CASE given = {}
    BY <1>2, <2>1, <2>2 DEF Same
  <2>3. CASE given # {}
    <3>1. given \in SUBSET Nat
      BY <1>1
    <3> HIDE DEF given
    <3>2. first \in given
      BY <2>3, <3>1, LeastExists
    <3> HIDE DEF first
    <3> QED BY <2>1, <2>3, <3>2 DEF given
  <2> QED BY <2>2, <2>3
<1>4. \A x \in DOMAIN items : items[x].name \in Names /\ items[x].id \in Ids \cup {None}
  <2>1. \A j \in DOMAIN f : f[j] \in [id : Ids \cup {None}, name : Names]
    <3> DEFINE R == [id : Ids \cup {None}, name : Names]
    <3>1. f \in Seq(R) /\ DOMAIN f = 1..Len(f)
      BY <1>1
    <3> HIDE DEF R
    <3>2. \A j \in 1..Len(f) : f[j] \in R
      BY <3>1
    <3> QED BY <3>1, <3>2 DEF R
  <2>2. \A j \in DOMAIN f : f[j].name \in Names /\ f[j].id \in Ids \cup {None}
    BY <2>1
  <2> HIDE DEF items
  <2> QED BY <1>3, <2>2
<1>5. ASSUME NEW x \in DOMAIN items, NEW y \in DOMAIN items, x # y
      PROVE  ~Same(items[x].name, items[y].name)
  <2>1. ~Same(f[x].name, f[y].name)
    BY <1>1, <1>2, <1>5 DEF Firsts, Same
  <2> QED BY <1>3, <2>1 DEF Same
<1> HIDE DEF items
<1> QED BY <1>2, <1>4, <1>5 DEF ItemsOK, items

LEMMA ItemPlaces ==
  ASSUME NEW items, ItemsOK(items)
  PROVE  \E n \in Nat : DOMAIN items \subseteq 1..n
<1>1. PICK f \in Files : DOMAIN items \subseteq DOMAIN f
  BY DEF ItemsOK
<1>2. f \in Seq([id : Ids \cup {None}, name : Names])
  BY MasterDataAssumption
<1> QED BY <1>1, <1>2

\* What the items of some places do to a table.
LEMMA RenamedIs ==
  ASSUME NEW t \in [Ids -> Names \cup {None}], NEW items, ItemsOK(items), NEW places \in SUBSET DOMAIN items
  PROVE  LET u == Renamed(t, items, places) IN
         /\ u \in [Ids -> Names \cup {None}]
         /\ \A i \in Ids : u[i] = None <=> t[i] = None
         /\ \A i \in Ids : \/ u[i] = t[i] /\ (t[i] = None \/ \A y \in places : items[y].id # i)
                           \/ \E y \in places : items[y].id = i /\ u[i] = items[y].name
<1> DEFINE u == Renamed(t, items, places)
<1>0. PICK n \in Nat : DOMAIN items \subseteq 1..n
  BY ItemPlaces
<1>1. DOMAIN u = Ids
  BY DEF Renamed
<1>2. None \notin Names
  BY MasterDataAssumption
<1>3. ASSUME NEW i \in Ids
      PROVE  /\ \/ u[i] = t[i] /\ (t[i] = None \/ \A y \in places : items[y].id # i)
                \/ \E y \in places : items[y].id = i /\ u[i] = items[y].name
             /\ u[i] = None <=> t[i] = None
             /\ u[i] \in Names \cup {None}
  <2> DEFINE own == Renaming(items, places, i)
             last == CHOOSE x \in own : \A y \in own : y <= x
  <2>1. u[i] = IF t[i] = None \/ own = {} THEN t[i] ELSE items[last].name
    BY DEF Renamed
  <2>2. own = {x \in places : items[x].id = i}
    BY DEF Renaming
  <2>3. ASSUME own # {} PROVE last \in places /\ items[last].id = i /\ items[last].name \in Names
    <3>1. own \in SUBSET (1..n)
      BY <1>0, <2>2
    <3>2. last \in own
      <4> HIDE DEF own
      <4> QED BY <2>3, <3>1, GreatestExists
    <3> HIDE DEF last, own
    <3> QED BY <2>2, <3>2 DEF ItemsOK
  <2> HIDE DEF u, own, last
  <2> QED BY <1>2, <2>1, <2>2, <2>3
<1>4. u \in [Ids -> Names \cup {None}]
  BY <1>1, <1>3 DEF Renamed
<1> HIDE DEF u
<1> QED BY <1>3, <1>4 DEF u

\* Rows that are made get ids from next on, and what was there stays.
LEMMA StoredIs ==
  ASSUME NEW t \in [Ids -> Names \cup {None}], NEW items, ItemsOK(items), NEW new \in SUBSET DOMAIN items,
         next \in Nat \ {0}, next + Cardinality(new) <= MaxRows + 1
  PROVE  LET u == Stored(t, items, new) IN
         /\ u \in [Ids -> Names \cup {None}]
         /\ Cardinality(new) \in Nat
         /\ \A x \in new : \E i \in Ids : u[i] = items[x].name
         /\ \A i \in Ids : \/ u[i] = t[i]
                           \/ i >= next /\ i < next + Cardinality(new) /\ \E x \in new : u[i] = items[x].name
         /\ \A i, j \in Ids : \A x \in new :
              i # j /\ i >= next /\ j >= next /\ t[i] = None /\ t[j] = None
                /\ u[i] = items[x].name => u[j] # items[x].name
<1> DEFINE u == Stored(t, items, new)
           c == Cardinality(new)
           id(x) == next + Cardinality(Before(new, x))
           at(i) == CHOOSE x \in new : i = id(x)
<1>0. PICK n \in Nat : DOMAIN items \subseteq 1..n
  BY ItemPlaces
<1>1. /\ c \in Nat /\ \A x \in new : Cardinality(Before(new, x)) \in 0..(c - 1)
      /\ \A x, y \in new : x # y => Cardinality(Before(new, x)) # Cardinality(Before(new, y))
  <2>1. new \in SUBSET (1..n)
    BY <1>0
  <2> QED BY <2>1, PlacesRanked
<1>2. MaxRows \in Nat /\ None \notin Names
  BY MasterDataAssumption
<1>3. \A x \in new : id(x) \in Ids /\ id(x) >= next /\ id(x) < next + c
  BY <1>1, <1>2 DEF Ids
<1>4. \A x, y \in new : x # y => id(x) # id(y)
  BY <1>1
<1>5. \A i \in Ids : u[i] = IF \E x \in new : i = id(x) THEN items[at(i)].name ELSE t[i]
  BY DEF Stored
<1>6. DOMAIN u = Ids /\ \A x \in new : items[x].name \in Names
  BY DEF Stored, ItemsOK
<1>7. \A x \in new : at(id(x)) = x
  <2> HIDE DEF id
  <2> QED BY <1>4
<1> HIDE DEF u, c, id, at
<1>8. \A x \in new : u[id(x)] = items[x].name
  BY <1>3, <1>5, <1>7
<1>9. \A i \in Ids : u[i] = t[i] \/ \E x \in new : i = id(x) /\ u[i] = items[x].name
  BY <1>5, <1>7
<1>10. u \in [Ids -> Names \cup {None}]
  BY <1>6, <1>9, <1>5 DEF u, Stored
<1>11. \A i, j \in Ids : \A x \in new :
         i # j /\ i >= next /\ j >= next /\ t[i] = None /\ t[j] = None
           /\ u[i] = items[x].name => u[j] # items[x].name
  <2> SUFFICES ASSUME NEW i \in Ids, NEW j \in Ids, NEW x \in new, i # j, t[i] = None, t[j] = None,
                      u[i] = items[x].name, u[j] = items[x].name
               PROVE  FALSE
    OBVIOUS
  <2>1. items[x].name # None
    BY <1>2, <1>6
  <2>2. PICK y \in new : i = id(y) /\ u[i] = items[y].name
    BY <1>9, <2>1
  <2>3. PICK z \in new : j = id(z) /\ u[j] = items[z].name
    BY <1>9, <2>1
  <2>4. y # z /\ items[y].name = items[z].name
    BY <2>2, <2>3
  <2> QED BY <2>4 DEF ItemsOK, Same
<1> QED BY <1>1, <1>3, <1>8, <1>9, <1>10, <1>11 DEF c, u

-----------------------------------------------------------------------------
(***************************************************************************)
(* The invariant                                                           *)
(***************************************************************************)

LEMMA KindIs ==
  ASSUME TablesOK
  PROVE  /\ Table.bulk \in {"find", "renameOnly", "insert", "none"}
         /\ Table.bulk = "insert" => kind = "barcode"
<1>1. kind \in DOMAIN Tables
  BY MasterDataAssumption DEF TablesOK
<1>2. DOMAIN Tables = {"product", "transporter", "plant", "zone", "pack", "customer", "printer", "barcode", "user"}
  BY DEF Tables
<1>3. /\ Tables["product"].bulk = "find" /\ Tables["transporter"].bulk = "find"
      /\ Tables["plant"].bulk = "find" /\ Tables["zone"].bulk = "find"
      /\ Tables["pack"].bulk = "find" /\ Tables["customer"].bulk = "renameOnly"
      /\ Tables["printer"].bulk = "find" /\ Tables["barcode"].bulk = "insert"
      /\ Tables["user"].bulk = "none"
  BY DEF Tables, Product, Transporter, PlantCode, SalesZone, PackConfig, Customer, Printer,
         MaterialBarcode, User
<1> QED BY <1>1, <1>2, <1>3 DEF Table

LEMMA IdleOK == RequestOK(Idle) /\ ReadOK(Idle) /\ Idle.op = "idle"
<1>1. DOMAIN Idle = Fields /\ Idle.op = "idle" /\ Idle.stale = FALSE
  BY DEF Idle, Fields
<1> QED BY <1>1 DEF RequestOK, ReadOK, Ops

LEMMA StartKeeps ==
  ASSUME MasterInv, NEW k \in Clerks, NEW q, Start(k, q), RequestOK(q), ReadOK(q)
  PROVE  MasterInv'
<1>1. UNCHANGED <<kind, rows, next, admins, refs, excuses>> /\ req' = [req EXCEPT ![k] = q]
  BY DEF Start
<1>2. TablesOK'
  BY <1>1 DEF MasterInv, TablesOK
<1>3. NamesDistinct' /\ AdminRemains'
  BY <1>1 DEF MasterInv, NamesDistinct, AdminRemains, Present
<1>4. ASSUME NEW c \in Clerks PROVE RequestOK(req[c])' /\ ReadOK(req[c])'
  <2>1. RequestOK(req'[c]) /\ ReadOK(req'[c])
    BY <1>1 DEF MasterInv, TablesOK, RequestsOK
  <2>2. RequestOK(req[c])'
    BY <1>1, <2>1 DEF RequestOK, Table
  <2>3. ReadOK(req[c])'
    BY <1>1, <2>1 DEF ReadOK, Clear, Present, Makes, Table
  <2> QED BY <2>2, <2>3
<1> QED BY <1>2, <1>3, <1>4 DEF MasterInv, RequestsOK

\* A request that ends leaves the others what they have read, or tells them.
LEMMA EndKeeps ==
  ASSUME TablesOK, RequestsOK, NEW k \in Clerks, End(k), kind' = kind, excuses \subseteq excuses',
         rows' = rows => admins \subseteq admins' \/ excuses' \cap {"overlap", "demotion"} # {}
  PROVE  RequestsOK' /\ DOMAIN req' = Clerks
<1>1. DOMAIN req' = Clerks
  BY DEF End
<1>2. ASSUME NEW c \in Clerks PROVE RequestOK(req[c])' /\ ReadOK(req[c])'
  <2>1. RequestOK(req[c]) /\ ReadOK(req[c])
    BY DEF RequestsOK
  <2>2. CASE req'[c] = Idle
    <3>1. RequestOK(Idle)' /\ ReadOK(Idle)'
      <4>1. DOMAIN Idle = Fields /\ Idle.op = "idle" /\ Idle.stale = FALSE
        BY DEF Idle, Fields
      <4> QED BY <4>1 DEF RequestOK, ReadOK, Ops
    <3> QED BY <2>2, <3>1 DEF RequestOK, ReadOK
  <2>3. CASE rows' = rows /\ req'[c] = req[c]
    <3>1. RequestOK(req[c])'
      BY <2>1, <2>3 DEF RequestOK, Table
    <3>2. ReadOK(req[c])'
      BY <2>1, <2>3 DEF ReadOK, Clear, Present, Makes, Table
    <3> QED BY <3>1, <3>2
  <2>4. CASE req'[c] = [req[c] EXCEPT !.stale = TRUE]
    <3>1. /\ DOMAIN req'[c] = Fields /\ req'[c].stale = TRUE
          /\ req'[c].op = req[c].op /\ req'[c].name = req[c].name /\ req'[c].id = req[c].id
          /\ req'[c].file = req[c].file /\ req'[c].makes = req[c].makes /\ req'[c].loose = req[c].loose
      BY <2>1, <2>4 DEF RequestOK, Fields
    <3>2. RequestOK(req[c])'
      BY <2>1, <3>1 DEF RequestOK, Table
    <3> QED BY <3>1, <3>2 DEF ReadOK
  <2> QED BY <2>2, <2>3, <2>4 DEF End
<1> QED BY <1>1, <1>2 DEF RequestsOK

\* One row gets the name of a request that has found no row in the way.
LEMMA NameKeeps ==
  ASSUME MasterInv, NEW k \in Clerks, req[k].op \in {"create", "update"}, NEW i \in Ids,
         req[k].id \in {i, None}, rows' = [rows EXCEPT ![i] = req[k].name], kind' = kind,
         Excused(k) \subseteq excuses'
  PROVE  NamesDistinct'
<1> DEFINE q == req[k]
<1>1. RequestOK(q) /\ ReadOK(q) /\ TablesOK
  BY DEF MasterInv, RequestsOK
<1>2. excuses \subseteq excuses' /\ q.loose \subseteq excuses' /\ (q.stale => "overlap" \in excuses')
  BY DEF Excused
<1>3. DOMAIN rows = Ids /\ None \notin Ids
  BY <1>1, MasterDataAssumption DEF TablesOK
<1>4. ASSUME NEW b \in Ids, b # i, rows[b] # None
      PROVE  /\ rows[b] = q.name => "overlap" \in excuses'
             /\ Same(rows[b], q.name) => "overlap" \in excuses' \/ "spelling" \in excuses' \/ kind = "barcode"
  <2>1. b \in Present \ {q.id}
    BY <1>3, <1>4 DEF Present
  <2>2. CASE q.stale
    BY <1>2, <2>2
  <2>3. CASE ~q.stale
    <3>1. Clear(q)
      BY <1>1, <2>3 DEF ReadOK
    <3> QED BY <1>2, <2>1, <3>1 DEF Clear
  <2> QED BY <2>2, <2>3
<1>5. \A b \in Ids : rows'[b] = IF b = i THEN q.name ELSE rows[b]
  BY <1>3
<1> SUFFICES ASSUME NEW a \in Ids, NEW b \in Ids, a # b, rows'[a] # None, rows'[b] # None
             PROVE  /\ rows'[a] = rows'[b] => excuses' \cap {"overlap", "renaming"} # {}
                    /\ Same(rows'[a], rows'[b]) =>
                         excuses' \cap {"overlap", "renaming", "spelling"} # {} \/ kind' = "barcode"
  BY DEF NamesDistinct, Present, Same
<1>6. CASE a = i
  <2>1. Same(rows'[a], rows'[b]) <=> Same(rows[b], q.name)
    BY <1>5, <1>6 DEF Same
  <2> QED BY <1>4, <1>5, <1>6, <2>1
<1>7. CASE b = i
  <2>1. Same(rows'[a], rows'[b]) <=> Same(rows[a], q.name)
    BY <1>5, <1>7 DEF Same
  <2> QED BY <1>4, <1>5, <1>7, <2>1
<1>8. CASE a # i /\ b # i
  <2>1. a \in Present /\ b \in Present /\ rows'[a] = rows[a] /\ rows'[b] = rows[b]
    BY <1>5, <1>8 DEF Present
  <2> QED BY <1>2, <2>1 DEF MasterInv, NamesDistinct
<1> QED BY <1>6, <1>7, <1>8

LEMMA RefusedKeeps ==
  ASSUME MasterInv, NEW k \in Clerks, Refused(k), kind' = kind
  PROVE  MasterInv'
<1>1. RequestsOK' /\ DOMAIN req' = Clerks
  BY EndKeeps DEF Refused, MasterInv
<1>2. UNCHANGED <<rows, next, admins, excuses>>
  BY DEF Refused
<1>3. TablesOK'
  BY <1>1, <1>2 DEF MasterInv, TablesOK
<1>4. NamesDistinct' /\ AdminRemains'
  BY <1>2 DEF MasterInv, NamesDistinct, AdminRemains, Present
<1> QED BY <1>1, <1>3, <1>4 DEF MasterInv

LEMMA CreateKeeps == ASSUME MasterInv, NEW k \in Clerks, CreateWrite(k) PROVE MasterInv'
<1> DEFINE q == req[k]
<1>1. RequestOK(q) /\ TablesOK /\ q.op = "create" /\ kind' = kind
  BY DEF MasterInv, RequestsOK, CreateWrite
<1>2. q.name \in Names /\ q.id = None
  BY <1>1 DEF RequestOK
<1>3. CASE Refused(k)
  BY <1>1, <1>3, RefusedKeeps
<1>4. CASE ~Refused(k)
  <2>1. /\ next \in Ids /\ next' = next + 1 /\ rows' = [rows EXCEPT ![next] = q.name]
        /\ admins' = (IF q.admin THEN admins \cup {next} ELSE admins)
        /\ excuses' = Excused(k) /\ End(k)
    BY <1>4 DEF CreateWrite
  <2>2. RequestsOK' /\ DOMAIN req' = Clerks /\ excuses \subseteq excuses'
    BY <1>1, <2>1, EndKeeps DEF MasterInv, Excused
  <2>3. NamesDistinct'
    BY <1>1, <1>2, <2>1, NameKeeps
  <2>4. IsFiniteSet(admins')
    BY <1>1, <2>1, FS_AddElement DEF TablesOK
  <2>5. TablesOK'
    <3>1. rows' \in [Ids -> Names \cup {None}]
      BY <1>1, <1>2, <2>1 DEF TablesOK
    <3>2. next' \in Nat \ {0} /\ \A i \in Ids : i >= next' => rows'[i] = None
      BY <1>1, <2>1 DEF TablesOK, Ids
    <3> QED BY <1>1, <2>2, <2>4, <3>1, <3>2 DEF TablesOK
  <2>6. AdminRemains'
    BY <1>1, <2>1, <2>2 DEF MasterInv, AdminRemains
  <2> QED BY <2>2, <2>3, <2>5, <2>6 DEF MasterInv
<1> QED BY <1>3, <1>4

LEMMA UpdateKeeps == ASSUME MasterInv, NEW k \in Clerks, UpdateWrite(k) PROVE MasterInv'
<1> DEFINE q == req[k]
<1>1. RequestOK(q) /\ TablesOK /\ q.op = "update" /\ kind' = kind
  BY DEF MasterInv, RequestsOK, UpdateWrite
<1>2. q.name \in Names /\ q.id \in Ids
  BY <1>1 DEF RequestOK
<1>3. CASE Refused(k)
  BY <1>1, <1>3, RefusedKeeps
<1>4. CASE ~Refused(k)
  <2>1. /\ q.id \in Present /\ next' = next /\ rows' = [rows EXCEPT ![q.id] = q.name]
        /\ admins' = (IF q.admin THEN admins \cup {q.id} ELSE admins \ {q.id})
        /\ excuses' = Excused(k) \cup (IF q.id \in admins \ admins' THEN {"demotion"} ELSE {})
        /\ End(k)
    BY <1>4 DEF UpdateWrite
  <2>2. excuses \subseteq excuses' /\ Excused(k) \subseteq excuses'
    BY <2>1 DEF Excused
  <2>3. admins \subseteq admins' \/ "demotion" \in excuses'
    BY <2>1
  <2>4. RequestsOK' /\ DOMAIN req' = Clerks
    BY <1>1, <2>1, <2>2, <2>3, EndKeeps DEF MasterInv
  <2>5. NamesDistinct'
    BY <1>1, <1>2, <2>1, <2>2, NameKeeps
  <2>6. IsFiniteSet(admins')
    BY <1>1, <2>1, FS_AddElement, FS_RemoveElement DEF TablesOK
  <2>7. TablesOK'
    <3>1. rows' \in [Ids -> Names \cup {None}]
      BY <1>1, <1>2, <2>1 DEF TablesOK
    <3>2. \A i \in Ids : i >= next' => rows'[i] = None
      BY <1>1, <2>1 DEF TablesOK, Present
    <3> QED BY <1>1, <2>1, <2>4, <2>6, <3>1, <3>2 DEF TablesOK
  <2>8. AdminRemains'
    BY <1>1, <2>2, <2>3 DEF MasterInv, AdminRemains
  <2> QED BY <2>4, <2>5, <2>7, <2>8 DEF MasterInv
<1> QED BY <1>3, <1>4

LEMMA RemoveKeeps == ASSUME MasterInv, NEW k \in Clerks, RemoveWrite(k) PROVE MasterInv'
<1> DEFINE q == req[k]
<1>1. RequestOK(q) /\ ReadOK(q) /\ TablesOK /\ q.op = "remove" /\ kind' = kind
  BY DEF MasterInv, RequestsOK, RemoveWrite
<1>2. CASE Refused(k)
  BY <1>1, <1>2, RefusedKeeps
<1>3. CASE ~Refused(k)
  <2>1. /\ q.id \in Present /\ next' = next /\ rows' = [rows EXCEPT ![q.id] = None]
        /\ admins' = admins \ {q.id} /\ excuses' = Excused(k) /\ End(k)
    BY <1>3 DEF RemoveWrite
  <2>2. excuses \subseteq excuses' /\ (q.stale => "overlap" \in excuses')
    BY <2>1 DEF Excused
  <2>3. DOMAIN rows = Ids /\ q.id \in Ids /\ rows[q.id] # None /\ rows' # rows
    <3>1. DOMAIN rows = Ids /\ q.id \in Ids /\ rows[q.id] # None
      BY <1>1, <2>1 DEF TablesOK, Present
    <3>2. rows'[q.id] = None
      BY <2>1, <3>1
    <3> QED BY <3>1, <3>2
  <2>4. RequestsOK' /\ DOMAIN req' = Clerks
    BY <1>1, <2>1, <2>2, <2>3, EndKeeps DEF MasterInv
  <2>5. \A i \in Ids : rows'[i] = None \/ rows'[i] = rows[i]
    BY <2>1, <2>3
  <2>6. NamesDistinct'
    BY <1>1, <2>2, <2>5 DEF MasterInv, NamesDistinct, Present
  <2>7. TablesOK'
    <3>1. IsFiniteSet(admins')
      BY <1>1, <2>1, FS_RemoveElement DEF TablesOK
    <3>2. rows' \in [Ids -> Names \cup {None}]
      BY <1>1, <2>1 DEF TablesOK
    <3> QED BY <1>1, <2>1, <2>4, <2>5, <3>1, <3>2 DEF TablesOK
  <2>8. admins' # {} \/ excuses' \cap {"overlap", "demotion"} # {}
    BY <1>1, <2>1, <2>2 DEF ReadOK
  <2> QED BY <2>4, <2>6, <2>7, <2>8 DEF MasterInv, AdminRemains
<1> QED BY <1>2, <1>3

LEMMA DeleteKeeps == ASSUME MasterInv, NEW i \in Ids, Delete(i) PROVE MasterInv'
<1>1. /\ TablesOK /\ RequestsOK /\ kind # "user" /\ i \in Present
      /\ rows' = [rows EXCEPT ![i] = None] /\ UNCHANGED <<kind, next, admins, excuses>>
      /\ req' = [c \in Clerks |-> IF req[c] = Idle THEN Idle ELSE [req[c] EXCEPT !.stale = TRUE]]
  BY DEF MasterInv, Delete
<1>2. DOMAIN rows = Ids
  BY <1>1 DEF TablesOK
<1>3. \A j \in Ids : rows'[j] = None \/ rows'[j] = rows[j]
  BY <1>1, <1>2
<1>4. NamesDistinct' /\ AdminRemains'
  BY <1>1, <1>3 DEF MasterInv, NamesDistinct, AdminRemains, Present
<1>5. TablesOK'
  <2>1. rows' \in [Ids -> Names \cup {None}]
    BY <1>1 DEF TablesOK
  <2> QED BY <1>1, <1>3, <2>1 DEF TablesOK
<1>6. ASSUME NEW c \in Clerks PROVE RequestOK(req[c])' /\ ReadOK(req[c])'
  <2>1. RequestOK(req[c]) /\ DOMAIN Idle = Fields /\ Idle.op = "idle" /\ Idle.stale = FALSE
    BY <1>1 DEF RequestsOK, Idle, Fields
  <2>2. CASE req'[c] = Idle
    BY <2>1, <2>2 DEF RequestOK, ReadOK, Ops
  <2>3. CASE req'[c] = [req[c] EXCEPT !.stale = TRUE]
    <3>1. /\ DOMAIN req'[c] = Fields /\ req'[c].stale = TRUE
          /\ req'[c].op = req[c].op /\ req'[c].name = req[c].name /\ req'[c].id = req[c].id
          /\ req'[c].file = req[c].file /\ req'[c].makes = req[c].makes /\ req'[c].loose = req[c].loose
      BY <2>1, <2>3 DEF RequestOK, Fields
    <3>2. kind' = kind /\ Table' = Table
      BY <1>1 DEF Table
    <3>3. RequestOK(req[c])'
      BY <2>1, <3>1, <3>2, ZenonT(60) DEF RequestOK
    <3> QED BY <3>1, <3>3 DEF ReadOK
  <2> QED BY <1>1, <2>2, <2>3
<1> QED BY <1>4, <1>5, <1>6 DEF MasterInv, RequestsOK

-----------------------------------------------------------------------------
(***************************************************************************)
(* The bulk import                                                         *)
(***************************************************************************)

\* What a bulk import that is not refused does to the rows.
LEMMA BulkStored ==
  ASSUME MasterInv, NEW k \in Clerks, BulkWrite(k), ~Refused(k)
  PROVE  LET items == req[k].file
             t == RenamedAll(rows, items)
             new == BulkNew(t, items, req[k].makes)
         IN /\ req[k].op = "bulk" /\ ItemsOK(items) /\ new \in SUBSET DOMAIN items
            /\ new \subseteq req[k].makes
            /\ t \in [Ids -> Names \cup {None}] /\ \A i \in Ids : t[i] = None <=> rows[i] = None
            /\ next + Cardinality(new) <= MaxRows + 1 /\ next' = next + Cardinality(new)
            /\ rows' = Stored(t, items, new) /\ excuses' = Excused(k) /\ End(k)
            /\ kind' = kind /\ admins' = admins
<1> DEFINE q == req[k]
           items == q.file
           t == RenamedAll(rows, items)
           new == BulkNew(t, items, q.makes)
<1>1. q.op = "bulk" /\ RequestOK(q) /\ TablesOK /\ kind' = kind
  BY DEF MasterInv, RequestsOK, BulkWrite
<1>2. ItemsOK(items) /\ q.makes \subseteq DOMAIN items
  BY <1>1 DEF RequestOK
<1>3. new \subseteq q.makes
  BY DEF BulkNew
<1>4. t \in [Ids -> Names \cup {None}] /\ \A i \in Ids : t[i] = None <=> rows[i] = None
  <2>1. rows \in [Ids -> Names \cup {None}] /\ DOMAIN items \in SUBSET DOMAIN items
    BY <1>1 DEF TablesOK
  <2>2. t = Renamed(rows, items, DOMAIN items)
    BY DEF RenamedAll
  <2> HIDE DEF items, t
  <2> QED BY <1>2, <2>1, <2>2, RenamedIs
<1>5. /\ next + Cardinality(new) <= MaxRows + 1 /\ next' = next + Cardinality(new)
      /\ rows' = Stored(t, items, new) /\ excuses' = Excused(k) /\ End(k) /\ admins' = admins
  BY DEF BulkWrite
<1> QED BY <1>1, <1>2, <1>3, <1>4, <1>5

\* What a bulk import finds or makes it finds and makes only once, if it renames nothing.
LEMMA BulkNames ==
  ASSUME MasterInv, NEW k \in Clerks, BulkWrite(k), ~Refused(k)
  PROVE  NamesDistinct'
<1> DEFINE q == req[k]
           items == q.file
           t == RenamedAll(rows, items)
           new == BulkNew(t, items, q.makes)
<1>1. /\ q.op = "bulk" /\ ItemsOK(items) /\ new \in SUBSET DOMAIN items /\ new \subseteq q.makes
      /\ t \in [Ids -> Names \cup {None}] /\ next + Cardinality(new) <= MaxRows + 1
      /\ rows' = Stored(t, items, new) /\ excuses' = Excused(k) /\ kind' = kind
  BY BulkStored
<1>2. RequestOK(q) /\ ReadOK(q) /\ TablesOK
  BY DEF MasterInv, RequestsOK
<1>3. excuses \subseteq excuses' /\ q.loose \subseteq excuses' /\ (q.stale => "overlap" \in excuses')
  BY <1>1 DEF Excused
<1>4. CASE q.stale \/ "renaming" \in q.loose
  BY <1>3, <1>4 DEF NamesDistinct
<1>5. CASE ~q.stale /\ "renaming" \notin q.loose
  <2>1. q.makes = Makes(items) /\ \A x \in DOMAIN items : items[x].id = None
    BY <1>1, <1>2, <1>5 DEF ReadOK, RequestOK
  <2>2. None \notin Ids /\ None \notin Names
    BY MasterDataAssumption
  <2>3. ASSUME NEW places \in SUBSET DOMAIN items PROVE Renamed(rows, items, places) = rows
    <3>1. \A i \in Ids : Renaming(items, places, i) = {}
      BY <2>1, <2>2 DEF Renaming
    <3>2. rows = [i \in Ids |-> rows[i]]
      BY <1>2 DEF TablesOK
    <3> QED BY <3>1, <3>2 DEF Renamed
  <2>4. t = rows
    BY <2>3 DEF RenamedAll
  <2>5. ASSUME NEW x \in new, NEW i \in Ids, rows[i] # None
        PROVE  rows[i] # items[x].name /\ (Same(rows[i], items[x].name) => kind = "barcode")
    <3>1. x \in Makes(items) /\ x \in DOMAIN items
      BY <1>1, <2>1
    <3>2. RenamedBefore(rows, items, x) = rows
      BY <2>3 DEF RenamedBefore
    <3>3. CASE Table.bulk = "insert"
      <4>1. kind = "barcode"
        BY <1>2, <3>3, KindIs
      <4>2. \A j \in Ids : t[j] # items[x].name
        BY <3>3 DEF BulkNew
      <4> QED BY <2>4, <4>1, <4>2
    <3>4. CASE Table.bulk = "find"
      <4>1. ~BulkFinds(rows, items[x].name)
        BY <3>1, <3>2, <3>4 DEF Makes
      <4>2. ~Same(rows[i], items[x].name)
        BY <2>5, <4>1 DEF BulkFinds
      <4> QED BY <4>2 DEF Same
    <3> QED BY <3>1, <3>3, <3>4 DEF Makes
  <2>6. /\ \A i \in Ids : \/ rows'[i] = rows[i]
                          \/ i >= next /\ i < next' /\ \E x \in new : rows'[i] = items[x].name
        /\ \A i, j \in Ids : \A x \in new :
             i # j /\ i >= next /\ j >= next /\ rows[i] = None /\ rows[j] = None
               /\ rows'[i] = items[x].name => rows'[j] # items[x].name
    <3>1. next' = next + Cardinality(new)
      BY BulkStored
    <3>2. next \in Nat \ {0}
      BY <1>2 DEF TablesOK
    <3> HIDE DEF items, new, t
    <3>3. /\ \A i \in Ids : \/ rows'[i] = t[i]
                            \/ i >= next /\ i < next + Cardinality(new) /\ \E x \in new : rows'[i] = items[x].name
          /\ \A i, j \in Ids : \A x \in new :
               i # j /\ i >= next /\ j >= next /\ t[i] = None /\ t[j] = None
                 /\ rows'[i] = items[x].name => rows'[j] # items[x].name
      BY <1>1, <3>2, StoredIs
    <3> QED BY <2>4, <3>1, <3>3
  <2>7. \A i \in Ids : i >= next => rows[i] = None
    BY <1>2 DEF TablesOK
  <2>8. \A x, y \in new : Same(items[x].name, items[y].name) => x = y
    BY <1>1 DEF ItemsOK
  <2> SUFFICES ASSUME NEW a \in Ids, NEW b \in Ids, a # b, rows'[a] # None, rows'[b] # None
               PROVE  /\ rows'[a] = rows'[b] => excuses' \cap {"overlap", "renaming"} # {}
                      /\ Same(rows'[a], rows'[b]) =>
                           excuses' \cap {"overlap", "renaming", "spelling"} # {} \/ kind' = "barcode"
    BY DEF NamesDistinct, Present, Same
  <2> HIDE DEF q, items, t, new
  <2>9. CASE rows'[a] = rows[a] /\ rows'[b] = rows[b]
    BY <1>1, <1>3, <2>9 DEF MasterInv, NamesDistinct, Present
  <2>10. CASE rows'[a] = rows[a] /\ rows'[b] # rows[b]
    <3>1. PICK x \in new : rows'[b] = items[x].name
      BY <2>6, <2>10
    <3>2. rows[a] # items[x].name /\ (Same(rows[a], items[x].name) => kind = "barcode")
      BY <2>5, <2>10
    <3> QED BY <1>1, <2>10, <3>1, <3>2
  <2>11. CASE rows'[a] # rows[a] /\ rows'[b] = rows[b]
    <3>1. PICK x \in new : rows'[a] = items[x].name
      BY <2>6, <2>11
    <3>2. rows[b] # items[x].name /\ (Same(rows[b], items[x].name) => kind = "barcode")
      BY <2>5, <2>11
    <3>3. Same(rows'[a], rows'[b]) => Same(rows[b], items[x].name)
      BY <2>11, <3>1 DEF Same
    <3> QED BY <1>1, <2>11, <3>1, <3>2, <3>3
  <2>12. CASE rows'[a] # rows[a] /\ rows'[b] # rows[b]
    <3>1. PICK x \in new : rows'[a] = items[x].name /\ a >= next
      BY <2>6, <2>12
    <3>2. PICK y \in new : rows'[b] = items[y].name /\ b >= next
      BY <2>6, <2>12
    <3>3. x # y
      BY <2>6, <2>7, <3>1, <3>2
    <3>4. ~Same(rows'[a], rows'[b])
      BY <2>8, <3>1, <3>2, <3>3
    <3> QED BY <3>4 DEF Same
  <2> QED BY <2>9, <2>10, <2>11, <2>12
<1> QED BY <1>2, <1>4, <1>5 DEF RequestOK

LEMMA BulkKeeps == ASSUME MasterInv, NEW k \in Clerks, BulkWrite(k) PROVE MasterInv'
<1>1. CASE Refused(k)
  BY <1>1, RefusedKeeps DEF BulkWrite
<1>2. CASE ~Refused(k)
  <2> DEFINE items == req[k].file
             t == RenamedAll(rows, items)
             new == BulkNew(t, items, req[k].makes)
  <2>1. /\ ItemsOK(items) /\ new \in SUBSET DOMAIN items
        /\ t \in [Ids -> Names \cup {None}] /\ \A i \in Ids : t[i] = None <=> rows[i] = None
        /\ next + Cardinality(new) <= MaxRows + 1 /\ next' = next + Cardinality(new)
        /\ rows' = Stored(t, items, new) /\ excuses' = Excused(k) /\ End(k)
        /\ kind' = kind /\ admins' = admins
    BY <1>2, BulkStored
  <2>2. excuses \subseteq excuses'
    BY <2>1 DEF Excused
  <2>3. RequestsOK' /\ DOMAIN req' = Clerks
    BY <2>1, <2>2, EndKeeps DEF MasterInv
  <2>4. NamesDistinct'
    BY <1>2, BulkNames
  <2>5. AdminRemains'
    BY <2>1, <2>2 DEF MasterInv, AdminRemains
  <2>6. TablesOK'
    <3>1. TablesOK /\ next \in Nat \ {0}
      BY DEF MasterInv, TablesOK
    <3> HIDE DEF items, t, new
    <3>2. /\ rows' \in [Ids -> Names \cup {None}] /\ Cardinality(new) \in Nat
          /\ \A i \in Ids : \/ rows'[i] = t[i]
                            \/ i >= next /\ i < next + Cardinality(new) /\ \E x \in new : rows'[i] = items[x].name
      BY <2>1, <3>1, StoredIs
    <3>3. next' \in Nat \ {0} /\ \A i \in Ids : i >= next' => i >= next /\ rows'[i] = t[i]
      BY <2>1, <3>1, <3>2 DEF Ids
    <3>4. \A i \in Ids : i >= next' => rows'[i] = None
      BY <2>1, <3>1, <3>3 DEF TablesOK
    <3> QED BY <2>1, <2>3, <3>1, <3>2, <3>3, <3>4 DEF TablesOK
  <2> QED BY <2>3, <2>4, <2>5, <2>6 DEF MasterInv
<1> QED BY <1>1, <1>2

-----------------------------------------------------------------------------
(***************************************************************************)
(* What a request reads, and every step                                    *)
(***************************************************************************)

LEMMA ReadKeeps ==
  ASSUME MasterInv, NEW k \in Clerks,
         \/ \E n \in Names : \E admin \in BOOLEAN :
              CreateRead(k, n, admin) \/ \E i \in Ids : UpdateRead(k, i, n, admin)
         \/ \E n \in Names : \E by \in {"name", "spelling"} : EnsureRead(k, n, by)
         \/ \E i \in Ids : RemoveRead(k, i)
         \/ \E f \in Files : BulkRead(k, f)
  PROVE  MasterInv'
<1>1. /\ Idle.op = "idle" /\ Idle.stale = FALSE /\ Idle.id = None /\ Idle.loose = {} /\ DOMAIN Idle = Fields
      /\ TablesOK /\ None \notin Ids
  BY MasterDataAssumption DEF Idle, Fields, MasterInv
<1>2. ASSUME NEW n, NEW i, Finds(n, i) = {}
      PROVE  \A j \in Present \ {i} : rows[j] # n /\ (Same(rows[j], n) => kind = "barcode")
  BY <1>2 DEF Finds, Same
<1>3. ASSUME NEW n \in Names, NEW admin \in BOOLEAN, CreateRead(k, n, admin)
      PROVE  MasterInv'
  <2> DEFINE q == [Idle EXCEPT !.op = "create", !.name = n, !.admin = admin]
  <2>1. q.op = "create" /\ q.name = n /\ q.id = None /\ q.stale = FALSE /\ DOMAIN q = Fields
    BY <1>1 DEF Fields
  <2>2. Start(k, q) /\ Finds(n, None) = {}
    BY <1>3 DEF CreateRead
  <2> HIDE DEF q
  <2>3. RequestOK(q)
    BY <2>1 DEF RequestOK, Ops
  <2>4. ReadOK(q)
    BY <1>2, <2>1, <2>2 DEF ReadOK, Clear
  <2> QED BY <2>2, <2>3, <2>4, StartKeeps
<1>4. ASSUME NEW n \in Names, NEW admin \in BOOLEAN, NEW i \in Ids, UpdateRead(k, i, n, admin)
      PROVE  MasterInv'
  <2> DEFINE q == [Idle EXCEPT !.op = "update", !.id = i, !.name = n, !.admin = admin]
  <2>1. q.op = "update" /\ q.name = n /\ q.id = i /\ q.stale = FALSE /\ DOMAIN q = Fields
    BY <1>1 DEF Fields
  <2>2. Start(k, q) /\ Finds(n, i) = {}
    BY <1>4 DEF UpdateRead, Others
  <2> HIDE DEF q
  <2>3. RequestOK(q)
    BY <2>1 DEF RequestOK, Ops
  <2>4. ReadOK(q)
    BY <1>2, <2>1, <2>2 DEF ReadOK, Clear
  <2> QED BY <2>2, <2>3, <2>4, StartKeeps
<1>5. ASSUME NEW n \in Names, NEW by \in {"name", "spelling"}, EnsureRead(k, n, by)
      PROVE  MasterInv'
  <2> DEFINE loose == IF Finds(n, None) = {} THEN {} ELSE {"spelling"}
             q == [Idle EXCEPT !.op = "create", !.name = n, !.loose = loose]
  <2>1. q.op = "create" /\ q.name = n /\ q.id = None /\ q.stale = FALSE /\ q.loose = loose /\ DOMAIN q = Fields
    BY <1>1 DEF Fields
  <2>2. Start(k, q) /\ (Finds(n, None) = {} \/ n \notin {rows[i] : i \in Present})
    BY <1>5 DEF EnsureRead
  <2>3. Finds(n, None) = {} \/ "spelling" \in q.loose
    BY <2>1
  <2> HIDE DEF q, loose
  <2>4. RequestOK(q)
    BY <2>1 DEF RequestOK, Ops
  <2>5. \A j \in Present \ {None} : rows[j] # n /\ (Same(rows[j], n) => "spelling" \in q.loose \/ kind = "barcode")
    BY <1>2, <2>2, <2>3
  <2>6. ReadOK(q)
    BY <2>1, <2>5 DEF ReadOK, Clear
  <2> QED BY <2>2, <2>4, <2>6, StartKeeps
<1>6. ASSUME NEW i \in Ids, RemoveRead(k, i)
      PROVE  MasterInv'
  <2> DEFINE q == [Idle EXCEPT !.op = "remove", !.id = i]
  <2>1. q.op = "remove" /\ q.id = i /\ q.stale = FALSE /\ DOMAIN q = Fields
    BY <1>1 DEF Fields
  <2>2. Start(k, q) /\ kind = "user" /\ ~LastAdmin(i)
    BY <1>6 DEF RemoveRead
  <2> HIDE DEF q
  <2>3. RequestOK(q)
    BY <2>1, <2>2 DEF RequestOK, Ops
  <2>4. admins \ {i} # {} \/ excuses \cap {"overlap", "demotion"} # {}
    <3>1. CASE i \notin admins
      BY <2>2, <3>1 DEF MasterInv, AdminRemains
    <3>2. CASE i \in admins /\ admins = {i}
      <4>1. Cardinality({i}) = 1
        BY FS_Singleton
      <4> QED BY <2>2, <3>2, <4>1 DEF LastAdmin
    <3> QED BY <3>1, <3>2
  <2>5. ReadOK(q)
    BY <2>1, <2>4 DEF ReadOK
  <2> QED BY <2>2, <2>3, <2>5, StartKeeps
<1>7. ASSUME NEW f \in Files, BulkRead(k, f)
      PROVE  MasterInv'
  <2> DEFINE items == UniqueItems(f)
             loose == IF \E x \in DOMAIN items : items[x].id # None THEN {"renaming"} ELSE {}
             q == [Idle EXCEPT !.op = "bulk", !.file = items, !.makes = Makes(items), !.loose = loose]
  <2>1. /\ q.op = "bulk" /\ q.file = items /\ q.makes = Makes(items) /\ q.loose = loose
        /\ q.stale = FALSE /\ DOMAIN q = Fields
    BY <1>1 DEF Fields
  <2>2. Start(k, q) /\ Table.bulk # "none"
    BY <1>7 DEF BulkRead
  <2>3. ItemsOK(items)
    BY UniqueItemsOK
  <2>4. "renaming" \in loose \/ \A x \in DOMAIN items : items[x].id = None
    OBVIOUS
  <2> HIDE DEF q, items, loose
  <2>5. Makes(items) \subseteq {x \in DOMAIN items : items[x].id = None}
    BY DEF Makes
  <2>6. RequestOK(q) /\ ReadOK(q)
    BY <2>1, <2>2, <2>3, <2>4, <2>5 DEF RequestOK, ReadOK, Ops
  <2> QED BY <2>2, <2>6, StartKeeps
<1> QED BY <1>3, <1>4, <1>5, <1>6, <1>7

LEMMA Begins == Init => MasterInv
<1> SUFFICES ASSUME Init PROVE MasterInv
  OBVIOUS
<1>1. MaxRows \in Nat /\ None \notin Names /\ None \notin Ids
  BY MasterDataAssumption
<1>2. PICK n \in Names : rows = [i \in Ids |-> IF i = 1 THEN n ELSE None]
  BY DEF Init
<1>3. \A a \in Present : a = 1
  BY <1>2 DEF Present
<1>4. NamesDistinct
  BY <1>3 DEF NamesDistinct
<1>5. AdminRemains
  BY DEF Init, AdminRemains
<1>6. RequestsOK /\ DOMAIN req = Clerks
  <2>1. DOMAIN req = Clerks /\ \A c \in Clerks : req[c] = Idle
    BY DEF Init
  <2> QED BY <2>1, IdleOK DEF RequestsOK
<1>7. TablesOK
  <2>1. rows \in [Ids -> Names \cup {None}]
    BY <1>2
  <2>2. next = 2 /\ \A i \in Ids : i >= next => rows[i] = None
    BY <1>2 DEF Init, Ids
  <2>3. IsFiniteSet(admins)
    BY FS_EmptySet, FS_Singleton DEF Init
  <2> QED BY <1>6, <2>1, <2>2, <2>3 DEF TablesOK, Init
<1> QED BY <1>4, <1>5, <1>6, <1>7 DEF MasterInv

LEMMA StepKeeps == MasterInv /\ [Next]_vars => MasterInv'
<1> SUFFICES ASSUME MasterInv, [Next]_vars PROVE MasterInv'
  OBVIOUS
<1>1. ASSUME NEW k \in Clerks, Fail(k) PROVE MasterInv'
  <2>1. UNCHANGED <<kind, rows, next, admins, refs, started, excuses>> /\ req' = [req EXCEPT ![k] = Idle]
    BY <1>1 DEF Fail
  <2>2. TablesOK' /\ NamesDistinct' /\ AdminRemains'
    BY <2>1 DEF MasterInv, TablesOK, NamesDistinct, AdminRemains, Present
  <2>3. ASSUME NEW c \in Clerks PROVE RequestOK(req[c])' /\ ReadOK(req[c])'
    <3>1. RequestOK(req'[c]) /\ ReadOK(req'[c])
      BY <2>1, IdleOK DEF MasterInv, TablesOK, RequestsOK
    <3>2. RequestOK(req[c])'
      BY <2>1, <3>1 DEF RequestOK, Table
    <3>3. ReadOK(req[c])'
      BY <2>1, <3>1 DEF ReadOK, Clear, Present, Makes, Table
    <3> QED BY <3>2, <3>3
  <2> QED BY <2>2, <2>3 DEF MasterInv, RequestsOK
<1>2. ASSUME NEW i \in Ids, NEW o \in Orders, Refer(o, i) PROVE MasterInv'
  <2>1. UNCHANGED <<kind, rows, next, admins, req, started, excuses>>
    BY <1>2 DEF Refer
  <2> QED BY <2>1 DEF MasterInv, TablesOK, RequestsOK, RequestOK, ReadOK, Clear, NamesDistinct, AdminRemains,
                      Present, Makes, Table
<1>3. ASSUME UNCHANGED vars PROVE MasterInv'
  <2>1. UNCHANGED <<kind, rows, next, admins, req, started, excuses>>
    BY <1>3 DEF vars
  <2> QED BY <2>1 DEF MasterInv, TablesOK, RequestsOK, RequestOK, ReadOK, Clear, NamesDistinct, AdminRemains,
                      Present, Makes, Table
<1>4. ASSUME NEW k \in Clerks,
             CreateWrite(k) \/ UpdateWrite(k) \/ RemoveWrite(k) \/ BulkWrite(k)
      PROVE  MasterInv'
  BY <1>4, CreateKeeps, UpdateKeeps, RemoveKeeps, BulkKeeps
<1>5. ASSUME NEW i \in Ids, Delete(i) PROVE MasterInv'
  BY <1>5, DeleteKeeps
<1> QED BY <1>1, <1>2, <1>3, <1>4, <1>5, ReadKeeps DEF Next

LEMMA MasterInvHolds == Spec => []MasterInv
BY Begins, StepKeeps, PTL DEF Spec

\* Two rows share a name only after a request wrote on what another had changed since, after
\* a bulk import renamed a row, or, in two spellings, after something looked for the spelling
\* alone: createX, updateX, UserService, processBulkImport and the imports that make rows.
THEOREM NamesStayDistinct == Spec => []NamesDistinct
BY MasterInvHolds, PTL DEF MasterInv

\* UserService.remove leaves an administrator, unless the last one was given another role
\* or two removals overlapped.
THEOREM AdminAlwaysRemains == Spec => []AdminRemains
BY MasterInvHolds, PTL DEF MasterInv

-----------------------------------------------------------------------------
(***************************************************************************)
(* Every name of the sheet is stored                                       *)
(***************************************************************************)

\* Why the name of an item need not be there when an import has ended.
Explained(k, x) ==
  LET it == req[k].file[x] IN
  \/ it.id # None /\ rows[it.id] = None
  \/ it.id = None /\ Table.bulk = "renameOnly"
  \/ \E y \in DOMAIN req[k].file \ {x} : LET other == req[k].file[y] IN
       other.id # None /\ (other.id = it.id \/ (rows[other.id] # None /\ Same(rows[other.id], it.name)))

LEMMA BulkStoresItem ==
  ASSUME MasterInv, NEW k \in Clerks, BulkWrite(k), ~Refused(k), ~req[k].stale,
         NEW x \in DOMAIN req[k].file
  PROVE  (\E i \in Ids : rows'[i] # None /\ Same(rows'[i], req[k].file[x].name)) \/ Explained(k, x)
<1> DEFINE q == req[k]
           items == q.file
           it == items[x]
           t == RenamedAll(rows, items)
           new == BulkNew(t, items, q.makes)
           before == {y \in DOMAIN items : y < x}
           earlier == RenamedBefore(rows, items, x)
<1>1. /\ q.op = "bulk" /\ ItemsOK(items) /\ new \in SUBSET DOMAIN items
      /\ t \in [Ids -> Names \cup {None}] /\ \A i \in Ids : t[i] = None <=> rows[i] = None
      /\ next + Cardinality(new) <= MaxRows + 1 /\ rows' = Stored(t, items, new)
  BY BulkStored
<1>2. RequestOK(q) /\ ReadOK(q) /\ TablesOK /\ next \in Nat \ {0} /\ rows \in [Ids -> Names \cup {None}]
  BY DEF MasterInv, RequestsOK, TablesOK
<1>3. q.makes = Makes(items) /\ Table.bulk # "none"
  BY <1>1, <1>2 DEF ReadOK, RequestOK
<1>4. None \notin Ids /\ None \notin Names /\ it.name \in Names /\ it.id \in Ids \cup {None}
  BY <1>1, MasterDataAssumption DEF ItemsOK
<1>5. /\ \A y \in new : \E i \in Ids : rows'[i] = items[y].name
      /\ \A i \in Ids : rows[i] # None => rows'[i] = t[i]
  <2> HIDE DEF items, new, t
  <2>1. /\ \A y \in new : \E i \in Ids : rows'[i] = items[y].name
        /\ \A i \in Ids : \/ rows'[i] = t[i]
                          \/ i >= next /\ i < next + Cardinality(new) /\ \E y \in new : rows'[i] = items[y].name
    BY <1>1, <1>2, StoredIs
  <2>2. \A i \in Ids : i >= next => rows[i] = None
    BY <1>2 DEF TablesOK
  <2> QED BY <2>1, <2>2
<1>6. \A i \in Ids : \/ t[i] = rows[i] /\ (rows[i] = None \/ \A y \in DOMAIN items : items[y].id # i)
                     \/ \E y \in DOMAIN items : items[y].id = i /\ t[i] = items[y].name
  <2>1. t = Renamed(rows, items, DOMAIN items)
    BY DEF RenamedAll
  <2> HIDE DEF items, t
  <2> QED BY <1>1, <1>2, <2>1, RenamedIs
<1>7. \A i \in Ids : /\ earlier[i] = None <=> rows[i] = None
                     /\ \/ earlier[i] = rows[i]
                        \/ \E y \in before : items[y].id = i /\ earlier[i] = items[y].name
  <2>1. earlier = Renamed(rows, items, before) /\ before \in SUBSET DOMAIN items
    BY DEF RenamedBefore
  <2> HIDE DEF items, earlier, before
  <2> QED BY <1>1, <1>2, <2>1, RenamedIs
<1>8. \A y \in before : y # x /\ y \in DOMAIN items
  <2>1. PICK n \in Nat : DOMAIN items \subseteq 1..n
    BY <1>1, ItemPlaces
  <2> QED BY <2>1
<1>9. CASE it.id # None
  <2>1. it.id \in Ids
    BY <1>4, <1>9
  <2>2. CASE rows[it.id] = None
    BY <1>9, <2>2 DEF Explained
  <2>3. CASE rows[it.id] # None
    <3>1. PICK y \in DOMAIN items : items[y].id = it.id /\ t[it.id] = items[y].name
      BY <1>6, <2>1, <2>3
    <3>2. CASE y = x
      <4>1. rows'[it.id] = it.name
        BY <1>5, <2>1, <2>3, <3>1, <3>2
      <4> QED BY <1>4, <2>1, <4>1 DEF Same
    <3>3. CASE y # x
      BY <1>9, <3>1, <3>3 DEF Explained
    <3> QED BY <3>2, <3>3
  <2> QED BY <2>2, <2>3
<1>10. ASSUME x \in new
       PROVE  \E i \in Ids : rows'[i] # None /\ Same(rows'[i], it.name)
  <2>1. PICK i \in Ids : rows'[i] = it.name
    BY <1>5, <1>10
  <2> QED BY <1>4, <2>1 DEF Same
<1>11. CASE it.id = None /\ x \notin new
  <2>1. CASE Table.bulk = "renameOnly"
    BY <1>11, <2>1 DEF Explained
  <2>2. CASE Table.bulk = "insert"
    <3>1. x \in q.makes
      BY <1>3, <1>11, <2>2 DEF Makes
    <3>2. PICK i \in Ids : t[i] = it.name
      BY <1>11, <2>2, <3>1 DEF BulkNew
    <3>3. rows'[i] = it.name
      BY <1>1, <1>4, <1>5, <3>2
    <3> QED BY <1>4, <3>3 DEF Same
  <2>3. CASE Table.bulk = "find"
    <3>1. x \notin Makes(items)
      BY <1>3, <1>11, <2>3 DEF BulkNew
    <3>2. BulkFinds(earlier, it.name)
      BY <1>11, <2>3, <3>1 DEF Makes
    <3>3. PICK i \in Ids : earlier[i] # None /\ Same(earlier[i], it.name)
      BY <3>2 DEF BulkFinds
    <3>4. rows[i] # None /\ Same(rows[i], it.name)
      <4>1. rows[i] # None
        BY <1>7, <3>3
      <4>2. \A y \in before : ~Same(items[y].name, it.name)
        BY <1>1, <1>8 DEF ItemsOK
      <4> QED BY <1>7, <3>3, <4>1, <4>2
    <3>5. CASE t[i] = rows[i]
      BY <1>5, <3>4, <3>5
    <3>6. CASE t[i] # rows[i]
      <4>1. PICK y \in DOMAIN items : items[y].id = i
        BY <1>6, <3>6
      <4>2. y # x
        BY <1>4, <1>11, <4>1
      <4> QED BY <1>4, <3>4, <4>1, <4>2 DEF Explained
    <3> QED BY <3>5, <3>6
  <2>4. Table.bulk \in {"renameOnly", "insert", "find"}
    BY <1>2, <1>3, KindIs
  <2> QED BY <2>1, <2>2, <2>3, <2>4
<1> QED BY <1>9, <1>10, <1>11

\* Only its own write ends a bulk import with a change of the table.
LEMMA BulkEnds ==
  ASSUME MasterInv, [Next]_vars, NEW k \in Clerks, req[k].op = "bulk", req'[k] = Idle, rows' # rows
  PROVE  BulkWrite(k) /\ ~Refused(k)
<1>1. RequestOK(req[k]) /\ DOMAIN req = Clerks /\ Idle.op = "idle"
  BY DEF MasterInv, RequestsOK, TablesOK, Idle
<1>2. [req[k] EXCEPT !.stale = TRUE].op = "bulk" /\ Idle # req[k]
  BY <1>1 DEF RequestOK, Fields
<1>3. ASSUME NEW c \in Clerks, End(c) PROVE c = k
  <2>1. c # k => req'[k] \in {req[k], [req[k] EXCEPT !.stale = TRUE]}
    BY <1>2, <1>3 DEF End
  <2> QED BY <1>1, <1>2, <2>1
<1>4. ASSUME NEW c \in Clerks, NEW q, Start(c, q) PROVE FALSE
  BY <1>4 DEF Start
<1>5. ASSUME NEW c \in Clerks, CreateWrite(c) \/ UpdateWrite(c) \/ RemoveWrite(c) PROVE FALSE
  <2>1. req[c].op # "bulk" /\ End(c)
    BY <1>5 DEF CreateWrite, UpdateWrite, RemoveWrite, Refused
  <2> QED BY <1>3, <2>1
<1>6. ASSUME NEW i \in Ids, Delete(i) PROVE FALSE
  <2>1. req'[k] = [req[k] EXCEPT !.stale = TRUE]
    BY <1>2, <1>6 DEF Delete
  <2> QED BY <1>1, <1>2, <2>1
<1>7. ASSUME NEW c \in Clerks, BulkWrite(c) PROVE c = k /\ ~Refused(c)
  <2>1. End(c) /\ ~Refused(c)
    BY <1>7 DEF BulkWrite, Refused
  <2> QED BY <1>3, <2>1
<1>8. ~UNCHANGED vars /\ \A c \in Clerks : ~Fail(c)
  BY DEF vars, Fail
<1>9. \A i \in Ids, o \in Orders : ~Refer(o, i)
  BY DEF Refer
<1>10. ASSUME NEW c \in Clerks
       PROVE  /\ \A n \in Names : \A admin \in BOOLEAN :
                   ~CreateRead(c, n, admin) /\ \A i \in Ids : ~UpdateRead(c, i, n, admin)
              /\ \A n \in Names : \A by \in {"name", "spelling"} : ~EnsureRead(c, n, by)
              /\ \A i \in Ids : ~RemoveRead(c, i)
              /\ \A f \in Files : ~BulkRead(c, f)
  BY <1>4 DEF CreateRead, UpdateRead, EnsureRead, RemoveRead, BulkRead
<1> QED BY <1>5, <1>6, <1>7, <1>8, <1>9, <1>10 DEF Next

\* A bulk import that stores anything stores every name of its sheet, but for the exceptions
\* that BulkStoresNames lists: processBulkImport, for sheets of any length.
THEOREM BulkStoresEachName == Spec => BulkStoresNames
<1> DEFINE A ==
      \A k \in Clerks :
        req[k].op = "bulk" /\ req'[k] = Idle /\ rows' # rows /\ ~req[k].stale =>
          \A x \in DOMAIN req[k].file : LET it == req[k].file[x] IN
            \/ \E i \in Ids : rows'[i] # None /\ Same(rows'[i], it.name)
            \/ it.id # None /\ rows[it.id] = None
            \/ it.id = None /\ Table.bulk = "renameOnly"
            \/ \E y \in DOMAIN req[k].file \ {x} : LET other == req[k].file[y] IN
                 other.id # None /\ (other.id = it.id \/ (rows[other.id] # None /\ Same(rows[other.id], it.name)))
<1>1. MasterInv /\ [Next]_vars => [A]_vars
  BY BulkEnds, BulkStoresItem DEF Explained
<1>2. BulkStoresNames <=> [][A]_vars
  BY DEF BulkStoresNames
<1> QED BY <1>1, <1>2, MasterInvHolds, PTL DEF Spec
=============================================================================
