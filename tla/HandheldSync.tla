---------------------------- MODULE HandheldSync ----------------------------
(***************************************************************************)
(* The users' handhelds: UserDashboardService.  A handheld downloads the   *)
(* materials of an order, counts while it is offline, and later sends its  *)
(* counts as absolute numbers: "sync" in one transaction with its          *)
(* attachments, "data" call by call.  The server checks again that the     *)
(* order is the user's, writes what it is sent, and then looks whether a   *)
(* stage is complete.  It does not check whose the materials are: with     *)
(* IDs it writes those of any order, with codes every row of the code, of  *)
(* the order, or of the whole number if the order has no OBD.              *)
(***************************************************************************)
EXTENDS OrderTable

Access == {"id", "number"}

\* getAssignedVisibilityFilter, for access by the order's ID; a version that forgets
\* the status.
VisibleAnyStatus(u, o) == u \in {row[o].issuer, row[o].packer, row[o].assigned}
Visible(u, o) ==
  \/ row[o].issuer = u /\ row[o].status \in {None, "R105"}
  \/ row[o].packer = u /\ row[o].status = "W105"
  \/ row[o].assigned = u /\ row[o].status \in {None, "R105", "W105"}

\* findUniqueAccessibleOrderBySoNumber: the number has one order, and only a packer
\* has to wait for its issue.
Authorised(u, o) ==
  /\ Siblings(o) \cap Present = {o}
  /\ \/ row[o].issuer = u
     \/ /\ row[o].packer = u
        /\ row[o].status \in {"W105", "F105"} \/ row[o].skipIssue
     \/ row[o].assigned = u /\ row[o].packer # u

MayAccess(access, u, o) ==
  /\ o \in Present
  /\ IF access = "id" THEN Visible(u, o) ELSE Authorised(u, o)

\* The orders whose materials the queries by number and OBD find: with an empty OBD
\* those of the number.
Scope(o) == IF o \in NoObd THEN Siblings(o) ELSE {o}
Reached(o) == {m \in Materials : InTable(m) /\ OrderOf[m] \in Scope(o)}

\* What the operator makes of a copy: scanning only adds; to bound it, to one material.
Scanned(copy) == {c \in [DOMAIN copy -> Counts] :
  /\ \A m \in DOMAIN copy : c[m].issued >= copy[m].issued /\ c[m].packed >= copy[m].packed
  /\ \E m \in DOMAIN copy : \A x \in DOMAIN copy \ {m} : c[x] = copy[x]}

\* downloadOrderDetails and what is scanned offline: all that the order reaches or a part,
\* and what the handheld has of other orders.
Download(k, access, u, o) ==
  /\ MayAccess(access, u, o)
  /\ \E S \in SUBSET {m \in Materials : InTable(m)} \ {{}} :
       \E c \in Scanned([m \in S |-> count[m]]) :
         Start(k, [Idle EXCEPT !.op = "copy", !.order = o, !.user = u, !.asked = {access},
                               !.copy = c, !.of = [p \in {OrderOf[m] : m \in S} |-> epoch[p]]])

\* The orders that a request may change beside its own, and those of their numbers.
Foreign(q) ==
  (UNION {Siblings(p) : p \in {OrderOf[m] : m \in DOMAIN q.copy} \ {q.order}})
    \cup (IF q.order \in NoObd THEN Siblings(q.order) ELSE {})

\* syncOrderById, updateDataById and their versions by number: the materials have their
\* IDs with them, or only their codes.
Send(k, op, by) ==
  LET q == req[k]  access == CHOOSE a \in q.asked : TRUE IN
  /\ q.op = "copy"
  /\ IF MayAccess(access, q.user, q.order)
     THEN /\ req' = [req EXCEPT ![k].op = op, ![k].by = by, ![k].left = DOMAIN q.copy]
          /\ mixed' = mixed \cup Foreign(q)
     ELSE /\ req' = [req EXCEPT ![k] = Idle]
          /\ UNCHANGED mixed
  /\ UNCHANGED <<table, started>>

\* The rows that are written for the materials S of a copy: those with the IDs, or those
\* that the codes reach, each with the last count sent of its code.
Lasts(S) == {l \in [{CodeOf[m] : m \in S} -> S] : \A c \in DOMAIN l : CodeOf[l[c]] = c}
Sources(k, S) ==
  IF req[k].by = "ID" THEN {[m \in S |-> m]}
  ELSE {[m \in {x \in Reached(req[k].order) : CodeOf[x] \in DOMAIN l} |-> l[CodeOf[m]]] : l \in Lasts(S)}

\* The handheld's counts for rows with, in a faulty version, the stages mixed up.
SentMixedUp(k, src) ==
  [m \in DOMAIN src |-> [issued |-> req[k].copy[src[m]].packed, packed |-> req[k].copy[src[m]].packed]]
Sent(k, src) == [m \in DOMAIN src |-> req[k].copy[src[m]]]

Counting(k, src) ==
  [Blank(req[k].order) EXCEPT !.counts = Sent(k, src), !.by = req[k].by, !.of = req[k].of]

\* processDataUpdate outside a transaction: a material at a time.
WriteMaterial(k, m) ==
  /\ req[k].op = "data" /\ m \in req[k].left
  /\ \E src \in Sources(k, {m}) :
       LET w == Counting(k, src) IN
       IF Possible(w)
       THEN /\ Perform(w)
            /\ req' = Noted(k, [req[k] EXCEPT !.left = @ \ {m}])
            /\ UNCHANGED mixed
       ELSE /\ req' = [req EXCEPT ![k] = Idle]
            /\ mixed' = mixed \cup Siblings(req[k].order)
            /\ UNCHANGED table
  /\ UNCHANGED started

\* _checkAndUpdateOrderStatus of order o, on materials S with the counts c, as the
\* request sees them.
Complete(S, c, stage) == \A m \in S : c[m][stage] = 1

IssueWrites(o, S, c) ==
  IF Complete(S, c, "issued") /\ row[o].status \notin {"W105", "F105"}
  THEN <<Set(o, Column("status", "W105")), Date(o, {"Issued"})>>
         \o (IF row[o].packer # None THEN <<Date(o, {"Under Packing"})>> ELSE <<>>)
  ELSE <<>>

\* A version that expects the order to be W105 already.
PackingWritesLate(o, S, c) ==
  IF Complete(S, c, "packed") /\ row[o].status = "W105"
  THEN <<Set(o, Column("status", "F105")), Date(o, {"Packed"})>> ELSE <<>>

PackingWrites(o, S, c) ==
  IF Complete(S, c, "packed")
  THEN <<Set(o, Column("status", "F105")), Date(o, {"Packed"})>> ELSE <<>>

CompletionWrites(o, S, c) ==
  IF o \notin Present \/ S = {} THEN <<>>
  ELSE IssueWrites(o, S, c) \o PackingWrites(o, S, c)

\* Its order is found by number and OBD as well: with an empty OBD the first of the number.
Found(o) == IF Scope(o) \cap Present = {} THEN {o} ELSE Scope(o) \cap Present

Check(k) ==
  /\ req[k].op = "data" /\ req[k].left = {} /\ req[k].plan = <<>>
  /\ \E o \in Found(req[k].order) :
       LET writes == CompletionWrites(o, Reached(req[k].order), count) IN
       req' = [req EXCEPT ![k] = IF writes = <<>> THEN Idle ELSE [@ EXCEPT !.plan = writes]]
  /\ UNCHANGED <<table, started, mixed>>

-----------------------------------------------------------------------------
(***************************************************************************)
(* processCombinedUpload: the same in a transaction, with the files put on *)
(* the SFTP server before it commits                                       *)
(***************************************************************************)

\* All writes of a plan as one.
Dated(ws) == UNION {ws[i].date : i \in DOMAIN ws}
LastStatus(ws) ==
  LET setting == {i \in DOMAIN ws : DOMAIN ws[i].set # {}} IN
  IF setting = {} THEN Nothing ELSE ws[CHOOSE i \in setting : \A j \in setting : j <= i].set

\* A material that another transaction has written is locked until it commits.
Unlocked(k, S) ==
  \A c \in Active \ {k} :
    req[c].op = "sync" /\ req[c].plan # <<>> => DOMAIN Head(req[c].plan).counts \cap S = {}

\* The transaction sees what is committed and its own counts.
SyncRead(k) ==
  LET q == req[k] IN
  /\ q.op = "sync" /\ q.plan = <<>>
  /\ \E src \in Sources(k, DOMAIN q.copy), o \in Found(q.order) :
       LET w == Counting(k, src)
           ws == CompletionWrites(o, Reached(q.order), Over(w.counts, count)) IN
       /\ Unlocked(k, DOMAIN src)
       /\ IF Possible(w)
          THEN /\ req' = [req EXCEPT ![k].plan =
                            <<[w EXCEPT !.order = o, !.set = LastStatus(ws), !.date = Dated(ws)]>>,
                                     ![k].left = {}]
               /\ UNCHANGED mixed
          ELSE /\ req' = [req EXCEPT ![k] = Idle]
               /\ mixed' = mixed \cup Siblings(q.order)
  /\ UNCHANGED <<table, started>>

\* A file cannot be stored: the transaction is rolled back.
SyncFails(k) ==
  /\ req[k].op = "sync" /\ req[k].plan # <<>>
  /\ req' = [req EXCEPT ![k] = Idle]
  /\ mixed' = mixed \cup Siblings(req[k].order)
  /\ UNCHANGED <<table, started>>

HandheldRequest(k, o) == \E access \in Access, u \in Users : Download(k, access, u, o)

HandheldStep(k) ==
  \/ \E op \in {"sync", "data"}, by \in {"ID", "code"} : Send(k, op, by)
  \/ \E m \in req[k].left : WriteMaterial(k, m)
  \/ Check(k) \/ SyncRead(k) \/ SyncFails(k)
=============================================================================
