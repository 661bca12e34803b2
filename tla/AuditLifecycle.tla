--------------------------- MODULE AuditLifecycle ---------------------------
(***************************************************************************)
(* What a BOM completeness audit promises, without handhelds, requests or  *)
(* quantities.  An audit is counted location by location; each location is *)
(* counted once; when the last one is in, the differences found are        *)
(* settled one by one, and only an audit with nothing left open closes.    *)
(* Until somebody takes it, an audit may change hands or be deleted.       *)
(*                                                                         *)
(* BomAudit implements this specification (see BomAudit!LifecycleSpec).    *)
(***************************************************************************)
EXTENDS FiniteSets

CONSTANTS
  Audits,       \* audit rows
  Locations,    \* storage bins to be counted
  Lines,        \* material lines, each in one location
  Operators,    \* handheld operators
  LocationsOf,  \* the locations of an audit
  LocationOf,   \* the location of a line
  None          \* no operator

VARIABLES
  phase,    \* status of each audit
  owner,    \* operator an audit is assigned to
  toCount,  \* locations of an audit not counted yet
  open      \* differences of an audit not settled yet

vars == <<phase, owner, toCount, open>>

Init ==
  /\ phase = [a \in Audits |-> "NONE"]
  /\ owner = [a \in Audits |-> None]
  /\ toCount = [a \in Audits |-> LocationsOf[a]]
  /\ open = [a \in Audits |-> {}]

\* A batch of audits comes into being, each with an operator.
Create(B, who) ==
  /\ \A a \in B : phase[a] = "NONE"
  /\ phase' = [a \in Audits |-> IF a \in B THEN "ASSIGNED" ELSE phase[a]]
  /\ owner' = [a \in Audits |-> IF a \in B THEN who[a] ELSE owner[a]]
  /\ UNCHANGED <<toCount, open>>

Reassign(a, o) ==
  /\ phase[a] = "ASSIGNED"
  /\ owner' = [owner EXCEPT ![a] = o]
  /\ UNCHANGED <<phase, toCount, open>>

Delete(a) ==
  /\ phase[a] = "ASSIGNED"
  /\ phase' = [phase EXCEPT ![a] = "DELETED"]
  /\ UNCHANGED <<owner, toCount, open>>

Take(a) ==
  /\ phase[a] = "ASSIGNED"
  /\ phase' = [phase EXCEPT ![a] = "IN_PROGRESS"]
  /\ UNCHANGED <<owner, toCount, open>>

\* Locations S are counted and show the differences D.
Count(a, S, D) ==
  /\ phase[a] = "IN_PROGRESS"
  /\ S # {} /\ S \subseteq toCount[a]
  /\ \A n \in D : LocationOf[n] \in S
  /\ toCount' = [toCount EXCEPT ![a] = @ \ S]
  /\ open' = [open EXCEPT ![a] = @ \cup D]
  /\ phase' = [phase EXCEPT ![a] =
                 IF toCount[a] \ S = {} THEN "RECONCILIATION_PENDING" ELSE @]
  /\ UNCHANGED owner

Settle(a, D) ==
  /\ phase[a] = "RECONCILIATION_PENDING"
  /\ open' = [open EXCEPT ![a] = @ \ D]
  /\ UNCHANGED <<phase, owner, toCount>>

Close(a) ==
  /\ phase[a] = "RECONCILIATION_PENDING"
  /\ open[a] = {}
  /\ phase' = [phase EXCEPT ![a] = "CLOSED"]
  /\ UNCHANGED <<owner, toCount, open>>

Next ==
  \/ \E B \in SUBSET Audits : \E who \in [B -> Operators] : Create(B, who)
  \/ \E a \in Audits :
       \/ \E o \in Operators : Reassign(a, o)
       \/ Delete(a)
       \/ Take(a)
       \/ \E S \in SUBSET Locations, D \in SUBSET Lines : Count(a, S, D)
       \/ \E D \in SUBSET Lines : Settle(a, D)
       \/ Close(a)

Spec == Init /\ [][Next]_vars
=============================================================================
