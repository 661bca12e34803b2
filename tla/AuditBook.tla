----------------------------- MODULE AuditBook ------------------------------
(***************************************************************************)
(* What the release of cycle count audits promises, without transactions,  *)
(* locks, counters or retries: in one step the plan of a clerk becomes     *)
(* audits, one for each of some operators, under the next numbers of their *)
(* month.  Audits may be withdrawn; their numbers stay given.              *)
(*                                                                         *)
(* CycleCount implements this specification (see CycleCount!BookSpec).     *)
(***************************************************************************)
EXTENDS Naturals

CONSTANTS
  Clerks,     \* who plans and releases
  Bins,       \* storage bins
  Operators,  \* who counts
  Old         \* the audits from before the book was begun

VARIABLES
  plan,    \* the bins each clerk is about to release
  audits,  \* audits in force
  given    \* numbers of released audits, in force or withdrawn

bookVars == <<plan, audits, given>>

NumbersIn(S) == {a.no : a \in S}

BookInit ==
  /\ plan = [k \in Clerks |-> {}]
  /\ audits = Old
  /\ given = {}

Choose(k, S) ==
  /\ plan[k] = {} /\ S # {}
  /\ plan' = [plan EXCEPT ![k] = S]
  /\ UNCHANGED <<audits, given>>

Drop(k) ==
  /\ plan[k] # {}
  /\ plan' = [plan EXCEPT ![k] = {}]
  /\ UNCHANGED <<audits, given>>

\* All bins of a plan and no other, each in one audit, each audit with an operator of its own.
SharedOut(new, S) ==
  /\ S = UNION {a.bins : a \in new}
  /\ \A a \in new : a.operator \in Operators /\ a.bins # {}
  /\ \A a, b \in new : a # b => a.operator # b.operator /\ a.bins \cap b.bins = {}

\* The numbers are later than all that were given or are in force in their month, leave
\* none out, and no two audits share one.
NextInOrder(new) ==
  /\ \A a \in new, used \in given \cup NumbersIn(audits) :
       used[1] = a.no[1] => used[2] < a.no[2]
  /\ \A a \in new : \A n \in 1..a.no[2] :
       <<a.no[1], n>> \in given \cup NumbersIn(Old) \cup NumbersIn(new)
  /\ \A a, b \in new : a # b => a.no # b.no

\* The clerk may not hear of it, and then still has the plan.
Release(k) ==
  LET new == audits' \ audits IN
  /\ audits \subseteq audits' /\ new # {}
  /\ SharedOut(new, plan[k]) /\ NextInOrder(new)
  /\ given' = given \cup NumbersIn(new)
  /\ plan' \in {plan, [plan EXCEPT ![k] = {}]}

Withdraw(a) ==
  /\ audits' = audits \ {a}
  /\ UNCHANGED <<plan, given>>

BookNext ==
  \/ \E k \in Clerks : (\E S \in SUBSET Bins : Choose(k, S)) \/ Drop(k) \/ Release(k)
  \/ \E a \in audits : Withdraw(a)

BookSpec == BookInit /\ [][BookNext]_bookVars
=============================================================================
