----------------------------- MODULE MCBomAudit -----------------------------
(***************************************************************************)
(* One audit of two locations: L1 holds an expected line, L2 an expected   *)
(* line and one that may turn up unexpectedly.  The payloads are chosen so *)
(* that each line status arises, submissions overlap, one leaves out an    *)
(* expected line and one is empty.                                         *)
(***************************************************************************)
EXTENDS BomAudit, TLC

CONSTANTS a1, L1, L2, e1, e2, u2, t1, t2

MCLocationsOf == a1 :> {L1, L2}
MCLocationOf == e1 :> L1 @@ e2 :> L2 @@ u2 :> L2
MCExpectedQty == e1 :> 1 @@ e2 :> 2

Body(t, ls, q) == [startedAt |-> t, locs |-> ls, qty |-> q]
MCPayloads == {
  Body(t1, {L1}, e1 :> 1),                       \* L1 as expected
  Body(t1, {L2}, e2 :> 2 @@ u2 :> 1),            \* L2 and something extra
  Body(t2, {L1, L2}, e1 :> 0 @@ e2 :> 1),        \* both, missing and short
  Body(t2, {L1, L2}, e1 :> 1 @@ e2 :> 2 @@ u2 :> 0), \* both, all valid
  Body(t1, {L2}, u2 :> 1),                       \* leaves out e2: refused
  Body(t1, {}, <<>>) }                           \* nothing to submit
=============================================================================
