-------------------------- MODULE MCStageTracking ---------------------------
(***************************************************************************)
(* An order with two rows of one code and one group, so that a scan moves  *)
(* on to the second row when the first is full.                            *)
(***************************************************************************)
EXTENDS StageTracking, TLC

CONSTANTS o1, c1, g1

MCOrderOf == 1 :> o1 @@ 2 :> o1
MCCodeOf == 1 :> c1 @@ 2 :> c1
MCGroupOf == 1 :> g1 @@ 2 :> g1
MCRequired == 1 :> 1 @@ 2 :> 1
MCQuantities == -1..1
MCMeasured == {<<o1, "Issue">>}
Symmetry == Permutations(Requests)
=============================================================================
