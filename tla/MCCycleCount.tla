---------------------------- MODULE MCCycleCount ----------------------------
(***************************************************************************)
(* Three bins, one of which a filter leaves out, two clerks, two operators, *)
(* two months of at most two numbers, one of them given long ago.          *)
(***************************************************************************)
EXTENDS CycleCount, TLC

CONSTANTS f1

Stock(b, cnc) == [bin |-> b, material |-> TRUE, qty |-> "some", long |-> FALSE, cnc |-> cnc, class |-> None]
MCRowsOf == f1 :> {Stock(1, "yes"), Stock(2, "no"), Stock(3, "yes"),
                   [Stock(3, "no") EXCEPT !.qty = "zero"]}
MCColumnsOf == f1 :> {"cnc"}

MCCriteria == {[cnc |-> "WITH_CNC", classes |-> {"A"}], [cnc |-> "BOTH", classes |-> {"A", "B"}]}

MCSymmetry == Permutations(Clerks) \cup Permutations(Operators)
=============================================================================
