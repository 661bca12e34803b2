---------------------------- MODULE MCErpImport -----------------------------
(***************************************************************************)
(* Two orders of one number with one of two OBDs each or none, and two     *)
(* files under the name of the first OBD; one of them has the second OBD   *)
(* inside, and its customer has no address.                                *)
(***************************************************************************)
EXTENDS ErpImport, TLC

CONSTANTS o1, o2, n1, d1, d2, f1, f2, c1, a1

MCNumberOf == o1 :> n1 @@ o2 :> n1
MCNameOf == f1 :> <<n1, d1>> @@ f2 :> <<n1, d1>>
MCSaysOf == f1 :> <<n1, d1>> @@ f2 :> <<n1, d2>>
MCCustomerOf == f1 :> <<c1, a1>> @@ f2 :> <<c1, None>>
=============================================================================
