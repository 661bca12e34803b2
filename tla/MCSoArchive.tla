---------------------------- MODULE MCSoArchive -----------------------------
(***************************************************************************)
(* Two orders of their own numbers, two dispatches, two entries of one     *)
(* vehicle (of two days, or entered twice).                                *)
(***************************************************************************)
EXTENDS SoArchive, TLC

CONSTANTS o1, o2, n1, n2, v1

MCVehicleOf == 1 :> v1 @@ 2 :> v1
MCNumberOf == o1 :> n1 @@ o2 :> n2
=============================================================================
