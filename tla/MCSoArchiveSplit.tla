-------------------------- MODULE MCSoArchiveSplit --------------------------
(***************************************************************************)
(* Two orders of one number, which differ in their outbound delivery.      *)
(***************************************************************************)
EXTENDS SoArchive, TLC

CONSTANTS o1, o2, n1, v1

MCVehicleOf == 1 :> v1
MCNumberOf == o1 :> n1 @@ o2 :> n1
=============================================================================
