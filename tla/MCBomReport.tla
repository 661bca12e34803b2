---------------------------- MODULE MCBomReport -----------------------------
(***************************************************************************)
(* One audit of two locations and one line, two faults, three attempts.    *)
(***************************************************************************)
EXTENDS BomReport, TLC

CONSTANTS a1, L1, L2, n1

MCLocationsOf == a1 :> {L1, L2}
MCLocationOf == n1 :> L1
=============================================================================
