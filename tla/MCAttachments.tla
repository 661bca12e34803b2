--------------------------- MODULE MCAttachments ----------------------------
(***************************************************************************)
(* One owner of every kind and one name, so that every upload to a folder  *)
(* meets the files that are there; two requests at a time, three in all.   *)
(* The ERP material files are those of an order without an OBD, in whose   *)
(* folder the handhelds' files are.                                        *)
(***************************************************************************)
EXTENDS Attachments, TLC

CONSTANTS s1, e1, h1, d1, g1, p1

MCKindOf == s1 :> "sales" @@ e1 :> "erp" @@ h1 :> "field" @@ d1 :> "dispatch"
              @@ g1 :> "gate" @@ p1 :> "place"

MCInside == [o \in Owners |-> IF o = e1 THEN {e1, h1} ELSE {o}]

MCSymmetry == Permutations(Clerks)
=============================================================================
