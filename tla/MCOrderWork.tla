---------------------------- MODULE MCOrderWork -----------------------------
(***************************************************************************)
(* Three orders: o1 with two materials of one code; and beside it a new    *)
(* one, either o2 of the same number, without an OBD, with o1 at every     *)
(* stage, or o3 of another number, whose user can have materials of o1 on  *)
(* the handheld.  Two requests of any kind overlap.                        *)
(***************************************************************************)
EXTENDS OrderWork, TLC

CONSTANTS o1, o2, o3, n1, n2, m1, m2, a1, u1

MCNumberOf == o1 :> n1 @@ o2 :> n1 @@ o3 :> n2
MCOrderOf == m1 :> o1 @@ m2 :> o1
MCCodeOf == m1 :> a1 @@ m2 :> a1

Imported == [NewOrder EXCEPT !.imported = TRUE]
Packing == [Imported EXCEPT !.status = "W105", !.packer = u1, !.assigned = u1]
StageRows ==
  {[Imported EXCEPT !.status = "R105", !.issuer = u1], Packing,
   [Imported EXCEPT !.status = "F105", !.stored = TRUE, !.packer = u1],
   [Imported EXCEPT !.status = "Dispatched", !.issuer = u1, !.assigned = u1]}
NewRow == [NewOrder EXCEPT !.issuer = u1]

MCInitialRows == {o1 :> r @@ o2 :> NewRow @@ o3 :> None : r \in StageRows}
                   \cup {o1 :> Packing @@ o2 :> None @@ o3 :> NewRow}

MCSymmetry == Permutations(Clerks) \cup Permutations(Materials)
=============================================================================
