---------------------------- MODULE MCMasterData ----------------------------
(***************************************************************************)
(* Every table, with two names, one of them in two spellings, and sheets   *)
(* that add, rename, repeat a name and rename a row away from a name that  *)
(* they add.                                                               *)
(***************************************************************************)
EXTENDS MasterData, TLC

CONSTANTS A, a, B

MCKinds == DOMAIN Tables
MCWordOf == A :> A @@ a :> A @@ B :> B

Line(id, name) == [id |-> id, name |-> name]
MCFiles ==
  {<<Line(None, a), Line(None, B)>>, <<Line(None, a), Line(1, A)>>, <<Line(None, A), Line(1, B)>>,
   <<Line(1, B), Line(None, A)>>, <<Line(1, A), Line(None, B)>>, <<Line(1, A), Line(2, B)>>}
=============================================================================
