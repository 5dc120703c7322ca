----------------------------- MODULE MCLotSync ------------------------------
(* LotSync with small constants.  Part types, and items, are interchangeable   *)
(* as long as nothing is backfilled: a backfill goes through them in an order. *)
EXTENDS LotSync, TLC

PartSymmetry == Permutations(PartTarget)
ItemSymmetry == Permutations(LotTarget)
=============================================================================
