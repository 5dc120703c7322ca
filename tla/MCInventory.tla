---------------------------- MODULE MCInventory -----------------------------
(***************************************************************************)
(* A small instance of Inventory: a printed label, a manufacturer's barcode  *)
(* in two spellings that SQL and scanLookupCompactKey both know for one, two *)
(* items, and part types of each kind and one to merge.                      *)
(***************************************************************************)
EXTENDS Inventory, TLC

CONSTANTS printed, barcode, spelling, pcs, box, bag

\* The barcodes as QR-1001 and qr_1001, whose keys are both qr1001.
MCScanKey(c) == IF c = printed THEN "printed" ELSE "barcode"
MCStoredKey(c) == MCScanKey(c)

MCCode == {printed, barcode, spelling}
MCBatch == {{printed}}
MCPartType == {pcs, box, bag}
MCCountable == {pcs}

Symmetry == Permutations(Item) \cup Permutations(Place) \cup Permutations({box, bag})
                \cup Permutations({barcode, spelling})

=============================================================================
