------------------------------ MODULE MCRemote -------------------------------
(* Remote with a shelf spelt in two ways, and a shelf on it of the same name.  *)
EXTENDS Remote, TLC

CONSTANTS parts, shelf, Shelf

Names3 == {parts, shelf, Shelf}
MCLower == [n \in Names3 |-> IF n = Shelf THEN shelf ELSE n]
MCCategory == [d \in Definition |-> <<parts>>]
MCPlaces == {<<shelf, shelf>>, <<Shelf>>}
Interchangeable == Permutations(Part) \cup Permutations(Tick)
=============================================================================
