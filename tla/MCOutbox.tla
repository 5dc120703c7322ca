------------------------------ MODULE MCOutbox ------------------------------
(* Outbox with small constants; the ticks of the worker are interchangeable.  *)
EXTENDS Outbox, TLC

TickSymmetry == Permutations(Tick)
=============================================================================
