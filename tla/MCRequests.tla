----------------------------- MODULE MCRequests -----------------------------
(***************************************************************************)
(* A small instance of Requests: two sign-ins and three mutations.          *)
(***************************************************************************)
EXTENDS Requests, TLC

Symmetry == Permutations(Request) \cup Permutations(Session) \cup Permutations(Tab)

=============================================================================
