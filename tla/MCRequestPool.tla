---------------------------- MODULE MCRequestPool ----------------------------
(***************************************************************************)
(* TLC instances of RequestPool.                                           *)
(***************************************************************************)
EXTENDS RequestPool, TLC

Symmetry == Permutations(Requests) \cup Permutations(Tokens)
=============================================================================
