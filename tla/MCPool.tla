------------------------------- MODULE MCPool -------------------------------
(* Pool with small sets of calls and connections.                           *)
EXTENDS Pool, TLC

(* Calls are interchangeable, and so are connections.                       *)
PoolSymmetry == Permutations(Tasks) \cup Permutations(Conns)
=============================================================================
