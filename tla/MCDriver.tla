------------------------------ MODULE MCDriver ------------------------------
(* Small instances of Driver.  The two groups of calls are interchangeable  *)
(* within themselves.                                                       *)
EXTENDS Driver, TLC

CallSymmetry == Permutations(SessionCalls) \cup Permutations(HandleCalls)
=============================================================================
