-------------------------- MODULE MCStatementCache --------------------------
(* StatementCache with small sets of handles and keys.                      *)
EXTENDS StatementCache, TLC

(* Handles are interchangeable, and so are keys.                            *)
CacheSymmetry == Permutations(Handles) \cup Permutations(Keys)
=============================================================================
