------------------------------- MODULE Results -------------------------------
(***************************************************************************)
(* The Result of the source: a success with its value, an error, or the    *)
(* panic of an `expect' that does not hold.                                *)
(***************************************************************************)
Ok(v)    == [ok |-> TRUE, v |-> v]
Err      == [ok |-> FALSE, panics |-> FALSE]
Panic    == [ok |-> FALSE, panics |-> TRUE]
Map(r, F(_)) == IF r.ok THEN Ok(F(r.v)) ELSE r
==============================================================================
