------------------------------ MODULE MCScopes ------------------------------
(***************************************************************************)
(* Small instances of module Scopes; the constants are in the .cfg files.  *)
(***************************************************************************)
EXTENDS Scopes
=============================================================================
