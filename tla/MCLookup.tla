------------------------------ MODULE MCLookup ------------------------------
(***************************************************************************)
(* An instance of Lookup for TLC.                                          *)
(***************************************************************************)
EXTENDS Lookup
=============================================================================
