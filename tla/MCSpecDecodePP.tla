--------------------------- MODULE MCSpecDecodePP ---------------------------
(* Small instances of SpecDecodePP. *)
EXTENDS SpecDecodePP
============================================================================
