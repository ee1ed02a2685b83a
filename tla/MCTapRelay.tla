----------------------------- MODULE MCTapRelay -----------------------------
(* Small instances of TapRelay: every split of the layers over the stages and *)
(* every set of tapped layers.                                               *)
EXTENDS TapRelay
=============================================================================
