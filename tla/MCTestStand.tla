---------------------------- MODULE MCTestStand ----------------------------
(* Pipelines of one and three stages, slices of four and five layers.       *)
EXTENDS TestStand
=============================================================================
