---------------------------- MODULE MCProbeTree ----------------------------
(* The real blocks; a run chooses the scripts and how many runs there are.    *)
EXTENDS ProbeTree
=============================================================================
