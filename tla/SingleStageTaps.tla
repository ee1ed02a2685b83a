-------------------------- MODULE SingleStageTaps --------------------------
(***************************************************************************)
(* What the draft model is promised: for every batch, in the order they    *)
(* are sent, the auxiliary hidden states the target collects when it runs  *)
(* on a single stage (PP = 1).                                             *)
(***************************************************************************)
EXTENDS Integers, Sequences

CONSTANTS
  NumLayers, MaxBatches,
  TapsOf(_, _)   \* the list collected for a batch from a set of tapped layers

VARIABLES
  aux,        \* aux_hidden_state_layers: 1-based ids, L taps the output of layer L - 1
  delivered   \* aux_hidden_states handed to the draft, one list per batch

vars == <<aux, delivered>>

Init == aux \in SUBSET (1..NumLayers) /\ delivered = <<>>

Forward ==
  /\ Len(delivered) < MaxBatches
  /\ delivered' = Append(delivered, TapsOf(Len(delivered) + 1, aux))
  /\ UNCHANGED aux

Spec == Init /\ [][Forward]_vars
============================================================================
