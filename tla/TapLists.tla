------------------------------ MODULE TapLists ------------------------------
(***************************************************************************)
(* The list of auxiliary hidden states a run on a single stage collects:   *)
(* its one loop over the layers meets the tapped ones in layer order.      *)
(***************************************************************************)
EXTENDS Integers, Sequences, FiniteSets

Tap(b, L) == [batch |-> b, layer |-> L]

The(A) == CHOOSE x \in A : TRUE

Rank(S, L) == Cardinality({M \in S : M <= L})

\* The taps of the layers of S for batch b: the i-th is of the i-th layer of S.
TapsOf(b, S) ==
  [i \in 1..Cardinality(S) |-> Tap(b, The({L \in S : Rank(S, L) = i}))]
=============================================================================
