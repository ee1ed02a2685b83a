--------------------------- MODULE MCExpertSlice ---------------------------
(* Three shards: one with text, router and an expert, one with only an expert *)
(* a smaller slice drops, one with an expert and vision tensors.              *)
EXTENDS ExpertSlice

Tensor(part, id) == [part |-> part, id |-> id]

MCTensors ==
  {Tensor("text", 0), Tensor("router", 0), Tensor("vision", 0)} \cup
  {Tensor("expert", e) : e \in 0..2}

MCHolds ==
  <<{Tensor("text", 0), Tensor("router", 0), Tensor("expert", 0)},
    {Tensor("expert", 1)},
    {Tensor("expert", 2), Tensor("vision", 0)}>>

Args(n, lo, hi) == [experts |-> n, lo |-> lo, hi |-> hi]

\* Slices of one and two experts, whole or the upper shards only.
AllArgs == {Args(n, lo, 3) : n \in {1, 2}, lo \in {1, 2}}
OneCut  == {Args(2, 1, 3), Args(2, 2, 3)}
============================================================================
