--------------------------- MODULE MCSplitDecode ---------------------------
(* Two sequences on interleaved, shuffled pages of a common cache, whose     *)
(* slots have the real row layout.                                           *)
EXTENDS PackedRow

TwoPages == [s \in 0..1 |-> IF s = 0 THEN <<2, 0, 5>> ELSE <<1, 4, 3>>]
=============================================================================
