---------------------------- MODULE GreedyDecode ----------------------------
(***************************************************************************)
(* What a server promises under greedy sampling, whatever it speculates:   *)
(* each request's output grows by the target model's own next tokens and   *)
(* by nothing else.  Speculation may only make it grow faster.             *)
(***************************************************************************)
EXTENDS Integers, Sequences

CONSTANTS Reqs, K, PromptLen, MaxLen, MaxGen

VARIABLES status, gen, out

vars == <<status, gen, out>>

\* The token greedy decoding puts at a position of the g-th request at an index.
Token(q, g, pos) == <<q, g, pos>>

\* The first n output tokens of the g-th request at an index.
GreedyOutput(q, g, n) == [i \in 1..n |-> Token(q, g, PromptLen + i - 1)]

Room == MaxLen - PromptLen

Init ==
  /\ status = [q \in Reqs |-> "finished"]
  /\ gen = [q \in Reqs |-> 0]
  /\ out = [q \in Reqs |-> <<>>]

Start(q) ==
  /\ status[q] = "finished"
  /\ gen[q] < MaxGen
  /\ status' = [status EXCEPT ![q] = "running"]
  /\ gen' = [gen EXCEPT ![q] = @ + 1]
  /\ out' = [out EXCEPT ![q] = <<>>]

\* One step of the server: every running request in it gains up to K + 1
\* tokens; one that has no room left ends, another may end.
Emit ==
  \E grow \in [Reqs -> 0..(K + 1)], ends \in SUBSET Reqs :
    /\ \A q \in Reqs : grow[q] > 0 \/ q \in ends => status[q] = "running"
    /\ \A q \in Reqs : grow[q] > 0 /\ Len(out[q]) + grow[q] >= Room => q \in ends
    /\ \A q \in Reqs : Len(out[q]) + grow[q] <= Room
    /\ out' = [q \in Reqs |->
                 IF grow[q] = 0 THEN out[q]
                 ELSE GreedyOutput(q, gen[q], Len(out[q]) + grow[q])]
    /\ status' = [q \in Reqs |-> IF q \in ends THEN "finished" ELSE status[q]]
    /\ UNCHANGED gen

Next == Emit \/ \E q \in Reqs : Start(q)

Spec == Init /\ [][Next]_vars
============================================================================
