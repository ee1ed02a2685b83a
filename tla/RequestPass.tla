---------------------------- MODULE RequestPass ----------------------------
(***************************************************************************)
(* What one pass of the benchmark owes whoever reads its rows: every       *)
(* prompt is sent once, its row is there exactly when it was answered, and *)
(* a prompt stays unsent only when as many requests failed as the pass     *)
(* keeps in flight.  No queue, no threads, no lock.                        *)
(***************************************************************************)
EXTENDS Integers, FiniteSets

CONSTANTS NumPrompts, MaxConc

VARIABLES
  open,  \* a pass is under way
  conc,  \* requests the pass keeps in flight
  fate,  \* what has become of each prompt in this pass
  rows   \* prompts with a row in what the pass returned, until it is used

vars == <<open, conc, fate, rows>>

Prompts == 1..NumPrompts

With(f) == {p \in Prompts : fate[p] = f}

Init ==
  /\ open = FALSE
  /\ conc \in 1..MaxConc
  /\ fate = [p \in Prompts |-> "todo"]
  /\ rows = {}

Begin ==
  /\ ~open
  /\ open' = TRUE
  /\ conc' \in 1..MaxConc
  /\ rows' = {}
  /\ UNCHANGED fate

Becomes(p, from, to) ==
  /\ open
  /\ fate[p] = from
  /\ fate' = [fate EXCEPT ![p] = to]
  /\ UNCHANGED <<open, conc, rows>>

Issue(p)  == Cardinality(With("issued")) < conc /\ Becomes(p, "todo", "issued")
Answer(p) == Becomes(p, "issued", "answered")
Lose(p)   == Becomes(p, "issued", "lost")

\* The rows are there when the last request has come back.
Close ==
  /\ open
  /\ With("issued") = {}
  /\ With("todo") # {} => Cardinality(With("lost")) >= conc
  /\ open' = FALSE
  /\ rows' = With("answered")
  /\ fate' = [p \in Prompts |-> "todo"]
  /\ UNCHANGED conc

\* The caller is done with the rows.
Use == ~open /\ rows' = {} /\ UNCHANGED <<open, conc, fate>>

\* One request at a time: the exception of the request ends the pass.
Abandon(p) ==
  /\ open
  /\ conc = 1
  /\ fate[p] = "issued"
  /\ fate' = [q \in Prompts |-> "todo"]
  /\ open' = FALSE
  /\ UNCHANGED <<conc, rows>>

Next ==
  \/ Begin
  \/ \E p \in Prompts : Issue(p) \/ Answer(p) \/ Lose(p) \/ Abandon(p)
  \/ Close
  \/ Use

Spec == Init /\ [][Next]_vars
=============================================================================
