---------------------------- MODULE PPScheduler ----------------------------
(***************************************************************************)
(* The scheduler side of speculative decoding under pipeline parallelism,  *)
(* as the three scheduler patches of src/tools see it: optimistic          *)
(* accounting when a step is scheduled, the rollback when the step is      *)
(* reported up to PP steps later, and the patches that keep a request's    *)
(* next step from being planned against the inflated count:                *)
(*                                                                         *)
(*   "cadence"  sched_cadence_fix.py   decodes PP scheduler steps apart    *)
(*   "anchor"   sched_anchor_fix.py    never more than n - 1 drafts        *)
(*   "gate"     sched_inflight_gate.py no drafts while a step is in flight *)
(*                                                                         *)
(* What the workers answer (how many drafts were accepted) is arbitrary    *)
(* here; module SpecDecodePP composes this module with the workers.        *)
(***************************************************************************)
EXTENDS Integers, Sequences

CONSTANTS
  Reqs,       \* request-state indices of the server
  PP,         \* pipeline_parallel_size, also the size of the batch queue
  K,          \* num_speculative_steps
  PromptLen,  \* prefill length of every request
  MaxLen,     \* max_seq_len: prompt plus max_tokens
  Chunk,      \* most tokens of one request in one step (chunked prefill)
  MaxGen,     \* bound: how many requests use one index, one after another
  Patches     \* which scheduler patches are applied

ASSUME PPSchedulerAssumption ==
  /\ PP \in Nat \ {0}
  /\ K \in Nat \ {0}
  /\ PromptLen \in Nat \ {0}
  /\ MaxLen \in Nat /\ MaxLen > PromptLen
  /\ Chunk \in Nat \ {0}
  /\ MaxGen \in Nat
  /\ Patches \subseteq {"cadence", "anchor", "gate"}

VARIABLES
  status,    \* "running" while the scheduler has a request at the index
  gen,       \* which request occupies the index (0: none yet)
  ntok,      \* num_tokens: prompt plus reported output tokens
  ncomp,     \* num_computed_tokens, booked ahead at schedule time
  inflight,  \* num_in_flight_tokens: scheduled, not yet reported
  spec,      \* len(spec_token_ids)
  wait,      \* next_decode_eligible_step - current_step, floored at 0
  queue      \* batches scheduled and not yet reported, oldest first

schedVars == <<status, gen, ntok, ncomp, inflight, spec, wait, queue>>

MinOf(a, b) == IF a <= b THEN a ELSE b
MaxOf(a, b) == IF a >= b THEN a ELSE b

NoWork == [n |-> 0, d |-> 0, pos |-> 0, gen |-> 0]

----------------------------------------------------------------------------

\* num_tokens_with_spec + num_output_placeholders - num_computed_tokens; the
\* base scheduler keeps no output placeholders.
NumNewTokens(q) == ntok[q] + spec[q] - ncomp[q]

\* The guard that reads next_decode_eligible_step: current_step has advanced by
\* one since wait was brought up to date.
Eligible(q) == wait[q] <= 1

Schedulable(q) ==
  /\ status[q] = "running"
  /\ Eligible(q)
  /\ NumNewTokens(q) > 0

NumScheduled(q) == MinOf(NumNewTokens(q), Chunk)

\* The in-flight gate drops the drafts, not the tokens counted for them.
SpecAfterGate(q) ==
  IF "gate" \in Patches /\ inflight[q] # 0 THEN 0 ELSE spec[q]

\* num_scheduled_spec_tokens, clipped by the anchor fix.
UnclippedSpec(q) == NumScheduled(q) + ncomp[q] - ntok[q]

ClippedSpec(q) ==
  IF "anchor" \in Patches
  THEN MinOf(UnclippedSpec(q), NumScheduled(q) - 1)
  ELSE UnclippedSpec(q)

NumDrafts(q) ==
  IF SpecAfterGate(q) > 0 THEN MaxOf(ClippedSpec(q), 0) ELSE 0

Work(q) ==
  IF Schedulable(q)
  THEN [n |-> NumScheduled(q), d |-> NumDrafts(q), pos |-> ncomp[q], gen |-> gen[q]]
  ELSE NoWork

\* The cadence assignment: PP steps from the step that schedules the request.
NeverArmed == 0

ArmedOneEarly == IF PP > 1 THEN PP - 1 ELSE 0

ArmedOneLate == PP + 1

NextEligible == IF "cadence" \in Patches /\ PP > 1 THEN PP ELSE 0

\* current_step passes: a request that is not scheduled comes one step closer.
Countdown(q) == MaxOf(wait[q] - 1, 0)

WaitAfter(q) == IF Schedulable(q) THEN NextEligible ELSE Countdown(q)

\* One call of Scheduler.schedule and its post-schedule update. A step in which
\* no request is eligible is dispatched too: it is a step of the slot ring.
Schedule ==
  /\ Len(queue) < PP
  /\ \E q \in Reqs : status[q] = "running"
  /\ queue' = Append(queue, [q \in Reqs |-> Work(q)])
  /\ ncomp' = [q \in Reqs |-> ncomp[q] + Work(q).n]
  /\ inflight' = [q \in Reqs |-> inflight[q] + Work(q).n]
  /\ spec' = [q \in Reqs |-> IF Schedulable(q) THEN 0 ELSE spec[q]]
  /\ wait' = [q \in Reqs |-> WaitAfter(q)]
  /\ UNCHANGED <<status, gen, ntok>>

----------------------------------------------------------------------------

\* The entry of a batch still belongs to the request now at the index.
IsLive(q, w) == w.n > 0 /\ status[q] = "running" /\ w.gen = gen[q]

\* The step reached the end of the prompt, so the sampler produced a token.
ProducesSample(w) == w.pos + w.n >= PromptLen

Sampled(q, w) == IsLive(q, w) /\ ProducesSample(w)

TokensAfter(q, w, acc) ==
  IF Sampled(q, w) THEN MinOf(ntok[q] + acc + 1, MaxLen) ELSE ntok[q]

\* num_computed_tokens -= num_rejected
RolledBack(q, w, acc) == IF Sampled(q, w) THEN ncomp[q] - (w.d - acc) ELSE ncomp[q]

\* update_from_output for the oldest batch, then update_draft_token_ids for the
\* requests in drafted. acc[q]: accepted drafts; eos: requests whose new output
\* ends the generation.
Report(acc, eos, drafted) ==
  LET b    == Head(queue)
      left == [q \in Reqs |-> TokensAfter(q, b[q], acc[q])]
      ends == {q \in Reqs : Sampled(q, b[q]) /\ (left[q] = MaxLen \/ q \in eos)}
  IN  /\ queue # <<>>
      /\ queue' = Tail(queue)
      /\ ntok' = left
      /\ inflight' = [q \in Reqs |-> IF IsLive(q, b[q]) THEN inflight[q] - b[q].n
                                     ELSE inflight[q]]
      /\ ncomp' = [q \in Reqs |-> RolledBack(q, b[q], acc[q])]
      /\ status' = [q \in Reqs |-> IF q \in ends THEN "finished" ELSE status[q]]
      /\ spec' = [q \in Reqs |-> IF q \in drafted /\ status'[q] = "running"
                                    /\ ncomp'[q] >= PromptLen
                                 THEN K ELSE spec[q]]
      /\ UNCHANGED <<gen, wait>>

\* A new request takes a free index.
Admit(q) ==
  /\ status[q] = "finished"
  /\ gen[q] < MaxGen
  /\ gen' = [gen EXCEPT ![q] = @ + 1]
  /\ status' = [status EXCEPT ![q] = "running"]
  /\ ntok' = [ntok EXCEPT ![q] = PromptLen]
  /\ ncomp' = [ncomp EXCEPT ![q] = 0]
  /\ inflight' = [inflight EXCEPT ![q] = 0]
  /\ spec' = [spec EXCEPT ![q] = 0]
  /\ wait' = [wait EXCEPT ![q] = 0]
  /\ UNCHANGED queue

\* The client goes away: the request is finished while a step may be in flight.
Abort(q) ==
  /\ status[q] = "running"
  /\ status' = [status EXCEPT ![q] = "finished"]
  /\ UNCHANGED <<gen, ntok, ncomp, inflight, spec, wait, queue>>

----------------------------------------------------------------------------

SchedInit ==
  /\ status = [q \in Reqs |-> "finished"]
  /\ gen = [q \in Reqs |-> 0]
  /\ ntok = [q \in Reqs |-> 0]
  /\ ncomp = [q \in Reqs |-> 0]
  /\ inflight = [q \in Reqs |-> 0]
  /\ spec = [q \in Reqs |-> 0]
  /\ wait = [q \in Reqs |-> 0]
  /\ queue = <<>>

\* The verdict on a batch: at most the drafts it carried are accepted.
Verdicts == {acc \in [Reqs -> 0..K] : \A q \in Reqs : acc[q] <= Head(queue)[q].d}

ReportSome ==
  /\ queue # <<>>
  /\ \E acc \in Verdicts, eos \in SUBSET Reqs, drafted \in SUBSET Reqs :
       Report(acc, eos, drafted)

SchedNext ==
  \/ Schedule
  \/ ReportSome
  \/ \E q \in Reqs : Admit(q)
  \/ \E q \in Reqs : Abort(q)

SchedSpec == SchedInit /\ [][SchedNext]_schedVars

----------------------------------------------------------------------------

BatchEntry == [n : Nat, d : Nat, pos : Nat, gen : Nat]

SchedTypeOK ==
  /\ status \in [Reqs -> {"running", "finished"}]
  /\ gen \in [Reqs -> 0..MaxGen]
  /\ ntok \in [Reqs -> 0..MaxLen]
  /\ ncomp \in [Reqs -> Nat]
  /\ inflight \in [Reqs -> Nat]
  /\ spec \in [Reqs -> {0, K}]
  /\ wait \in [Reqs -> 0..PP]
  /\ queue \in Seq([Reqs -> BatchEntry])
  /\ Len(queue) <= PP

\* A step that carries drafts carries a token before the first draft, so the
\* first of its d + 1 logits rows, query_end - num_logits, is never negative.
AnchorSlot ==
  \A i \in DOMAIN queue, q \in Reqs : queue[i][q].d > 0 => queue[i][q].d < queue[i][q].n

\* After the prompt, a step is exactly the last sampled token and the drafts
\* that hang off it: what PP = 1 does without exception.
DecodeShape ==
  \A i \in DOMAIN queue, q \in Reqs :
     LET w == queue[i][q]
     IN  w.n > 0 /\ w.pos >= PromptLen => w.n = w.d + 1

\* num_computed_tokens - num_in_flight_tokens is the confirmed position: once
\* the prompt is in, every known token but the last sampled one.
ConfirmedPosition ==
  \A q \in Reqs : status[q] = "running" =>
     LET confirmed == ncomp[q] - inflight[q]
     IN  /\ confirmed >= 0
         /\ ntok[q] > PromptLen => confirmed = ntok[q] - 1

\* "a request simply waits for its own previous step": it has at most one step
\* that has not been reported.
OneStepInFlight ==
  \A i, j \in DOMAIN queue, q \in Reqs :
     IsLive(q, queue[i][q]) /\ IsLive(q, queue[j][q]) => i = j

\* A request is scheduled only when its previous step has been reported: what
\* the gate asks for, and what the cadence gives without dropping any draft.
ReportedBeforeScheduled ==
  [][\A q \in Reqs : gen'[q] = gen[q] /\ inflight'[q] > inflight[q]
                        => inflight[q] = 0]_schedVars

\* Every request ends: the cadence never leaves one waiting for ever.
RequestsEnd ==
  \A q \in Reqs : status[q] = "running" ~> status[q] = "finished"
============================================================================
