---------------------------- MODULE SpecDecodePP ----------------------------
(***************************************************************************)
(* Speculative decoding over PP pipeline ranks with the patches of         *)
(* src/tools applied: the scheduler of module PPScheduler, the ranks that  *)
(* execute its batches in order, and the deferred relay that carries the   *)
(* sampled token and the next drafts from the last rank back to the others *)
(* (specdec_pp_relay.py), padded to one width (dspark_pp_patch.py, A7).    *)
(*                                                                         *)
(* Token(q, g, p) is the token greedy decoding puts at position p of the   *)
(* g-th request at index q, different for different requests; TokenZero is *)
(* token id 0, an unset entry of req_states; Wrong is any other token.     *)
(***************************************************************************)
EXTENDS PPScheduler, FiniteSets

Seqs == INSTANCE SequencesExt

\* req_states has a fixed number of rows, and there is a relay only where there
\* is another rank to relay to (use_pp).
ASSUME SpecDecodeAssumption == IsFiniteSet(Reqs) /\ PP > 1

VARIABLES
  out,      \* output tokens the server has reported for the request
  work,     \* work[r]: batches sent to rank r and not executed yet
  hidden,   \* hidden[r]: activations on the way from rank r - 1 to rank r
  state,    \* state[r][q]: req_states of rank r
  ring,     \* ring[r]: the deferred slots of rank r, oldest first
  relay,    \* relay[r]: broadcasts that arrived at rank r, oldest first
  cached,   \* positions whose KV entries come from the right tokens
  results,  \* what the last rank sampled for the batches in the queue
  drafted,  \* requests whose drafts draft_tokens_handler holds
  buffer,   \* the speculator's persistent output: a row per request of a batch
  sending   \* broadcasts queued on the last rank's side stream, oldest first

workerVars ==
  <<work, hidden, state, ring, relay, cached, results, drafted, buffer, sending>>
vars == <<schedVars, out, workerVars>>

Ranks == 0..(PP - 1)
Last  == PP - 1

\* The server a client sees: requests and their output, no ranks and no drafts.
Greedy == INSTANCE GreedyDecode WITH status <- status, gen <- gen, out <- out
Token(q, g, pos) == Greedy!Token(q, g, pos)
TokenZero == <<0, 0, 0>>
Wrong     == <<0, 0, 1>>
NoDrafts  == [j \in 1..K |-> TokenZero]

MaxSampleLen == K + 1

----------------------------------------------------------------------------
(* The ranks' view of a batch.                                             *)

InBatch(b) == {q \in Reqs : b[q].n > 0}

\* compute_need_sampled_mask: rows that produce a sample another step will read.
NeedSampled(b, slack) ==
  {q \in InBatch(b) : /\ ProducesSample(b[q])
                      /\ MaxOf(b[q].pos, PromptLen) + 1 < MaxLen + slack}

\* Rows of new requests start from an empty state.
Added(st, b) ==
  [q \in Reqs |->
     IF b[q].n > 0 /\ b[q].gen # st[q].gen
     THEN [gen |-> b[q].gen, comp |-> 0, last |-> TokenZero, draft |-> NoDrafts]
     ELSE st[q]]

\* get_prev_sampled_outputs: the row a slot's q-th entry belongs to now, or no
\* row at all (index -1) when the request it was received for is gone. An index
\* of -1 used unmasked wraps to the last row.
RowUnmasked(st, slot, q) ==
  IF q \in slot.mask /\ slot.gen[q] = st[q].gen THEN {q} ELSE {CHOOSE x \in Reqs : TRUE}

RowOf(st, slot, q) ==
  IF q \in slot.mask /\ slot.gen[q] = st[q].gen THEN {q} ELSE {}

\* Without V4 the drafts never leave the rank that proposed them.
AppliedNoDrafts(st, slot, pay) ==
  [q \in Reqs |->
     IF RowOf(st, slot, q) = {} THEN st[q]
     ELSE [st[q] EXCEPT !.last = pay.row[q].last, !.comp = @ - pay.row[q].rejected]]

\* postprocess_sampled on a rank that is not the last: sampled token, rollback,
\* and (V4) the drafts, for the rows that still exist.
Applied(st, slot, pay) ==
  [q \in Reqs |->
     LET from == {p \in slot.mask : q \in RowOf(st, slot, p)}
         row  == pay.row[CHOOSE p \in from : TRUE]
     IN  IF from = {} THEN st[q]
         ELSE [st[q] EXCEPT !.last = row.last, !.comp = @ - row.rejected, !.draft = row.draft]]

\* combine_sampled_and_draft_tokens: the token at the j-th row of a step.
InputToken(q, w, s, j) ==
  LET p == s.comp + j - 1
  IN  CASE p < PromptLen   -> Token(q, s.gen, p)
        [] p >= PromptLen /\ j = w.n - w.d -> s.last
        [] p >= PromptLen /\ j > w.n - w.d -> s.draft[j - (w.n - w.d)]
        [] OTHER -> TokenZero

InputOf(q, w, s) ==
  [pos |-> s.comp, toks |-> [j \in 1..w.n |-> InputToken(q, w, s, j)]]

NoInput == [pos |-> 0, toks |-> <<>>]

\* A stage computes at its own idea of the positions: when it differs from the
\* sender's, nothing it computes is what the model would compute.
Staged(m, w, s) ==
  IF m.pos = s.comp THEN m ELSE [m EXCEPT !.toks = [j \in 1..w.n |-> Wrong]]

Advanced(st, b) ==
  [q \in Reqs |-> IF b[q].n > 0 THEN [st[q] EXCEPT !.comp = @ + b[q].n] ELSE st[q]]

----------------------------------------------------------------------------
(* Ranks 0 .. PP - 2.                                                      *)

Skipped == [posted |-> FALSE, mask |-> {}, gen |-> [q \in Reqs |-> 0]]

\* receive(): post the broadcast and stash its slot, unless no row needs it.
Receive(b, st) ==
  LET mask == NeedSampled(b, K)
  IN  IF mask = {} THEN Skipped
      ELSE [posted |-> TRUE, mask |-> mask, gen |-> [q \in Reqs |-> st[q].gen]]

RingFull(r) == Len(ring[r]) = PP

\* The slot read now is of a broadcast that was posted.
SlotDue(r) == RingFull(r) /\ Head(ring[r]).posted

\* A broadcast completes only when sender and receiver agree on its shape.
Delivered(r) == relay[r] # <<>> /\ Head(relay[r]).width = MaxSampleLen

Execute(r) ==
  /\ r < Last
  /\ work[r] # <<>>
  /\ r > 0 => hidden[r] # <<>>
  /\ SlotDue(r) => Delivered(r)
  /\ LET b  == Head(work[r])
         s1 == Added(state[r], b)
         s2 == IF SlotDue(r) THEN Applied(s1, Head(ring[r]), Head(relay[r])) ELSE s1
         in == [q \in Reqs |->
                  IF b[q].n = 0 THEN NoInput
                  ELSE IF r = 0 THEN InputOf(q, b[q], s2[q])
                  ELSE Staged(Head(hidden[r])[q], b[q], s2[q])]
     IN  /\ work' = [work EXCEPT ![r] = Tail(@)]
         /\ hidden' = [x \in Ranks |->
                         CASE x = r + 1        -> Append(hidden[x], in)
                           [] x = r /\ r > 0   -> Tail(hidden[x])
                           [] OTHER            -> hidden[x]]
         /\ state' = [state EXCEPT ![r] = Advanced(s2, b)]
         /\ ring' = [ring EXCEPT ![r] =
                       Append(IF RingFull(r) THEN Tail(@) ELSE @, Receive(b, s2))]
         /\ relay' = IF SlotDue(r) THEN [relay EXCEPT ![r] = Tail(@)] ELSE relay
  /\ UNCHANGED <<schedVars, out, cached, results, drafted, buffer, sending>>

----------------------------------------------------------------------------
(* The last rank.                                                          *)

\* Length of the longest prefix of toks that is right from position pos on.
RightPrefix(q, g, pos, toks) ==
  CHOOSE n \in 0..Len(toks) :
    /\ \A j \in 1..n : toks[j] = Token(q, g, pos + j - 1)
    /\ n < Len(toks) => toks[n + 1] # Token(q, g, pos + n)

\* KV entries are right up to here once the step has run.
CachedAfter(q, m, w, s) ==
  LET before == IF w.gen = state[Last][q].gen THEN cached[q] ELSE 0
  IN  IF m.pos <= before THEN m.pos + RightPrefix(q, s.gen, m.pos, m.toks) ELSE before

\* The target's choice at the j-th logits row (rows end at the last token).
Target(q, w, s, right, j) ==
  LET p == s.comp + (w.n - w.d) + (j - 1)
  IN  IF right >= p THEN Token(q, s.gen, p) ELSE Wrong

\* num_sampled, which counts the token after the accepted drafts as well.
SampledCount(q, w, s, right) ==
  1 + CHOOSE m \in 0..w.d :
        /\ \A j \in 1..m : s.draft[j] = Target(q, w, s, right, j)
        /\ m < w.d => s.draft[m + 1] # Target(q, w, s, right, m + 1)

\* Rejection sampling under greedy: the longest prefix of this rank's own drafts
\* that agrees with the target.
Accepted(q, w, s, right) ==
  CHOOSE m \in 0..w.d :
    /\ \A j \in 1..m : s.draft[j] = Target(q, w, s, right, j)
    /\ m < w.d => s.draft[m + 1] # Target(q, w, s, right, m + 1)

\* propose(): the first h drafts are what the target would say, the others not.
Proposal(q, g, anchorPos, h) ==
  [j \in 1..K |-> IF j <= h THEN Token(q, g, anchorPos + j) ELSE Wrong]

\* sample, postprocess_sampled and propose for one row.
SampleRow(q, w, s, m, h) ==
  LET in    == Staged(m, w, s)
      right == CachedAfter(q, in, w, s)
      acc   == Accepted(q, w, s, right)
      toks  == [j \in 1..(acc + 1) |-> Target(q, w, s, right, j)]
      comp  == s.comp + w.n - (w.d - acc)
  IN  IF ~ProducesSample(w)
      THEN [acc |-> 0, toks |-> <<>>, right |-> right,
            state |-> [s EXCEPT !.comp = @ + w.n]]
      ELSE [acc |-> acc, toks |-> toks, right |-> right,
            state |-> [s EXCEPT !.comp = comp, !.last = toks[acc + 1],
                                !.draft = Proposal(q, s.gen, comp, h)]]

\* The width the sampler produced, padded by A7 to what receivers allocate.
SampledWidth(b) == IF \A q \in Reqs : b[q].d = 0 THEN 1 ELSE MaxSampleLen
PaddedWidth(b) == MaxOf(SampledWidth(b), MaxSampleLen)

\* The row of a batch a request has in the speculator's buffer.
RowIn(b) == Seqs!SetToSeq(InBatch(b))

\* broadcast(), issued below propose() (V5): this step's sampled tokens and a
\* gather of the drafts for the next one, sent under the receivers' own
\* predicate (V6d).
Payload(b, rows) ==
  [width |-> PaddedWidth(b),
   order |-> RowIn(b),
   row   |-> [q \in Reqs |->
                [last     |-> rows[q].state.last,
                 rejected |-> IF b[q].n > 0 /\ ProducesSample(b[q])
                              THEN b[q].d - rows[q].acc ELSE 0,
                 draft    |-> rows[q].state.draft]]]

SendsWhenDrafted(b) == NeedSampled(b, K) # {} /\ \E q \in Reqs : b[q].d > 0

SendsRelay(b) == NeedSampled(b, K) # {}

ExecuteLast(h) ==
  /\ work[Last] # <<>>
  /\ hidden[Last] # <<>>
  /\ LET b    == Head(work[Last])
         st   == Added(state[Last], b)
         rows == [q \in Reqs |->
                    IF b[q].n > 0
                    THEN SampleRow(q, b[q], st[q], Head(hidden[Last])[q], h[q])
                    ELSE [acc |-> 0, toks |-> <<>>, right |-> cached[q], state |-> st[q]]]
     IN  /\ work' = [work EXCEPT ![Last] = Tail(@)]
         /\ hidden' = [hidden EXCEPT ![Last] = Tail(@)]
         /\ state' = [state EXCEPT ![Last] = [q \in Reqs |-> rows[q].state]]
         /\ cached' = [q \in Reqs |-> rows[q].right]
         /\ sending' = IF SendsRelay(b) THEN Append(sending, Payload(b, rows)) ELSE sending
         /\ buffer' = [i \in DOMAIN RowIn(b) |-> rows[RowIn(b)[i]].state.draft]
         /\ results' = Append(results, [q \in Reqs |-> [acc |-> rows[q].acc, toks |-> rows[q].toks]])
         /\ drafted' = IF InBatch(b) # {} THEN InBatch(b) ELSE drafted
  /\ UNCHANGED <<schedVars, out, ring, relay>>

\* propose()'s view of the buffer, read when the side stream gets to it: the
\* next step may have written other requests' drafts into the same rows.
AliasedDrafts(p, q) ==
  LET at == {i \in DOMAIN p.order : p.order[i] = q /\ i \in DOMAIN buffer}
  IN  IF at = {} THEN p.row[q].draft ELSE buffer[CHOOSE i \in at : TRUE]

\* The fresh gather V5b hands over: nothing writes to it again.
DraftsRead(p, q) == p.row[q].draft

\* The side stream of the last rank carries out its oldest broadcast (V2b).
Broadcast ==
  /\ sending # <<>>
  /\ LET p   == Head(sending)
         msg == [width |-> p.width,
                 row |-> [q \in Reqs |-> [p.row[q] EXCEPT !.draft = DraftsRead(p, q)]]]
     IN  relay' = [r \in Ranks |-> IF r < Last THEN Append(relay[r], msg) ELSE relay[r]]
  /\ sending' = Tail(sending)
  /\ UNCHANGED <<schedVars, out, work, hidden, state, ring, cached, results, drafted, buffer>>

----------------------------------------------------------------------------
(* The engine.                                                             *)

EngineSchedule ==
  /\ Schedule
  /\ work' = [r \in Ranks |-> Append(work[r], queue'[Len(queue')])]
  /\ UNCHANGED <<out, hidden, state, ring, relay, cached, results, drafted, buffer, sending>>

\* update_from_output with what the last rank sampled, then post_step, which
\* takes the drafts the handler holds now: those of the latest executed batch.
EngineReport(eos) ==
  /\ results # <<>>
  /\ LET res == Head(results)
         b   == Head(queue)
     IN  /\ Report([q \in Reqs |-> res[q].acc], eos, drafted)
         /\ out' = [q \in Reqs |->
                      IF Sampled(q, b[q])
                      THEN SubSeq(out[q] \o res[q].toks, 1, ntok'[q] - PromptLen)
                      ELSE out[q]]
  /\ results' = Tail(results)
  /\ drafted' = {}
  /\ UNCHANGED <<work, hidden, state, ring, relay, cached, buffer, sending>>

EngineAdmit(q) ==
  /\ Admit(q)
  /\ out' = [out EXCEPT ![q] = <<>>]
  /\ UNCHANGED workerVars

EngineAbort(q) ==
  /\ Abort(q)
  /\ UNCHANGED <<out, workerVars>>

----------------------------------------------------------------------------

FreshState == [gen |-> 0, comp |-> 0, last |-> TokenZero, draft |-> NoDrafts]

Init ==
  /\ SchedInit
  /\ out = [q \in Reqs |-> <<>>]
  /\ work = [r \in Ranks |-> <<>>]
  /\ hidden = [r \in Ranks |-> <<>>]
  /\ state = [r \in Ranks |-> [q \in Reqs |-> FreshState]]
  /\ ring = [r \in Ranks |-> <<>>]
  /\ relay = [r \in Ranks |-> <<>>]
  /\ cached = [q \in Reqs |-> 0]
  /\ results = <<>>
  /\ drafted = {}
  /\ buffer = <<>>
  /\ sending = <<>>

\* How good each proposal is (only rows that are sampled have a choice).
Luck == IF work[Last] = <<>> THEN {}
        ELSE {h \in [Reqs -> 0..K] : \A q \in Reqs : Head(work[Last])[q].n = 0 => h[q] = 0}

\* Requests whose new output ends the generation.
MayEnd == IF queue = <<>> THEN {} ELSE SUBSET {q \in Reqs : Sampled(q, Head(queue)[q])}

Next ==
  \/ EngineSchedule
  \/ \E eos \in MayEnd : EngineReport(eos)
  \/ \E q \in Reqs : EngineAdmit(q)
  \/ \E q \in Reqs : EngineAbort(q)
  \/ \E r \in Ranks : Execute(r)
  \/ \E h \in Luck : ExecuteLast(h)
  \/ Broadcast

Spec == Init /\ [][Next]_vars

\* The engine core and every worker run their loops; clients owe nothing.
FairSpec ==
  /\ Spec
  /\ WF_vars(EngineSchedule)
  /\ WF_vars(\E eos \in MayEnd : EngineReport(eos))
  /\ \A r \in Ranks : WF_vars(Execute(r))
  /\ WF_vars(\E h \in Luck : ExecuteLast(h))
  /\ WF_vars(Broadcast)

----------------------------------------------------------------------------

Tokens ==
  {TokenZero, Wrong} \cup
  {Token(q, g, p) : q \in Reqs, g \in 1..MaxGen, p \in 0..(MaxLen + 2 * K)}
RowState == [gen : 0..MaxGen, comp : 0..(MaxLen + K), last : Tokens, draft : [1..K -> Tokens]]

TypeOK ==
  /\ SchedTypeOK
  /\ \A q \in Reqs : Len(out[q]) <= MaxLen - PromptLen
  /\ \A r \in Ranks : Len(work[r]) <= PP /\ Len(ring[r]) <= PP
  /\ state \in [Ranks -> [Reqs -> RowState]]
  /\ cached \in [Reqs -> 0..(MaxLen + K)]
  /\ drafted \subseteq Reqs
  /\ Len(buffer) <= Cardinality(Reqs) /\ Len(sending) <= PP

\* The output is what greedy decoding without speculation would have written,
\* token by token, for every interleaving of the ranks and every verdict.
RefinesGreedy == Greedy!Spec

\* The engine with its ranks takes no step the scheduler of PPScheduler would
\* not take, so what holds of the scheduler for arbitrary verdicts holds here.
RefinesScheduler == SchedSpec

\* No stage computes on an anchor that has not arrived: the first token of every
\* step on its way is a token the request really has.
AnchorReal ==
  \A r \in Ranks, q \in Reqs : \A i \in DOMAIN hidden[r] :
     LET toks == hidden[r][i][q].toks
     IN  toks # <<>> => toks[1] \notin {TokenZero, Wrong}

\* What rank 0 embedded, two relays and PP steps away from the rank that
\* proposed it, is what the last rank is about to verify: same position, same
\* drafts.
EmbeddedIsVerified ==
  work[Last] # <<>> /\ hidden[Last] # <<>> =>
    \A q \in InBatch(Head(work[Last])) :
      LET w == Head(work[Last])[q]
          s == Added(state[Last], Head(work[Last]))[q]
          m == Head(hidden[Last])[q]
      IN  /\ m.pos = s.comp
          /\ \A j \in 1..w.d : m.toks[w.n - w.d + j] = s.draft[j]

\* Every receive a rank has posted is matched by exactly one broadcast: one that
\* arrived, one on the side stream, or one the last rank still owes for a batch
\* this rank has executed.
RelayPaired ==
  \A r \in 0..(Last - 1) :
    LET posted == {i \in DOMAIN ring[r] : ring[r][i].posted}
        ahead  == Len(work[Last]) - Len(work[r])
        owed   == {i \in 1..ahead : NeedSampled(work[Last][i], K) # {}}
    IN  Cardinality(posted) = Len(relay[r]) + Len(sending) + Cardinality(owed)

\* A late slot never writes into the row of another request: whatever a row
\* holds was sampled or drafted for the request that owns it.
RowsKeepTheirRequest ==
  \A r \in Ranks, q \in Reqs :
    LET s == state[r][q]
    IN  \A t \in {s.last} \cup {s.draft[j] : j \in 1..K} :
          t \notin {TokenZero, Wrong} => t[1] = q /\ t[2] = s.gen
============================================================================
