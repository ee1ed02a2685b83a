# k3-ampere: verification project

`k3-ampere` makes a very large model (Kimi K3) run on a rig of 24 GB Ampere
cards with vLLM: it patches an installed vLLM tree so that speculative decoding
(DSpark, EAGLE-3, MTP) works under pipeline parallelism, ports an fp8 KV cache to
a Triton kernel, downloads and trims slices of the checkpoint, builds small test slices with
a draft of their own, and measures servers with and without speculation. This
directory holds TLA+ models of that code, the TLC configurations that check
them, and TLAPS proofs of the results that should not depend on a small
instance.

The reference is the code under `src/`. Where a patch changes vLLM, vLLM itself is
not in the repository; what surrounds the patched lines is modelled from how the
patches quote, replace and use it, and `PROJECT.json` marks those definitions
external.

- [The system](#the-system)
- [Modules](#modules)
- [Runs](#runs)
- [Fairness](#fairness)
- [Assumptions taken about vLLM](#assumptions-taken-about-vllm)
- [Proofs](#proofs)
- [What the work showed](#what-the-work-showed)
- [Not modelled](#not-modelled)
- [Plan](#plan)
- [Running it](#running-it)

## The system

| Component | State | Operations | Talks to |
|---|---|---|---|
| Scheduler accounting (`sched_cadence_fix.py`, `sched_anchor_fix.py`, `sched_inflight_gate.py`) | per request: `num_computed_tokens`, number of tokens, drafts, tokens in flight, `next_decode_eligible_step`; the batch queue | schedule a step, report the oldest step, admit, abort | the ranks: batches out, accepted counts in |
| Speculative relay (`specdec_pp_relay.py`, block A7 of `dspark_pp_patch.py`) | per rank: request states (last sampled token, drafts, computed count), the ring of deferred slots, posted receives; on the last rank the speculator's buffer and the side stream's queue | execute a batch, receive a slot PP steps later, sample, propose, broadcast on the side stream | the scheduler, and each rank with the last one |
| Auxiliary hidden states (blocks B1-B5) | the taps a stage has received and collected, the layer slice of each stage | begin a stage, run a layer, send, hand over to the draft | neighbouring stages |
| Draft loading (blocks A0-A5) | loading progress of each rank, the draft's embedding and layer numbers | launch a server over the one before, verify the parallel configuration, load the target, broadcast the embedding, build the draft | all ranks through one collective |
| Literal-substitution patchers (nine scripts) | the text of the installed tree | apply, find applied, miss, `--revert` | each other, through the files they share |
| Probes that share files | the same tree | insert, rerun, `--remove` | each other and the relay patch |
| Split-KV decode (`kernel.py`, table expansion A6 / P5) | programs of stage 1, the scratch buffer `attn_logits`, stage 2 | attend a block, store a split, merge the splits | the packed rows |
| Packed fp8 row (`layout.py`, `dequant.py`) | the bytes of a row | write by byte offset, read through three views, decode | the kernel |
| Expert slice (`k3_expert_slice.py`, `strip_lm_prefix.py`) | a directory: shards, `.partial` files, index, configuration | thread-pool download, resume, write of the index, in-place header rewrite | earlier runs, through the disk only |
| Slice and draft generators (`gen_slice_hf.py`, `gen_gguf_slice.py`, `make_slice_config.py`, `gen_dspark_draft.py`) | tensors and configurations on disk | generate, fetch, write the configuration, build a draft from it | each other through the files; the server that loads them |
| Draft test stand (`dspark_pp_test.sh` with `dspark_pp_probe.py`) | the script's position, the probe files of its two servers, gates | serve with PP stages, ask, serve with one, ask, compare | generators, draft loading |
| Bench client and report (`bench_client.py`, `bench2_report.py`) | queue of prompts, threads, rows, the file of records | run a pass, take, ask, append, write a record, report | a server; each other through the file |
| Server harness scripts (`k3_slice_serve.sh`, `specdec_bench2.sh` and diagnostic scripts) | position in the two loops, the server process | kill and launch, poll, run a client, report | server, client, report |
| Stand-alone probes, offload scripts | logs, measurements | see [Not modelled](#not-modelled) | a server |

How they work together while serving: the engine core schedules a batch and puts
it into a queue of at most PP batches, rank 0 embeds it, the ranks pass hidden states
(and taps) on, the last rank verifies the drafts, samples, proposes new drafts and
broadcasts both to the other ranks, which apply them only PP steps later; the
engine core learns the outcome when it takes the oldest batch of the queue. Every
count the scheduler plans with is therefore optimistic for up to PP steps.

What is hard about it, in one line each (the full list with lines is under
`hazards` in `PROJECT.json`):

- planning a step from a count whose rollback is still on its way;
- collectives that one side enters and the other does not, or with another shape;
- rows of the request table that change owner while a slot for them is in flight;
- taps taken twice or not at all at a stage boundary;
- scratch memory nobody clears, splits that are short or empty, query tokens of
  one sequence with different prefixes;
- tools that are killed and run again, with only the disk to tell them what happened;
- patches whose replacement contains the text they look for;
- layers numbered from 0 in one file, from 1 in the next, and shifted once more by vLLM;
- verdicts over evidence that may not exist: empty probe files, rows without a
  measurement, answers of a server whose engine is dead or of the server before.

What makes each component correct: the scheduler never plans a decode step on an
unconfirmed position, and still serves every request; the server's output is the
one greedy decoding without speculation gives, whatever the ranks' timing; the draft
receives the taps of a single-stage run; every query token attends exactly its own
prefix; a shard under its final name is whole; a run that reports success has
applied all its blocks and none twice; slice, configuration and draft agree on every
layer; a pass sends each prompt once and keeps each row; a report says only what rows of
the right server support.

## Modules

### Serving

**`PPScheduler`** - the scheduler. `Schedule` plans one step for every request that
may run: `NumNewTokens`, the chunk limit, `SpecAfterGate` (the in-flight gate),
`ClippedSpec` (the anchor clip), then the optimistic booking
(`num_computed_tokens += n`) and, with the cadence patch, arming
`next_decode_eligible_step` (`WaitAfter`; kept as a countdown relative to the
current step so that the state space is finite). `Report` takes the oldest batch
and rolls back the rejected drafts. `Admit` and `Abort` are the clients. The
constant `Patches` says which of the three scheduler patches are applied.

**`SpecDecodePP`** - extends the scheduler with the ranks. `Execute(r)` is what a
rank other than the last does in one step: receive the slot written PP steps ago
(`Receive`, `Delivered`), write it into `req_states` (`RowOf`, `Applied`: V5/V6),
build the input from the last sampled token and the drafts (`InputOf`), hand the
batch on, post the next slot. `ExecuteLast` is the last rank: verify, accept,
sample, propose (into the speculator's one `buffer`), pad (A7) and hand the payload to the
side stream (`sending`). `Broadcast` is that stream: it sends the oldest payload, with
the drafts it took out of the buffer when the step was issued (`Payload`, `RowIn`,
`DraftsRead`: V2-V4); the next step may have overwritten the buffer by then. A token is a triple: the token greedy
decoding puts at a position of the g-th request of an index, so that tokens of two requests
differ even at equal positions; or `Wrong`, or the token id 0 of an unset entry. The quality of the drafts is arbitrary.

**`GreedyDecode`** - the abstract specification: each request's output grows by
the target model's own next tokens and by nothing else. `SpecDecodePP`
refines it (`RefinesGreedy`, `Greedy == INSTANCE GreedyDecode WITH ...`). It also
refines the scheduler's own specification (`RefinesScheduler`): what is proved of
the scheduler for arbitrary outcomes holds of the server with its ranks.

**`TapRelay`**, with **`TapLists`** and **`SingleStageTaps`** - the forward pass over
PP stages with taps. Splits of the layers and sets of tapped layers are
chosen in `Init`. A stage takes the boundary tap (B1), runs its layers, joins what it
received with its own taps and sends; the receiver computes the number of buffers
from its own layer slice (`NumUpstream`), and its receive completes only if that is
the number sent. `SingleStageTaps` is the abstract specification, one stage (`Single == INSTANCE
SingleStageTaps WITH ...`).

**`DraftLoad`** - servers that follow each other (`Launch`: any pipeline size, depth and
contiguous split of the layers, tied embeddings or not), and the loading path of each
rank, at its own pace, each of which may die: the relaxed check of `SpeculativeConfig` (A0), the runner's root guard (A3), who
loads the draft (A1), the broadcast of the embedding from rank 0 (A5), layer numbering
past the target's (A4), and the embedding the draft ends up with (A2). A name that is taken
raises. The method is dspark, the one the patch lets pass the root guard; MTP and EAGLE-3
load elsewhere.

### Kernel

**`SplitDecode`** - `Attend` is one block of one stage-1 program, `Store` its result,
`Merge` a step of stage 2; programs interleave freely, stage 2 starts when stage 1
has ended (two launches on one stream). A partial result is the list of cache rows
attended, so that "each position once" can be said; scores and the softmax are left
out. The variable `dtype` is the cache the server was started with, and with it the
dispatch: P5 for the packed cache, which calls `kernel.py`, expands non-causal batches only
(`ExpandedPacked`) and returns before A6 is reached; A6 for the ordinary one, which expands both
kinds (`ExpandedAuto`) and calls vLLM's kernel. That kernel is not in the repository; `kernel.py:4`
says it mirrors its control flow exactly, and one model stands for both.

**`PackedRow`** - extends it with the row layout: byte ranges of the writer against
element addresses of the kernel's uint8, float32 and uint16 views, for the slots a
launch really attends. Addresses have the width the kernel computes them in (`Address`:
two's complement, 64 bits because of `kv_page_number.to(tl.int64)`); and the
bit-math decode of a byte against the definition of fp8e4m3fn, in units of 2^-16. Sign
and quantisation (scales, rounding) are left out.

### Tools

**`ExpertSlice`** - the directory of a slice. Runs of the slicer with different
arguments: a pool of workers (`do_shard` step by step: skip what exists, fetch
header and tensors, write to `.partial`, rename), the main thread that collects results in
order, index and configuration; then `strip_lm_prefix.py` with its in-place header
rewrite. `Kill` may strike between any two steps and inside every write.
Contents of files are sets of tensor names and the number of experts they were cut to.

**`PatchTree`** - the nine patchers on one tree. A place of the tree holds one of the
few texts the patchers tell apart ("upstream", "ours", an earlier form, twice ours, or
anything else, as drift and a kill inside the truncating write leave it). `Contains`
records which replacements contain the text they replace, verified on the
strings in the scripts. `SKIP_A6=1` leaves A6 out of a run (`skipA6`). `Start`, `Skip`, `Substitute`, `AssertFails`, `Misses` and
`Exit` follow `patch()` and `main()` of each script, with their different ideas of
failure (an assertion, or `ok &=` and an exit status).

**`ProbeTree`** - the probes, which share `model_runner.py`, `pp_utils.py` and the
warm-up file with each other and with the relay patch. A file is a sequence of segments, so
that inserting before or after an anchor, and cutting from one mark to another
(`--remove`), are what they are in the scripts. The order of methods in
`model_runner.py` is not ours and is left open.

**`TestStand`** - extends `DraftLoad` with the scripts around it. The generators leave
their files in any order and may fail half-way (`SaveTensors`, `FetchFails`, `WriteConfig`,
`EmitGguf`, `MakeSliceConfigs`, `GenDraft`); a layer is its kind (KDA or full attention, dense or
MoE), in each file's own numbering. `dspark_pp_test.sh` (`StartTest`, `Boots`, `GivesUp`,
`AskPPN`, `AskOne`, `Gate2`) serves a slice with its draft, asks, serves it with one stage,
asks again and compares the probe files, whose lines come late or never. Gate 1 is
`Boots`. What the draft was given is taken from `DraftLoad`'s state; that taps do not depend on
the number of stages is `RefinesSingleStage`.

**`BenchClient`**, **`BenchCampaign`**, **`RequestPass`** - measuring. `BenchClient` is the
process: passes (`Start`, `FinishPass`, `NextPass`, `Exit`) and threads that share one
queue and one list (`Take`, `Return`, `Answer`, `AppendRow`, `Raise`); with one request in
flight an exception ends the process, otherwise only its thread. `BenchCampaign` extends
it with the script's two loops (`Launch`, `Poll`, `RunClient`, `ClientExits`, `Swept`), a
server that may be late, die, or keep its API up over a dead engine (`cut` is the set of threads
whose stream that death ended: a row with a TPOT and part of a text may come of it), and the
report (`Report`), which somebody runs by hand after the script and which raises
`FileNotFoundError` if no client ever wrote a record. A row is its prompt, whether it has a TPOT, its text, and the kind
of server it is from, which the client does not see. `RequestPass` is the abstract
specification of a pass: no queue, threads or lock (`Pass == INSTANCE RequestPass WITH ...`).

Every `MC...` module extends the module it checks and defines the values a `.cfg`
cannot write. Definitions named in the `mutants` list of `PROJECT.json` (for
example `ArmedOneEarly`, `AnySplit`, `OwnOnly`) are plausible wrong variants of the
definition that follows them and are used by nothing: putting one in its
place must break the property it is listed with.

## Runs

| Run | Checks | Instance, and why it is enough |
|---|---|---|
| `decode_pp2` | `TypeOK` `EmbeddedIsVerified` `RelayPaired` `RowsKeepTheirRequest` | All three scheduler patches, 2 requests, PP = 2, K = 1, prompt 2, MaxLen 4, 2 generations: requests that end, are aborted and are replaced in the same row while their slot is in flight or waits on the side stream. 2 million states. |
| `decode_pp3` | `AnchorReal` `AnchorSlot` `DecodeShape` `ConfirmedPosition` `ReportedBeforeScheduled` `RequestsEnd` `RefinesGreedy` `RefinesScheduler` | The cadence alone, 1 request, PP = 3, K = 2, prompt 3 in chunks of 2 (prefill takes two steps, the second partial), MaxLen 6, 2 generations; a third rank makes rank 0 and rank 1 apply the same slot at different times, a step is planned, overtaken and reported late, and accepted counts 0..K are all taken. |
| `taps` | `TypeOK` `RecvMatchesSend` `RefinesSingleStage` `BatchesComeOut` | PP = 3, 4 layers, 2 batches in the pipeline, every contiguous split (1+1+2, 1+2+1, 2+1+1) and every one of the 16 tap sets, so a tap at each boundary, on both sides of it and none. |
| `split` | `ExactPrefix` `RowLayout` `DecodeExact` | 2 sequences on interleaved, shuffled pages, both dispatches, lengths up to 5, queries of 1 or 2, pages and blocks of 2, 2 splits: full, short and empty splits, a split of two blocks whose last one is masked. One launch is enough to see a missing store, because the scratch buffer starts with garbage in every entry. The row has its real size. `IntHalf` and `LongHalf` stand for 2^31 and 2^63, scaled to 4096 and 8192 so that the pages of the instance lie on both sides of what int32 reaches and inside what int64 reaches, as they do on the device; `DecodeExact` runs through all 256 bytes. 400 000 states. |
| `split_packed` (violation) | `PortCorrect` | The same instance. |
| `slice` | `TypeOK` `TrustedFiles` `CompleteSlice` `NoPrefixLeft` `RunsEnd` | 3 shards (one with text, router and an expert, one with only an expert that the smaller slice drops, so that a shard may have nothing to fetch, one with an expert and vision tensors), 2 workers, 1 or 2 experts, all shards or the upper ones. More shards than workers, so that futures queue and are cancelled; any number of runs and kills, since every run ends in the same finite set of directories. |
| `slice_resume` (violation) | `ResumedIndexComplete` | The same with one expert count. |
| `patch` | `Idempotent` `SuccessMeansApplied` | Four scripts on a tree of their own and the four small ones on one tree, at most one drifted place, any number of runs, reverts and kills. `dspark_pp_patch.py` shares files with the relay (`model_runner.py`, `pp_utils.py`) and with the fp8 port (the MLA backend), and its block A0 with `a0_only_patch.py`: each of these pairs on one tree too, so that a kill inside a write of one spoils the other's places; there without drift, since a killed write makes places unknown already. 5.4 million states. |
| `patch_revert` (violation) | `RevertRestores` | Starts from a tree with every block of `dspark_pp_patch.py` applied. |
| `probes` | `EachOnce` `NothingDangles` | Any three runs of ten scripts, 24 orders of the methods. Two scripts disturb each other through one shared place, and a third run shows a rerun or a removal after that. 580 000 states. |
| `stand` | `DraftEmbedsAsTarget` `LayerNamesUnique` `KindsAgree` `TapsFit` `GateMeansLoaded` `AllLoad` | Pipelines of 1 and 3 stages with every contiguous split, slices of 4 and 5 layers (one full block of the 3 + 1 pattern, and one layer more, so that a draft can be older and shallower or deeper than the slice it is served with), a draft of 2 layers, four scripts in any order, one probe line per request or none. Every rank may die at any step. 260 000 states. |
| `bench` | `TagsTrue` `ParityCoversRatios` `RefinesPass` `CampaignEnds` | 3 prompts, 1 or 2 requests in flight (so the queue outlives a dead thread, and both threads may die before it is empty), the warm-up and one recorded pass, two texts (any live server may answer with either), one poll before the script gives up; both servers at either concurrency, and one server swept over both. 1.6 million states. |

Deadlock is checked for the `taps`, `slice` and `patch` runs. It is not for the others, which
really stop: a server idles when its bounded requests are done, launches and
probe runs are bounded, a campaign ends and is reported once, loading ends or a worker has died. In
these, that nobody waits for ever is a liveness property where it matters
(`RequestsEnd`, `AllLoad`, `CampaignEnds`).

Bounds that are constants: `MaxLen`, `MaxGen`, `Launches`, `MaxBatches`, `MaxDrifted`,
`MaxRuns` (of the probes, of the stand's scripts), `MaxLines`, `MaxPolls`. Nothing else is
cut off.

The properties in words:

- `AnchorSlot`, `DecodeShape`: a step with drafts also has the anchor they follow;
  a decode step is one anchor plus its drafts. Without it the kernel's
  `logits_start` becomes -1.
- `ConfirmedPosition`: booked tokens minus tokens in flight is the confirmed position.
- `ReportedBeforeScheduled`: a request is never planned on top of an unreported step of
  its own.
- `RequestsEnd`: a request that runs ends, although the cadence delays it and
  collectives can block.
- `AnchorReal`: what rank 0 embeds as the anchor is the sampled token, not an entry
  that has not been delivered.
- `EmbeddedIsVerified`: rank 0 embeds the drafts the last rank verifies against.
- `RelayPaired`: each posted receive has its broadcast and the reverse.
- `RowsKeepTheirRequest`: a late slot never writes into the row of another request, neither of one
  at another index nor of the one that took its place.
- `RefinesGreedy`: the output is that of greedy decoding.
- `RefinesScheduler`: engine and ranks together take no step that the scheduler's own
  specification, with outcomes left open, does not have.
- `RecvMatchesSend`, `RefinesSingleStage`, `BatchesComeOut`: sender and receiver agree
  on the number of taps; the draft gets exactly the single-stage list; all batches
  come out.
- `DraftEmbedsAsTarget`, `LayerNamesUnique`, `AllLoad`: a ready draft embeds with the
  target's weight; draft layers collide with no rank's target layers; without
  deaths every rank comes up, so the broadcast is entered by all or none.
- `ExactPrefix`: a merged row has attended its own prefix, each position once,
  in its sequence's pages: in every batch of the ordinary cache, and in every batch of the packed
  one but a causal one with several tokens per sequence. `PortCorrect`: in every batch of the
  packed one (refuted).
- `RowLayout`, `DecodeExact`: at every slot a launch attends, the three views read the
  fields where they were written; the decode is exact for all bytes.
- `TrustedFiles`: a shard under its final name is whole, except for a header rewrite
  in place that was killed. `CompleteSlice`: a full run that ends well leaves shards,
  index and configuration that agree, if the files found were cut to the same
  number of experts. `NoPrefixLeft`: after a strip that ends well no prefix is left.
  `RunsEnd`: every run ends, whatever futures fail.
- `Idempotent`, `SuccessMeansApplied`, `RevertRestores`: no insertion is made twice;
  a run that reports success has applied its blocks; `--revert` restores the file (refuted).
- `KindsAgree`: whichever generator made the tensors and whichever the configuration,
  of one depth they have the same kind of layer at each place.
- `TapsFit`: a draft gets as many taps as its projection is sized for, on every slice at
  least as deep as the one it was built from.
- `GateMeansLoaded`: gate 2 passes only if both servers, one after the other, ran the
  request through a draft with the target's embedding and all its taps.
- `RefinesPass`: no prompt is sent twice, no row is lost or doubled, none is left over
  while a thread that could send it is alive.
- `TagsTrue`: no record holds a row of another kind of server than its tag says.
- `ParityCoversRatios`: a printed "OK" of the greedy parity compares the texts
  behind every printed ratio.
- `CampaignEnds`: whatever dies, the script comes to its end.
- `EachOnce`: no text of a probe is inserted twice, but the two whose test looks for what is never
  written. `NothingDangles`: as long as each run
  reported success, no name is used that no probe defines, and the two ends of V6 are
  applied together.

## Fairness

- `PPScheduler`, `SpecDecodePP`: the engine core's loop schedules while the
  queue has room and otherwise takes the oldest result; each rank runs its own loop. Both
  are busy loops of a process of their own, hence weak fairness for scheduling,
  for reporting, for each rank and for the last rank's side stream (`Broadcast`), which the
  device drains by itself. Nothing is assumed about clients (`Admit`,
  `Abort`) nor about how many drafts are accepted.
- `TapRelay`: weak fairness of each stage's steps.
- `TestStand` (`FairStand`): weak fairness of the parent process, of each rank's loading
  steps and of the collective; not of `Dies`, and no script has to be run.
- `BenchCampaign` (`FairCampaign`): the script, the client and its threads run, and a
  request returns or raises, because `urlopen` has a timeout of 600 s
  (`bench_client.py:79`). Nothing makes a server come up or stay up.
- `ExpertSlice`: weak fairness of the main thread and of each worker, which are threads
  of one program; none for starting a run or being killed.
- The other runs state no liveness property and assume no fairness.

## Assumptions taken about vLLM

They are not visible in the repository's own code but follow from how it uses vLLM:

- the ring of deferred slots moves on every scheduler step, empty ones included, and its
  length is PP, as is the length of the batch queue;
- a step may be reported at any time after the last rank has executed it;
- the draft count the scheduler sets after a step is that of the latest executed batch;
- PP is at least 2 where the ranks are modelled: `use_pp` is what builds the relay;
- the base scheduler, without the placeholders of asynchronous scheduling;
- all decodes of a batch have the same query length (`split_decodes_and_prefills`
  with `require_uniform`);
- `embed_tokens` exists on rank 0, and on the last rank when embeddings are tied.

A check on the first three: without patches, with the anchor clip alone, and with
clip and gate, the model corrupts the output; with the cadence it does not. That is
what the measurements in `src/JOURNAL.md` and `src/docs/DSPARK_PP_LADDER.md` report.

## Proofs

All leaves are checked by SMT, Zenon or LS4; no fact is assumed except the named
assumptions on constants, which TLC evaluates in every run.

**`SpecDecodePP_proofs`, the scheduler** - for every set of requests, every PP, K, prompt
length, chunk size and length limit (`PPSchedulerAssumption`), under `"cadence" \in Patches`:
`SchedTypeOK`, `AnchorSlot`, `DecodeShape`, `ConfirmedPosition`, `OneStepInFlight` (a
request never has two unreported steps), `ReportedBeforeScheduled`. None of these is
inductive: that a request has at most one unreported step depends on *where* in the
queue its last step is. The inductive invariant adds `EntryInv` (what a queue entry says about its step), `Spacing` (the
countdown of a request is at least as long as the queue part that its last step still
has to travel: this links the timer with the queue), `OneLive` (at most one live entry
per request), `Booked` (the booked count is the confirmed position plus that
entry) and `AtRest` (with no live entry it is exact). `Spacing` gives `OneLive` because the
queue holds at most PP batches; `OneLive` gives `Booked` and the rest follows.
The first three results make the other two scheduler patches superfluous beside
the cadence: the clip and the gate never fire.

**`SpecDecodePP_proofs`, the server** - for every set of requests (finite, `SpecDecodeAssumption`), every
PP > 1, K, prompt length, chunk size and length limit, any interleaving of the ranks and
the side stream, any acceptance of drafts and any clients.
With *any* scheduler patches: `RelayPaired` (`RelayPairedHolds`) and the refinement of the
scheduler (`SchedulerRefined`), which carries the results above over to the server
(`ServerPlansOnConfirmed`). Under `"cadence" \in Patches`: `RefinesGreedy`
(`GreedyRefined`), `AnchorReal`, `EmbeddedIsVerified`, `RowsKeepTheirRequest` and `TypeOK`;
without the cadence the model corrupts the output.

No variable remembers the batches that have gone through every queue, although the
ring of a rank, the broadcasts on their way and the rows are related only through them.
Both invariants begin with "there is a history": `H[k]`, the k-th batch; how many are
scheduled, reported, executed by each rank (`E[r]`) and broadcast (`N`); and `A[k][q]`, the
last rank's row after batch k. Each step extends it.

- `Aligned`, the counting layer, for any patches: every queue is a stretch of `H`; the ring of
  a rank is the last PP batches it executed; the relay of a rank holds the broadcasts
  after those its oldest slot is past. Counting the batches that need a broadcast
  (`Count`, `CountBetween`) gives `RelayPaired`, and equal lengths of queue and results give
  `RefinesScheduler`.
- `Served`, the semantic layer, with the cadence: every batch was planned on the row the
  step before it left, at least PP batches earlier (`Planned`); the last rank's rows are right
  tokens (`Ran`); another rank's row is booked for less than PP batches after a step and
  settled from then on (`RowAt`); inputs, broadcasts and results are functions of the last
  rank's rows (`InputAt`, `PayloadOf`, `ResultAt`). The step that matters is
  `CorrectedIs`: PP batches between two steps of a request and a ring of PP slots
  make the slot of a step due exactly when its row is read again.
- `Shaped` says of rows, outputs and the buffer that they are functions on their domains,
  which equalities between positions alone do not give.

**`PatchTree_proofs`** - for every choice of patchers and any number of drifted places:
`Idempotent` and `SuccessMeansApplied`, with `SKIP_A6` or without. The invariant (`Passed`) says what a run has behind
it; that no block writes a text of another kind is a property of the blocks' sequences
(`BlocksAre`). `RevertRestores` is refuted by `patch_revert`.

**`TapRelay_proofs`** - for every number of stages, layers and batches: type
correctness, `RecvMatchesSend`, and `Refinement` (`Spec => Single!Spec`). The invariant
says what a stage's `carried` and `own` lists hold as a function of its position in its
layers (`TapsOf` of the tapped layers before it), and what is in each channel.
Appending the next layer's tap to `TapsOf` of a lower set is a lemma on its own.

**`ExpertSlice_proofs`** - for every checkpoint, every set of argument lists and number of
workers: type correctness, `TrustedFiles`, `CompleteSlice`, `NoPrefixLeft`. The
invariant relates each worker's program counter to its `.partial` file and final
name (`WorkerInv`), the collected map to the shards handled so far (`CollectInv`),
the pool's limit (`PoolInv`) and the strip's progress to the names left
(`StripInv`).

**`PackedRow_proofs`** - for every row layout that meets `PackedRowAssumption`, all
page tables and batches: `RowLayout`. It rests on the offsets and the row size
being multiples of the element sizes of the views, on the fields being laid
out in order, and on 64-bit addresses reaching every byte of the cache, which is one
allocation; a slot a launch attends then never wraps (`AttendedSlots`, `NoWrap`). With
`InInt32` in the place of `Address` that last step fails, and TLC finds the slot.
The assumption is the part a change of `layout.py` has to keep.
`DecodeExact` holds by cases of the sixteen exponents: the seven bits shifted by seven keep
exponent and mantissa apart (`ShiftedBits`), and what they stand for has at most
eleven significant bits (`Representables`).

Of `SplitDecode` the same module proves `ExactPrefix`, for every batch, page table, block size, number of splits and of
launches, with both dispatches (`ExactPrefixHolds`: `Spec => []ExactPrefix`, which leaves out the packed
verification only) and with none of the assumptions on rows. The invariant says
that a program has attended the `Stretch` of its split up to its cursor, that behind
the end the result is in the program or in `attn_logits` (`ProgramOK`), and that stage 2 has
merged the stretch the splits before its own reach (`MergeOK`). The split length is
rounded up, so the splits reach the end of the row (`CeilCovers`); a split that is empty
adds nothing to what they reach (`SplitGeometry`), which is why it is safe that it stores
nothing. For a causal batch on the packed cache a row
need not have a row in the tables (`RowGeometry` fails), and `split_packed` shows what comes of it.

**`TestStand_proofs`** - for every set of pipeline sizes and depths, every split of the
layers and size of the vocabulary: `DraftEmbedsAsTarget` and `LayerNamesUnique`
of any sequence of servers (`LoadingSafe`); `StandSpec => LoadSpec` (`StandRefinesLoading`),
which carries them over to the stand (`StandLoadingSafe`); `KindsAgree`, `TapsFit` and
`GateMeansLoaded` (`StandSafe`). The invariant of loading says what a rank's buffer
holds as a function of where it is, and that a rank past the collective has rank 0's
weight; that of the stand (`FilesMade`) says which generator, at which depth, made each
file, and what was seen of the servers the script has already asked.

**`BenchCampaign_proofs`** - for every set of texts, number of threads and of prompts,
and every campaign: the client refines the pass (`ClientRefinesPass`), the clients of a
campaign are such clients (`CampaignRefinesPass`), and `TagsTrue` with `ParityCoversRatios`
(`CampaignSafe`). The invariant of the client says that the queue holds the last of the
prompts in order, that every thread with a request has a prompt of its own that is no
longer in the queue, and that the prompt of each row is in neither. `Issue` and `Close`
count: no more requests are out than there are threads, and a pass closes with prompts
unsent only when each of its threads has died of one. The invariant of the campaign says that a
client runs only while the script waits for it, that the server of the current
configuration then has the port, and that the verdict was reached on the file
as it is.

**`ProbeTree_proofs`** - for every choice of scripts, every order of the four methods and
any number of runs, kills and removals: `EachOnce` and `NothingDangles`.
Neither is inductive: whether a second run finds the text of the first depends on
what other scripts have put next to it. The invariant (`ProbeInv`) is that there is one
*line* of all segments, upstream's and inserted ones (`Line`), that every file follows
with holes (`Ordered`, for each order of the methods a line of its own, `OrdersFollow`);
that texts around one anchor come and go together (`Paired`); and what a run has behind it
(`Named`, `Matched`). A script that writes next to its anchor finds the place on the line free
(`Fits`; `EveryBlock` goes through the 29 blocks of the ten scripts), or else the mark it looks for
would be found: two texts that are neighbours on the line are neighbours in the file,
since nothing belongs between them (`NextTo`, `PairOccurs`, `TripleOccurs`). `hidden_rows_probe.py`
is the case that needs `Paired`: it writes behind the logits, where the second half of P13 of
`warmup_pp_probe.py` belongs, and that half is there only if the first has split the
anchor it looks for (`HiddenFits`). A removal cuts from one probe to another (`CutFollows`),
and neither end lies between two texts that belong together (`ApartFromCuts`). The two
texts that may be there twice (`Repeated`) are those whose test looks for what is never
written, `sample_tokens_probe.py`'s first block and the last of `warmup_pp_probe.py`.

Only model-checked: liveness (`RequestsEnd`, `BatchesComeOut`, `AllLoad`, `RunsEnd`,
`CampaignEnds`), which is out of the prover's reach. Every invariant and every action
property that a passing run checks, and every refinement, is a theorem.

## What the work showed

Three statements of the repository are not what its code does:

1. `slice_resume`: `k3_expert_slice.py:86` offers `--shards` "for resuming". A run over some
   shards replaces the index by one of those shards only.
2. `patch_revert`: `dspark_pp_patch.py:30-32` says reverting "restores the file byte for
   byte". On a tree with every block applied the reversed run takes B1, B3, A5 and A2, whose
   replacements contain the text they replaced, for already reverted, brings A0 back in its early
   form (the block that migrates the early form, reversed, comes first), and reports success.
3. `split_packed`: `README.md:39` says of the fp8 port "outputs identical to bf16", `JOURNAL.md:66`
   "written by us, correct". Its dispatch expands
   the tables of non-causal batches only. In a causal batch with two query tokens per sequence, which
   is what a verification of drafts is and what A6 was written for on the ordinary path, the first
   token of sequence 0 gets the whole length of the sequence and attends the draft behind it; the rows
   past the number of sequences have no table row at all.

Smaller observations, kept as hazards or in comments: `docs/DSPARK_PP_DESIGN.md:68` counts
upstream taps with `<`, the code (rightly) with `<=`; P10 of the warm-up probe and
V5 of the relay take each other's anchor away; `SKIP_A6=1` ends with the same message of success as a
full run.

The in-flight gate does not do what its docstring says (`sched_inflight_gate.py:32`: no tokens in
flight "means the previous step's sampled token has landed and the anchor is real"). A step
may be reported to the scheduler, with nothing in flight and the drafts of the next step kept,
while rank 0, which reads a slot of its ring PP steps after it was posted, is still to be given the
token. The cadence patch closes this, and its own docstring says so; `decode_pp2` applies all three
patches, and with `NeverArmed` in the place of `NextEligible`, which takes the cadence away and
leaves clip and gate, `EmbeddedIsVerified` fails.

Three of the probes do less well than they print, and are modelled as they are: `hidden_rows_probe.py
--remove` (line 33) cuts from the first `try` that imports `os`, which is another probe's if one is
installed before it, so that probe and all upstream code between the two go too;
`sample_tokens_probe.py:24` and `warmup_pp_probe.py:258` test for a text that what they write does not
contain, and a second run inserts it again (`EachOnce` names these two texts).

Others lie outside the models: `bootstrap_box.sh` says it is "safe to re-run after a
partial failure" (line 3), but takes a generator's directory for its result (lines 77-78),
so a generator that died after creating it is not run again; gate 3 of
`dspark_pp_test.sh` (line 119) and the comparison of `validate_52179.sh` (line 91) call two
empty answers equal; `gen_gguf_slice.py:77` skips names it has no formula for, so its
"mismatches: 0" does not cover them; `warmup_diag.sh:83` takes stacks while the communication
watchdog may already be killing the processes.

## Not modelled

- **Numbers**: scores, softmax, scales and rounding. The models follow which data is used,
  not what is computed from it.
- **Retries inside one fetch** (`get()`'s five attempts) are one step that succeeds or
  raises; header padding and the size check of the slicer are left out.
- **Shut-down after a rank has died** while loading.
- **Sharded embeddings** (`dspark_pp_patch.py:376`, which allocates `vocab_size` rows on a rank
  without an embedding): every script serves with `--tensor-parallel-size 1`, so both
  sizes are equal in the runs; with `EmbedRows` other than `VocabSize` `AllLoad` fails.
- **Truncation by a kill inside a write** in `ProbeTree`; `PatchTree` has it.
- **Of the bench client**: times (a row has a TPOT or not; a TPOT of 0 would divide by
  zero in the report), and an output
  file that still holds the records of an earlier campaign, which the report pools.
- **Of the test stand**: gate 3; lines of the warm-up among the probe's, which the script
  cuts off by counting what was there before its request (`MARK_PP2`, `dspark_pp_test.sh:67` and 75);
  the exception `gen_gguf_slice.py:72` makes for layer 93 of the full model, against whose headers it
  checks its formulas; shapes and values of tensors; generators
  killed between two writes of one file.
- **Diagnostic harness scripts** (`validate_52179.sh`, `upstream_repro.sh`, `warmup_diag.sh`,
  `parity_hunt.sh`, `bootstrap_box.sh` and others): they run one command after the other,
  print logs for a reader and decide nothing that another tool relies on.
- **`convert_and_verify.py`, `slice_eagle3_shim.py`, `blocksize_divergence_probe.py`**: a
  converter of another project is called and its output compared; one insertion under a
  marker of its own, at a place no other tool edits; a measurement is printed.
- **Probes with a file of their own**: they meet no other tool there. `dspark_pp_probe.py` is
  modelled as the witness of gate 2 only.
- **Offload scripts, patches for llama.cpp, artifacts, results**: command lines and data.

## Plan

Done, in this order: the scheduler and its proof; the workers and the refinement of
greedy decoding; taps with their refinement proof; the slice with its proofs; the
kernel; patchers; loading; row layout; probes; the side stream and the refinement of
the scheduler; the bench client, its campaign and the pass it refines; the test stand with
its generators, and the proofs about both it and loading; the width of addresses; the
proofs about the bench client, its campaign and the splits of the kernel; the proofs about
the workers, with both refinements, and about the patchers; the proofs about the probes.

Next, if this code grows: a line of segments for a new probe is one entry in `Place` and one
leaf in `EveryBlock`; a change of the shape of a patch touches its `Tame` lemma.

## Running it

    tlc -workers 2 -config MCSpecDecodePP_pp3.cfg MCSpecDecodePP
    tlapm ProbeTree_proofs.tla

`PROJECT.json` lists the runs with their modules and configurations, the theorems, the
source lines of each definition (`map`), the hazards and the properties that cover them,
and the wrong variants (`mutants`) with the property each must break. Each run takes
less than two minutes on two cores.
