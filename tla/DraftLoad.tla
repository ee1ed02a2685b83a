----------------------------- MODULE DraftLoad -----------------------------
(***************************************************************************)
(* How the ranks of a pipeline load the target and the draft with the A    *)
(* blocks of dspark_pp_patch.py.  The draft lives on the last rank only,   *)
(* its embedding on the first, and no call of the loading path but the     *)
(* target's load_model is made by every rank.  Servers follow each other,  *)
(* each with its own pipeline size, model depth and split of the layers.   *)
(* The method is dspark; other methods load by code the repository leaves  *)
(* alone.                                                                  *)
(***************************************************************************)
EXTENDS Integers

CONSTANTS
  Sizes,        \* pipeline sizes a server is started with
  Depths,       \* num_hidden_layers of the models served
  VocabSize,    \* hf_text_config.vocab_size
  EmbedRows,    \* rows of embed_tokens.weight on rank 0
  DraftLayers   \* layers of the draft

ASSUME DraftLoadAssumption ==
  /\ Sizes \subseteq Nat \ {0} /\ Depths \subseteq Nat
  /\ VocabSize \in Nat /\ EmbedRows \in Nat /\ DraftLayers \in Nat

VARIABLES
  pp,       \* pipeline stages
  start,    \* start[r]: first target layer of rank r; start[pp] is the depth
  tied,     \* tie_word_embeddings: the last rank has the weight as well
  draftPP,  \* draft_parallel_config.pipeline_parallel_size
  engine,   \* create_engine_config, in the parent process
  pc,       \* pc[r]: where rank r is
  buf,      \* buf[r]: what is in its _PP_TARGET_EMBED_WEIGHT, and its rows
  embed,    \* what the draft embeds tokens with
  layers    \* ids the draft's layers are named by

modelVars  == <<pp, start, tied>>
loadVars   == <<modelVars, draftPP, engine, pc, buf, embed, layers>>

Ranks == 0..(pp - 1)
Last  == pp - 1
Depth == start[pp]

\* Layers of a stage split evenly or by hand: contiguous slices, in order.
Splits(p, n) ==
  {s \in [0..p -> 0..n] :
     s[0] = 0 /\ s[p] = n /\ \A q, r \in 0..p : q <= r => s[q] <= s[r]}

TargetLayers(r) == start[r]..(start[r + 1] - 1)

----------------------------------------------------------------------------
(* The configuration is verified before any worker starts (A0). *)

\* The draft is verified as the single-stage model it is ...
Relax ==
  /\ engine = "config"
  /\ draftPP' = 1
  /\ engine' = "verify"
  /\ UNCHANGED <<modelVars, pc, buf, embed, layers>>

\* ... and the size is put back whether verify_with_parallel_config raises or not.
Verify ==
  /\ engine = "verify"
  /\ draftPP' = pp
  /\ engine' \in {"workers", "failed"}
  /\ UNCHANGED <<modelVars, pc, buf, embed, layers>>

----------------------------------------------------------------------------
(* A worker. *)

Moves(r, to) == pc[r] # "dead" /\ pc' = [pc EXCEPT ![r] = to]

\* Of the methods that tap hidden states, the runner's root guard lets dspark
\* alone use a pipeline (A3).
Construct(r) ==
  /\ engine = "workers"
  /\ pc[r] = "start"
  /\ Moves(r, "load")
  /\ UNCHANGED <<modelVars, draftPP, engine, buf, embed, layers>>

\* A rank has the embedding if it is first, or last and the weights are tied.
HasEmbedding(r) == r = 0 \/ (r = Last /\ tied)

\* The handoff is made by every rank of a pipeline, or by none.
DraftRankOnly(r) == pp > 1 /\ r = Last

HandsOff(r) == pp > 1

\* load_model of the target; the buffer is the weight itself or zeros (A5).
LoadTarget(r) ==
  /\ pc[r] = "load"
  /\ Moves(r, IF HandsOff(r) THEN "broadcast" ELSE "draft")
  /\ buf' = [buf EXCEPT ![r] =
       IF ~HandsOff(r) THEN @
       ELSE IF HasEmbedding(r) THEN [holds |-> "target", rows |-> EmbedRows]
       ELSE [holds |-> "zeros", rows |-> VocabSize]]
  /\ UNCHANGED <<modelVars, draftPP, engine, embed, layers>>

\* Out of memory, an unreadable checkpoint, a crash: the process is gone.
Dies(r) ==
  /\ engine = "workers"
  /\ Moves(r, "dead")
  /\ UNCHANGED <<modelVars, draftPP, engine, buf, embed, layers>>

\* The rank whose buffer everybody gets.
SourceLast == Last

Source == 0

\* A broadcast over the group ends for everybody, once all ranks are in it with
\* buffers of one size; ranks are released together.
Broadcast ==
  /\ \A r \in Ranks : pc[r] = "broadcast" /\ buf[r].rows = buf[Source].rows
  /\ buf' = [r \in Ranks |-> buf[Source]]
  /\ pc' = [r \in Ranks |-> "draft"]
  /\ UNCHANGED <<modelVars, draftPP, engine, embed, layers>>

\* A rank that hosts no draft has nothing left to load.
Finish(r) ==
  /\ pc[r] = "draft"
  /\ r # Last
  /\ Moves(r, "ready")
  /\ UNCHANGED <<modelVars, draftPP, engine, buf, embed, layers>>

\* get_num_layers asks for this rank, hf_text_config for the model (A4).
OffsetOfRank == Depth - start[Last]

LayerOffset == Depth

\* Received, tied to lm_head, or a placeholder (A2); the target's own if local.
EmbeddingFor(r) ==
  IF pp = 1 \/ HasEmbedding(r) THEN "target"
  ELSE IF buf[r].holds # "none" THEN buf[r].holds
  ELSE IF tied THEN "target" ELSE "placeholder"

\* load_dspark_model on the last rank (A1 lets it in).  Layer names are unique
\* in a process, or construction raises "Duplicate layer name".
LoadDraft ==
  /\ pc[Last] = "draft"
  /\ layers' = LayerOffset..(LayerOffset + DraftLayers - 1)
  /\ embed' = EmbeddingFor(Last)
  /\ Moves(Last, IF layers' \cap TargetLayers(Last) = {} THEN "ready" ELSE "raised")
  /\ UNCHANGED <<modelVars, draftPP, engine, buf>>

----------------------------------------------------------------------------
(* A server. *)

NoBuffer == [holds |-> "none", rows |-> 0]

\* Nothing of the server before is left: its processes were killed.
Launch(p, n) ==
  /\ pp' = p
  /\ start' \in Splits(p, n)
  /\ tied' \in BOOLEAN
  /\ draftPP' = p
  /\ engine' = "config"
  /\ pc' = [r \in 0..(p - 1) |-> "start"]
  /\ buf' = [r \in 0..(p - 1) |-> NoBuffer]
  /\ embed' = "none"
  /\ layers' = {}

\* No server yet.
LoadInit ==
  /\ pp = 1
  /\ start = [r \in 0..1 |-> 0]
  /\ tied = FALSE
  /\ draftPP = 1
  /\ engine = "failed"
  /\ pc = [r \in 0..0 |-> "start"]
  /\ buf = [r \in 0..0 |-> NoBuffer]
  /\ embed = "none"
  /\ layers = {}

Worker(r) == Construct(r) \/ LoadTarget(r) \/ Finish(r)

LoadStep ==
  \/ Relax
  \/ Verify
  \/ \E r \in Ranks : Worker(r)
  \/ \E r \in Ranks : Dies(r)
  \/ Broadcast
  \/ LoadDraft

LoadNext == LoadStep \/ \E p \in Sizes, n \in Depths : Launch(p, n)

\* Servers one after the other.
LoadSpec == LoadInit /\ [][LoadNext]_loadVars

----------------------------------------------------------------------------

\* The draft never runs on zeros or on an uninitialised embedding: when its rank
\* is ready it embeds with rank 0's weight, wherever another rank has got to.
DraftEmbedsAsTarget == pc[Last] = "ready" => embed = "target"

\* No layer of the draft has the name of a target layer on any rank.
LayerNamesUnique == \A r \in Ranks : layers \cap TargetLayers(r) = {}

\* The collective is entered by all ranks or none, and the layer names do not
\* collide: every rank gets to ready unless a process dies on its own or the
\* server is killed.
AllLoad ==
  engine = "workers" ~>
    \/ \A r \in Ranks : pc[r] = "ready"
    \/ \E r \in Ranks : pc[r] = "dead"
    \/ engine # "workers"
=============================================================================
