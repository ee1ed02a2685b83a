---------------------------- MODULE SplitDecode ----------------------------
(***************************************************************************)
(* Split-KV attention over a paged cache (fp8kv_k3/kernel.py) as TRITON_MLA *)
(* dispatches it.  There are two dispatches: of the packed fp8 cache (P5),  *)
(* which returns before the other is reached, and of the ordinary cache,   *)
(* with A6.  The ordinary cache has vLLM's kernel, whose control flow      *)
(* kernel.py mirrors ("exactly -- same grid, same paging walk", line 4).   *)
(* The programs of stage 1, one per query row and split, run in any order  *)
(* and leave partial results in attn_logits, a buffer every launch reuses  *)
(* and nobody clears; stage 2 merges the splits of a row.  A partial       *)
(* result is the list of the cache rows attended so far: scores, heads and *)
(* the softmax are left out.                                               *)
(***************************************************************************)
EXTENDS Integers, Sequences

CONSTANTS
  NumSeqs,     \* sequences of the batch (num_decodes)
  Pages,       \* Pages[s]: the pages of sequence s, its row of block_table
  MaxLen,      \* longest sequence
  MaxQuery,    \* longest query: draft tokens and the anchor
  PageSize,
  BlockN,      \* BLOCK_N, positions per iteration
  NumSplits,   \* num_kv_splits
  Launches     \* bound: launches that share attn_logits

Seqs == 0..(NumSeqs - 1)
Kinds == {"causal", "noncausal"}
Dtypes == {"auto", "fp8_ds_mla"}

ASSUME SplitDecodeAssumption ==
  /\ NumSeqs \in Nat /\ MaxLen \in Nat /\ MaxQuery \in Nat \ {0} /\ Launches \in Nat
  /\ PageSize \in Nat \ {0} /\ BlockN \in Nat \ {0} /\ NumSplits \in Nat \ {0}
  /\ Pages \in [Seqs -> Seq(Nat)]
  /\ \A s \in Seqs : Len(Pages[s]) * PageSize >= MaxLen

VARIABLES
  dtype,    \* kv_cache_dtype the server was started with
  launch,   \* number of the current launch
  kind,     \* attn_metadata.causal, as a word
  query,    \* tokens per sequence
  lens,     \* lens[s]: seq_lens of the metadata
  cursor,   \* cursor[p]: start_n of stage-1 program p
  acc,      \* acc[p]: its partial result
  mid,      \* attn_logits
  split,    \* split[r]: next split stage 2 looks at for row r
  out       \* out[r]: what stage 2 has merged for row r

vars == <<dtype, launch, kind, query, lens, cursor, acc, mid, split, out>>
metadata == <<dtype, launch, kind, query, lens>>

Rows == 0..(NumSeqs * MaxQuery - 1)
Splits == 0..(NumSplits - 1)
Programs == Rows \X Splits

\* Rows of q: one per decode token.
QueryRows == 0..(NumSeqs * query - 1)

----------------------------------------------------------------------------
(* The tables the kernel is called with. *)

CeilDiv(a, b) == (a + b - 1) \div b

\* P5 repeats the tables of a batch that is not causal.
ExpandedPacked == kind = "noncausal" /\ query > 1

\* A6 repeats those of a causal batch, vLLM those of the others.
ExpandedAuto == query > 1

Expanded == IF dtype = "fp8_ds_mla" THEN ExpandedPacked ELSE ExpandedAuto

TableRows == IF Expanded THEN QueryRows ELSE Seqs

SeqTiled(r) == IF Expanded THEN r % NumSeqs ELSE r

\* block_table.repeat_interleave(query_len)
SeqOf(r) == IF Expanded THEN r \div query ELSE r

LenWithoutOffset(r) == lens[SeqOf(r)]

\* seq_lens, repeated; with A6 a causal row ends at its own token.
LenOf(r) ==
  lens[SeqOf(r)] + (IF Expanded /\ kind = "causal" THEN (r % query) - (query - 1) ELSE 0)

\* The cache row of position n as table row r has it.
Slot(r, n) == Pages[SeqOf(r)][n \div PageSize + 1] * PageSize + (n % PageSize)

----------------------------------------------------------------------------
(* Stage 1. *)

SplitFloored(r) == LenOf(r) \div NumSplits

SplitLen(r) == CeilDiv(LenOf(r), NumSplits)

SplitStart(r, k) == SplitLen(r) * k

SplitEnd(r, k) ==
  IF SplitStart(r, k) + SplitLen(r) < LenOf(r)
  THEN SplitStart(r, k) + SplitLen(r) ELSE LenOf(r)

AnySplit(r, k) == TRUE

NonEmpty(r, k) == SplitEnd(r, k) > SplitStart(r, k)

\* Where the positions of a block end: lanes behind the split are masked.
BlockUnmasked(r, k, start) == start + BlockN

BlockEnd(r, k, start) ==
  IF start + BlockN < SplitEnd(r, k) THEN start + BlockN ELSE SplitEnd(r, k)

\* One block of the split.  What a row without a table row computes from the
\* memory behind the tables is undefined and not followed.
Attend(r, k) ==
  /\ r \in QueryRows \cap TableRows
  /\ NonEmpty(r, k)
  /\ cursor[<<r, k>>] < SplitEnd(r, k)
  /\ LET first == cursor[<<r, k>>]
         last == BlockEnd(r, k, first) - 1
     IN acc' = [acc EXCEPT ![<<r, k>>] = @ \o [i \in 1..(last - first + 1) |-> Slot(r, first + i - 1)]]
  /\ cursor' = [cursor EXCEPT ![<<r, k>>] = @ + BlockN]
  /\ UNCHANGED <<metadata, mid, split, out>>

\* The split's result is stored; an empty split stores nothing.
Store(r, k) ==
  /\ r \in QueryRows \cap TableRows
  /\ NonEmpty(r, k)
  /\ cursor[<<r, k>>] >= SplitEnd(r, k)
  /\ acc[<<r, k>>] # <<>>
  /\ mid' = [mid EXCEPT ![<<r, k>>] = acc[<<r, k>>]]
  /\ acc' = [acc EXCEPT ![<<r, k>>] = <<>>]
  /\ UNCHANGED <<metadata, cursor, split, out>>

Stage1Done ==
  \A r \in QueryRows \cap TableRows, k \in Splits :
    NonEmpty(r, k) => cursor[<<r, k>>] >= SplitEnd(r, k) /\ acc[<<r, k>>] = <<>>

----------------------------------------------------------------------------
(* Stage 2 is launched behind stage 1 on the same stream. *)

Merge(r) ==
  /\ Stage1Done
  /\ r \in QueryRows \cap TableRows
  /\ split[r] < NumSplits
  /\ out' = [out EXCEPT ![r] = IF NonEmpty(r, split[r]) THEN @ \o mid[<<r, split[r]>>] ELSE @]
  /\ split' = [split EXCEPT ![r] = @ + 1]
  /\ UNCHANGED <<metadata, cursor, acc, mid>>

Merged(r) == split[r] = NumSplits

----------------------------------------------------------------------------

\* The batch of a launch: a sequence is at least as long as its query.
Batch(n) ==
  /\ launch' = n
  /\ kind' \in Kinds
  /\ query' \in 1..MaxQuery
  /\ lens' \in [Seqs -> query'..MaxLen]

\* A program's cursor starts where its split does.
Begin ==
  /\ cursor' = [p \in Programs |->
       IF p[1] \in (QueryRows \cap TableRows)' THEN SplitStart(p[1], p[2])' ELSE 0]
  /\ acc' = [p \in Programs |-> <<>>]
  /\ split' = [r \in Rows |-> 0]
  /\ out' = [r \in Rows |-> <<>>]

Relaunch ==
  /\ launch < Launches
  /\ \A r \in QueryRows \cap TableRows : Merged(r)
  /\ Batch(launch + 1)
  /\ UNCHANGED <<dtype, mid>>
  /\ Begin

\* No launch yet; attn_logits holds whatever the allocator left there.
Init ==
  /\ dtype \in Dtypes
  /\ launch = 0
  /\ kind = "causal"
  /\ query = 1
  /\ lens = [s \in Seqs |-> 0]
  /\ cursor = [p \in Programs |-> 0]
  /\ acc = [p \in Programs |-> <<>>]
  /\ mid = [p \in Programs |-> <<-1>>]
  /\ split = [r \in Rows |-> NumSplits]
  /\ out = [r \in Rows |-> <<>>]

Next ==
  \/ Relaunch
  \/ \E r \in Rows, k \in Splits : Attend(r, k) \/ Store(r, k)
  \/ \E r \in Rows : Merge(r)

Spec == Init /\ [][Next]_vars

----------------------------------------------------------------------------

\* The sequence and the prefix the query token behind row r is about.
TokenSeq(r) == r \div query

Prefix(r) ==
  lens[TokenSeq(r)] - (IF kind = "causal" THEN query - 1 - (r % query) ELSE 0)

\* The row's tokens are its own prefix, each position once, from the pages of
\* its own sequence.
AttendsPrefix(r) ==
  out[r] = [i \in 1..Prefix(r) |->
              Pages[TokenSeq(r)][(i - 1) \div PageSize + 1] * PageSize + ((i - 1) % PageSize)]

\* A verification of drafts on the packed cache: several tokens of a sequence
\* in a causal batch, for which P5 has no table rows.
PackedVerification == dtype = "fp8_ds_mla" /\ kind = "causal" /\ query > 1

\* Whatever order the programs ran in and whatever an earlier launch left in
\* attn_logits, a query token has attended every position of its sequence up
\* to its own (or all, if not causal), each once, from its sequence's pages:
\* in every batch of the ordinary cache (A6), and in every batch of the packed
\* one that P5 has table rows for.
ExactPrefix ==
  \A r \in QueryRows : launch > 0 /\ Merged(r) /\ ~PackedVerification => AttendsPrefix(r)

\* "outputs identical to bf16" (README.md:39), "written by us, correct"
\* (JOURNAL.md:66): the same of every batch of the packed cache.
PortCorrect ==
  \A r \in QueryRows : launch > 0 /\ Merged(r) /\ dtype = "fp8_ds_mla" => AttendsPrefix(r)
=============================================================================
