-------------------------- MODULE PatchTree_proofs --------------------------
(***************************************************************************)
(* The patchers on any tree: for every choice of patchers run together and *)
(* any number of drifted places, no insertion is made twice, and a run     *)
(* that reports success has left every place it had to change as ours.     *)
(* The invariant adds what a run has behind it: a block of a run that has  *)
(* missed nothing so far is applied once the run is past it, and no later  *)
(* block of the run undoes it, because none but --revert writes a text     *)
(* that is not ours.                                                       *)
(***************************************************************************)
EXTENDS PatchTree, SequenceTheorems, TLAPS

\* A sequence of blocks that put our text in, and only --revert takes out.
Ours(blocks) ==
  /\ \E T : blocks \in Seq(T)
  /\ \A i \in DOMAIN blocks : blocks[i].new = "ours" /\ blocks[i].old \in {"upstream", "early"}

Passed ==
  outcome = "running" /\ ~reverse /\ ~missed =>
    \A i \in DOMAIN Blocks :
      i < block /\ ~Blocks[i].optional => tree[Blocks[i].site] = "ours"

PatchTypeOK ==
  /\ DOMAIN tree = Sites
  /\ kit \in Kits /\ tool \in Tools
  /\ reverse \in BOOLEAN /\ skipA6 \in BOOLEAN /\ missed \in BOOLEAN
  /\ block \in Nat \ {0}

PatchInv == PatchTypeOK /\ Idempotent /\ Passed /\ SuccessMeansApplied

----------------------------------------------------------------------------
(* The blocks *)

LEMMA ApplyAllIs ==
  ASSUME NEW T, NEW sites \in Seq(T), NEW insertions
  PROVE  Ours(ApplyAll(sites, insertions))
  <1>1. DOMAIN sites = 1..Len(sites) /\ Len(sites) \in Nat
    OBVIOUS
  <1>2. ApplyAll(sites, insertions) \in [1..Len(sites) -> {Apply(sites[i], insertions) : i \in 1..Len(sites)}]
    BY <1>1 DEF ApplyAll
  <1>3. ApplyAll(sites, insertions) \in Seq({Apply(sites[i], insertions) : i \in 1..Len(sites)})
    BY <1>1, <1>2, SeqDef
  <1>4. \A i \in DOMAIN ApplyAll(sites, insertions) : ApplyAll(sites, insertions)[i] = Apply(sites[i], insertions)
    BY DEF ApplyAll
  <1>q. QED BY <1>3, <1>4 DEF Ours, Apply, Block

LEMMA OneIs ==
  ASSUME NEW site, NEW old \in {"upstream", "early"}, NEW optional, NEW keeps
  PROVE  Ours(<<Block(site, old, "ours", optional, keeps)>>)
  <1>1. PICK b : b = Block(site, old, "ours", optional, keeps)
    OBVIOUS
  <1>2. <<b>> \in Seq({b}) /\ DOMAIN <<b>> = 1..1 /\ <<b>>[1] = b
    OBVIOUS
  <1>3. b.new = "ours" /\ b.old = old
    BY <1>1 DEF Block
  <1>4. Ours(<<b>>)
    <2>1. \A i \in DOMAIN <<b>> : <<b>>[i] = b
      BY <1>2
    <2>q. QED BY <1>2, <1>3, <2>1 DEF Ours
  <1>q. QED BY <1>1, <1>4

LEMMA JoinIs ==
  ASSUME NEW s, NEW t, Ours(s), Ours(t)
  PROVE  Ours(s \o t)
  <1>1. PICK S, T : s \in Seq(S) /\ t \in Seq(T)
    BY DEF Ours
  <1>2. s \in Seq(S \cup T) /\ t \in Seq(S \cup T)
    BY <1>1
  <1>3. /\ s \o t \in Seq(S \cup T)
        /\ Len(s) \in Nat /\ Len(t) \in Nat
        /\ Len(s \o t) = Len(s) + Len(t)
        /\ \A i \in 1..(Len(s) + Len(t)) : (s \o t)[i] = IF i <= Len(s) THEN s[i] ELSE t[i - Len(s)]
    BY <1>2, ConcatProperties
  <1>4. DOMAIN s = 1..Len(s) /\ DOMAIN t = 1..Len(t) /\ DOMAIN (s \o t) = 1..Len(s \o t)
    BY <1>2, <1>3
  <1>5. ASSUME NEW i \in DOMAIN (s \o t)
        PROVE  (s \o t)[i].new = "ours" /\ (s \o t)[i].old \in {"upstream", "early"}
    <2>1. CASE i <= Len(s)
      <3>1. i \in DOMAIN s /\ (s \o t)[i] = s[i]
        BY <1>3, <1>4, <2>1
      <3>q. QED BY <3>1 DEF Ours
    <2>2. CASE ~(i <= Len(s))
      <3>1. i - Len(s) \in DOMAIN t /\ (s \o t)[i] = t[i - Len(s)]
        BY <1>3, <1>4, <2>2
      <3>q. QED BY <3>1 DEF Ours
    <2>q. QED BY <2>1, <2>2
  <1>q. QED BY <1>3, <1>5 DEF Ours

\* Every patcher is such a sequence.
LEMMA BlocksAre ==
  ASSUME NEW t, NEW skip
  PROVE  Ours(BlocksOf(t, skip))
  <1>1. Ours(TapBlocks) /\ Ours(DraftBlocks(skip))
    <2>1. <<"B1", "B5", "B2", "B3", "B4">> \in Seq({"B1", "B5", "B2", "B3", "B4"})
      OBVIOUS
    <2>2. PICK S : S = {"A1", "A3", "A4", "A6", "A5", "A2", "A7"}
      OBVIOUS
    <2>3. PICK m : m = IF skip THEN <<>> ELSE <<"A6">>
      OBVIOUS
    <2>4. /\ <<"A1", "A3", "A4">> \in Seq(S) /\ m \in Seq(S)
          /\ <<"A5", "A2", "A7">> \in Seq(S)
      <3>1. <<"A6">> \in Seq(S) /\ <<>> \in Seq(S)
        BY <2>2
      <3>2. m \in Seq(S)
        BY <2>3, <3>1
      <3>q. QED BY <2>2, <3>2
    <2>5. <<"A1", "A3", "A4">> \o m \o <<"A5", "A2", "A7">> \in Seq(S)
      <3>1. <<"A1", "A3", "A4">> \o m \in Seq(S)
        BY <2>4, ConcatProperties
      <3>q. QED BY <2>4, <3>1, ConcatProperties
    <2>6. Ours(DraftBlocks(skip))
      BY <2>3, <2>5, ApplyAllIs DEF DraftBlocks
    <2>q. QED BY <2>1, <2>6, ApplyAllIs DEF TapBlocks
  <1>2. Ours(ConfigBlocks)
    <2>1. PICK a, b : a = Block("A0", "early", "ours", TRUE, FALSE) /\ b = Apply("A0", {})
      OBVIOUS
    <2>2. /\ a.new = "ours" /\ a.old \in {"upstream", "early"}
          /\ b.new = "ours" /\ b.old \in {"upstream", "early"}
      BY <2>1 DEF Apply, Block
    <2>3. /\ <<a, b>> \in Seq({a, b})
          /\ \A i \in DOMAIN <<a, b>> : <<a, b>>[i] = a \/ <<a, b>>[i] = b
      OBVIOUS
    <2>4. Ours(<<a, b>>)
      BY <2>2, <2>3 DEF Ours
    <2>q. QED BY <2>1, <2>4 DEF ConfigBlocks
  <1>3. Ours(MainBlocks(skip))
    BY <1>1, <1>2, JoinIs DEF MainBlocks
  <1>4. Ours(RelayBlocks) /\ Ours(CacheBlocks)
    <2>1. <<"V1", "V1b", "V1c", "V2", "V2b", "V2c", "V3", "V3b", "V3c",
            "V4", "V5", "V5b", "V6", "V6b", "V6c", "V6d">>
            \in Seq({"V1", "V1b", "V1c", "V2", "V2b", "V2c", "V3", "V3b", "V3c",
                     "V4", "V5", "V5b", "V6", "V6b", "V6c", "V6d"})
      OBVIOUS
    <2>2. <<"P3a", "P3b", "P3c", "P5">> \in Seq({"P3a", "P3b", "P3c", "P5"})
      OBVIOUS
    <2>q. QED BY <2>1, <2>2, ApplyAllIs DEF RelayBlocks, CacheBlocks
  <1>5. Ours(HandBlocks)
    <2>1. Ours(<<Block("SITU", "upstream", "ours", TRUE, FALSE)>>)
      BY OneIs
    <2>2. <<"humming", "transposed", "wiring", "schema">>
            \in Seq({"humming", "transposed", "wiring", "schema"})
      OBVIOUS
    <2>3. Ours(ApplyAll(<<"humming", "transposed", "wiring", "schema">>, {}))
      BY <2>2, ApplyAllIs
    <2>q. QED BY <2>1, <2>3, JoinIs DEF HandBlocks
  <1>6. Ours(A0Blocks) /\ Ours(OneBlock(t))
    BY OneIs DEF Apply, A0Blocks, OneBlock
  <1>q. QED BY <1>3, <1>4, <1>5, <1>6 DEF BlocksOf

LEMMA BlockSites ==
  ASSUME tool \in Tools, skipA6 \in BOOLEAN, NEW i \in DOMAIN Blocks
  PROVE  Blocks[i].site \in Sites
  <1>1. Blocks[i].site \in SitesOf(tool)
    BY DEF SitesOf, Blocks
  <1>q. QED BY <1>1 DEF Sites

\* The block a run is at.
LEMMA BlockAt ==
  ASSUME PatchTypeOK, block <= Len(Blocks)
  PROVE  /\ block \in DOMAIN Blocks /\ At(block).site \in Sites
         /\ At(block).new = "ours" /\ At(block).old \in {"upstream", "early"}
  <1>1. Ours(Blocks)
    BY BlocksAre DEF Blocks
  <1>2. PICK T : Blocks \in Seq(T)
    BY <1>1 DEF Ours
  <1>3. block \in DOMAIN Blocks
    BY <1>2 DEF PatchTypeOK
  <1>4. At(block).site \in Sites
    BY <1>3, BlockSites DEF At, PatchTypeOK
  <1>q. QED BY <1>1, <1>3, <1>4 DEF At, Ours

\* A run is past the blocks before it and at none after its last.
LEMMA Progress ==
  ASSUME PatchTypeOK, NEW i \in DOMAIN Blocks
  PROVE  /\ i < block + 1 => i < block \/ i = block
         /\ block > Len(Blocks) => i < block
  <1>1. Ours(Blocks)
    BY BlocksAre DEF Blocks
  <1>2. PICK T : Blocks \in Seq(T)
    BY <1>1 DEF Ours
  <1>3. i \in 1..Len(Blocks) /\ Len(Blocks) \in Nat /\ block \in Nat
    BY <1>2 DEF PatchTypeOK
  <1>q. QED BY <1>3

----------------------------------------------------------------------------
(* The runs *)

LEMMA One == 1 \in Nat \ {0}
  OBVIOUS

LEMMA PatchInitInv == Init => PatchInv
  <1> SUFFICES ASSUME Init PROVE PatchInv
    OBVIOUS
  <1>1. PatchTypeOK
    BY One, Zenon DEF Init, PatchTypeOK, Tools
  <1>2. Idempotent
    BY DEF Init, Idempotent
  <1>3. Passed /\ SuccessMeansApplied
    BY DEF Init, Passed, SuccessMeansApplied
  <1>q. QED BY <1>1, <1>2, <1>3 DEF PatchInv

LEMMA StartKeeps ==
  ASSUME PatchInv, NEW t, NEW r \in BOOLEAN, NEW skip \in BOOLEAN, Start(t, r, skip)
  PROVE  PatchInv'
  <1>1. PatchTypeOK'
    BY One, Zenon DEF PatchInv, PatchTypeOK, Start, Tools
  <1>2. Idempotent' /\ SuccessMeansApplied'
    BY DEF PatchInv, Idempotent, SuccessMeansApplied, Start
  <1>3. ASSUME NEW i \in DOMAIN Blocks', i < block' PROVE FALSE
    <2>1. Ours(Blocks') /\ block' = 1
      BY BlocksAre DEF Blocks, Start
    <2>2. PICK T : Blocks' \in Seq(T)
      BY <2>1 DEF Ours
    <2>q. QED BY <1>3, <2>1, <2>2
  <1>4. Passed'
    BY <1>3 DEF Passed
  <1>q. QED BY <1>1, <1>2, <1>4 DEF PatchInv

\* Going on to the next block, this one done with.
LEMMA GoOnKeeps ==
  ASSUME PatchInv, Active, GoOn, DOMAIN tree' = Sites, Idempotent', missed' \in BOOLEAN,
         ~missed' => ~missed,
         ~reverse => /\ \A s \in Sites : tree[s] = "ours" => tree'[s] = "ours"
                     /\ ~missed' /\ ~At(block).optional => tree'[At(block).site] = "ours"
  PROVE  PatchInv'
  <1>1. PatchTypeOK'
    BY DEF PatchInv, PatchTypeOK, GoOn
  <1>2. SuccessMeansApplied'
    BY DEF SuccessMeansApplied, GoOn, Active, Over
  <1>3. Passed'
    <2> SUFFICES ASSUME ~reverse, ~missed', NEW i \in DOMAIN Blocks, i < block + 1,
                        ~Blocks[i].optional
                 PROVE  tree'[Blocks[i].site] = "ours"
      BY DEF Passed, GoOn, Blocks
    <2>1. CASE i = block
      BY <2>1 DEF At
    <2>2. CASE i < block
      <3>1. tree[Blocks[i].site] = "ours"
        BY <2>2 DEF PatchInv, Passed, Active, Over
      <3>2. Blocks[i].site \in Sites
        BY BlockSites DEF PatchInv, PatchTypeOK
      <3>q. QED BY <3>1, <3>2
    <2>q. QED BY <2>1, <2>2, Progress DEF PatchInv
  <1>q. QED BY <1>1, <1>2, <1>3, Zenon DEF PatchInv

\* Nothing is said of a run that has failed or was killed.
LEMMA EndKeeps ==
  ASSUME PatchInv, DOMAIN tree' = Sites, Idempotent', NEW how \in {"failed", "killed"}, Ends(how)
  PROVE  PatchInv'
  <1>1. PatchTypeOK'
    BY One, Zenon DEF PatchInv, PatchTypeOK, Ends
  <1>2. Passed' /\ SuccessMeansApplied'
    BY DEF Passed, SuccessMeansApplied, Ends
  <1>q. QED BY <1>1, <1>2 DEF PatchInv

LEMMA SkipKeeps ==
  ASSUME PatchInv, Skip
  PROVE  PatchInv'
  <1>1. /\ Active /\ GoOn /\ tree' = tree /\ missed' = missed
        /\ IsApplied(At(block)) \/ Optional(At(block))
    BY DEF Skip
  <1>2. /\ At(block).site \in Sites /\ At(block).new = "ours"
    BY <1>1, BlockAt DEF PatchInv, Active
  <1>3. ASSUME ~reverse, ~At(block).optional PROVE tree[At(block).site] = "ours"
    <2>1. Contains(At(block).site, "ours")
      BY <1>1, <1>2, <1>3 DEF IsApplied, Optional, New
    <2>2. tree[At(block).site] # "twice"
      BY <1>2 DEF PatchInv, Idempotent
    <2>q. QED BY <2>1, <2>2 DEF Contains
  <1>4. Idempotent' /\ DOMAIN tree' = Sites /\ missed' \in BOOLEAN
    BY <1>1 DEF PatchInv, PatchTypeOK, Idempotent
  <1>q. QED BY <1>1, <1>3, <1>4, GoOnKeeps

LEMMA SubstituteKeeps ==
  ASSUME PatchInv, Substitute
  PROVE  PatchInv'
  <1>1. PICK b : b = At(block)
    OBVIOUS
  <1>2. /\ Active /\ GoOn /\ missed' = missed
        /\ tree' = [tree EXCEPT ![b.site] = Replaced(b.site, New(b))]
        /\ ~Contains(b.site, New(b))
    BY <1>1 DEF Substitute, HasAnchor, IsApplied
  <1>3. b.site \in Sites /\ b.new = "ours" /\ b.old \in {"upstream", "early"}
    BY <1>1, <1>2, BlockAt DEF PatchInv, Active
  <1>4. DOMAIN tree = Sites /\ missed \in BOOLEAN /\ \A s \in Sites : tree[s] # "twice"
    BY DEF PatchInv, PatchTypeOK, Idempotent
  <1>5. Replaced(b.site, New(b)) = New(b) /\ New(b) # "twice" /\ (~reverse => New(b) = "ours")
    <2>1. CASE reverse
      BY <1>3, <2>1 DEF New, Replaced
    <2>2. CASE ~reverse
      <3>1. New(b) = "ours"
        BY <1>3, <2>2 DEF New
      <3>2. tree[b.site] \notin {"ours", "twice"}
        BY <1>2, <1>3, <1>4, <3>1 DEF Contains
      <3>q. QED BY <3>1, <3>2 DEF Replaced
    <2>q. QED BY <2>1, <2>2
  <1>6. \A s \in Sites : tree'[s] = IF s = b.site THEN New(b) ELSE tree[s]
    BY <1>2, <1>4, <1>5
  <1>7. Idempotent' /\ DOMAIN tree' = Sites
    BY <1>2, <1>4, <1>5, <1>6 DEF Idempotent
  <1>8. ~reverse => /\ \A s \in Sites : tree[s] = "ours" => tree'[s] = "ours"
                    /\ tree'[b.site] = "ours"
    BY <1>3, <1>5, <1>6
  <1>q. QED BY <1>1, <1>2, <1>4, <1>7, <1>8, GoOnKeeps

LEMMA MissesKeeps ==
  ASSUME PatchInv, Misses
  PROVE  PatchInv'
  <1>1. Active /\ GoOn /\ tree' = tree /\ missed' = TRUE
    BY DEF Misses
  <1>2. Idempotent' /\ DOMAIN tree' = Sites
    BY <1>1 DEF PatchInv, PatchTypeOK, Idempotent
  <1>q. QED BY <1>1, <1>2, GoOnKeeps

LEMMA ExitKeeps ==
  ASSUME PatchInv, Exit
  PROVE  PatchInv'
  <1>1. /\ outcome = "running" /\ block > Len(Blocks) /\ tree' = tree
        /\ tool' = tool /\ reverse' = reverse /\ skipA6' = skipA6 /\ kit' = kit
        /\ Blocks' = Blocks
        /\ outcome' = ExitStatus /\ block' = 1 /\ missed' = FALSE
    BY DEF Exit, Ends, Over, Blocks
  <1>2. PatchTypeOK' /\ Idempotent'
    BY <1>1, One DEF PatchInv, PatchTypeOK, Idempotent
  <1>3. Passed'
    BY <1>1 DEF Passed, ExitStatus
  <1>4. SuccessMeansApplied'
    <2> SUFFICES ASSUME outcome' = "done", ~reverse, NEW i \in DOMAIN Blocks,
                        ~Blocks[i].optional
                 PROVE  tree[Blocks[i].site] = "ours"
      BY <1>1 DEF SuccessMeansApplied
    <2>1. ~missed
      BY <1>1 DEF ExitStatus
    <2>2. i < block
      BY <1>1, Progress DEF PatchInv
    <2>q. QED BY <1>1, <2>1, <2>2 DEF PatchInv, Passed
  <1>q. QED BY <1>2, <1>3, <1>4 DEF PatchInv

LEMMA KillKeeps ==
  ASSUME PatchInv, Kill
  PROVE  PatchInv'
  <1>1. DOMAIN tree' = Sites /\ Idempotent'
    BY DEF Kill, PatchInv, PatchTypeOK, Idempotent
  <1>2. Ends("killed")
    BY DEF Kill
  <1>q. QED BY <1>1, <1>2, EndKeeps

LEMMA PatchNextInv == PatchInv /\ [Next]_vars => PatchInv'
  <1> SUFFICES ASSUME PatchInv, [Next]_vars PROVE PatchInv'
    OBVIOUS
  <1>1. CASE \E t \in Tools, r, skip \in BOOLEAN : Start(t, r, skip)
    BY <1>1, StartKeeps
  <1>2. CASE Skip
    BY <1>2, SkipKeeps
  <1>3. CASE Substitute
    BY <1>3, SubstituteKeeps
  <1>4. CASE AssertFails
    <2>1. Ends("failed") /\ tree' = tree
      BY <1>4 DEF AssertFails
    <2>2. DOMAIN tree' = Sites /\ Idempotent'
      BY <2>1 DEF PatchInv, PatchTypeOK, Idempotent
    <2>q. QED BY <2>1, <2>2, EndKeeps
  <1>5. CASE Misses
    BY <1>5, MissesKeeps
  <1>6. CASE Exit
    BY <1>6, ExitKeeps
  <1>7. CASE Kill
    BY <1>7, KillKeeps
  <1>8. CASE UNCHANGED vars
    <2>1. UNCHANGED <<tree, kit, tool, reverse, skipA6, block, missed, outcome>>
      BY <1>8 DEF vars
    <2>q. QED BY <2>1 DEF PatchInv, PatchTypeOK, Idempotent, Passed, SuccessMeansApplied, Blocks
  <1>q. QED BY <1>1, <1>2, <1>3, <1>4, <1>5, <1>6, <1>7, <1>8 DEF Next

LEMMA PatchAlways == Spec => []PatchInv
  <1>q. QED BY PatchInitInv, PatchNextInv, PTL DEF Spec

\* However the patchers are mixed, killed, reverted and run again, on a drifted
\* tree or not, none makes its insertion twice.
THEOREM IdempotentHolds == Spec => []Idempotent
  <1>1. PatchInv => Idempotent
    BY DEF PatchInv
  <1>q. QED BY <1>1, PatchAlways, PTL

\* A patcher that reports success has left each place it is there to change with
\* its own text, whatever tree it was run on.
THEOREM SuccessMeansAppliedHolds == Spec => []SuccessMeansApplied
  <1>1. PatchInv => SuccessMeansApplied
    BY DEF PatchInv
  <1>q. QED BY <1>1, PatchAlways, PTL
=============================================================================
