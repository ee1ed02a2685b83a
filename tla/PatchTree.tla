----------------------------- MODULE PatchTree -----------------------------
(***************************************************************************)
(* The literal-substitution patchers and the installed vLLM tree they      *)
(* edit, run one at a time in any order, possibly killed, on a tree whose  *)
(* text may have drifted.  dspark_pp_patch.py has a --revert and asserts   *)
(* every anchor, as hand_patches.py and the fp8 port's patcher do;         *)
(* specdec_pp_relay.py counts the anchors it misses; the scheduler fixes   *)
(* and the kernel guard have one block each.  A place in the tree holds    *)
(* one of the few texts the patchers tell apart.                           *)
(***************************************************************************)
EXTENDS Integers, Sequences

CONSTANTS
  Kits,       \* the sets of patchers that are run on one tree
  MaxDrifted  \* bound, of each kit: places whose upstream text has changed

Tools == UNION Kits

ASSUME PatchTreeAssumption ==
  /\ Tools \subseteq {"dspark", "relay", "a0_only", "fp8", "hand",
                       "anchor_fix", "inflight_gate", "cadence_fix", "kernel_fix"}
  /\ MaxDrifted \in [Kits -> Nat]

VARIABLES
  tree,     \* tree[s]: the text at place s
  kit,      \* the patchers used on this tree
  tool,     \* the patcher of the current or last run
  reverse,  \* --revert
  skipA6,   \* SKIP_A6=1 in the environment of dspark_pp_patch.py
  block,    \* the block it is at
  missed,   \* a block of this run found no anchor
  outcome   \* "running", or how the last run ended

vars == <<tree, kit, tool, reverse, skipA6, block, missed, outcome>>

----------------------------------------------------------------------------
(* The blocks, in the order main() applies them. *)

\* keeps: the replacement still contains the text it replaces.
Block(site, old, new, optional, keeps) ==
  [site |-> site, old |-> old, new |-> new, optional |-> optional, keeps |-> keeps]

Apply(site, insertions) == Block(site, "upstream", "ours", FALSE, site \in insertions)

ApplyAll(sites, insertions) == [i \in DOMAIN sites |-> Apply(sites[i], insertions)]

\* A0 had an earlier form, which a block of its own rewrites.
ConfigBlocks == <<Block("A0", "early", "ours", TRUE, FALSE), Apply("A0", {})>>

TapBlocks == ApplyAll(<<"B1", "B5", "B2", "B3", "B4">>, {"B1", "B3"})

DraftBlocks(skip) ==
  ApplyAll(<<"A1", "A3", "A4">> \o (IF skip THEN <<>> ELSE <<"A6">>) \o <<"A5", "A2", "A7">>,
           {"A5", "A2"})

\* main() of dspark_pp_patch.py
MainBlocks(skip) == TapBlocks \o ConfigBlocks \o DraftBlocks(skip)

RelayBlocks ==
  ApplyAll(<<"V1", "V1b", "V1c", "V2", "V2b", "V2c", "V3", "V3b", "V3c",
             "V4", "V5", "V5b", "V6", "V6b", "V6c", "V6d">>,
           {"V1b", "V2b", "V2c", "V3", "V5b"})

\* apply_vllm_patches.py
CacheBlocks == ApplyAll(<<"P3a", "P3b", "P3c", "P5">>, {"P3b", "P5"})

\* hand_patches.py: the SITU whitelist is replaced wherever it is found.
HandBlocks ==
  <<Block("SITU", "upstream", "ours", TRUE, FALSE)>>
    \o ApplyAll(<<"humming", "transposed", "wiring", "schema">>, {})

\* a0_only_patch.py has A0 alone, without the early form.
A0Blocks == <<Apply("A0", {})>>

\* The scheduler fixes and the kernel guard.
OneBlock(t) == <<Apply(t, {"anchor_fix", "cadence_fix", "kernel_fix"})>>

BlocksOf(t, skip) ==
  CASE t = "dspark" -> MainBlocks(skip)
    [] t = "relay"  -> RelayBlocks
    [] t = "fp8"    -> CacheBlocks
    [] t = "hand"   -> HandBlocks
    [] t = "a0_only" -> A0Blocks
    [] OTHER        -> OneBlock(t)

SitesOf(t) ==
  UNION {{BlocksOf(t, skip)[i].site : i \in DOMAIN BlocksOf(t, skip)} : skip \in BOOLEAN}

Sites == UNION {SitesOf(t) : t \in Tools}

Insertions ==
  {s \in Sites : \E t \in Tools : \E i \in DOMAIN BlocksOf(t, FALSE) :
                  BlocksOf(t, FALSE)[i].site = s /\ BlocksOf(t, FALSE)[i].keeps}

Files ==
  {{"B1", "B5", "B2", "B3", "B4"}, {"A0"}, {"A1", "A2"}, {"A4"}, {"A6", "P3a", "P3b", "P3c", "P5"},
   {"SITU"}, {"humming"}, {"transposed", "wiring"}, {"schema"},
   {"anchor_fix", "inflight_gate", "cadence_fix"}, {"kernel_fix"},
   {"A3", "A5", "V1c", "V4", "V5", "V5b"},
   {"A7", "V1", "V1b", "V2", "V2b", "V2c", "V3", "V3b", "V3c", "V6", "V6b", "V6c", "V6d"}}

\* other: none of our texts; twice: an insertion made into its own result.
Texts == {"upstream", "early", "ours", "twice", "other"}

\* text in src
Contains(site, text) ==
  \/ tree[site] = text
  \/ site \in Insertions /\ tree[site] \in {"ours", "twice"} /\ text = "upstream"
  \/ tree[site] = "twice" /\ text = "ours"

\* src.replace(old, new, 1)
Replaced(site, new) ==
  IF new = "ours" /\ tree[site] \in {"ours", "twice"} THEN "twice" ELSE new

----------------------------------------------------------------------------

Over == outcome # "running"

Start(t, r, skip) ==
  /\ Over
  /\ t \in kit
  /\ r \/ skip => t = "dspark"
  /\ tool' = t
  /\ reverse' = r
  /\ skipA6' = skip
  /\ block' = 1
  /\ missed' = FALSE
  /\ outcome' = "running"
  /\ UNCHANGED <<tree, kit>>

Blocks == BlocksOf(tool, skipA6)

At(i) == Blocks[i]

\* --revert swaps the two texts and makes every block optional.
Old(b) == IF reverse THEN b.new ELSE b.old
New(b) == IF reverse THEN b.old ELSE b.new

Optional(b) == reverse \/ b.optional

Active == ~Over /\ block <= Len(Blocks)

GoOn == block' = block + 1 /\ UNCHANGED <<kit, tool, reverse, skipA6, outcome>>

Ends(how) ==
  /\ outcome' = how
  /\ block' = 1
  /\ missed' = FALSE
  /\ UNCHANGED <<kit, tool, reverse, skipA6>>

NeverApplied(b) == FALSE

IsApplied(b) == Contains(b.site, New(b))

\* "already applied", or nothing there to migrate.
Skip ==
  /\ Active
  /\ \/ IsApplied(At(block))
     \/ Optional(At(block)) /\ ~Contains(At(block).site, Old(At(block)))
  /\ GoOn
  /\ UNCHANGED <<tree, missed>>

HasAnchor == Active /\ ~IsApplied(At(block)) /\ Contains(At(block).site, Old(At(block)))

Substitute ==
  /\ HasAnchor
  /\ tree' = [tree EXCEPT ![At(block).site] = Replaced(At(block).site, New(At(block)))]
  /\ GoOn
  /\ UNCHANGED missed

AnchorMissing(b) ==
  /\ ~IsApplied(b)
  /\ ~Contains(b.site, Old(b))
  /\ ~Optional(b)

\* An assertion, or the early return of a one-block patcher, ends the run ...
AssertFails ==
  /\ Active
  /\ AnchorMissing(At(block))
  /\ tool # "relay"
  /\ Ends("failed")
  /\ UNCHANGED tree

\* ... specdec_pp_relay.py remembers it (ok &=) and tries the next block.
Misses ==
  /\ Active
  /\ AnchorMissing(At(block))
  /\ tool = "relay"
  /\ missed' = TRUE
  /\ GoOn
  /\ UNCHANGED tree

Forgets == "done"

ExitStatus == IF missed THEN "failed" ELSE "done"

Exit ==
  /\ ~Over
  /\ block > Len(Blocks)
  /\ Ends(ExitStatus)
  /\ UNCHANGED tree

\* A kill between two blocks, or between the truncating open and the write.
Kill ==
  /\ ~Over
  /\ Ends("killed")
  /\ \/ UNCHANGED tree
     \/ /\ HasAnchor
        /\ \E f \in Files :
             /\ At(block).site \in f
             /\ tree' = [s \in Sites |-> IF s \in f THEN "other" ELSE tree[s]]

\* A fresh install, or one an early version of A0 was applied to.
Init ==
  /\ kit \in Kits
  /\ \E drifted \in [1..MaxDrifted[kit] -> UNION {SitesOf(t) : t \in kit} \cup {"nowhere"}],
        early \in BOOLEAN :
       tree = [s \in Sites |->
                 IF \E i \in 1..MaxDrifted[kit] : drifted[i] = s THEN "other"
                 ELSE IF s = "A0" /\ early THEN "early" ELSE "upstream"]
  /\ tool \in kit
  /\ reverse = FALSE
  /\ skipA6 = FALSE
  /\ block = 1
  /\ missed = FALSE
  /\ outcome = "none"

Next ==
  \/ \E t \in Tools, r, skip \in BOOLEAN : Start(t, r, skip)
  \/ Skip \/ Substitute \/ AssertFails \/ Misses \/ Exit \/ Kill

Spec == Init /\ [][Next]_vars

----------------------------------------------------------------------------

\* "Idempotent": whatever was run, killed, reverted or run again before, no
\* insertion is made twice.
Idempotent == \A s \in Sites : tree[s] # "twice"

\* "a drifted tree fails loudly instead of reporting success": a run that
\* reports success has left every place of its blocks as its own text.
SuccessMeansApplied ==
  outcome = "done" /\ ~reverse =>
    \A i \in DOMAIN Blocks : ~Blocks[i].optional => tree[Blocks[i].site] = "ours"

\* "reversing it restores the file byte for byte" (dspark_pp_patch.py:31), of a
\* tree that was upstream's before.
RevertRestores ==
  outcome = "done" /\ reverse /\ ~skipA6 =>
    \A s \in SitesOf("dspark") : tree[s] \in {"upstream", "other"}
=============================================================================
