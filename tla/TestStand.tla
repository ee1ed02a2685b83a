----------------------------- MODULE TestStand -----------------------------
(***************************************************************************)
(* The test stand: the scripts that make a small slice of the model and a  *)
(* draft for it, and dspark_pp_test.sh, which serves the two with PPN      *)
(* stages and with one (module DraftLoad) and compares what the draft was  *)
(* given.  The scripts run one at a time, in any order, and may fail.      *)
(* Tensors are told apart by the kind of their layer, shapes are left out. *)
(***************************************************************************)
EXTENDS DraftLoad, Sequences, FiniteSets

CONSTANTS
  MaxLines,  \* bound: lines the probe prints for one request
  MaxRuns    \* bound: scripts started

ASSUME TestStandAssumption ==
  MaxLines \in Nat /\ MaxRuns \in Nat /\ 1 \in Sizes

VARIABLES
  shell,    \* the script in the foreground
  runs,     \* scripts started so far
  tensors,  \* kinds of the layers in k3-slice-hf/model.safetensors
  config,   \* k3-slice-hf/config.json
  gguf,     \* kinds of the layers in gguf-slice/model.safetensors
  phases,   \* configs/slice_<phase>.json, for each phase
  draft,    \* k3-dspark-draft/config.json
  ppn,      \* PPN of the test
  probe,    \* probe[t]: the probe file of the server with PPN stages, with one
  seen,     \* seen[t]: what the draft of that server had when it was asked
  gate2     \* the verdict of GATE 2

fileVars == <<tensors, config, gguf, phases, draft>>
testVars == <<ppn, probe, seen, gate2>>
vars     == <<loadVars, shell, runs, fileVars, testVars>>

Tags == {"ppn", "one"}

NoFile == [depth |-> 0]
Nothing == [embed |-> "none", taps |-> 0, sized |-> 0]

----------------------------------------------------------------------------
(* The generators. *)

\* One script at a time.
Begins(script) ==
  /\ shell = "free"
  /\ runs < MaxRuns
  /\ runs' = runs + 1
  /\ shell' = script

Ends == shell' = "free" /\ UNCHANGED runs

\* L in kda decides a layer's attention, dense0 its MLP; layers from 0.
Kinds(n, kda) ==
  [depth |-> n,
   attn  |-> [L \in 0..(n - 1) |-> IF L \in kda THEN "kda" ELSE "mla"],
   mlp   |-> [L \in 0..(n - 1) |-> IF L = 0 THEN "dense" ELSE "moe"]]

\* Three KDA layers, then one with full attention (gen_slice_hf.py).
SliceKda(n) == {L \in 0..(n - 1) : L % 4 # 3}

\* The tensors are saved before anything is fetched.
SaveTensors(n) ==
  /\ Begins("gen_slice")
  /\ tensors' = Kinds(n, SliceKda(n))
  /\ UNCHANGED <<loadVars, config, gguf, phases, draft, testVars>>

\* A download fails: the script is gone, and the config.json before stays.
FetchFails ==
  /\ shell = "gen_slice"
  /\ Ends
  /\ UNCHANGED <<loadVars, fileVars, testVars>>

\* The configuration lists layers from 1, C["kda"] has them from 0.
ListsUnshifted(n) == [kda |-> SliceKda(n), full |-> (0..(n - 1)) \ SliceKda(n)]

Lists(n) ==
  [kda  |-> {L + 1 : L \in SliceKda(n)},
   full |-> {L + 1 : L \in (0..(n - 1)) \ SliceKda(n)}]

SliceConfig(n) == [depth |-> n, lists |-> Lists(n), dense |-> 1, mtp |-> 0]

WriteConfig ==
  /\ shell = "gen_slice"
  /\ Ends
  /\ config' = SliceConfig(tensors.depth)
  /\ UNCHANGED <<loadVars, tensors, gguf, phases, draft, testVars>>

\* make_slice_config.py: four layers, listed by hand; phase c has an MTP layer.
BuildSliceConfig(phase) ==
  [depth |-> 4, lists |-> [kda |-> {1, 2, 3}, full |-> {4}], dense |-> 1,
   mtp |-> IF phase = "c" THEN 1 ELSE 0]

MakeSliceConfigs ==
  /\ Begins("free")
  /\ phases' = [phase \in {"a", "b", "c"} |-> BuildSliceConfig(phase)]
  /\ UNCHANGED <<loadVars, tensors, config, gguf, draft, testVars>>

\* gen_gguf_slice.py: the real model's layers the formulas are held against, and
\* the four it emits if their shapes agree; it dies on the assertion otherwise.
GgufKda == {0, 1, 2}

EmitGguf ==
  /\ Begins("free")
  /\ \/ gguf' = Kinds(4, GgufKda)
     \/ UNCHANGED gguf
  /\ UNCHANGED <<loadVars, tensors, config, phases, draft, testVars>>

\* gen_dspark_draft.py taps every layer; ids from 1 were tried first.
TapEveryLayerFrom1(n) == 1..n

TargetLayerIds(n) == 0..(n - 1)

Build(n) ==
  [depth |-> n, ids |-> TargetLayerIds(n), sized |-> Cardinality(TargetLayerIds(n))]

\* The draft is built from the config.json that is there now, if any.
GenDraft ==
  /\ Begins("free")
  /\ draft' = IF config = NoFile THEN draft ELSE Build(config.depth)
  /\ UNCHANGED <<loadVars, tensors, config, gguf, phases, testVars>>

----------------------------------------------------------------------------
(* The server. *)

\* vLLM adds 1 to the ids; a stage meets the ones that are layers of the model.
Tapped == {i + 1 : i \in draft.ids} \cap 1..Depth

\* context_proj is sized for as many taps as there are ids, or warm-up raises.
Fits == Cardinality(Tapped) = draft.sized

Loaded == engine = "workers" /\ \A r \in Ranks : pc[r] = "ready"

ServerOf(A) == A /\ UNCHANGED <<shell, runs, fileVars, testVars>>

AllRanks == UNION {0..(p - 1) : p \in Sizes}

WorkerOf(r) == r \in Ranks /\ ServerOf(Worker(r))

----------------------------------------------------------------------------
(* dspark_pp_test.sh *)

StartTest(p) ==
  /\ config # NoFile /\ draft # NoFile
  /\ Begins("boot_ppn")
  /\ Launch(p, config.depth)
  /\ ppn' = p
  /\ seen' = [t \in Tags |-> Nothing]
  /\ gate2' = "none"
  /\ UNCHANGED <<fileVars, probe>>

\* serve returns 0 once the API lists the model.
Boots(from, to) ==
  /\ shell = from
  /\ Loaded /\ Fits
  /\ shell' = to
  /\ UNCHANGED <<loadVars, runs, fileVars, testVars>>

\* An error in the log, or 50 polls: exit 1; the server is left where it is.
GivesUp ==
  /\ shell \in {"boot_ppn", "boot_one"}
  /\ Ends
  /\ UNCHANGED <<loadVars, fileVars, testVars>>

\* The completion, and what the probe file has of its lines after 8 s: they are
\* written out late, so the first ones, if any; none if the server has died.
Ask(t) ==
  \E lines \in 0..(IF Loaded THEN MaxLines ELSE 0) :
    /\ probe' = [probe EXCEPT ![t] = [i \in 1..lines |-> [step |-> i, taps |-> Tapped]]]
    /\ seen' = [seen EXCEPT ![t] =
         IF Loaded
         THEN [embed |-> embed, taps |-> Cardinality(Tapped), sized |-> draft.sized]
         ELSE Nothing]

AskPPN ==
  /\ shell = "ask_ppn"
  /\ Ask("ppn")
  /\ Launch(1, config.depth)
  /\ shell' = "boot_one"
  /\ UNCHANGED <<runs, fileVars, ppn, gate2>>

AskOne ==
  /\ shell = "ask_one"
  /\ Ask("one")
  /\ shell' = "gates"
  /\ UNCHANGED <<loadVars, runs, fileVars, ppn, gate2>>

\* diff alone succeeds on two empty files; -s asks for evidence first.
Identical == probe["ppn"] = probe["one"]

Gate2Passes == probe["one"] # <<>> /\ probe["ppn"] # <<>> /\ Identical

Gate2 ==
  /\ shell = "gates"
  /\ Ends
  /\ gate2' = IF Gate2Passes THEN "PASS" ELSE "FAIL"
  /\ UNCHANGED <<loadVars, fileVars, ppn, probe, seen>>

----------------------------------------------------------------------------

StandInit ==
  /\ LoadInit
  /\ shell = "free"
  /\ runs = 0
  /\ tensors = NoFile /\ config = NoFile /\ gguf = NoFile /\ draft = NoFile
  /\ phases = [phase \in {"a", "b", "c"} |-> NoFile]
  /\ ppn = 1
  /\ probe = [t \in Tags |-> <<>>]
  /\ seen = [t \in Tags |-> Nothing]
  /\ gate2 = "none"

StandNext ==
  \/ \E n \in Depths : SaveTensors(n)
  \/ FetchFails
  \/ WriteConfig
  \/ MakeSliceConfigs
  \/ EmitGguf
  \/ GenDraft
  \/ ServerOf(LoadStep)
  \/ \E p \in Sizes : StartTest(p)
  \/ Boots("boot_ppn", "ask_ppn")
  \/ Boots("boot_one", "ask_one")
  \/ GivesUp
  \/ AskPPN
  \/ AskOne
  \/ Gate2

StandSpec == StandInit /\ [][StandNext]_vars

\* Loading goes on by itself; nothing has to fail, and nobody has to run a script.
FairStand ==
  /\ StandSpec
  /\ WF_vars(ServerOf(Relax)) /\ WF_vars(ServerOf(Verify))
  /\ WF_vars(ServerOf(Broadcast)) /\ WF_vars(ServerOf(LoadDraft))
  /\ \A r \in AllRanks : WF_vars(WorkerOf(r))

----------------------------------------------------------------------------

Agree(t, c) ==
  \A L \in 0..(t.depth - 1) :
    /\ t.attn[L] = "kda" <=> L + 1 \in c.lists.kda
    /\ t.attn[L] = "mla" <=> L + 1 \in c.lists.full
    /\ t.mlp[L] = "dense" <=> L < c.dense

\* Whichever generator made the tensors and whichever the configuration, of one
\* depth they have the same layers: three conventions of numbering, two rules
\* for the pattern and a list written by hand come to the same.
KindsAgree ==
  \A t \in {tensors, gguf} \ {NoFile},
     c \in ({config} \cup {phases[p] : p \in {"a", "b", "c"}}) \ {NoFile} :
    t.depth = c.depth => Agree(t, c)

\* A draft delivers as many taps as its projection is sized for on every slice at
\* least as deep as the one it was built from, the slice made over since or not.
TapsFit ==
  config # NoFile /\ draft # NoFile /\ draft.depth <= config.depth =>
    Cardinality({i + 1 : i \in draft.ids} \cap 1..config.depth) = draft.sized

\* GATE 2 passes on evidence: both servers, one after the other, ran the request
\* through a draft that had the target's embedding and all of its taps.
GateMeansLoaded ==
  gate2 = "PASS" =>
    \A t \in Tags : seen[t].embed = "target" /\ seen[t].taps = seen[t].sized
=============================================================================
