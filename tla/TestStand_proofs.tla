-------------------------- MODULE TestStand_proofs --------------------------
(***************************************************************************)
(* Loading (DraftLoad) for every sequence of servers, pipeline size, depth *)
(* and split; the stand's test is one such sequence, so its servers load   *)
(* the same way, and then what its own scripts add.                        *)
(***************************************************************************)
EXTENDS TestStand, FiniteSetTheorems, SequenceTheorems, TLAPS

----------------------------------------------------------------------------
(* Loading *)

Places == {"start", "load", "broadcast", "draft", "ready", "raised", "dead"}
Holds  == {"none", "zeros", "target"}

SplitOK == \E n \in Nat : start \in Splits(pp, n)

LoadTypeOK ==
  /\ pp \in Nat \ {0}
  /\ SplitOK
  /\ draftPP \in Nat
  /\ engine \in {"config", "verify", "workers", "failed"}
  /\ pc \in [Ranks -> Places]
  /\ buf \in [Ranks -> [holds : Holds, rows : Nat]]
  /\ embed \in {"none", "zeros", "target", "placeholder"}

\* Rank 0 is in the broadcast with its own weight, and a rank of a pipeline is
\* after it with the same.
Follows(r) ==
  /\ pc[r] = "broadcast" /\ r = 0 => buf[r].holds = "target"
  /\ pc[r] = "draft" /\ pp > 1 => buf[r].holds = "target"

BuffersFollow == \A r \in Ranks : Follows(r)

LayersPastEnd == layers = {} \/ \A L \in layers : L >= Depth

LoadInv == LoadTypeOK /\ BuffersFollow /\ DraftEmbedsAsTarget /\ LayersPastEnd

LEMMA LoadInitInv == LoadInit => LoadInv
  <1> SUFFICES ASSUME LoadInit PROVE LoadInv OBVIOUS
  <1> USE DEF LoadInit
  <1>1. Ranks = 0..0 /\ Last = 0
    BY DEF Ranks, Last
  <1>2. SplitOK
    <2>1. start \in Splits(1, 0)
      BY DEF Splits
    <2>q. QED BY <2>1 DEF SplitOK
  <1>3. LoadTypeOK
    <2>1. pc \in [Ranks -> Places]
      BY <1>1 DEF Places
    <2>2. buf \in [Ranks -> [holds : Holds, rows : Nat]]
      BY <1>1 DEF NoBuffer, Holds
    <2>q. QED BY <1>2, <2>1, <2>2 DEF LoadTypeOK
  <1>4. BuffersFollow /\ DraftEmbedsAsTarget /\ LayersPastEnd
    BY <1>1 DEF BuffersFollow, Follows, DraftEmbedsAsTarget, LayersPastEnd
  <1>q. QED BY <1>3, <1>4 DEF LoadInv

\* A server is started with nothing of the one before.
LEMMA LaunchInv ==
  ASSUME NEW p \in Nat \ {0}, NEW n \in Nat, Launch(p, n) PROVE LoadInv'
  <1> USE DEF Launch
  <1>1. Ranks' = 0..(p - 1) /\ Last' = p - 1 /\ Last' \in Ranks'
    BY DEF Ranks, Last
  <1>s. SplitOK'
    BY DEF SplitOK
  <1>2. LoadTypeOK'
    BY <1>1, <1>s DEF LoadTypeOK, NoBuffer, Places, Holds
  <1>3. BuffersFollow' /\ DraftEmbedsAsTarget' /\ LayersPastEnd'
    BY <1>1 DEF BuffersFollow, Follows, DraftEmbedsAsTarget, LayersPastEnd
  <1>q. QED BY <1>2, <1>3 DEF LoadInv

LEMMA LastIsRank == ASSUME LoadTypeOK PROVE Last \in Ranks /\ 0 \in Ranks /\ Depth \in Nat
  BY DEF LoadTypeOK, SplitOK, Last, Ranks, Depth, Splits

LEMMA Untouched ==
  ASSUME UNCHANGED modelVars, NEW q \in Ranks, Follows(q), pc'[q] = pc[q], buf'[q] = buf[q]
  PROVE  Follows(q)'
  BY DEF Follows, modelVars

\* A step of rank r that leaves the buffers and the draft alone.
LEMMA Moved ==
  ASSUME LoadInv, NEW r \in Ranks, NEW to \in Places, pc' = [pc EXCEPT ![r] = to],
         UNCHANGED modelVars, UNCHANGED <<draftPP, engine, buf, embed, layers>>,
         Follows(r)', to = "ready" => r # Last \/ embed = "target"
  PROVE  LoadInv'
  <1>k. Ranks' = Ranks /\ Last' = Last /\ Depth' = Depth /\ pp' = pp /\ SplitOK' = SplitOK
    BY DEF modelVars, Ranks, Last, Depth, SplitOK
  <1>r. Last \in Ranks
    BY LastIsRank DEF LoadInv
  <1>1. LoadTypeOK' /\ LayersPastEnd'
    BY <1>k DEF LoadInv, LoadTypeOK, LayersPastEnd
  <1>2. ASSUME NEW q \in Ranks, q # r PROVE Follows(q)'
    <2>1. pc'[q] = pc[q] /\ buf'[q] = buf[q]
      BY <1>2 DEF LoadInv, LoadTypeOK
    <2>q. QED BY <2>1, Untouched DEF LoadInv, BuffersFollow
  <1>3. BuffersFollow'
    BY <1>2, <1>k DEF BuffersFollow
  <1>4. DraftEmbedsAsTarget'
    BY <1>k, <1>r DEF LoadInv, LoadTypeOK, DraftEmbedsAsTarget
  <1>q. QED BY <1>1, <1>3, <1>4 DEF LoadInv

LEMMA LoadStepInv == ASSUME LoadInv, LoadStep PROVE LoadInv'
  <1>r. Last \in Ranks /\ 0 \in Ranks /\ Depth \in Nat
    BY LastIsRank DEF LoadInv
  <1>t. pp \in Nat \ {0} /\ pc \in [Ranks -> Places] /\ \A r \in Ranks : Follows(r)
    BY DEF LoadInv, LoadTypeOK, BuffersFollow
  <1>k. ASSUME UNCHANGED modelVars
        PROVE Ranks' = Ranks /\ Last' = Last /\ Depth' = Depth /\ pp' = pp /\ SplitOK' = SplitOK
    BY <1>k DEF modelVars, Ranks, Last, Depth, SplitOK
  <1>1. CASE Relax \/ Verify
    <2>1. UNCHANGED modelVars /\ UNCHANGED <<pc, buf, embed, layers>> /\ draftPP' \in Nat
          /\ engine' \in {"config", "verify", "workers", "failed"}
      BY <1>1, <1>t DEF Relax, Verify
    <2>2. BuffersFollow'
      BY <2>1, <1>k, <1>t, Untouched DEF BuffersFollow
    <2>q. QED
      BY <2>1, <2>2, <1>k DEF LoadInv, LoadTypeOK, DraftEmbedsAsTarget, LayersPastEnd
  <1>2. ASSUME NEW r \in Ranks, Construct(r) PROVE LoadInv'
    <2> DEFINE to == "load"
    <2>1. UNCHANGED modelVars /\ UNCHANGED <<draftPP, engine, buf, embed, layers>>
          /\ pc' = [pc EXCEPT ![r] = to]
      BY <1>2 DEF Construct, Moves
    <2>2. to \in Places /\ to # "ready" /\ pc'[r] = to
      BY <2>1, <1>t DEF Places
    <2>3. Follows(r)'
      BY <2>2, <2>1, <1>k, <1>t DEF Follows
    <2> HIDE DEF to
    <2>q. QED BY <2>1, <2>2, <2>3, Moved
  <1>3. ASSUME NEW r \in Ranks, LoadTarget(r) PROVE LoadInv'
    <2>1. UNCHANGED modelVars /\ UNCHANGED <<draftPP, engine, embed, layers>>
          /\ pc[r] = "load"
          /\ pc' = [pc EXCEPT ![r] = IF HandsOff(r) THEN "broadcast" ELSE "draft"]
      BY <1>3 DEF LoadTarget, Moves
    <2>2. buf' = [buf EXCEPT ![r] =
             IF ~HandsOff(r) THEN buf[r]
             ELSE IF HasEmbedding(r) THEN [holds |-> "target", rows |-> EmbedRows]
             ELSE [holds |-> "zeros", rows |-> VocabSize]]
      BY <1>3 DEF LoadTarget
    <2>4. LoadTypeOK' /\ LayersPastEnd'
      BY <2>1, <2>2, <1>k, DraftLoadAssumption
      DEF LoadInv, LoadTypeOK, Places, Holds, LayersPastEnd
    <2>5. ASSUME NEW q \in Ranks, q # r PROVE Follows(q)'
      <3>1. pc'[q] = pc[q] /\ buf'[q] = buf[q]
        BY <2>1, <2>2, <2>5 DEF LoadInv, LoadTypeOK
      <3>q. QED BY <3>1, <2>1, <1>t, Untouched
    <2>6. ASSUME HandsOff(r) PROVE Follows(r)'
      <3>1. pc'[r] = "broadcast" /\ (r = 0 => buf'[r].holds = "target")
        BY <2>1, <2>2, <2>6 DEF LoadInv, LoadTypeOK, HasEmbedding
      <3>q. QED BY <3>1, <2>1, <1>k DEF Follows
    <2>7. ASSUME ~HandsOff(r) PROVE Follows(r)'
      <3>1. pc'[r] = "draft" /\ pp = 1
        BY <2>1, <2>7, <1>t DEF HandsOff
      <3>q. QED BY <3>1, <2>1, <1>k DEF Follows
    <2>8. BuffersFollow'
      BY <2>1, <2>5, <2>6, <2>7, <1>k DEF BuffersFollow
    <2>9. DraftEmbedsAsTarget'
      BY <2>1, <1>k, <1>r, <1>t DEF LoadInv, DraftEmbedsAsTarget
    <2>q. QED BY <2>4, <2>8, <2>9 DEF LoadInv
  <1>4. ASSUME NEW r \in Ranks, Finish(r) PROVE LoadInv'
    <2>1. UNCHANGED modelVars /\ UNCHANGED <<draftPP, engine, buf, embed, layers>>
          /\ pc[r] = "draft" /\ r # Last /\ pc' = [pc EXCEPT ![r] = "ready"]
      BY <1>4 DEF Finish, Moves
    <2>2. Follows(r)'
      BY <2>1, <1>t, <1>k DEF Follows
    <2>q. QED BY <2>1, <2>2, Moved DEF Places
  <1>5. ASSUME NEW r \in Ranks, Dies(r) PROVE LoadInv'
    <2>1. UNCHANGED modelVars /\ UNCHANGED <<draftPP, engine, buf, embed, layers>>
          /\ pc' = [pc EXCEPT ![r] = "dead"]
      BY <1>5 DEF Dies, Moves
    <2>2. Follows(r)'
      BY <2>1, <1>t DEF Follows
    <2>q. QED BY <2>1, <2>2, Moved DEF Places
  <1>6. CASE Broadcast
    <2>1. UNCHANGED modelVars /\ UNCHANGED <<draftPP, engine, embed, layers>>
          /\ buf' = [r \in Ranks |-> buf[0]] /\ pc' = [r \in Ranks |-> "draft"]
          /\ \A r \in Ranks : pc[r] = "broadcast"
      BY <1>6 DEF Broadcast, Source
    <2>2. buf[0].holds = "target"
      BY <2>1, <1>r, <1>t DEF Follows
    <2>3. LoadTypeOK' /\ LayersPastEnd'
      BY <2>1, <1>k, <1>r DEF LoadInv, LoadTypeOK, Places, LayersPastEnd
    <2>4. ASSUME NEW q \in Ranks PROVE Follows(q)'
      BY <2>1, <2>2, <1>k, <1>t DEF Follows
    <2>5. BuffersFollow' /\ DraftEmbedsAsTarget'
      BY <2>1, <2>4, <1>k, <1>r DEF BuffersFollow, DraftEmbedsAsTarget
    <2>q. QED BY <2>3, <2>5 DEF LoadInv
  <1>7. CASE LoadDraft
    <2>1. UNCHANGED modelVars /\ UNCHANGED <<draftPP, engine, buf>>
          /\ pc[Last] = "draft" /\ embed' = EmbeddingFor(Last)
          /\ layers' = Depth..(Depth + DraftLayers - 1)
      BY <1>7 DEF LoadDraft, Moves, LayerOffset
    <2>2. PICK to \in {"ready", "raised"} : pc' = [pc EXCEPT ![Last] = to]
      BY <1>7 DEF LoadDraft, Moves
    <2>3. EmbeddingFor(Last) = "target"
      BY <2>1, <1>r, <1>t DEF EmbeddingFor, Follows
    <2>4. LoadTypeOK' /\ LayersPastEnd'
      <3>1. pc' \in [Ranks -> Places]
        BY <2>2, <1>t DEF Places
      <3>2. LoadTypeOK'
        BY <3>1, <2>1, <2>3, <1>k DEF LoadInv, LoadTypeOK
      <3>3. LayersPastEnd'
        BY <2>1, <1>k, <1>r, DraftLoadAssumption DEF LayersPastEnd
      <3>q. QED BY <3>2, <3>3
    <2>5. ASSUME NEW q \in Ranks, q # Last PROVE Follows(q)'
      <3>1. pc'[q] = pc[q] /\ buf'[q] = buf[q]
        BY <2>1, <2>2, <2>5, <1>t
      <3>q. QED BY <3>1, <2>1, <1>t, Untouched
    <2>6. ASSUME NEW q \in Ranks, q = Last PROVE Follows(q)'
      BY <2>6, <2>1, <2>2, <1>r, <1>k, <1>t DEF Follows
    <2>7. BuffersFollow' /\ DraftEmbedsAsTarget'
      <3>1. \A q \in Ranks : Follows(q)'
        BY <2>5, <2>6
      <3>q. QED BY <3>1, <2>1, <2>3, <1>k DEF BuffersFollow, DraftEmbedsAsTarget
    <2>q. QED BY <2>4, <2>7 DEF LoadInv
  <1>q. QED
    BY <1>1, <1>2, <1>3, <1>4, <1>5, <1>6, <1>7 DEF LoadStep, Worker

LEMMA LoadNextInv == ASSUME LoadInv, [LoadNext]_loadVars PROVE LoadInv'
  <1>1. CASE LoadStep
    BY <1>1, LoadStepInv
  <1>2. ASSUME NEW p \in Sizes, NEW n \in Depths, Launch(p, n) PROVE LoadInv'
    BY <1>2, LaunchInv, DraftLoadAssumption
  <1>3. CASE UNCHANGED loadVars
    BY <1>3
    DEF LoadInv, loadVars, modelVars, LoadTypeOK, SplitOK, BuffersFollow, Follows, DraftEmbedsAsTarget,
        LayersPastEnd, Ranks, Last, Depth, HasEmbedding
  <1>q. QED BY <1>1, <1>2, <1>3 DEF LoadNext

LEMMA LoadInvMeans == LoadInv => LayerNamesUnique /\ DraftEmbedsAsTarget
  <1> SUFFICES ASSUME LoadInv, NEW r \in Ranks, NEW L \in layers, L \in TargetLayers(r)
               PROVE FALSE
    BY DEF LayerNamesUnique, LoadInv
  <1>1. PICK n \in Nat : start \in Splits(pp, n)
    BY DEF LoadInv, LoadTypeOK, SplitOK
  <1>2. pp \in Nat /\ r \in 0..pp /\ r + 1 \in 0..pp /\ pp \in 0..pp /\ r + 1 <= pp
    BY DEF LoadInv, LoadTypeOK, Ranks
  <1>3. start[r + 1] <= Depth /\ start[r] \in Nat /\ start[r + 1] \in Nat /\ Depth \in Nat
    BY <1>1, <1>2 DEF Splits, Depth
  <1>4. L >= Depth
    BY DEF LoadInv, LayersPastEnd
  <1>5. L \in start[r]..(start[r + 1] - 1)
    BY DEF TargetLayers
  <1>q. QED BY <1>3, <1>4, <1>5

\* One server after the other, of any size, depth and split: a draft that is
\* ready embeds with the target's weight, and names no layer as a rank does.
THEOREM LoadingSafe == LoadSpec => [](DraftEmbedsAsTarget /\ LayerNamesUnique)
  <1>q. QED BY LoadInitInv, LoadNextInv, LoadInvMeans, PTL DEF LoadSpec

----------------------------------------------------------------------------
(* The stand *)

Phases == {"a", "b", "c"}
Testing == {"boot_ppn", "ask_ppn", "boot_one", "ask_one", "gates"}

Good(t)     == seen[t].embed = "target" /\ seen[t].taps = seen[t].sized
Evidence(t) == probe[t] # <<>> => Good(t)

FilesMade ==
  /\ tensors = NoFile \/ \E n \in Depths : tensors = Kinds(n, SliceKda(n))
  /\ config = NoFile \/ \E n \in Depths : config = SliceConfig(n)
  /\ gguf = NoFile \/ gguf = Kinds(4, GgufKda)
  /\ \A p \in Phases : phases[p] = NoFile \/ phases[p] = BuildSliceConfig(p)
  /\ draft = NoFile \/ \E n \in Depths : draft = Build(n)

\* What the test has found so far, by how far it has got.
TestSoFar ==
  /\ shell \in Testing => config # NoFile /\ draft # NoFile /\ gate2 = "none"
  /\ shell \in {"ask_ppn", "ask_one"} => Fits
  /\ shell \in {"boot_one", "ask_one", "gates"} => Evidence("ppn")
  /\ shell = "gates" => Evidence("one")

StandInv ==
  /\ LoadInv
  /\ FilesMade
  /\ seen = [t \in Tags |-> seen[t]] /\ probe = [t \in Tags |-> probe[t]]
  /\ shell = "gen_slice" => tensors # NoFile
  /\ TestSoFar
  /\ GateMeansLoaded

LEMMA StandInitInv == StandInit => StandInv
  <1> SUFFICES ASSUME StandInit PROVE StandInv OBVIOUS
  <1>1. LoadInv
    BY LoadInitInv DEF StandInit
  <1>2. FilesMade
    BY DEF StandInit, FilesMade, Phases
  <1>3. TestSoFar /\ GateMeansLoaded
    BY DEF StandInit, TestSoFar, GateMeansLoaded, Testing
  <1>q. QED BY <1>1, <1>2, <1>3 DEF StandInv, StandInit

\* Depths of files are depths a server can be started with.
LEMMA MadeDepth ==
  ASSUME FilesMade
  PROVE  /\ config # NoFile => config.depth \in Depths
         /\ tensors # NoFile => tensors.depth \in Depths
  BY DEF FilesMade, SliceConfig, Kinds

\* Every step of the stand is a step of its server, or leaves it alone.
LEMMA StandStepLoads ==
  ASSUME StandInv, [StandNext]_vars PROVE [LoadNext]_loadVars
  <1>1. config # NoFile => config.depth \in Depths
    BY MadeDepth DEF StandInv
  <1>2. CASE ServerOf(LoadStep)
    BY <1>2 DEF ServerOf, LoadNext
  <1>3. ASSUME NEW p \in Sizes, StartTest(p) PROVE LoadNext
    BY <1>1, <1>3 DEF StartTest, LoadNext
  <1>4. CASE AskPPN
    BY <1>1, <1>4, TestStandAssumption DEF AskPPN, LoadNext, StandInv, TestSoFar, Testing
  <1>5. CASE UNCHANGED loadVars
    BY <1>5
  <1>6. CASE UNCHANGED vars
    BY <1>6 DEF vars
  <1>q. QED
    BY <1>2, <1>3, <1>4, <1>5, <1>6
    DEF StandNext, SaveTensors, FetchFails, WriteConfig, MakeSliceConfigs, EmitGguf, GenDraft,
        Boots, GivesUp, AskOne, Gate2

\* A generator has run, the server and the test are where they were.
LEMMA Generated ==
  ASSUME StandInv, LoadInv', FilesMade', UNCHANGED <<loadVars, testVars>>,
         shell \notin Testing, shell' \notin Testing,
         shell' = "gen_slice" => tensors' # NoFile
  PROVE  StandInv'
  BY DEF StandInv, TestSoFar, GateMeansLoaded, testVars, Testing

LEMMA StandNextInv == ASSUME StandInv, [StandNext]_vars PROVE StandInv'
  <1>l. LoadInv'
    BY StandStepLoads, LoadNextInv DEF StandInv
  <1>d. /\ config # NoFile => config.depth \in Depths
        /\ tensors # NoFile => tensors.depth \in Depths
    BY MadeDepth DEF StandInv
  <1>1. ASSUME NEW n \in Depths, SaveTensors(n) PROVE StandInv'
    <2>1. UNCHANGED <<loadVars, testVars>> /\ shell = "free" /\ shell' = "gen_slice"
          /\ tensors' = Kinds(n, SliceKda(n)) /\ UNCHANGED <<config, gguf, phases, draft>>
      BY <1>1 DEF SaveTensors, Begins
    <2>2. FilesMade' /\ tensors' # NoFile
      BY <2>1 DEF StandInv, FilesMade, Kinds, NoFile
    <2>q. QED BY <2>1, <2>2, <1>l, Generated DEF Testing
  <1>2. CASE FetchFails
    <2>1. UNCHANGED <<loadVars, testVars>> /\ shell = "gen_slice" /\ shell' = "free"
          /\ UNCHANGED fileVars
      BY <1>2 DEF FetchFails, Ends
    <2>q. QED BY <2>1, <1>l, Generated DEF Testing, fileVars, StandInv, FilesMade
  <1>3. CASE WriteConfig
    <2>1. UNCHANGED <<loadVars, testVars>> /\ shell = "gen_slice" /\ shell' = "free"
          /\ config' = SliceConfig(tensors.depth) /\ UNCHANGED <<tensors, gguf, phases, draft>>
      BY <1>3 DEF WriteConfig, Ends
    <2>2. tensors.depth \in Depths
      BY <2>1, <1>d DEF StandInv
    <2>3. FilesMade'
      BY <2>1, <2>2 DEF StandInv, FilesMade
    <2>q. QED BY <2>1, <2>3, <1>l, Generated DEF Testing
  <1>4. CASE MakeSliceConfigs
    <2>1. UNCHANGED <<loadVars, testVars>> /\ shell = "free" /\ shell' = "free"
          /\ phases' = [phase \in {"a", "b", "c"} |-> BuildSliceConfig(phase)]
          /\ UNCHANGED <<tensors, config, gguf, draft>>
      BY <1>4 DEF MakeSliceConfigs, Begins
    <2>2. FilesMade'
      BY <2>1 DEF StandInv, FilesMade, Phases
    <2>q. QED BY <2>1, <2>2, <1>l, Generated DEF Testing
  <1>5. CASE EmitGguf
    <2>1. UNCHANGED <<loadVars, testVars>> /\ shell = "free" /\ shell' = "free"
          /\ (gguf' = Kinds(4, GgufKda) \/ gguf' = gguf)
          /\ UNCHANGED <<tensors, config, phases, draft>>
      BY <1>5 DEF EmitGguf, Begins
    <2>2. FilesMade'
      BY <2>1 DEF StandInv, FilesMade
    <2>q. QED BY <2>1, <2>2, <1>l, Generated DEF Testing
  <1>6. CASE GenDraft
    <2>1. UNCHANGED <<loadVars, testVars>> /\ shell = "free" /\ shell' = "free"
          /\ draft' = (IF config = NoFile THEN draft ELSE Build(config.depth))
          /\ UNCHANGED <<tensors, config, gguf, phases>>
      BY <1>6 DEF GenDraft, Begins
    <2>2. FilesMade'
      BY <2>1, <1>d DEF StandInv, FilesMade
    <2>q. QED BY <2>1, <2>2, <1>l, Generated DEF Testing
  <1>7. CASE ServerOf(LoadStep)
    <2>1. UNCHANGED <<shell, fileVars, testVars>>
      BY <1>7 DEF ServerOf
    <2>2. Depth' = Depth
      BY <1>7
      DEF ServerOf, LoadStep, Relax, Verify, Worker, Construct, LoadTarget, Finish, Dies,
          Broadcast, LoadDraft, modelVars, Depth
    <2>3. Fits' <=> Fits
      BY <2>1, <2>2 DEF Fits, Tapped, fileVars
    <2>q. QED
      BY <2>1, <2>3, <1>l
      DEF StandInv, FilesMade, TestSoFar, Evidence, Good, GateMeansLoaded, fileVars, testVars
  <1>8. ASSUME NEW p \in Sizes, StartTest(p) PROVE StandInv'
    <2>1. config # NoFile /\ draft # NoFile /\ shell' = "boot_ppn" /\ gate2' = "none"
          /\ seen' = [t \in Tags |-> Nothing] /\ UNCHANGED <<fileVars, probe>>
      BY <1>8 DEF StartTest, Begins
    <2>2. FilesMade'
      BY <2>1 DEF StandInv, FilesMade, fileVars
    <2>q. QED
      BY <2>1, <2>2, <1>l DEF StandInv, TestSoFar, GateMeansLoaded, Testing, fileVars
  <1>9. ASSUME NEW from, NEW to, Boots(from, to),
               <<from, to>> = <<"boot_ppn", "ask_ppn">> \/ <<from, to>> = <<"boot_one", "ask_one">>
        PROVE  StandInv'
    <2>1. shell = from /\ shell' = to /\ Fits /\ UNCHANGED <<loadVars, fileVars, testVars>>
      BY <1>9 DEF Boots
    <2>2. Fits'
      BY <2>1 DEF Fits, Tapped, Depth, loadVars, modelVars, fileVars
    <2>3. FilesMade'
      BY <2>1 DEF StandInv, FilesMade, fileVars
    <2>q. QED
      BY <2>1, <2>2, <2>3, <1>9, <1>l
      DEF StandInv, TestSoFar, GateMeansLoaded, Testing, Evidence, Good, fileVars, testVars
  <1>10. CASE GivesUp
    <2>1. shell' = "free" /\ UNCHANGED <<fileVars, testVars>>
      BY <1>10 DEF GivesUp, Ends
    <2>2. FilesMade'
      BY <2>1 DEF StandInv, FilesMade, fileVars
    <2>q. QED
      BY <2>1, <2>2, <1>l DEF StandInv, TestSoFar, GateMeansLoaded, Testing, testVars
  <1>a. ASSUME NEW t \in Tags, Ask(t), StandInv, Fits
         PROVE  /\ Evidence(t)'
                /\ \A u \in Tags : u # t => probe'[u] = probe[u] /\ seen'[u] = seen[u]
                /\ seen' = [u \in Tags |-> seen'[u]] /\ probe' = [u \in Tags |-> probe'[u]]
    <2>1. PICK lines \in 0..(IF Loaded THEN MaxLines ELSE 0) :
            /\ probe' = [probe EXCEPT ![t] = [i \in 1..lines |-> [step |-> i, taps |-> Tapped]]]
            /\ seen' = [seen EXCEPT ![t] =
                 IF Loaded
                 THEN [embed |-> embed, taps |-> Cardinality(Tapped), sized |-> draft.sized]
                 ELSE Nothing]
      BY <1>a DEF Ask
    <2>2. probe = [u \in Tags |-> probe[u]] /\ seen = [u \in Tags |-> seen[u]]
      BY DEF StandInv
    <2>3. probe'[t] = [i \in 1..lines |-> [step |-> i, taps |-> Tapped]]
      BY <2>1, <2>2
    <2>4. CASE Loaded
      <3>1. embed = "target"
        BY <2>4, LastIsRank DEF StandInv, LoadInv, DraftEmbedsAsTarget, Loaded
      <3>2. seen'[t] = [embed |-> embed, taps |-> Cardinality(Tapped), sized |-> draft.sized]
        BY <2>1, <2>2, <2>4
      <3>3. Good(t)'
        BY <3>1, <3>2, <1>a DEF Good, Fits
      <3>q. QED BY <2>1, <2>2, <3>3 DEF Evidence
    <2>5. CASE ~Loaded
      <3>1. lines = 0
        BY <2>5, <2>1
      <3>2. probe'[t] = <<>>
        BY <3>1, <2>3
      <3>q. QED BY <2>1, <2>2, <3>2 DEF Evidence
    <2>q. QED BY <2>4, <2>5
  <1>11. CASE AskPPN
    <2>1. shell = "ask_ppn" /\ shell' = "boot_one" /\ UNCHANGED <<fileVars, gate2>> /\ Ask("ppn")
      BY <1>11 DEF AskPPN
    <2>2. Fits
      BY <2>1 DEF StandInv, TestSoFar
    <2>3. FilesMade'
      BY <2>1 DEF StandInv, FilesMade, fileVars
    <2>q. QED
      BY <2>1, <2>2, <2>3, <1>a, <1>l
      DEF StandInv, TestSoFar, GateMeansLoaded, Testing, Tags, fileVars
  <1>12. CASE AskOne
    <2>1. shell = "ask_one" /\ shell' = "gates" /\ UNCHANGED <<fileVars, gate2>> /\ Ask("one")
      BY <1>12 DEF AskOne
    <2>2. Fits /\ Evidence("ppn") /\ config # NoFile /\ draft # NoFile /\ gate2 = "none"
      BY <2>1 DEF StandInv, TestSoFar, Testing
    <2>3. FilesMade'
      BY <2>1 DEF StandInv, FilesMade, fileVars
    <2>4. Evidence("one")' /\ probe'["ppn"] = probe["ppn"] /\ seen'["ppn"] = seen["ppn"]
      BY <2>1, <2>2, <1>a DEF Tags
    <2>5. Evidence("ppn")'
      BY <2>2, <2>4 DEF Evidence, Good
    <2>q. QED
      BY <2>1, <2>2, <2>3, <2>4, <2>5, <1>a, <1>l
      DEF StandInv, TestSoFar, GateMeansLoaded, Testing, Tags, fileVars
  <1>13. CASE Gate2
    <2>1. shell = "gates" /\ shell' = "free" /\ UNCHANGED <<fileVars, probe, seen>>
          /\ gate2' = (IF Gate2Passes THEN "PASS" ELSE "FAIL")
      BY <1>13 DEF Gate2, Ends
    <2>2. Evidence("ppn") /\ Evidence("one")
      BY <2>1 DEF StandInv, TestSoFar
    <2>3. GateMeansLoaded'
      BY <2>1, <2>2 DEF GateMeansLoaded, Gate2Passes, Evidence, Good, Tags
    <2>4. FilesMade'
      BY <2>1 DEF StandInv, FilesMade, fileVars
    <2>q. QED
      BY <2>1, <2>3, <2>4, <1>l DEF StandInv, TestSoFar, Testing
  <1>14. CASE UNCHANGED vars
    <2>1. UNCHANGED <<shell, fileVars, testVars>> /\ Depth' = Depth
      BY <1>14 DEF vars, loadVars, modelVars, Depth
    <2>2. Fits' <=> Fits
      BY <2>1 DEF Fits, Tapped, fileVars
    <2>q. QED
      BY <2>1, <2>2, <1>l
      DEF StandInv, FilesMade, TestSoFar, Evidence, Good, GateMeansLoaded, fileVars, testVars
  <1>q. QED
    BY <1>1, <1>2, <1>3, <1>4, <1>5, <1>6, <1>7, <1>8, <1>9, <1>10, <1>11, <1>12, <1>13, <1>14
    DEF StandNext

\* As many ids as layers, each of which lands on a layer of any slice as deep.
LEMMA IdsFit ==
  ASSUME NEW n \in Nat, NEW m \in Nat, n <= m
  PROVE  Cardinality({i + 1 : i \in TargetLayerIds(n)} \cap 1..m)
           = Cardinality(TargetLayerIds(n))
  <1>1. {i + 1 : i \in TargetLayerIds(n)} \cap 1..m = 1..n
    <2>1. ASSUME NEW L \in 1..n PROVE L \in {i + 1 : i \in 0..(n - 1)}
      <3>1. L - 1 \in 0..(n - 1) /\ L = (L - 1) + 1
        OBVIOUS
      <3>q. QED BY <3>1
    <2>q. QED BY <2>1 DEF TargetLayerIds
  <1>2. Cardinality(1..n) = n /\ Cardinality(0..(n - 1)) = n
    BY FS_Interval
  <1>q. QED BY <1>1, <1>2 DEF TargetLayerIds

LEMMA MadeFits == FilesMade => TapsFit
  <1> SUFFICES ASSUME FilesMade, config # NoFile, draft # NoFile, draft.depth <= config.depth
               PROVE  Cardinality({i + 1 : i \in draft.ids} \cap 1..config.depth) = draft.sized
    BY DEF TapsFit
  <1>1. PICK n \in Depths : draft = Build(n)
    BY DEF FilesMade
  <1>2. config.depth \in Nat /\ n \in Nat
    BY MadeDepth, DraftLoadAssumption
  <1>3. draft.depth = n /\ draft.ids = TargetLayerIds(n)
        /\ draft.sized = Cardinality(TargetLayerIds(n))
    BY <1>1 DEF Build
  <1>q. QED BY <1>2, <1>3, IdsFit

\* The lists written by hand, the rule of the slice and the rule of the GGUF
\* generator say the same of four layers.
LEMMA FourLayers ==
  /\ SliceKda(4) = {0, 1, 2} /\ GgufKda = {0, 1, 2}
  /\ Lists(4) = [kda |-> {1, 2, 3}, full |-> {4}]
  <1>1. 0..(4 - 1) = {0, 1, 2, 3}
    OBVIOUS
  <1>2. 0 % 4 = 0 /\ 1 % 4 = 1 /\ 2 % 4 = 2 /\ 3 % 4 = 3
    OBVIOUS
  <1>3. SliceKda(4) = {0, 1, 2}
    BY <1>1, <1>2 DEF SliceKda
  <1>4. {L + 1 : L \in SliceKda(4)} = {1, 2, 3} /\ (0..(4 - 1)) \ SliceKda(4) = {3}
    BY <1>1, <1>3
  <1>5. {L + 1 : L \in {3}} = {4}
    OBVIOUS
  <1>q. QED BY <1>3, <1>4, <1>5 DEF Lists, GgufKda

\* The tensors and the configuration gen_slice_hf.py makes for n layers.
LEMMA SliceAgrees ==
  ASSUME NEW n \in Nat PROVE Agree(Kinds(n, SliceKda(n)), SliceConfig(n))
  <1> DEFINE t == Kinds(n, SliceKda(n))
             c == SliceConfig(n)
  <1> SUFFICES ASSUME NEW L \in 0..(n - 1)
               PROVE  /\ t.attn[L] = "kda" <=> L + 1 \in c.lists.kda
                      /\ t.attn[L] = "mla" <=> L + 1 \in c.lists.full
                      /\ t.mlp[L] = "dense" <=> L < c.dense
    BY DEF Agree, Kinds
  <1>1. t.attn[L] = (IF L \in SliceKda(n) THEN "kda" ELSE "mla")
        /\ t.mlp[L] = (IF L = 0 THEN "dense" ELSE "moe")
    BY DEF Kinds
  <1>2. /\ c.lists.kda = {M + 1 : M \in SliceKda(n)}
        /\ c.lists.full = {M + 1 : M \in (0..(n - 1)) \ SliceKda(n)}
        /\ c.dense = 1
    BY DEF SliceConfig, Lists
  <1>3. SliceKda(n) \subseteq 0..(n - 1)
    BY DEF SliceKda
  <1>4. L + 1 \in c.lists.kda <=> L \in SliceKda(n)
    BY <1>2, <1>3
  <1>5. L + 1 \in c.lists.full <=> L \notin SliceKda(n)
    BY <1>2, <1>3
  <1> HIDE DEF t, c
  <1>q. QED BY <1>1, <1>2, <1>4, <1>5

LEMMA MadeAgree == FilesMade => KindsAgree
  <1> SUFFICES ASSUME FilesMade, NEW t \in {tensors, gguf} \ {NoFile},
                      NEW c \in ({config} \cup {phases[p] : p \in Phases}) \ {NoFile},
                      t.depth = c.depth
               PROVE  Agree(t, c)
    BY DEF KindsAgree, Phases
  <1>1. PICK n \in Nat : t = Kinds(n, SliceKda(n))
    BY FourLayers, DraftLoadAssumption DEF FilesMade
  <1>2. PICK m \in Nat : c.depth = m /\ c.lists = Lists(m) /\ c.dense = 1
    <2>1. CASE c = config
      BY <2>1, DraftLoadAssumption DEF FilesMade, SliceConfig
    <2>2. CASE \E p \in Phases : c = BuildSliceConfig(p)
      BY <2>2, FourLayers DEF BuildSliceConfig
    <2>q. QED BY <2>1, <2>2 DEF FilesMade
  <1>3. m = n
    BY <1>1, <1>2 DEF Kinds
  <1>q. QED BY <1>1, <1>2, <1>3, SliceAgrees DEF Agree, SliceConfig

\* The servers of the test are loaded like any others.
THEOREM StandRefinesLoading == StandSpec => LoadSpec
  <1>1. StandInit => LoadInit
    BY DEF StandInit
  <1>q. QED
    BY <1>1, StandInitInv, StandNextInv, StandStepLoads, PTL DEF StandSpec, LoadSpec

\* Whatever the scripts are run in: layers agree across the generators, taps fit
\* the draft, and GATE 2 passes on evidence from two loaded drafts.
THEOREM StandSafe == StandSpec => [](KindsAgree /\ TapsFit /\ GateMeansLoaded)
  <1>1. StandInv => KindsAgree /\ TapsFit /\ GateMeansLoaded
    BY MadeAgree, MadeFits DEF StandInv
  <1>q. QED BY <1>1, StandInitInv, StandNextInv, PTL DEF StandSpec

\* In the test, too, a draft that is ready embeds with the target's weight, and
\* names no layer as a rank does.
THEOREM StandLoadingSafe == StandSpec => [](DraftEmbedsAsTarget /\ LayerNamesUnique)
  BY StandRefinesLoading, LoadingSafe

\* Whatever order the generators and servers run in, every file that is there tells
\* the same kind of layer for the same depth.
THEOREM KindsAgreeHolds == StandSpec => []KindsAgree
  BY StandSafe, PTL

\* A draft built for a slice delivers as many taps as its projection is sized for
\* on every slice at least as deep.
THEOREM TapsFitHolds == StandSpec => []TapsFit
  BY StandSafe, PTL
=============================================================================
