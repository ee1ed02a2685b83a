----------------------------- MODULE ProbeTree -----------------------------
(***************************************************************************)
(* The probes of src/tools on one installed tree, together with the blocks *)
(* of specdec_pp_relay.py that edit the same lines: each is a script that  *)
(* looks for its anchor in a file, inserts its text and may be run again,  *)
(* killed between two blocks or, for three of them, run with --remove.  A  *)
(* file is a sequence of segments: the anchors of upstream's text and what *)
(* the scripts insert.  The order of the methods in model_runner.py is not *)
(* ours and is left open.                                                  *)
(***************************************************************************)
EXTENDS Integers, Sequences

CONSTANTS
  Tools,    \* the scripts that are run
  MaxRuns   \* bound: how many runs

ASSUME ProbeTreeAssumption ==
  /\ Tools \subseteq {"hidden", "anchor", "mtp", "commit", "verify", "need",
                       "states", "warmup", "skip", "relay"}
  /\ MaxRuns \in Nat

VARIABLES
  text,     \* text[f]: the segments of file f
  tool,     \* the script of the current or last run
  block,    \* the block it is at
  missed,   \* a block of this run found no anchor
  outcome,  \* "running", or how the last run ended
  clean,    \* every run so far reported success
  runs      \* how many runs were started

vars == <<text, tool, block, missed, outcome, clean, runs>>

----------------------------------------------------------------------------
(* Segments. *)

Occurs(pat, s) ==
  {i \in 1..(Len(s) - Len(pat) + 1) : SubSeq(s, i, i + Len(pat) - 1) = pat}

First(S) == CHOOSE i \in S : \A j \in S : i <= j

\* src.replace(old, new, 1)
Replaced(s, old, new) ==
  LET i == First(Occurs(old, s))
  IN  SubSeq(s, 1, i - 1) \o new \o SubSeq(s, i + Len(old), Len(s))

Methods == {<<"combine">>, <<"advance">>,
            <<"select", "logits", "bitmask", "choice", "verdict">>,
            <<"stateTest", "receive", "sample", "ifHandler", "broadcast", "propose", "setDraft">>}

Runner(order) ==
  <<"class">> \o order[1] \o order[2] \o order[3] \o order[4] \o <<"speculate">>

PPUtils == <<"import", "maskSet", "maskReturn", "recvGuard", "lastAssert", "sendGuard">>

Warmup == <<"entry", "encoderReturn", "specSteps", "prefillRun", "prefillSample", "phase", "steps">>

----------------------------------------------------------------------------
(* Blocks. mark: what the script looks for to tell that it was here. *)

Block(file, old, new, mark) == [file |-> file, old |-> old, new |-> new, mark |-> mark]

\* patch(): "new in src"
Patch(file, old, new) == Block(file, old, new, new)

\* A probe with a tag of its own in what it prints.
Tagged(file, old, new, tag) == Block(file, old, new, <<tag>>)

\* A test for a text that is never written.
Unmarked(file, old, new) == Block(file, old, new, <<"never">>)

HiddenBlocks ==
  <<Tagged("runner", <<"select", "logits">>, <<"select", "logits", "hiddenProbe">>, "hiddenProbe")>>

AnchorBlocks == <<Tagged("runner", <<"combine">>, <<"anchorProbe", "combine">>, "anchorProbe")>>

MtpBlocks == <<Tagged("runner", <<"propose">>, <<"mtpProbe", "propose">>, "mtpProbe")>>

CommitBlocks == <<Tagged("runner", <<"advance">>, <<"commitProbe", "advance">>, "commitProbe")>>

VerifyBlocks == <<Tagged("runner", <<"verdict">>, <<"verifyProbe", "verdict">>, "verifyProbe")>>

NeedBlocks ==
  <<Tagged("pp_utils", <<"maskSet", "maskReturn">>, <<"maskSet", "needProbe", "maskReturn">>, "needProbe")>>

\* sample_tokens_probe.py asks for the block's title, which is not in its text.
StateBlocks ==
  <<Unmarked("runner", <<"stateTest">>, <<"S1", "stateTest">>),
    Unmarked("pp_utils", <<"lastAssert", "sendGuard">>, <<"lastAssert", "S2">>),
    Unmarked("pp_utils", <<"recvGuard">>, <<"S3">>)>>

Around(seg, before, after) == Patch("runner", <<seg>>, <<before, seg, after>>)

Before(seg, mark) == Patch("runner", <<seg>>, <<mark, seg>>)

\* warmup_pp_probe.py: in warmup.py ...
WarmupFileBlocks ==
  <<Patch("warmup", <<"steps">>, <<"P1">>),
    Patch("warmup", <<"entry">>, <<"wmMark", "entry">>),
    Patch("warmup", <<"encoderReturn", "specSteps">>, <<"encoderReturn", "P4", "specSteps">>),
    Patch("warmup", <<"phase">>, <<"P5", "phase">>),
    Patch("warmup", <<"prefillRun">>, <<"P6a", "prefillRun", "P6b">>),
    Patch("warmup", <<"prefillSample">>, <<"P7a", "prefillSample", "P7b">>)>>

\* ... in model_runner.py, where the helper comes after the first uses of it ...
MarkBlocks ==
  <<Around("receive", "P8a", "P8b"),
    Around("sample", "P9a", "P9b"),
    Around("broadcast", "P10a", "P10b"),
    Tagged("runner", <<"class">>, <<"helper", "class">>, "helper"),
    Before("speculate", "P12"),
    Patch("runner", <<"select", "logits">>, <<"select", "P13a", "logits", "P13b">>),
    Before("bitmask", "P14"),
    Before("choice", "P15")>>

\* ... and in pp_utils.py, where the text it tests for is not the one it writes.
PayloadBlocks == <<Unmarked("pp_utils", <<"import">>, <<"import", "ppProbe">>)>>

WarmupBlocks == WarmupFileBlocks \o MarkBlocks \o PayloadBlocks

SkipBlocks ==
  <<Tagged("warmup", <<"encoderReturn">>, <<"encoderReturn", "skip">>, "skip")>>

RelayBlocks ==
  <<Patch("runner", <<"ifHandler", "broadcast">>, <<"deferred">>),
    Patch("runner", <<"setDraft">>, <<"sendBelow", "setDraft">>),
    Patch("pp_utils", <<"recvGuard">>, <<"recvSlack">>),
    Patch("pp_utils", <<"sendGuard">>, <<"sendSlack">>)>>

BlocksOf(t) ==
  CASE t = "hidden" -> HiddenBlocks
    [] t = "anchor" -> AnchorBlocks
    [] t = "mtp"    -> MtpBlocks
    [] t = "commit" -> CommitBlocks
    [] t = "verify" -> VerifyBlocks
    [] t = "need"   -> NeedBlocks
    [] t = "states" -> StateBlocks
    [] t = "warmup" -> WarmupBlocks
    [] t = "skip"   -> SkipBlocks
    [] t = "relay"  -> RelayBlocks

\* ok &= patch(...): these scripts go on after a miss, the others stop.
GoesOn(t) == t \in {"states", "relay"}

----------------------------------------------------------------------------

Over == outcome # "running"

Start(t) ==
  /\ Over
  /\ runs < MaxRuns
  /\ tool' = t
  /\ block' = 1
  /\ missed' = FALSE
  /\ outcome' = "running"
  /\ runs' = runs + 1
  /\ UNCHANGED <<text, clean>>

Active == ~Over /\ block <= Len(BlocksOf(tool))

Current == BlocksOf(tool)[block]

Found(pat) == Occurs(pat, text[Current.file]) # {}

NeverHere == FALSE

IsHere == Found(Current.mark)

GoOn == block' = block + 1 /\ UNCHANGED <<tool, outcome, clean, runs>>

Ends(how) ==
  /\ outcome' = how
  /\ block' = 1
  /\ missed' = FALSE
  /\ clean' = (clean /\ how = "done")
  /\ UNCHANGED <<tool, runs>>

Skip ==
  /\ Active
  /\ IsHere
  /\ GoOn
  /\ UNCHANGED <<text, missed>>

Insert ==
  /\ Active
  /\ ~IsHere
  /\ Found(Current.old)
  /\ text' = [text EXCEPT ![Current.file] = Replaced(@, Current.old, Current.new)]
  /\ GoOn
  /\ UNCHANGED missed

Misses ==
  /\ Active
  /\ ~IsHere
  /\ ~Found(Current.old)
  /\ \/ GoesOn(tool) /\ missed' = TRUE /\ GoOn
     \/ ~GoesOn(tool) /\ Ends("failed")
  /\ UNCHANGED text

AlwaysDone == "done"

ExitStatus == IF missed THEN "failed" ELSE "done"

Exit ==
  /\ ~Over
  /\ block > Len(BlocksOf(tool))
  /\ Ends(ExitStatus)
  /\ UNCHANGED text

Kill ==
  /\ ~Over
  /\ Ends("killed")
  /\ UNCHANGED text

----------------------------------------------------------------------------
(* --remove: cut from where a text starts to the end of the probe. *)

Probe(t) == BlocksOf(t)[1].mark[1]

\* Probes that open with "try: import os as _os" at the indentation of a method
\* body; mtp_pp_probe.py's is one level deeper.
TryProbes == {"hiddenProbe", "anchorProbe", "commitProbe", "verifyProbe"}

CutFrom(t) == IF t = "hidden" THEN TryProbes ELSE {Probe(t)}

Remove(t) ==
  LET s     == text["runner"]
      end   == First(Occurs(<<Probe(t)>>, s))
      start == First({i \in DOMAIN s : s[i] \in CutFrom(t)})
  IN  /\ Over
      /\ runs < MaxRuns
      /\ t \in {"hidden", "anchor", "mtp"}
      /\ Occurs(<<Probe(t)>>, s) # {}
      /\ text' = [text EXCEPT !["runner"] = SubSeq(s, 1, start - 1) \o SubSeq(s, end + 1, Len(s))]
      /\ tool' = t
      /\ outcome' = "removed"
      /\ runs' = runs + 1
      /\ UNCHANGED <<block, missed, clean>>

Init ==
  /\ \E order \in [1..4 -> Methods] :
       /\ \A i, j \in 1..4 : order[i] = order[j] => i = j
       /\ text = [f \in {"runner", "pp_utils", "warmup"} |->
                    CASE f = "runner" -> Runner(order)
                      [] f = "pp_utils" -> PPUtils
                      [] f = "warmup" -> Warmup]
  /\ tool = CHOOSE t \in Tools : TRUE
  /\ block = 1
  /\ missed = FALSE
  /\ outcome = "none"
  /\ clean = TRUE
  /\ runs = 0

Next ==
  \/ \E t \in Tools : Start(t) \/ Remove(t)
  \/ Skip \/ Insert \/ Misses \/ Exit \/ Kill

Spec == Init /\ [][Next]_vars

----------------------------------------------------------------------------

Has(f, seg) == \E i \in DOMAIN text[f] : text[f][i] = seg

\* Whatever is run, killed, removed or run again, no text is inserted twice but
\* those whose test for being there never succeeds.
EachOnce ==
  \A f \in DOMAIN text : \A i, j \in DOMAIN text[f] :
    text[f][i] = text[f][j] /\ text[f][i] \notin {"S1", "ppProbe"} => i = j

\* Exit statuses can be trusted: while every run reported success, nothing in
\* the tree names what is not defined, the deferred relay is sent, and sender
\* and receivers of the relay test with the same slack.
NothingDangles ==
  Over /\ clean =>
    /\ \A seg \in {"P8a", "P9a", "P10a", "P12", "P13a", "P14", "P15"} :
         Has("runner", seg) => Has("runner", "helper")
    /\ \A seg \in {"P4", "P5", "P6a", "P7a"} : Has("warmup", seg) => Has("warmup", "wmMark")
    /\ Has("runner", "deferred") <=> Has("runner", "sendBelow")
    /\ Has("pp_utils", "recvSlack") <=> Has("pp_utils", "sendSlack")
=============================================================================
