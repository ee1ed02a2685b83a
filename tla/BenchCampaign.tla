--------------------------- MODULE BenchCampaign ---------------------------
(***************************************************************************)
(* A benchmark campaign: the loop of k3_slice_serve.sh (specdec_bench2.sh  *)
(* has the same) over the two kinds of server and over the concurrencies,  *)
(* the server it starts and kills, the client of module BenchClient, and   *)
(* bench2_report.py, which is run by hand over the file the clients wrote. *)
(* A server may take longer than the loop waits, may die at any moment,    *)
(* and its engine may die under an API that goes on answering: a stream    *)
(* under way then ends early, and a later request gets no token.           *)
(***************************************************************************)
EXTENDS BenchClient

CONSTANTS
  Knobs,     \* settings of ORDER and CONCS a campaign is started with
  MaxPolls   \* times serve looks for the server before it gives up

ASSUME BenchCampaignAssumption ==
  /\ Knobs \subseteq [order : Seq({"no", "yes"}), concs : Seq(1..MaxConc)]
  /\ \A k \in Knobs : k.order # <<>>
  /\ MaxPolls \in Nat \ {0}

VARIABLES
  knobs,    \* ORDER and CONCS of this campaign
  step,     \* where the script is
  config,   \* index into ORDER
  sweep,    \* index into CONCS
  polls,    \* turns of the waiting loop so far
  server,   \* the API server on the port and its engine
  cut,      \* threads whose stream the engine's death has ended
  printed,  \* <<conc, prompt>> whose ratio went into a printed line
  verdict   \* what the report ended with: greedy parity, or an exception

scriptVars == <<knobs, step, config, sweep, polls>>
serverVars == <<server, cut>>
reportVars == <<printed, verdict>>
vars == <<clientVars, scriptVars, serverVars, reportVars>>

Spec == knobs.order[config]

----------------------------------------------------------------------------
(* serve *)

\* The API has the port and answers; an engine behind it is not needed for that.
Answering == server.api \in {"up", "zombie"}

\* What has the port once a new server has been started: without pkill the one
\* that had it before, if its API is alive.
WithoutKill ==
  IF Answering THEN server
  ELSE [spec |-> Spec, api |-> "loading"]

AfterKill == [spec |-> Spec, api |-> "loading"]

Launch ==
  /\ step = "launch"
  /\ server' = AfterKill
  /\ polls' = 0
  /\ step' = "poll"
  /\ UNCHANGED <<clientVars, knobs, config, sweep, cut, reportVars>>

\* for SPEC in ORDER
NextServer ==
  IF config < Len(knobs.order)
  THEN step' = "launch" /\ config' = config + 1
  ELSE step' = "over" /\ UNCHANGED config

\* curl .../v1/models; a server that does not answer in time, or whose log has
\* the word error in it, is skipped.
Poll ==
  /\ step = "poll"
  /\ \/ Answering /\ step' = "bench" /\ UNCHANGED <<polls, config>>
     \/ ~Answering /\ polls < MaxPolls /\ polls' = polls + 1 /\ UNCHANGED <<step, config>>
     \/ ~Answering /\ NextServer /\ UNCHANGED polls
  /\ sweep' = 1
  /\ UNCHANGED <<clientVars, knobs, serverVars, reportVars>>

\* for C in CONCS: one client process each, whatever became of the last one.
RunClient ==
  /\ step = "bench"
  /\ sweep <= Len(knobs.concs)
  /\ Start(knobs.concs[sweep])
  /\ step' = "wait"
  /\ UNCHANGED <<knobs, config, sweep, polls, serverVars, reportVars>>

ClientExits ==
  /\ step = "wait"
  /\ client \in {"ended", "crashed"}
  /\ step' = "bench"
  /\ sweep' = sweep + 1
  /\ UNCHANGED <<clientVars, knobs, config, polls, serverVars, reportVars>>

Swept ==
  /\ step = "bench"
  /\ sweep > Len(knobs.concs)
  /\ NextServer
  /\ UNCHANGED <<clientVars, knobs, sweep, polls, serverVars, reportVars>>

----------------------------------------------------------------------------
(* The server. *)

ServerUp ==
  /\ server.api = "loading"
  /\ server' = [server EXCEPT !.api = "up"]
  /\ UNCHANGED <<clientVars, scriptVars, cut, reportVars>>

ServerDies ==
  /\ server.api \in {"loading", "up", "zombie"}
  /\ server' = [server EXCEPT !.api = "dead"]
  /\ UNCHANGED <<clientVars, scriptVars, cut, reportVars>>

EngineDies ==
  /\ server.api = "up"
  /\ server' = [server EXCEPT !.api = "zombie"]
  /\ cut' = {w \in Workers : thread[w] = "asking"}
  /\ UNCHANGED <<clientVars, scriptVars, reportVars>>

AnswerRow(tpot, text) ==
  [prompt |-> NoPrompt, tpot |-> tpot, text |-> text, spec |-> server.spec]

\* Below two tokens there is no TPOT and the text is not looked at: all that a
\* dead engine gives. A live one answers with any text, as does a stream that
\* was cut after two chunks or more, whatever they said.
Answers(w) ==
  {AnswerRow("none", "none")} \cup
  {AnswerRow("some", x) : x \in IF server.api = "up" \/ w \in cut THEN Texts ELSE {}}

Served(w) ==
  /\ Answering
  /\ \E row \in Answers(w) : Answer(w, row)

----------------------------------------------------------------------------
(* The client. *)

ClientOf(A) == A /\ UNCHANGED <<scriptVars, server, reportVars>>

Works(A) == ClientOf(A) /\ UNCHANGED cut

Worker(w) ==
  \/ Works(Take(w))
  \/ Works(Return(w))
  \/ Works(AppendRow(w))

Request(w) ==
  /\ ClientOf(Served(w)) \/ ClientOf(Raise(w))
  /\ cut' = cut \ {w}

Main ==
  \/ Works(FinishPass(Spec))
  \/ Works(NextPass)
  \/ Works(Exit)

----------------------------------------------------------------------------
(* bench2_report.py *)

\* Rows of one (spec, concurrency, prompt) that have a TPOT.
Cell(spec, c, p) ==
  {row \in UNION {r.rows : r \in {x \in file : x.spec = spec /\ x.conc = c}} :
     row.prompt = p /\ row.tpot # "none"}

TextsOf(spec, c, p) == {row.text : row \in Cell(spec, c, p)}

\* Texts of the runs with one request at a time only.
TextsAtBatchOne(spec, c, p) == IF c = 1 THEN TextsOf(spec, c, p) ELSE {}

TextsKept(spec, c, p) == TextsOf(spec, c, p)

Ratios ==
  {cp \in (1..MaxConc) \X Prompts : \A s \in {"no", "yes"} : Cell(s, cp[1], cp[2]) # {}}

Mismatches ==
  {cp \in (1..MaxConc) \X Prompts :
     LET a == TextsKept("no", cp[1], cp[2])
         b == TextsKept("yes", cp[1], cp[2])
     IN  a # {} /\ b # {} /\ a # b}

\* Without a single record there is no file to open.
Report ==
  /\ step = "over"
  /\ verdict = "none"
  /\ \/ file = {} /\ verdict' = "FileNotFoundError" /\ UNCHANGED printed
     \/ /\ file # {}
        /\ printed' = Ratios
        /\ verdict' = IF Mismatches = {} THEN "OK" ELSE "MISMATCHES"
  /\ UNCHANGED <<clientVars, scriptVars, serverVars>>

----------------------------------------------------------------------------

Init ==
  /\ ClientInit
  /\ knobs \in Knobs
  /\ step = "launch"
  /\ config = 1
  /\ sweep = 1
  /\ polls = 0
  /\ server = [spec |-> "none", api |-> "dead"]
  /\ cut = {}
  /\ printed = {}
  /\ verdict = "none"

Next ==
  \/ Launch
  \/ Poll
  \/ RunClient
  \/ ClientExits
  \/ Swept
  \/ ServerUp
  \/ ServerDies
  \/ EngineDies
  \/ \E w \in Workers : Worker(w) \/ Request(w)
  \/ Main
  \/ Report

CampaignSpec == Init /\ [][Next]_vars

\* The script, the client and its threads run; a request comes back or raises
\* (the socket's timeout); nothing makes a server come up or stay up, and nobody
\* has to run the report.
FairCampaign ==
  /\ CampaignSpec
  /\ WF_vars(Launch) /\ WF_vars(Poll) /\ WF_vars(RunClient) /\ WF_vars(ClientExits)
  /\ WF_vars(Swept) /\ WF_vars(Main)
  /\ \A w \in Workers : WF_vars(Worker(w)) /\ WF_vars(Request(w))

----------------------------------------------------------------------------

\* Every row is from a server of the kind its record is tagged with: no client
\* ever measures the server of the configuration before.
TagsTrue == \A r \in file : \A row \in r.rows : row.spec = r.spec

\* "greedy parity: OK" covers every ratio that is printed: the answers behind
\* it have the same texts with and without speculation.
ParityCoversRatios ==
  verdict = "OK" =>
    \A cp \in printed : TextsOf("no", cp[1], cp[2]) = TextsOf("yes", cp[1], cp[2])

\* Whatever dies, the script comes to its end.
CampaignEnds == <>(step = "over")
=============================================================================
