------------------------------ MODULE TapRelay ------------------------------
(***************************************************************************)
(* The target's forward pass over PP stages with the B blocks of           *)
(* dspark_pp_patch.py: every stage receives the taps of the stages before  *)
(* it, collects its own while it runs its layers, and passes the union on  *)
(* inside IntermediateTensors.  Sender and receiver work out the number of *)
(* taps in a message separately, each from its own slice of the layers; a  *)
(* receive whose buffers do not match what is sent never completes.        *)
(***************************************************************************)
EXTENDS TapLists

CONSTANTS
  PP,          \* pipeline stages
  NumLayers,   \* layers of the target model
  MaxBatches   \* bound: batches the scheduler sends

ASSUME TapRelayAssumption ==
  /\ PP \in Nat \ {0}
  /\ NumLayers \in Nat
  /\ MaxBatches \in Nat

VARIABLES
  start,     \* start[r]: start_layer of stage r; start[PP] is NumLayers
  aux,       \* aux_hidden_state_layers, the same on every rank
  begun,     \* begun[r]: batches stage r has taken up
  busy,      \* busy[r]: stage r is inside forward
  pos,       \* pos[r]: layers of the model run for the batch at stage r
  carried,   \* carried[r]: carried_aux
  own,       \* own[r]: aux_hidden_states of this stage
  chan,      \* chan[r]: IntermediateTensors on the way to stage r, oldest first
  delivered  \* what the last stage returned beside its hidden states

vars == <<start, aux, begun, busy, pos, carried, own, chan, delivered>>

Stages == 0..(PP - 1)
Last   == PP - 1

\* The same model on one stage: its batches, and the taps the draft gets of them.
Single == INSTANCE SingleStageTaps WITH aux <- aux, delivered <- delivered

\* Layers a stage split evenly or by hand assigns: contiguous slices, in order.
Splits ==
  {s \in [0..PP -> 0..NumLayers] :
     s[0] = 0 /\ s[PP] = NumLayers /\ \A r \in Stages : s[r] <= s[r + 1]}

----------------------------------------------------------------------------

\* _n_upstream: the slots make_empty_intermediate_tensors allocates (B4).
StrictlyUpstream(r) == Cardinality({L \in aux : L < start[r]})

NumUpstream(r) == Cardinality({L \in aux : L <= start[r]})

\* The tap forward takes from its input; B5 drops it unless the stage is first.
EveryBoundary(r, b) == IF start[r] \in aux THEN <<Tap(b, start[r])>> ELSE <<>>

BoundaryTap(r, b) ==
  IF start[r] \in aux /\ r = 0 THEN <<Tap(b, start[r])>> ELSE <<>>

\* The scheduler keeps at most PP batches in the pipeline.
BeginFirst ==
  /\ ~busy[0]
  /\ begun[0] < MaxBatches
  /\ begun[0] - Len(delivered) < PP
  /\ begun' = [begun EXCEPT ![0] = @ + 1]
  /\ busy' = [busy EXCEPT ![0] = TRUE]
  /\ pos' = [pos EXCEPT ![0] = start[0]]
  /\ carried' = [carried EXCEPT ![0] = <<>>]
  /\ own' = [own EXCEPT ![0] = BoundaryTap(0, begun[0] + 1)]
  /\ UNCHANGED <<start, aux, chan, delivered>>

\* The receive completes when the buffers match the message; then B1 collects
\* the carried taps up to the first missing index.
BeginNext(r) ==
  /\ r > 0
  /\ ~busy[r]
  /\ chan[r] # <<>>
  /\ Len(Head(chan[r]).taps) = NumUpstream(r)
  /\ begun' = [begun EXCEPT ![r] = @ + 1]
  /\ busy' = [busy EXCEPT ![r] = TRUE]
  /\ pos' = [pos EXCEPT ![r] = start[r]]
  /\ carried' = [carried EXCEPT ![r] = Head(chan[r]).taps]
  /\ own' = [own EXCEPT ![r] = BoundaryTap(r, Head(chan[r]).batch)]
  /\ chan' = [chan EXCEPT ![r] = Tail(@)]
  /\ UNCHANGED <<start, aux, delivered>>

\* islice(self.layers, start_layer, end_layer)
LayersTooMany(r) == pos[r] <= start[r + 1]

LayersLeft(r) == pos[r] < start[r + 1]

\* One layer of the stage; its output is tapped when its 1-based id is listed.
RunLayer(r) ==
  /\ busy[r]
  /\ LayersLeft(r)
  /\ pos' = [pos EXCEPT ![r] = @ + 1]
  /\ own' = [own EXCEPT ![r] = IF pos[r] + 1 \in aux
                               THEN Append(@, Tap(begun[r], pos[r] + 1)) ELSE @]
  /\ UNCHANGED <<start, aux, begun, busy, carried, chan, delivered>>

OwnOnly(r) == own[r]

\* carried_aux + aux_hidden_states
Union(r) == carried[r] \o own[r]

\* B2: a stage that is not the last sends hidden states and taps on.
Send(r) ==
  /\ r < Last
  /\ busy[r]
  /\ ~LayersLeft(r)
  /\ busy' = [busy EXCEPT ![r] = FALSE]
  /\ chan' = [chan EXCEPT ![r + 1] = Append(@, [batch |-> begun[r], taps |-> Union(r)])]
  /\ UNCHANGED <<start, aux, begun, pos, carried, own, delivered>>

\* B3: the last stage returns the taps of all stages.
Return ==
  /\ busy[Last]
  /\ ~LayersLeft(Last)
  /\ busy' = [busy EXCEPT ![Last] = FALSE]
  /\ delivered' = Append(delivered, Union(Last))
  /\ UNCHANGED <<start, aux, begun, pos, carried, own, chan>>

----------------------------------------------------------------------------

Init ==
  /\ start \in Splits
  /\ aux \in SUBSET (1..NumLayers)
  /\ begun = [r \in Stages |-> 0]
  /\ busy = [r \in Stages |-> FALSE]
  /\ pos = [r \in Stages |-> 0]
  /\ carried = [r \in Stages |-> <<>>]
  /\ own = [r \in Stages |-> <<>>]
  /\ chan = [r \in Stages |-> <<>>]
  /\ delivered = <<>>

Step ==
  \/ BeginFirst
  \/ \E r \in Stages : BeginNext(r)
  \/ \E r \in Stages : RunLayer(r)
  \/ \E r \in Stages : Send(r)
  \/ Return

\* Every batch has come out: the only way the pipeline may stop.
Drained == Len(delivered) = MaxBatches /\ UNCHANGED vars

Next == Step \/ Drained

Spec == Init /\ [][Next]_vars

\* Every worker keeps running its loop; the scheduler owes no further batch.
FairSpec ==
  /\ Spec
  /\ \A r \in Stages : WF_vars(BeginNext(r)) /\ WF_vars(RunLayer(r)) /\ WF_vars(Send(r))
  /\ WF_vars(Return)

----------------------------------------------------------------------------

TapList == Seq([batch : 1..MaxBatches, layer : 1..NumLayers])
Message == [batch : 1..MaxBatches, taps : TapList]

TypeOK ==
  /\ start \in Splits
  /\ aux \subseteq 1..NumLayers
  /\ begun \in [Stages -> 0..MaxBatches]
  /\ busy \in [Stages -> BOOLEAN]
  /\ pos \in [Stages -> 0..NumLayers]
  /\ carried \in [Stages -> TapList]
  /\ own \in [Stages -> TapList]
  /\ chan \in [Stages -> Seq(Message)]
  /\ delivered \in Seq(TapList)

\* Whatever is on the way to a stage has as many taps as that stage has
\* allocated buffers for, although the two ranks never talk about it.
RecvMatchesSend ==
  \A r \in Stages : \A i \in DOMAIN chan[r] : Len(chan[r][i].taps) = NumUpstream(r)

\* The draft sees what it would see on one stage: all taps of the right batch,
\* each once and in layer order, and the batches in the order they were sent.
RefinesSingleStage == Single!Spec

\* A batch that entered the pipeline comes out of it.
BatchesComeOut ==
  \A b \in 1..MaxBatches : begun[0] >= b ~> Len(delivered) >= b
=============================================================================
