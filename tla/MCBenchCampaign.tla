-------------------------- MODULE MCBenchCampaign --------------------------
(* Three prompts; both servers with one request at a time and with two, and *)
(* one server swept over both.                                              *)
EXTENDS BenchCampaign

MCKnobs ==
  {[order |-> <<"no", "yes">>, concs |-> <<1>>],
   [order |-> <<"no", "yes">>, concs |-> <<2>>],
   [order |-> <<"yes">>, concs |-> <<1, 2>>]}
=============================================================================
