SPECIFICATION FairSpec
CONSTANTS
  PP = 3
  NumLayers = 4
  MaxBatches = 2
INVARIANTS TypeOK RecvMatchesSend
PROPERTIES RefinesSingleStage BatchesComeOut
