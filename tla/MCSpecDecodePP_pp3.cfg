SPECIFICATION FairSpec
CONSTANTS
  Reqs = {q1}
  PP = 3
  K = 2
  PromptLen = 3
  MaxLen = 6
  Chunk = 2
  MaxGen = 2
  Patches = {"cadence"}
INVARIANTS AnchorReal AnchorSlot DecodeShape ConfirmedPosition
PROPERTIES RefinesGreedy RequestsEnd ReportedBeforeScheduled RefinesScheduler
CHECK_DEADLOCK FALSE
