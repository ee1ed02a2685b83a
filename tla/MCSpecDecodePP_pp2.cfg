SPECIFICATION Spec
CONSTANTS
  Reqs = {q1, q2}
  PP = 2
  K = 1
  PromptLen = 2
  MaxLen = 4
  Chunk = 3
  MaxGen = 2
  Patches = {"cadence", "anchor", "gate"}
INVARIANTS TypeOK EmbeddedIsVerified RelayPaired RowsKeepTheirRequest
CHECK_DEADLOCK FALSE
