SPECIFICATION Spec
CONSTANTS
  Tools = {"hidden", "anchor", "mtp", "commit", "verify", "need", "states", "warmup", "skip", "relay"}
  MaxRuns = 3
INVARIANTS EachOnce NothingDangles
CHECK_DEADLOCK FALSE
