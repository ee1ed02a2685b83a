SPECIFICATION Spec
CONSTANTS
  NumShards = 3
  Tensors <- MCTensors
  Holds <- MCHolds
  RunArgs <- OneCut
  Workers = 2
INVARIANT ResumedIndexComplete
