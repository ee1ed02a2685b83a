SPECIFICATION FairSpec
CONSTANTS
  NumShards = 3
  Tensors <- MCTensors
  Holds <- MCHolds
  RunArgs <- AllArgs
  Workers = 2
INVARIANTS TypeOK TrustedFiles CompleteSlice NoPrefixLeft
PROPERTY RunsEnd
