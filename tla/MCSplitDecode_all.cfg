SPECIFICATION Spec
CONSTANTS
  NumSeqs = 2
  Pages <- TwoPages
  MaxLen = 5
  MaxQuery = 2
  PageSize = 2
  BlockN = 2
  NumSplits = 2
  Launches = 1
  Nope = 512
  Rope = 64
  Tile = 128
  ScaleByteOff = 512
  RopeByteOff = 528
  RowBytes = 656
  IntHalf = 4096
  LongHalf = 8192
INVARIANTS ExactPrefix
PROPERTIES RowLayout DecodeExact
CHECK_DEADLOCK FALSE
