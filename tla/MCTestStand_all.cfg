SPECIFICATION FairStand
CONSTANTS
  Sizes = {1, 3}
  Depths = {4, 5}
  VocabSize = 8
  EmbedRows = 8
  DraftLayers = 2
  MaxLines = 1
  MaxRuns = 4
INVARIANTS DraftEmbedsAsTarget LayerNamesUnique KindsAgree TapsFit GateMeansLoaded
PROPERTY AllLoad
CHECK_DEADLOCK FALSE
