SPECIFICATION FairCampaign
CONSTANTS
  NumPrompts = 3
  MaxConc = 2
  Reps = 1
  Knobs <- MCKnobs
  Texts = {"a", "b"}
  MaxPolls = 1
INVARIANTS TagsTrue ParityCoversRatios
PROPERTIES RefinesPass CampaignEnds
CHECK_DEADLOCK FALSE
