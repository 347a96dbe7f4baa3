SPECIFICATION FairSpec
CONSTANTS
  QueueLen = 8
  MaxLosses = 1
  MaxPresses = 0
  MaxFatals = 0
  PromptClear = TRUE
PROPERTY ValidatingEnds
CHECK_DEADLOCK FALSE
