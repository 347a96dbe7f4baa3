SPECIFICATION Spec
CONSTANTS
  QueueLen = 8
  MaxLosses = 1
  MaxPresses = 0
  MaxFatals = 0
  PromptClear = TRUE
PROPERTY RecoveryTellsLink
CHECK_DEADLOCK FALSE
