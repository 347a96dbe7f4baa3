SPECIFICATION Spec
CONSTANTS
  QueueLen = 8
  MaxLosses = 1
  MaxPresses = 2
  MaxFatals = 0
  PromptClear = TRUE
INVARIANTS MuteAgrees MutedHasDeadline
CHECK_DEADLOCK FALSE
