SPECIFICATION Spec
CONSTANTS
  QueueLen = 8
  MaxLosses = 1
  MaxPresses = 0
  MaxFatals = 0
  PromptClear = TRUE
PROPERTY AlarmAfterFullWindow
CHECK_DEADLOCK FALSE
