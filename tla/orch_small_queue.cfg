SPECIFICATION Spec
CONSTANTS
  QueueLen = 2
  MaxLosses = 1
  MaxPresses = 1
  MaxFatals = 1
  PromptClear = FALSE
INVARIANT TypeOK
PROPERTY FollowsPolicy
CHECK_DEADLOCK FALSE
