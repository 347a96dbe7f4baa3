SPECIFICATION Spec
CONSTANTS
  QueueLen = 8
  MaxLosses = 2
  MaxPresses = 0
  MaxFatals = 0
  PromptClear = TRUE
INVARIANTS VigilanteSilenced ReleasePurpose QuietClosed NoScanInSession
           FriendlyEverValidated 
PROPERTY VigilanteAfterAlert
CHECK_DEADLOCK FALSE
