SPECIFICATION FairSpec
CONSTANTS
  MaxCreds = 2
  RetryCount = 3
INVARIANTS TypeOK SettledBelief LinkHasSsid FailureIsClean OneDriver
PROPERTIES ConnectEnds
CHECK_DEADLOCK FALSE
