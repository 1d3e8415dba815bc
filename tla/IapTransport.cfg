SPECIFICATION FairSpec
CONSTANTS
  Messages <- SomeMessages
  Environments <- SomeEnvironments
  PackNumModulus = 4
  IAP_APP_MAX_BUFFER_SIZE = 5
  RetryNum = 3
INVARIANT TypeOK
INVARIANT FaultsCostFewTries
PROPERTY DeliversWholeMessages
PROPERTY EveryMessageArrives
