SPECIFICATION FairSpec
CONSTANTS
  a = a
  b = b
  Data <- MCData
  Environments <- MCEnvironments
  MaxDue = 1
INVARIANT TypeOK
INVARIANT ReportsAreReleased
INVARIANT KeepsListening
INVARIANT AnswersTheCommand
PROPERTY EveryCommandIsAnswered
CHECK_DEADLOCK FALSE
