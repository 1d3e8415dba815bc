SPECIFICATION FairSpec
CONSTANTS
  HostCommands <- SweepAndStop
  REQUEST_QUEUE_DEPTH = 4
  EMI_RX_ENABLE = FALSE
  HciSlots = 2
  HostWindow = 2
  SlowTimer = TRUE
  PromptController = FALSE
PROPERTY RingIsFifo
PROPERTY EveryRequestIsServed
