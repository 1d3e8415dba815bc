SPECIFICATION Spec
CONSTANTS
  HostCommands <- Mixed
  REQUEST_QUEUE_DEPTH = 2
  EMI_RX_ENABLE = FALSE
  HciSlots = 2
  HostWindow = 3
  SlowTimer = FALSE
  PromptController = FALSE
INVARIANT TypeOK
INVARIANT NoUnexpectedOccurence
INVARIANT NothingIsLeftHalfWay
INVARIANT StoppedIsAtRest
PROPERTY ServesRequests
