SPECIFICATION Spec
CONSTANTS
  HostCommands <- Singles
  REQUEST_QUEUE_DEPTH = 2
  EMI_RX_ENABLE = FALSE
  HciSlots = 2
  HostWindow = 1
  SlowTimer = TRUE
  PromptController = TRUE
INVARIANT IdleMeansSilent
