SPECIFICATION Spec
CONSTANTS
  HostCommands <- HciTests
  REQUEST_QUEUE_DEPTH = 2
  EMI_RX_ENABLE = FALSE
  HciSlots = 2
  HostWindow = 3
  SlowTimer = FALSE
  PromptController = TRUE
INVARIANT IdleMeansSilent
