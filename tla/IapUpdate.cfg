SPECIFICATION FairUpdateSpec
CONSTANTS
  IAP_STORAGE_SIZE = 2
  FLASH_MIN_ERASE_UNIT = 1
  IAP_MIN_BLOCK_SIZE = 1
  IAP_MAX_BLOCK_SIZE = 1
  IAP_APP_MAX_BUFFER_SIZE = 8
  MaxDelay = 2
  Images = {"a", "b"}
  Headers <- HonestHeaders
  Writes <- SomeWrites
  ReadSizes = {}
  Delays = {1}
  Corruption = FALSE
  FlashFails = TRUE
  PowerFails = TRUE
  PoliteHost = TRUE
  DEF_FLAG = DEF_FLAG
  Blank = Blank
  Torn = Torn
  NoUpdate = NoUpdate
  LoadAddress = LoadAddress
  IAP_STORAGE_ADDR = IAP_STORAGE_ADDR
  BootClears = TRUE
INVARIANT PendingIsTheUpdate
PROPERTY InstallsVerifiedOnly
PROPERTY SwitchAppTakesEffect
PROPERTY ImplementsApplication
