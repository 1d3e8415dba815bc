SPECIFICATION Spec
CONSTANTS
  IAP_STORAGE_SIZE = 4
  FLASH_MIN_ERASE_UNIT = 2
  IAP_MIN_BLOCK_SIZE = 1
  IAP_MAX_BLOCK_SIZE = 3
  IAP_APP_MAX_BUFFER_SIZE = 8
  MaxDelay = 2
  Images = {"a", "b"}
  Headers <- SomeHeaders
  Writes <- SomeWrites
  ReadSizes = {1, 2}
  Delays = {0, 1, 3}
  Corruption = TRUE
  FlashFails = TRUE
  PowerFails = TRUE
  PoliteHost = FALSE
INVARIANT TypeOK
INVARIANT StorageIsAsTold
INVARIANT NextBlockFits
PROPERTY FinalFreezes
