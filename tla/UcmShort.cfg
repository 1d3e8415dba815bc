SPECIFICATION Spec
CONSTANTS
  Commands <- Short
  Known <- KnownCommands
  PACKAEG_BUFFER_SIZE = 6
  PosModulus = 4
INVARIANT TypeOK
PROPERTY DispatchesOwnBytes
