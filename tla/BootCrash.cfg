SPECIFICATION Spec
CONSTANTS
  Updates <- TwoUpdates
  DEF_FLAG = DEF_FLAG
  Blank = Blank
  Garbage = Garbage
  None = None
  EraseFails = TRUE
  Stops <- SomeStops
INVARIANT TypeOK
INVARIANT BootFindsWhatWasReported
PROPERTY CommitsAtomically
