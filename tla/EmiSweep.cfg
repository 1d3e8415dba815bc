SPECIFICATION Spec
CONSTANTS
  Hosts <- MCHosts
  MayFail <- MCMayFail
  MaxPending = 2
INVARIANT TypeOK
INVARIANT StaysInBand
INVARIANT RoundsAreComplete
