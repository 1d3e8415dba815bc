SPECIFICATION Spec
CONSTANTS
  a = a
  b = b
  h1 = h1
  h2 = h2
  INVALID_HANDLE = INVALID_HANDLE
  Payloads <- MCPayloads
  Handles <- MCHandles
  MaxEvents = 2
INVARIANT TypeOK
INVARIANT ReportsAreReleased
INVARIANT SendsWhatWasAccepted
INVARIANT StateMatchesController
INVARIANT NotifiesOnPairedLink
INVARIANT BlinksUntilItCommunicates
SYMMETRY Symmetry
