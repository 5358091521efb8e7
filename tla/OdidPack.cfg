SPECIFICATION Spec
CONSTANTS
  Transmit <- mcTransmit
  Filled <- mcFilled
  Junk <- mcJunk
  Foreign <- mcForeign
  MaxFix = 2
INVARIANTS TypeOK AllOrNothing ShownIsHeard NothingLost
