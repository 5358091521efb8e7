SPECIFICATION Spec
CONSTANTS
  Wrap360 = FALSE
  Inputs <- mcInputs
CHECK_DEADLOCK FALSE
INVARIANTS OctetsFit QuantisationError InvalidIsKept OrderKept AccuracyNotOverstated
