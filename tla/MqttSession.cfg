SPECIFICATION Spec
CONSTANTS
  RecvMax = 2
  MaxStream = 4
INVARIANTS
  ConnectedIsAccepted
  ActiveIsSubscribed
  AtMostOnce
PROPERTIES
  LossNoticed
  AlwaysReturns
