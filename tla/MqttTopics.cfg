SPECIFICATION Spec
CONSTANTS
  RecvMax = 2
  MaxStream = 5
INVARIANT
  BothSubscribed
