SPECIFICATION Spec
CONSTANTS
  Base = 3
  PtrWrap = 8
  Size = 4
  RecvMax = 2
  SendMax = 2
CHECK_DEADLOCK FALSE
INVARIANTS
  SizeReal
  SentIntact
PROPERTIES
  ImplementsQueue
  CallsReturn
