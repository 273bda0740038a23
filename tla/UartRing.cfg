SPECIFICATION Spec
CONSTANTS
  Size = 4
  Byte = {"a", "b"}
  NoByte = NoByte
  ZeroByte = ZeroByte
  MaxDropped = 2
PROPERTIES
  LoadedSlotStable
  ImplementsQueue
  Drains
