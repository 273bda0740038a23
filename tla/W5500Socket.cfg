SPECIFICATION Spec
CONSTANTS
  Packets = {p1, p2}
  p1 = p1
  p2 = p2
  Cells = {a, b}
  a = a
  b = b
  RecvMax = 2
  MaxStream = 3
INVARIANTS
  OneUnacknowledged
  StreamIntact
PROPERTIES
  CallsReturn
