SPECIFICATION ReconnectSpec
CONSTANTS
  Wrap = 8
  Intervals = {2, 4}
  MaxInterval = 4
  Callbacks = {c1, c2}
  c1 = c1  c2 = c2
  None = None
  MaxGap = 2
INVARIANTS StatusTruthful RetriesInTime
