SPECIFICATION Spec
CONSTANTS
  Brokers = {b1, b2}
  b1 = b1
  b2 = b2
  Conditions = {"answers", "refuses", "unreachable", "silent", "closes"}
  Wrap = 8
  WdtLimit = 4
  RetryEvery = 3
  ArpTimeout = 1
  SynTimeout = 4
  ConnackWait = 4
INVARIANTS
  RetriedInTime
  SessionAsSaved
PROPERTIES
  NoNeedlessBite
  ReconnectsForGood
  ButtonsServed
