SPECIFICATION Spec
CONSTANTS
  Wrap = 34
  Interval = 12
  MaxGap = 2
  RoundTrip = 2
INVARIANTS
  LossNoticed
  BrokerHears
PROPERTY
  NoFalseAlarm
