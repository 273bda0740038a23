SPECIFICATION Spec
CONSTANTS
  Chimes = {c1}
  c1 = c1
  Wrap = 10
  BootTimes = {1}
  Guard = 2
  Debounce = 0
  Cooldown = 3
  RingTime = 2
  MaxGap = 2
INVARIANTS
  RingBounded
  PressNotMissed
  PublishedOnce
PROPERTIES
  RingNotCutShort
  CooldownRespected
  NoStaleRing
