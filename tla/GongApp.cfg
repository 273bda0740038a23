SPECIFICATION FairSpec
CONSTANTS
  Buttons = {frontdoor}
  frontdoor = frontdoor  upper = upper
  EdgeType = "kAnyChange"
  Gongs = {upper}
  Wrap = 7
  MinDuration = 1
  MaxDuration = 3
  DefaultDuration = 1
  NumberWrap = 8
  OctetWrap = 2
  Payloads = {3, 9}
  Typed = {2, 3}
  DefaultBroker = 0
  RetryAfter = 2
  Late = 3
INVARIANTS EdgeNotLost GongStops
PROPERTIES GongNotCutShort LoopServes
