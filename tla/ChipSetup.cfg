SPECIFICATION SetupSpec
CONSTANTS
  Zero = Zero
  Octets = {a}
  a = a
  NetModes = {NM_PINGBLOCK}
  NM_PINGBLOCK = NM_PINGBLOCK
  Timeouts = {short}
  short = short
  Default = Default
  Speeds = {10, 100}
  Duplexes = {"full"}
  HasHardReset = TRUE
INVARIANTS NoStrayInterrupt ChipAsConfigured BuffersAssigned
