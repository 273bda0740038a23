SPECIFICATION SettingsSpec
CONSTANTS
  Ports = {0, 1, 256}
  Texts = {0, 1}
INVARIANTS
  PortUsable
PROPERTY
  SavedComesBack
