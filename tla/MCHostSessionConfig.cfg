SPECIFICATION SessionSpec
CONSTANTS
  BbioNuls = 5
  SumpNuls = 2
  SerprogNuls = 3
  HostNuls = 5
  Late = 8
  Banner <- MCBanner
  Id <- MCId
  Bodies <- MCBodies
  Params <- MCAllParams
  MaxFaults = 2
  MaxUnread = 6
INVARIANTS
  ConfigHonoured
