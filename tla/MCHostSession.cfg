SPECIFICATION SessionSpec
CONSTANTS
  BbioNuls = 5
  SumpNuls = 2
  SerprogNuls = 3
  HostNuls = 5
  Late = 8
  Banner <- MCBanner
  Id <- MCId
  Bodies <- MCBodies
  Params <- MCParams
  MaxFaults = 2
  MaxUnread = 6
INVARIANTS
  NulsReachBbio
  SessionInStep
  HangsOnlyInMode
  BackAtPrompt
PROPERTIES
  DetachEntersBbio
  SnifferAfterFailure
  FreshRunSucceeds
