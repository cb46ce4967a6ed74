SPECIFICATION Spec
CONSTANTS
  PoolBlockNumber = 4
  BlockSize = 8192
  Modes <- MCModes
INVARIANTS
  BuffersUsable
  SdioOneOwner
  HaltOnlyAfterButton
PROPERTIES
  SessionGivesBack
  ResetReleases
  PollersHonourButton
