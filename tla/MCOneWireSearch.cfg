SPECIFICATION ScanSpec
CONSTANTS
  Bits = 4
  FamilyBits = 2
  MaxMoves = 1
  Roms <- MCRoms
PROPERTIES
  FindsEveryDevice
  NoGhost
  ScanEnds
