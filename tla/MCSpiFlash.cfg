SPECIFICATION Spec
CONSTANTS
  ChipPages = 12
  SectorPages = 4
  Stride = 3
  AddrPages = 16
  Jobs <- MCJobs
  MaxFaults = 2
INVARIANTS
  DoneMeansProgrammed
  DumpIsContents
PROPERTIES
  RunEnds
