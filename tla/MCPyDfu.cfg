SPECIFICATION Spec
CONSTANTS
  Descriptor <- MCDescriptor
  wTransferSize = 2
  Files <- MCFiles
  Attempts = 4
  MaxFaults = 2
INVARIANTS
  FinishedMeansWritten
PROPERTIES
  RerunSucceeds
  ImplementsFlashUpdate
