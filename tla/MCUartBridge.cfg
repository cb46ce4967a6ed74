SPECIFICATION Spec
CONSTANTS
  Slots = {s1, s2}
INVARIANTS
  TypeOK
  ReadersAccounted
  EchoHonest
  ReadsWhileOn
  HaltOnlyAfterLeak
PROPERTIES
  StopReturns
  ButtonEndsReaders
