SPECIFICATION Spec
CONSTANTS
  d0 = d0
  d1 = d1
  Samples = 4
  PerCell = 2
  Pins = {d0, d1}
  Channels = {d0}
  Triggers <- MCTriggers
  Delays = {0, 2}
  Reads = {2, 4}
INVARIANTS
  ReadsWhatWasSampled
