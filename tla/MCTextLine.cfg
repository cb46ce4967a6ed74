SPECIFICATION Spec
CONSTANTS
  Words = 24
  Modes <- MCModes
  Commands <- MCCommands
  Parameters <- MCParameters
  Tails <- MCTails
  MaxCommands = 2
  MaxLines = 3
INVARIANTS PromptIsReady ExitSwitchesOff HangsOnlyAfterExit
PROPERTIES EveryCommandOnce LineEnds
CHECK_DEADLOCK FALSE
