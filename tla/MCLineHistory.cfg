SPECIFICATION EditSpec
CONSTANTS
  HistorySize = 12
  MaxLineLen = 4
  Lines <- MCLines
PROPERTIES
  ImplementsHistory
