SPECIFICATION FairPlaygroundSpec
CONSTANTS
  Source <- MCSource
  LastLine <- MCLastLine
  CodeLines <- MCCodeLines
  Outcomes <- MCOutcomes
  Scripts <- ShortScripts
  Setups <- LiveSetups
  ErrorLine <- MCErrorLine
  MaxInputs = 2
  MaxUnderWay = 1
  MaxWriters = 1
  None = None
PROPERTIES
  Converges
  StopAnswers
  NothingLeftRunning
CHECK_DEADLOCK FALSE
