SPECIFICATION PlaygroundSpec
CONSTANTS
  Source <- MCSource
  LastLine <- MCLastLine
  CodeLines <- MCCodeLines
  Outcomes <- MCOutcomes
  Scripts <- MCScripts
  Setups <- MCSetups
  ErrorLine <- MCErrorLine
  MaxInputs = 2
  MaxUnderWay = 2
  MaxWriters = 2
  None = None
INVARIANTS
  PlaygroundTypeOK
  FreshDisplay
  ButtonsAgree
  FailureShown
  NoStrayProcess
CHECK_DEADLOCK FALSE
