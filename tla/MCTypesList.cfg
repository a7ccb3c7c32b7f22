SPECIFICATION FairTypesSpec
CONSTANTS
  http = http
  server = server
  context = context
  int = int
  Type <- MCType
  Above <- MCAbove
  Text <- MCText
  Blank = "blank"
  Faulty = {"star"}
  Matches <- MCMatches
  Depth = 1
  None = None
  MaxKeys = 3
INVARIANTS
  ShowsWhatIsAsked
PROPERTIES
  MatchesInSight
  ReloadKeepsOpen
  SearchSettles
