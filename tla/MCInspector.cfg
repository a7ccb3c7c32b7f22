SPECIFICATION InspectorSpec
CONSTANTS
  one = one
  two = two
  pair = pair
  Int32 = Int32
  Tuple = Tuple
  NoData = NoData
  Null = Null
  Arrival <- MCArrival
  MaxMessages = 4
INVARIANTS
  TypeOfAll
  TableComplete
  RowsInOrder
