SPECIFICATION ChanSpec
CONSTANTS
  main = main
  f1 = f1
  f2 = f2
  f3 = f3
  loop = loop
  a = a
  b = b
  u = u
  Main = main
  Loop = loop
  Fiber <- MCFiber
  Call <- MCCall
  Programs <- MCPrograms
  Channels = {a, b, u}
  Buffered = {a, b}
  Site = {1, 2, 3, 4, 5, 6}
  Capacity <- MCCapacity
INVARIANTS
  NoMissedSelect
CHECK_DEADLOCK FALSE
