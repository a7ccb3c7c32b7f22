SPECIFICATION FairStackSpec
CONSTANTS
  main = main
  gc = gc
  f1 = f1
  f2 = f2
  f3 = f3
  f4 = f4
  loop = loop
  Main = main
  Loop = loop
  Fiber <- MCFiber
  Call <- MCCall
  Programs <- MCPrograms
  Nil = Nil
  Stack = {s1, s2, s3, s4}
INVARIANTS
  StackOwned
  NoLeak
  RootsFound
PROPERTIES
  PoolDrains
CHECK_DEADLOCK FALSE
