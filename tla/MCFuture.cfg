SPECIFICATION FairFutureSpec
CONSTANTS
  main = main
  f1 = f1
  f2 = f2
  f3 = f3
  worker = worker
  loop = loop
  p = p
  d = d
  n = n
  z = z
  NoFiber = NoFiber
  Main = main
  Loop = loop
  Fiber <- MCFiber
  Call <- MCCall
  Programs <- MCPrograms
  Channels = {p, d, n, z}
  Buffered = {}
  Capacity <- MCCapacity
  Site = {1, 2, 3, 4, 5, 6, 7, 8}
  Futures = {p, d, n, z}
  Lazy = {z}
  Delayed = {d}
  Napping = {p, d, n}
  Nilable = {n}
INVARIANTS
  FutureTypeOK
  BlockOnce
  CancelDrops
  NoCompilerBug
PROPERTIES
  GetsAnswered
CHECK_DEADLOCK FALSE
