SPECIFICATION FairChannelMutexSpec
CONSTANTS
  main = main
  f1 = f1
  f2 = f2
  f3 = f3
  loop = loop
  mu = mu
  a = a
  u = u
  NoFiber = NoFiber
  Main = main
  Loop = loop
  Fiber <- MCFiber
  Call <- MCCall
  Programs <- MCPrograms
  Channels = {a, u}
  Buffered = {a}
  Capacity <- MCCapacity
  Site = {1, 2, 3, 4, 5, 6, 7, 8}
  Mutexes = {mu}
INVARIANTS
  Fifo
  NoLostWakeup
  Rendezvous
  MutualExclusion
  NoLostMutex
PROPERTIES
  ImplementsFifo
  ClosedReleases
  WaitersLock
CHECK_DEADLOCK FALSE
