SPECIFICATION FairSchedSpec
CONSTANTS
  main = main
  f1 = f1
  f2 = f2
  f3 = f3
  loop = loop
  Main = main
  Loop = loop
  Fiber <- MCFiber
  Call <- MCCall
  Programs <- MCPrograms
INVARIANTS
  OneWakeup
  NoneLost
PROPERTIES
  SleepersWake
  RunnablesRun
CHECK_DEADLOCK FALSE
