SPECIFICATION LifecycleSpec
CONSTANTS
  r1 = r1
  r2 = r2
  r3 = r3
  Null = Null
  Results <- MCResults
  Modes <- EveryMode
  Faults <- NoFaults
INVARIANT
  NeverCrashes
CHECK_DEADLOCK FALSE
