SPECIFICATION FairSpec
CONSTANTS
  r1 = r1
  r2 = r2
  r3 = r3
  Null = Null
  Results <- MCResults
  Modes <- EveryMode
  Faults <- AllFaults
INVARIANTS
  LifecycleTypeOK
  NoDanglingCurrent
  NoOtherCrash
  ThreadHasItsObject
  ConnectionOutlivesStatements
PROPERTIES
  ReturnsCurrent
  NeverRevalidated
  CallReturns
CHECK_DEADLOCK FALSE
