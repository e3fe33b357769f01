SPECIFICATION Spec
CONSTANTS
  Batches = 2
  MaxWrites = 4
  TransactionAnswers = {TRUE, FALSE}
  Faults <- AllFaults
INVARIANTS
  TypeOK
  RefCountExact
  NothingTakesEffectEarly
