SPECIFICATION Spec
CONSTANTS
  Batches = 2
  MaxWrites = 4
  TransactionAnswers <- Yes
  Faults <- DriverObeys
INVARIANTS
  AutocommitRestored
  RolledBackStaysUndone
PROPERTY
  PromiseKept
