SPECIFICATION Spec
CONSTANTS
  Batches = 0
  MaxWrites = 2
  TransactionAnswers <- Yes
  Faults <- OnlyCommit
INVARIANT
  RolledBackStaysUndone
