SPECIFICATION Spec
CONSTANTS
  Settings <- MCSettings
  Layouts <- MCLayouts
  Sizes <- MCSizes
  MaxRowset = 2
  BufferSize = 2
  OtherSize = 2
  Numbers <- MCNumbers
  Fitting <- MCFitting
  Faults <- AllFaults
INVARIANTS CellsExact GetDataInOrder
