SPECIFICATION Spec
CONSTANTS
  ParamTypes <- MCParamTypes
  Calls <- MCCalls
  TableCols = 2
  MaxBinds = 2
INVARIANTS RowsAsGiven BuffersSound ReusableUnlessBroken
CHECK_DEADLOCK FALSE
