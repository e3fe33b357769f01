SPECIFICATION RuleSpec
CONSTANTS
  Starts <- MCStarts
  Offsets <- MCOffsets
  Raw <- MCRaw
  SecondDays = 23000
  MaxSteps = 2
  Texts <- MCTexts
CHECK_DEADLOCK FALSE
INVARIANTS CivilExact RulesExact SpecsAsWritten
PROPERTY DifferenceExact
