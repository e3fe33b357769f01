SPECIFICATION OpenSpec
CONSTANTS
  MaxOpens = 2
  Requests <- MCRequests
  Installed <- MCInstalled
  NamedOff <- MCNamedOff
  Offsets <- MCOffsets
  Stamps = {86399}
  Faults <- Calls
  Texts <- MCTexts
  MaxTexts = 2
INVARIANTS SetupExact FailedLoginsLoseNothing OffsetsHonoured SameCellSameInstant EachTextItsOwn
CHECK_DEADLOCK FALSE
