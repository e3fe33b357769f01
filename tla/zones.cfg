SPECIFICATION Spec
CONSTANTS
  caller = caller
  other = other
  Threads <- MCThreads
  Asks <- MCAsks
  Sources <- MCSources
  Cycle = 2
  YearSecs <- MCYearSecs
  BigBang <- MCBigBang
  LateTime = 7
  Contemporary <- MCContemporary
  MinTime <- MCMinTime
  MaxTime = 110
  SecsPerDay = 4
  MaxIndex = 3
  Ticks = 3
  Factors <- MCFactors
  Nano = 2
  ClockWidth = 324
CHECK_DEADLOCK FALSE
INVARIANTS LookupsExact ConvertInOrder WrittenReadsBack
