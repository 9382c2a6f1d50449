SPECIFICATION FairSpec
CONSTANTS
  Word = 2
  Uint64 = 16
  timebasePeriod = 2
  InitialCounters <- AllCounters
  TimerValues <- AllTimes
  Immediates <- OneBit
  Advances <- OnlyForward
  MaxElapsed = 5
INVARIANT TypeOK
PROPERTIES
  ImplementsWideCounters
  TimeNotAhead
  TimerFires
