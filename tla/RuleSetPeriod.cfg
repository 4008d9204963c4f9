\* An interval that does not fit the width of the period and wraps to a shorter
\* one, above the floor of two timeouts and a second.
SPECIFICATION Safety
CONSTANTS
  MaxVersion = 1
  Broken = {}
  MaxFaults = 0
  ReloadIntervals = {13}
  Second = 1
  cacheTimeout = 1
  UintModulus = 8
INVARIANT PeriodIsAtLeastInterval
