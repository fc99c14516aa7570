\* One worker: no race is needed.
CONSTANTS
  Threads = {t1}
  GoodKeys = {k1}
  Cts = {c1}
  Packing = "SLOT"
  MaxRestarts = 0
  kMaxContinuousMismatches = 3
  None = None
SPECIFICATION StreakSpec
PROPERTY TripsAsDocumented
