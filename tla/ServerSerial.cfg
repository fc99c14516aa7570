\* The threaded service implements FailClosed when provisioning is serial.
CONSTANTS
  Threads = {t1, t2}
  GoodKeys = {k1, k2}
  Cts = {c1}
  Packing = "SLOT"
  MaxRestarts = 1
  kMaxContinuousMismatches = 2
  None = None
SPECIFICATION FairSerialSpec
PROPERTIES ImplementsFailClosed MismatchesTrip Answered
