\* A CNP process: three workers, every handler refused or served without keys.
CONSTANTS
  Threads = {t1, t2, t3}
  GoodKeys = {k1}
  Cts = {c1, c2}
  Packing = "CNP"
  MaxRestarts = 1
  kMaxContinuousMismatches = 3
  None = None
SPECIFICATION Spec
SYMMETRY Symmetry
INVARIANTS CnpNeverRotates TripPending MismatchBound
