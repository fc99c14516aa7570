\* Two consistent triples, one server process.
CONSTANTS
  b1 = b1  b2 = b2  k1 = k1  k2 = k2
  None = None
  Threads = {t1, t2}
  GoodKeys = {k1, k2}
  Cts = {b1, b2}
  Clients = {b1, b2}
  SecretKey <- TwoTriples
  GaloisKeys <- TwoTriples
  Packing = "SLOT"
  kMaxContinuousMismatches = 3
  MaxRestarts = 0
  MaxAttempts <- Once
  MaxInfers = 1
  MaxTimeouts = 0
SPECIFICATION BankSpec
INVARIANT ConstructedMeansConsistent
SYMMETRY ThreadSymmetry
CHECK_DEADLOCK FALSE
