\* One consistent client and one with foreign Galois keys; a restart, a passed deadline.
CONSTANTS
  b1 = b1  b2 = b2  k1 = k1  k2 = k2
  None = None
  Threads = {t1, t2}
  GoodKeys = {k1, k2}
  Cts = {b1, b2}
  Clients = {b1, b2}
  SecretKey <- OneTriple
  GaloisKeys <- TwoTriples
  Packing = "SLOT"
  kMaxContinuousMismatches = 3
  MaxRestarts = 1
  MaxAttempts <- FirstTwice
  MaxInfers = 1
  MaxTimeouts = 1
SPECIFICATION BankSpec
INVARIANTS BankTypeOK ReadyKeysConfirmed
PROPERTY NoGarbage
SYMMETRY ThreadSymmetry
CHECK_DEADLOCK FALSE
