\* One client, a consistent triple, one deadline passes.
CONSTANTS
  b1 = b1  b2 = b2  k1 = k1  k2 = k2
  None = None
  Threads = {t1, t2}
  GoodKeys = {k1, k2}
  Cts = {b1}
  Clients = {b1}
  SecretKey <- OneTriple
  GaloisKeys <- OneTriple
  Packing = "SLOT"
  kMaxContinuousMismatches = 3
  MaxRestarts = 0
  MaxAttempts <- Twice
  MaxInfers = 2
  MaxTimeouts = 1
SPECIFICATION BankFairSpec
PROPERTIES RetryHeals HandshakeSettles

CHECK_DEADLOCK FALSE
