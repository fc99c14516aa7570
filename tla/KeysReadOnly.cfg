\* Two overlapping ProvisionGaloisKeys calls.
CONSTANTS
  Threads = {t1, t2}
  GoodKeys = {k1, k2}
  Cts = {c1}
  Packing = "SLOT"
  MaxRestarts = 0
  kMaxContinuousMismatches = 3
  None = None
SPECIFICATION Spec
SYMMETRY Symmetry
PROPERTY KeysReadOnlyOnceReady
