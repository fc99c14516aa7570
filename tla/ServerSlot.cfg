\* Two workers, two key sets, all handlers, one restart.
CONSTANTS
  Threads = {t1, t2}
  GoodKeys = {k1, k2}
  Cts = {c1, c2}
  Packing = "SLOT"
  MaxRestarts = 1
  kMaxContinuousMismatches = 3
  None = None
SPECIFICATION Spec
SYMMETRY Symmetry
INVARIANTS TypeOK ServedWithInstalledKeys FaultExplained OwnResult
PROPERTY FaultTerminal
