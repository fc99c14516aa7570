\* One undisturbed run of the whole harness, with the committed artifacts.
CONSTANTS
  Governors = {"performance", "powersave"}
  Onlys = {{"comparison", "throughput", "rotation_strategy", "amortization", "matched_pair", "privacy_cost", "ablation", "execution_matrix", "e2e_breakdown", "bandwidth_ladder", "hhe_breakeven", "hera_bench"}}
  Missing = {"hera_bench", "openfhe"}
  MaxRuns = 1
  MaxChanges = 0
  MaxFailures = 0
SPECIFICATION GovernorSpec
INVARIANT AllUnderPerformance
CHECK_DEADLOCK FALSE
