\* Each program on its own: two runs of the reproduction script, a laptop
\* session of two cells, two runs of the governor harness, two trainings,
\* two key generations with two clients, one script with servers.
CONSTANTS
  Froms = {1, 5, 10, 13, 14, 15}
  Disturbed = TRUE
  MaxInvocations = 2
  NCells = 2
  MaxPower = 3
  Governors = {"performance", "powersave"}
  Onlys = {{"throughput", "amortization"}, {"comparison", "rotation_strategy"}, {"hera_bench"}}
  Missing = {"hera_bench", "openfhe", "e2e_breakdown", "rotation_strategy", "amortization", "matched_pair", "privacy_cost", "ablation", "execution_matrix", "bandwidth_ladder", "hhe_breakeven", "lane4", "lane8", "lane16"}
  MaxRuns = 2
  MaxChanges = 2
  MaxFailures = 1
  MaxTrainings = 2
  c1 = c1  c2 = c2
  KeyClients = {c1, c2}
  MaxGenerations = 2
  MaxScores = 1
  MaxStrangers = 1
  MaxCrashes = 1
SPECIFICATION WorkSpec
INVARIANTS PipelineTypeOK ServersAccounted NoServerLeft QuietSteps
INVARIANTS ComparedArmsPassed EachLossSpoilsOne
INVARIANTS ValidRunInPerformance SelectedRemeasured BaselineFromBefore
INVARIANTS ModelFromOneSplit GatedIsDeployed
INVARIANTS ProvedClientDecodes
INVARIANTS MeasuredOnOwnServer NoneOutlives
PROPERTY SessionEnds
CHECK_DEADLOCK FALSE
