\* Slot: lanes of 32 slots, two of them; 5 fold steps; 4 x 8 baby and giant
\* steps.  CNP: three lanes of two features; the largest logit fills the
\* modulus exactly.
CONSTANTS
  Lane = 32
  Slots = 64
  NSteps = 5
  STEPS <- MCSteps
  BabyTable = 4
  GiantTable = 8
  Splits <- MCSplits
  Word = 64
  kLane = 2
  kMaxLanes = 3
  Q0 = 23
  Q1 = 7
  Scale = 4
  ScaledLimit = 1000
  Features <- MCFeatures
  Weights <- MCWeights
  Biases <- MCBiases
  MaskSamples = {0, 13, 45, 50}
SPECIFICATION CircuitsSpec
INVARIANTS TypeOK ReducesTheLane BsgsNeverAborts
INVARIANTS CodecTypeOK LaneOutputs MaskHides
CHECK_DEADLOCK FALSE
