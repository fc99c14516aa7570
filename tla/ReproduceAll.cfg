\* One undisturbed run of all the steps.
CONSTANTS
  Froms = {1}
  Disturbed = FALSE
  MaxInvocations = 1
SPECIFICATION PipelineFairSpec
PROPERTY Reproduces
CHECK_DEADLOCK FALSE
