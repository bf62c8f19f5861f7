CONSTANTS
  N = 1
  MaxNotices = 0
  MaxProgress = 0
  MaxOutputs = 0

SPECIFICATION FairSpec
CHECK_DEADLOCK FALSE

PROPERTY LossFinishes
