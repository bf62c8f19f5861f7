CONSTANTS
  N = 2
  MaxNotices = 0
  MaxProgress = 0
  MaxOutputs = 0

SPECIFICATION Spec
CHECK_DEADLOCK FALSE

INVARIANT MainOnce
