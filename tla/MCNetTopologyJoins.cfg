CONSTANTS
  n1 = n1
  n2 = n2
  n3 = n3
  n4 = n4
  None = None
  Nodes <- FourNodes
  Founders <- TwoFounders
  MaxSessions = 1
  MaxTime = 3
  MaxEvents = 0

CHECK_DEADLOCK FALSE
SPECIFICATION NetSpec
CONSTRAINT OneChange

INVARIANT JoinSynchronised
