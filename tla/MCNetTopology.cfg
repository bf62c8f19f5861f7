CONSTANTS
  n1 = n1
  n2 = n2
  n3 = n3
  n4 = n4
  None = None
  Nodes <- ThreeNodes
  Founders <- TwoFounders
  MaxSessions = 4
  MaxTime = 2
  MaxEvents = 1

CHECK_DEADLOCK FALSE
SPECIFICATION StartedSpec
CONSTRAINT OneChange

INVARIANTS
  NetTypeOK
  SocketsPaired
  Converged
  ExclusionObeyed
