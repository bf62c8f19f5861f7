CONSTANTS
  s1 = s1
  Sessions = {s1}
  MaxSwitches = 2
  MaxMishaps = 1

CHECK_DEADLOCK FALSE
SPECIFICATION FairSpec

INVARIANTS
  TypeOK
  OffIsClean

PROPERTY SwitchEnds
