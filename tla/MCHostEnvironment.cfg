CONSTANTS
  h1 = h1
  h2 = h2
  start = start
  left = left
  right = right
  stray = stray
  None = None
  Employer = Employer
  Hosts <- MCHosts
  Primary = h1
  Tasks <- MCTasks
  Main = start
  Kids <- MCKids
  Movable = {left, right}
  Unknown = {stray}
  Enders = {right}
  Workers = 1
  MaxCreated = 3
  Fragile = {h2}

CHECK_DEADLOCK FALSE
SPECIFICATION FairSpec

INVARIANTS
  TypeOK
  PrimaryReady
  OnePlace

PROPERTIES
  ImplementsComputation
  WorkDone
  AllStop
