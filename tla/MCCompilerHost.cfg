CONSTANTS
  rent = rent
  c1 = c1
  N = 2
  Clients = {rent, c1}
  Rent = rent
  None = None
  MaxStops = 1

CHECK_DEADLOCK FALSE
SPECIFICATION Spec
CONSTRAINT OneForRent

INVARIANTS
  TypeOK
  AnswerIsOwn
  WatchdogWillEnd
  StopIsObeyed
