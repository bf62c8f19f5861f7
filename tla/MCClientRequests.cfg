CONSTANTS
  status1 = status1
  status2 = status2
  list = list
  ends = ends
  home = home
  other = other
  logger = logger
  host = host
  Calls <- MCCalls
  Kind <- MCKind
  Lister <- MCLister
  Target <- MCTarget
  Service <- MCService
  AnyService = "any"
  Nodes <- MCNodes
  Home = home
  Clients <- MCClients

CHECK_DEADLOCK FALSE
SPECIFICATION FairSpec

INVARIANTS
  TypeOK
  CallbacksBalanced
  AnswerIsOwn

PROPERTY CallReturns
