CONSTANTS
  w1 = w1
  w2 = w2
  t1 = t1
  t2 = t2
  t3 = t3
  Workers <- MCWorkers
  Tasks <- MCTasks
  Movable <- MCMovable
  Urgent <- MCUrgent
  Accounted <- MCAccounted
  Poison = Poison
  NoTask = NoTask

SPECIFICATION FairSpec

INVARIANTS
  TypeOK
  GetFirstNotNull
  TalliesExact
  StatusIsTrue

PROPERTIES
  ImplementsLifecycle
  ShutdownCompletes
  QueuedTaskLeaves
