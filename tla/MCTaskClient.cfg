CONSTANTS
  N = 2
  MaxNotices = 1
  MaxProgress = 1
  MaxOutputs = 1

SPECIFICATION FairSpec
CHECK_DEADLOCK FALSE

INVARIANTS
  TypeOK
  MainNeedsAllKnown
  OnePrimary
  TableBeforeMain
  ResultStands

 
