SPECIFICATION FairSpec
CONSTANTS
  MaxEvents = 5
CHECK_DEADLOCK FALSE
INVARIANTS
  TypeOK
  StemKnowsPid
PROPERTIES
  EventuallyOnline
  RemovedEnds
