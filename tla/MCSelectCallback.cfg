SPECIFICATION FairSpec
CONSTANTS
  Pool = 3
CHECK_DEADLOCK FALSE
INVARIANTS
  TypeOK
  FlagsFollowed
  OneGhost
PROPERTIES
  CallbackTriggered
