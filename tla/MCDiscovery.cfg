SPECIFICATION FairSpec
CONSTANTS
  Fd = {TRUE, FALSE}
  Yields = {TRUE, FALSE}
  Collector = {TRUE, FALSE}
  Batch = {1, 3}
  ToldFirst = {"watch", "client"}
  Asked = {"full", "short"}
  Fails = {{}, {"announce"}, {"announce", "remove"}}
  MaxGen = 3
CHECK_DEADLOCK FALSE
INVARIANTS
  TypeOK
  BrowserFollows
  RemovalPending
PROPERTIES
  EventuallyKnown
