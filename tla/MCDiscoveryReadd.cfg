SPECIFICATION Spec
CONSTANTS
  Fd = {FALSE}
  Yields = {FALSE}
  Collector = {FALSE}
  Batch = {3}
  ToldFirst = {"client"}
  Asked = {"full"}
  Fails = {{}}
  MaxGen = 2
CHECK_DEADLOCK FALSE
INVARIANTS
  KnownAtRest
