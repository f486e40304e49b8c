SPECIFICATION Spec
CONSTANTS
  Nodes = {n1, n2}
  Targets = {n2}
  MaxEntries = 2
  Room <- MCRoom
INVARIANTS
  TypeOK
  OneInlet
  LinksHold
  RemovedIsSilent
