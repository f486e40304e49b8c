SPECIFICATION Spec
CONSTANTS
  Fds = {a, b}
  Masks = {in}
  NoFd = NoFd
  Reserve = 2
  MaxSize = 4
INVARIANTS
  TypeOK
  TablesInverse
  FreeIndexExists
PROPERTIES
  EventsExact
  ImplementsMap
SYMMETRY Symmetry
CONSTRAINT Few
