SPECIFICATION Spec
CONSTANTS
  Paths <- MCPaths
  Dirs <- MCDirs
  Top = ""
  Parent <- MCParent
  Twice <- MCTwice
  Prefixed <- MCPrefixed
  Contents = {1, 2}
VIEW View
INVARIANTS
  TypeOK
  CacheIsReal
  CacheIsFresh
  WatchersReached
