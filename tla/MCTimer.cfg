SPECIFICATION Spec
CONSTANTS
  Tickers = {t1, t2, t3}
  NoThread = NoThread
  Intervals = {0, 1, 2}
  LongWait = 1
  MaxTime = 4
SYMMETRY Symmetry
CHECK_DEADLOCK FALSE
INVARIANTS
  TypeOK
  OneTicker
  KeepsTicking
PROPERTIES
  TicksSpaced
