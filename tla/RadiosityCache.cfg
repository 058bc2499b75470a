\* Two threads, with and without +HR.
SPECIFICATION Spec
CONSTANTS
  Threads = {t1, t2}
  NoThread = NoThread
  Renders <- MCRenders
  TileIds = 2
  UnitSize = 2
  MaxSize = 6
INVARIANTS
  Reproducible
  CacheInv
\* A render ends.
CHECK_DEADLOCK FALSE
