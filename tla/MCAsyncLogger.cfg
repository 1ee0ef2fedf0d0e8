CONSTANTS
  Threads = {t1, t2}
  Workers = {w1}
  Manager = manager
  None = None
  BatchSize = 2
  QueueSize = 1
  MaxEvents = 2
  MaxFlushes = 1
  ReleaseEarly = FALSE
SPECIFICATION FairSpec
INVARIANTS ThreadOrder FlushCovers NothingLost
PROPERTIES  DestroyedIsWritten
CHECK_DEADLOCK FALSE
