CONSTANTS
  Item = {x1, x2}
  NoItem = NoItem
  Capacity = 1
  Producers = {p1, p2}
  Consumers = {w1, w2}
  Stoppers = {owner}
  SubmitOps = {"enqueue", "enqueue_for", "enqueue_overwrite", "try_enqueue"}
SPECIFICATION FairSpec
INVARIANTS GracefulStopDrains EachTaskInOnePlace
PROPERTY PoolProgresses
CHECK_DEADLOCK FALSE
