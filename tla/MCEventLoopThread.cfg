CONSTANTS
  Functor = {f1, f2, f3}
  Callers = {owner, c1}
  Owner = owner
  EarlyQueue = FALSE
  PromptDestroy = FALSE
SPECIFICATION ThreadFairSpec
INVARIANTS WakeupNotLost FunctorsInOrder
PROPERTY LoopResponds
CHECK_DEADLOCK FALSE
