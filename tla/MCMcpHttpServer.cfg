CONSTANTS
  Req = {1, 2}
  Conn = {c1}
  Threads = 2
  Ids = {1}
  None = None
  QueueLimit = 1
  MaxProgress = 1
  MaxBeats = 1
SPECIFICATION FairSpec
INVARIANTS AnswersAreWellFormed WriterLeavesNothing
 
CHECK_DEADLOCK FALSE
