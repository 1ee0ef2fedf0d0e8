CONSTANTS
  Users = {u1}
  Message = {m1, m2}
  MsgLen = 2
  HighWaterMark = 3
  MaxForceClose = 1
  HoldRef = TRUE
SPECIFICATION FairSpec
INVARIANTS OutputIsExact UpThenDownOnce ChannelNotDangling
PROPERTY ClosingCompletes
CHECK_DEADLOCK FALSE
