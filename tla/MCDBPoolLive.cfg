CONSTANTS
  Conn = {a1, a2}
  NoConn = NoConn
  Borrowers = {b1}
  Creators = {k1}
  Maintainer = maintainer
  MaxSize = 1
  MinIdle = 1
SPECIFICATION FairSpec
PROPERTY PoolResponds
CHECK_DEADLOCK FALSE
