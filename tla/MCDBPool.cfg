CONSTANTS
  Conn = {a1, a2, a3, a4, a5}
  NoConn = NoConn
  Borrowers = {b1, b2}
  Creators = {k1}
  Maintainer = maintainer
  MaxSize = 2
  MinIdle = 1
SPECIFICATION Spec
INVARIANTS OneOwner CountsAreExact SleepersAreNotified
SYMMETRY Symmetry
CHECK_DEADLOCK FALSE
