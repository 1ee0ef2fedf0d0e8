CONSTANTS
  Item = {x1, x2, x3, x4}
  NoItem = NoItem
  Capacity = 2
  Producers = {p1, p2}
  Consumers = {c1, c2}
  Stoppers = {s1}
SPECIFICATION QueueSpec
INVARIANTS WakeupsAreAnnounced StopWakesEveryone
PROPERTY ImplementsFifo
SYMMETRY ThreadSymmetry
CHECK_DEADLOCK FALSE
