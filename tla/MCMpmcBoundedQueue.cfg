CONSTANTS
  MaxItems = 3
  NoItem = NoItem
  Capacity = 2
  Producers = {p1, p2}
  Consumers = {c1, c2}
SPECIFICATION FairSpec
INVARIANT NoDataRace
PROPERTIES ImplementsClaimQueue OperationsReturn
CHECK_DEADLOCK FALSE
