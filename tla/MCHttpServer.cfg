CONSTANTS
  SplitAnywhere = FALSE
  MaxLength = 2
  MaxAhead = 3
SPECIFICATION HttpSpec
INVARIANTS SlicesAreMarked PartsInOrder HeaderMeans 
CHECK_DEADLOCK FALSE
