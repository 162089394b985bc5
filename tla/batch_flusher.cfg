SPECIFICATION FlusherFairSpec
CONSTANTS
  NumFills = 3
  MaxFills = 2
  MaxTries = 3
INVARIANTS NothingLost RetriesAreOlder
PROPERTIES DeliversFills 
CHECK_DEADLOCK FALSE
