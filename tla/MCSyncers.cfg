SPECIFICATION Spec
CONSTANTS
  Perpetuals = {"first", "second", "third", "fourth"}
  Unparseable = {"first"}
  PageSize = 2
  Pools = {"pool"}
  Callers = {"matcher"}
  MaxState = 2
  MaxRestarts = 1
  BlockOf <- MCBlockOf
  PoolOf <- MCPoolOf
INVARIANTS
  NothingSkipped
  SeesSettlement
PROPERTIES
  EventuallyListed
  CatchesUp
CHECK_DEADLOCK FALSE
