SPECIFICATION Spec
CONSTANTS
  PollInterval = 2
  ExtrapInterval = 1
  BmsInterval = 3
  FreshFor = 1
  Stale = 1
  MaxRequest = 1
  NearZero <- MCNearZero
  Flows <- MCFlows
  FirstSoc = 5040
  Horizon = 6
  MaxChanges = 1
  Troubles = {"poll", "bms", "drop", "session"}
  MaxTroubles = 2
INVARIANTS RoundsToReported FeedinCountedOnce PollOnCadence BadgeMeansFresh
CHECK_DEADLOCK FALSE
