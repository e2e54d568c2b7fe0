SPECIFICATION Spec
CONSTANTS
  HwMax = 5000
  Limits = {2000, 5000}
  MaxSessions = 2
  MaxCalls = 4
  MaxFaults = 1
INVARIANTS ForcedMeansSession FloorFollowsMode LimitRestored SessionInForce
