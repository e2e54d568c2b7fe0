SPECIFICATION FairSpec
CONSTANTS
  Sessions = {s1}
  None = None
  Calls = {c1}
  Powers = {1, 2, 4}
  MaxPower = 4
  MinPowerChange = 2
  MaxSocMissing = 3
  MaxAdapterErrors = 3
  BreakerTicks = 5
  Faults = {"refused"}
  CloudMode = TRUE
PROPERTIES ListenerCleansUp OverrideEventuallyRemoved
