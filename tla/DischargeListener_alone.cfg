SPECIFICATION FairSpec
CONSTANTS
  Sessions = {s1}
  Paced = {s1}
  Limited = {s1}
  None = None
  Calls = {c1}
  Powers = {1, 2, 4}
  MaxPower = 4
  MinPowerChange = 2
  MaxSocMissing = 3
  FloorReadings = 2
  MaxAdapterErrors = 3
  BreakerTicks = 5
  Faults = {"refused"}
  CloudMode = TRUE
INVARIANT SuspensionStopsDischarge
PROPERTIES ListenerCleansUp OverrideEventuallyRemoved FeedinStopEnds
