SPECIFICATION Spec
CONSTANTS
  Sessions = {s1, s2}
  Paced = {s1}
  Limited = {s1, s2}
  None = None
  Calls = {c1, c2}
  Powers = {3}
  MaxPower = 3
  MinPowerChange = 2
  MaxSocMissing = 2
  FloorReadings = 2
  MaxAdapterErrors = 2
  BreakerTicks = 2
  Faults = {"refused", "lostReply"}
  CloudMode = TRUE
SYMMETRY SameCalls
INVARIANTS TypeOK FloorCounted
PROPERTY EndsForAReason
