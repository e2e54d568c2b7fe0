SPECIFICATION Spec
CONSTANTS
  Sessions = {s1, s2}
  None = None
  Calls = {c1, c2}
  Powers = {3}
  MaxPower = 3
  MinPowerChange = 2
  MaxSocMissing = 2
  MaxAdapterErrors = 2
  BreakerTicks = 2
  Faults = {"refused", "lostReply"}
  CloudMode = TRUE
SYMMETRY Interchangeable
INVARIANTS TypeOK TimersCoverSession IssueAgrees BreakerAgrees StoredAgrees
PROPERTY EndsForAReason
