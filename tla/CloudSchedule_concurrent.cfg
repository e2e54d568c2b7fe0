SPECIFICATION FairSpec
CONSTANTS
  Slots <- MCSlots2
  Day = 2
  Windows <- MCWindow
  AppGroups <- MCLateGroups
  AppRaces = TRUE
  MaxCalls = 2
  MaxActs = 2
  MaxEdits = 1
INVARIANTS
  SendsValid
  OneSession
PROPERTIES
  CleanupEventually
CHECK_DEADLOCK FALSE
