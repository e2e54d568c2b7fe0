SPECIFICATION FairSpec
CONSTANTS
  Slots <- MCSlots
  Day = 3
  Windows <- MCWindows
  AppGroups <- MCAppGroups
  AppRaces = FALSE
  MaxCalls = 2
  MaxActs = 4
  MaxEdits = 1
INVARIANTS
  TypeOK
PROPERTIES
  ImplementsOverrides
CHECK_DEADLOCK FALSE
