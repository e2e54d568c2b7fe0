SPECIFICATION FairSpec
CONSTANTS
  DayLen = 3
  LastMark = 3
  Windows <- MCWindows
  MaxAttempts = 2
  CallsInSetup = FALSE
  MaxCalls = 2
  MaxRestarts = 2
INVARIANTS
  StoreAgrees
  NoResurrection
PROPERTIES
  RestartResumes
  ReplaySettles
