SPECIFICATION FairSpec
CONSTANTS
  Starters <- MCStarters
  MaxStreams = 2
  MaxTries = 2
  MaxOwed = 1
  MaxFaults = 2
  MaxRevokes = 1
INVARIANTS
  BadgeHonest
PROPERTIES
  StoppedStaysDown
  ParkedStreamCloses
  PacedStreamOpens
