SPECIFICATION Spec
CONSTANTS
  CapacityWh = 2000
  MaxPower = 3000
  Headroom = 10
  MinSoc = 10
  Window = 15
  Adjust = 5
  MinPowerChange = 500
  Nets <- MCNets
  MaxChanges = 2
  Targets = {80}
  ChargeSocs = {60, 70}
  DischargeSocs = {10, 12, 20}
  FeedinLimits = {0, 9000, 50000}
  ExportLimits = {0, 2000}
  Profiles <- MCProfiles
  TaperSoc = 70
  MayDie = TRUE
INVARIANTS FloorWithinBand HorizonProtects ChargeMeetsTarget
PROPERTIES SensorsAgree
CHECK_DEADLOCK FALSE
