SPECIFICATION Spec
CONSTANTS
  CapacityWh = 2000
  MaxPower = 3000
  Headroom = 10
  MinSoc = 10
  Window = 15
  Adjust = 5
  MinPowerChange = 500
  Nets <- MCNets
  MaxChanges = 2
  Targets = {80}
  ChargeSocs = {60, 75}
  DischargeSocs = {12, 20}
  FeedinLimits = {0, 9000}
  ExportLimits = {0, 2000}
  Profiles <- MCProfiles
  TaperSoc = 70
  MayDie = TRUE
INVARIANT ForceChargeCharges
CHECK_DEADLOCK FALSE
