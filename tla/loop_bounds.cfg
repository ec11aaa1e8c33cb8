SPECIFICATION Spec
CONSTANTS
  cpu = cpu  vrm = vrm
  None = none  Firmware = fw
  Sensors <- MCSensors
  Policies <- SteepAndFixed
  Readings <- Four
  UserDuties <- AnyHand
  SensorTimeout = 8
  Rewrite = 3
  Verify = 15
  Outcomes = {"ok", "refused", "busy"}
  Disturbances = {"drift", "unload"}
INVARIANTS TypeOK RegulationBound BlindBound
