SPECIFICATION Spec
CONSTANTS
  cpu = cpu  vrm = vrm
  None = none  Firmware = fw
  Sensors <- MCSensors
  Policies <- Curves
  Readings <- Rising
  UserDuties <- NoDuties
  SensorTimeout = 3
  Rewrite = 3
  Verify = 5
  Outcomes = {"ok", "refused", "busy"}
  Disturbances = {}
INVARIANTS CurveFloor
PROPERTIES DownGently NoHunting
