SPECIFICATION Spec
CONSTANTS
  cpu = cpu  vrm = vrm
  None = none
  Sensors <- MCSensors
  Policies <- ThreePolicies
  Readings <- Readable
  SensorTimeout = 3
INVARIANTS TypeOK SameDuty
