SPECIFICATION Spec
CONSTANTS
  Zones = {"amsterdam", "oslo"}
  PingOnly = {"amsterdam"}
  Faults = {"outage"}
  StartZone = "amsterdam"
  Writes = 0

PROPERTIES FailsOver
