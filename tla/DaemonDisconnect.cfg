SPECIFICATION Spec
CONSTANTS
  Zones = {"amsterdam", "oslo"}
  PingOnly = {}
  Faults = {"outage"}
  StartZone = "amsterdam"
  Writes = 1

PROPERTIES DisconnectSticks
