SPECIFICATION Spec
CONSTANTS
  Zones = {"amsterdam", "oslo"}
  PingOnly = {}
  Faults = {"outage", "crash", "down"}
  StartZone = "amsterdam"
  Writes = 2
INVARIANTS TypeOK
PROPERTIES SelfHeals SwitchApplied StopReleases
