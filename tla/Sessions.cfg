SPECIFICATION SessionSpec
CONSTANTS
  Zones = {"amsterdam", "oslo"}
  PingOnly = {"oslo"}
  Faults = {"up", "partial", "down", "crash", "operator"}
  StartZone = "--best"
  Writes = 1
INVARIANTS TunnelUnderLock NoNakedTunnel 
PROPERTIES ImplementsSingleTunnel
