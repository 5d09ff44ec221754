SPECIFICATION Spec
CONSTANTS
  Intended = "vpnaw0"
  RealNames = {"vpnaw0"}
  Marks = {1}
  Configs <- MCConfigs
  Results = {"ok", "fail"}
INVARIANTS TypeOK GuardedTunnel Complete CleanDown FailedUpIsOff
PROPERTIES ImplementsFailClosed
