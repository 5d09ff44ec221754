SPECIFICATION Spec
CONSTANTS
  Intended = "vpnaw0"
  RealNames = {"vpnaw0"}
  Marks = {1}
  Configs <- MCFewConfigs
  Results = {"ok", "fail"}
INVARIANTS FailedUpReverts
