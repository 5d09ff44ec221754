SPECIFICATION Spec
CONSTANTS
  Intended = "vpnaw0"
  RealNames = {"vpnaw0", "utun7"}
  Marks = {1, 2}
  Configs <- MCFewConfigs
  Results = {"ok", "fail", "late"}
INVARIANTS Complete CleanDown
