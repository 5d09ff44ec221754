SPECIFICATION CleanupSpec
CONSTANTS
  Intended = "vpnaw0"
  RealNames = {"vpnaw0"}
  Marks = {1}
  DefaultMark = 1
  Configs <- MCCleanupConfigs
  Results = {"ok"}
INVARIANTS RecoverCleans TeardownComplete
