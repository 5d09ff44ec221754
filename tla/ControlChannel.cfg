SPECIFICATION Spec
CONSTANTS
  Participants = {"agent", "peer", "app"}
  Edges <- MCEdges
  Scopes = {"connect", "control"}
  Grants <- MCGrants
  Given <- MCGiven
  Callers = {"c1"}
  MaxTime = 1
  MaxOps = 1
INVARIANTS ChannelGated
