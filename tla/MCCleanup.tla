----------------------------- MODULE MCCleanup -----------------------------
(***************************************************************************)
(* HostCleanup on small instances: v4-only and full tunnels, both kinds of *)
(* resolver and none.  No configuration pins an uplink: recover does not   *)
(* promise anything about that route.                                      *)
(***************************************************************************)
EXTENDS HostCleanup

MCCleanupConfigs ==
  {[mark |-> m, full |-> full, pin |-> FALSE, dns |-> dns] :
     m \in Marks, full \in {{"v4"}, Families},
     dns \in {"off", "resolvectl", "resolvconf", "absent"}}
=============================================================================
