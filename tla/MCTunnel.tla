------------------------------ MODULE MCTunnel ------------------------------
(***************************************************************************)
(* Tunnel on small instances.                                              *)
(***************************************************************************)
EXTENDS Tunnel

(* Full tunnel and v4-only; every backend; with and without a pinned       *)
(* uplink; two profiles with different marks.                              *)
MCConfigs ==
  {[mark |-> m, full |-> full, pin |-> pin, dns |-> dns] :
     m \in Marks, full \in {{"v4"}, Families}, pin \in BOOLEAN,
     dns \in {"off", "resolvectl", "resolvconf", "absent"}}

(* One mark and the two dns extremes, for runs with renames or timeouts.   *)
MCFewConfigs ==
  {[mark |-> m, full |-> Families, pin |-> pin, dns |-> dns] :
     m \in Marks, pin \in BOOLEAN, dns \in {"resolvectl", "resolvconf"}}
=============================================================================
