--------------------------- MODULE MCControlPlane ---------------------------
(***************************************************************************)
(* ControlPlane with an agent and two targets, and grants of one scope     *)
(* each that expire at time 1 or never.  The broker is given stores with   *)
(* everything in place, and others that lack a grant or an endpoint.       *)
(***************************************************************************)
EXTENDS ControlPlane

MCEdges == {<<"agent", "peer">>, <<"agent", "app">>}

MCGrants == {[scopes |-> {"connect"}, expires |-> t] : t \in {0, 1}}

MCGiven ==
  {[present |-> [p \in Participants |-> IF p = "app" THEN how ELSE "reachable"],
    trust   |-> [p \in Participants |-> IF p = "agent" THEN "untrusted" ELSE "paired"],
    grants  |-> [e \in Edges |-> given]] :
     how \in {"reachable", "mute"}, given \in {{}, MCGrants}}
=============================================================================
