----------------------------- MODULE FailClosed -----------------------------
(***************************************************************************)
(* What core/connect promises about the order of its layers, without any   *)
(* of the commands that realise it: the tunnel is created only under an    *)
(* armed guard, traffic is offered only through an armed tunnel, and the   *)
(* guard is removed only once the tunnel is gone.  A crash takes the       *)
(* tunnel with it and leaves the guard armed.                              *)
(***************************************************************************)
VARIABLES armed, tunnel, online

fcVars == <<armed, tunnel, online>>

Init == ~armed /\ ~tunnel /\ ~online

Arm == armed' = TRUE /\ UNCHANGED <<tunnel, online>>

Disarm == ~tunnel /\ armed' = FALSE /\ UNCHANGED <<tunnel, online>>

CreateTunnel == armed /\ ~tunnel /\ tunnel' = TRUE /\ UNCHANGED <<armed, online>>

GoOnline == armed /\ tunnel /\ online' = TRUE /\ UNCHANGED <<armed, tunnel>>

GoOffline == online' = FALSE /\ UNCHANGED <<armed, tunnel>>

DestroyTunnel == ~online /\ tunnel' = FALSE /\ UNCHANGED <<armed, online>>

Crash == tunnel' = FALSE /\ online' = FALSE /\ UNCHANGED armed

Next == \/ Arm \/ Disarm \/ CreateTunnel \/ GoOnline
        \/ GoOffline \/ DestroyTunnel \/ Crash

Spec == Init /\ [][Next]_fcVars

=============================================================================
