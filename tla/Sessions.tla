------------------------------ MODULE Sessions ------------------------------
(***************************************************************************)
(* Everything that drives the one tunnel of a host: the daemon, the        *)
(* foreground connect, and the operator's disconnect and recover, which    *)
(* take no lock.                                                           *)
(***************************************************************************)
EXTENDS Daemon, Foreground

sessionVars == <<shared, daemonVars, fgVars>>

SessionInit == HostInit /\ DaemonInit /\ FgInit

SessionNext ==
  \/ DaemonNext /\ UNCHANGED fgVars
  \/ FgNext /\ UNCHANGED daemonVars
  \/ HostStep /\ UNCHANGED <<daemonVars, fgVars>>

SessionSpec == SessionInit /\ [][SessionNext]_sessionVars

-----------------------------------------------------------------------------
(* A tunnel belongs to the process that holds the mutation lock: no failed *)
(* reconnect, kill, or stop of the one ever leaves a tunnel up while the   *)
(* other may start its own.                                                *)
TunnelUnderLock == \A p \in Procs : tun[p] # None => lock = p

(* A tunnel without its guard or its rules is one that an operator's       *)
(* disconnect or recover swept after its owner set out to connect.  No     *)
(* daemon, no connect, and no cleanup that is over by then leaves a bare   *)
(* tunnel: not the failed Up or the teardown of the other process, not a   *)
(* teardown that failed, not the death of a process.                       *)
NoNakedTunnel == \A p \in Procs : tun[p] # None => (guard /\ rules = "all") \/ swept

(* However daemon and connect alternated, reconnected, failed over and     *)
(* were stopped: when the last of them has let go of the lock, none was    *)
(* killed and no operator interfered, there is no tunnel; a guard is left  *)
(* to drop the host's IPv6 only if the last teardown met an error; rules   *)
(* only after a half-failed Up or such an error; and if what is recorded   *)
(* still claims a VPN, a teardown has failed (connect returns before       *)
(* SetDesired then).  Unless a command failed, no teardown met an error.   *)
CleanExit ==
  lock = "free" /\ mishap # "outside" =>
    /\ \A p \in Procs : tun[p] = None
    /\ guard => mishap = "teardown"
    /\ rules # "none" => mishap # "none" \/ "partial" \in Faults
    /\ store.desired = "up" => mishap # "none"
    /\ mishap # "none" => "down" \in Faults

-----------------------------------------------------------------------------
(* The tunnels there are.                                                  *)
Standing == {[owner |-> p, zone |-> tun[p]] : p \in {q \in Procs : tun[q] # None}}

ST == INSTANCE SingleTunnel WITH
        holder <- lock, tunnels <- Standing, covered <- (guard /\ rules = "all")

(* Every step of daemon, connect, disconnect and recover is one of the     *)
(* steps a host with a single tunnel may take: none swaps the zone or the  *)
(* owner of a tunnel that stands, or hands the lock on with it; and only a *)
(* sweep of disconnect or recover strips it.                               *)
ImplementsSingleTunnel == ST!Spec

=============================================================================
