------------------------------- MODULE Daemon -------------------------------
(***************************************************************************)
(* "mazzy-vpn daemon", the self-healing loop behind mazzy-vpn@.service: it *)
(* keeps a zone connected, follows the intents an unprivileged TUI writes  *)
(* to desired.json, reconnects, and fails over to another zone.  systemd   *)
(* restarts it when it fails and stops it when told to.                    *)
(***************************************************************************)
EXTENDS HostState

CONSTANTS
  StartZone,  \* the %i of the unit: a zone, or "--best"
  Writes      \* how many intents the TUI writes: bounds the model

ASSUME DaemonAssumption ==
  /\ StartZone \in Zones \union {"--best"}
  /\ Writes \in Nat

reconnectLimit == 2
failoverLimit == 4

VARIABLES
  unit,    \* the operator wants the unit running
  dpc,     \* "stopped", "dial" before connect.Up, "verify" after it, "loop"
  path,    \* which of the three calls of connectZone is in progress, or None
  zone,    \* the zone the process is on, or None
  conn,    \* the zone the non-nil conn was opened for, or None
  fails,   \* consecutive failures, counted up to failoverLimit + 1
  intent,  \* desired.json
  writes   \* intents written so far

daemonVars == <<unit, dpc, path, zone, conn, fails, intent, writes>>

Intent == [desired : {"absent", "up", "down"}, zone : Zones \union {"--best", None}]

NoIntent == [desired |-> "absent", zone |-> None]

DaemonTypeOK ==
  /\ unit \in BOOLEAN
  /\ dpc \in {"stopped", "dial", "verify", "loop"}
  /\ path \in {None, "initial", "redial", "reconnect"}
  /\ zone \in Zones \union {None} /\ (dpc # "stopped" => zone # None)
  /\ conn \in Zones \union {None}
  /\ fails \in 0..(failoverLimit + 1)
  /\ intent \in Intent
  /\ writes \in 0..Writes

DaemonInit ==
  /\ unit = TRUE
  /\ dpc = "stopped"
  /\ path = None
  /\ zone = None
  /\ conn = None
  /\ fails = 0
  /\ intent = NoIntent
  /\ writes = 0

Count(n) == IF n > failoverLimit THEN n ELSE n + 1

-----------------------------------------------------------------------------
(* Mutant: the lock is not looked at.                                      *)
DaemonStartUnlocked ==
  /\ unit /\ dpc = "stopped"
  /\ zone' \in (IF StartZone = "--best" THEN Picks \ {None} ELSE {StartZone})
  /\ lock' = "daemon"
  /\ dpc' = "dial"
  /\ path' = "initial"
  /\ conn' = None
  /\ fails' = 0
  /\ SetsOut
  /\ UNCHANGED <<tun, guard, rules, store, opVars, live, mishap, unit, intent, writes>>

(* systemd starts the unit; without the lock, or with no zone to go to,    *)
(* the daemon exits 1 and is tried again.                                  *)
DaemonStart ==
  /\ unit /\ dpc = "stopped"
  /\ lock = "free"
  /\ zone' \in (IF StartZone = "--best" THEN Picks \ {None} ELSE {StartZone})
  /\ lock' = "daemon"
  /\ dpc' = "dial"
  /\ path' = "initial"
  /\ conn' = None
  /\ fails' = 0
  /\ SetsOut
  /\ UNCHANGED <<tun, guard, rules, store, opVars, live, mishap, unit, intent, writes>>

(* connect.Up of connectZone.                                              *)
DaemonDial ==
  /\ dpc = "dial"
  /\ UpSucceeds("daemon", zone)
  /\ dpc' = "verify"
  /\ UNCHANGED <<lock, store, opVars, live, swept, mishap, unit, path, zone, conn, fails, intent, writes>>

(* It failed: conn is nil.  Only the redial counts this as a failure, and  *)
(* moves to the best live zone once the limit is reached.                  *)
DaemonDialFails ==
  /\ dpc = "dial"
  /\ UpFails
  /\ dpc' = "loop"
  /\ path' = None
  /\ conn' = None
  /\ \/ /\ path # "redial"
        /\ UNCHANGED <<zone, fails>>
     \/ /\ path = "redial"
        /\ Count(fails) < failoverLimit
        /\ fails' = Count(fails)
        /\ UNCHANGED zone
     \/ /\ path = "redial"
        /\ Count(fails) >= failoverLimit
        /\ \E best \in Picks :
             IF best \notin {zone, None}
             THEN zone' = best /\ fails' = 0
             ELSE UNCHANGED zone /\ fails' = Count(fails)
  /\ UNCHANGED <<lock, store, opVars, live, swept, unit, intent, writes>>

(* WaitProtected; the state is written only for a confirmed egress, the    *)
(* connection is kept in any case.                                         *)
DaemonVerify ==
  /\ dpc = "verify"
  /\ dpc' = "loop"
  /\ path' = None
  /\ conn' = zone
  /\ IF Protected("daemon") THEN Persist(zone) ELSE UNCHANGED store
  /\ fails' = IF path = "redial" THEN 0 ELSE fails
  /\ UNCHANGED <<lock, tun, guard, rules, opVars, live, swept, mishap, unit, zone, intent, writes>>

-----------------------------------------------------------------------------
(* One tick of the loop takes one of the branches below.                   *)
WantsDown == intent.desired = "down"

(* Mutant: the test for "--best" is missing.                               *)
WantsAnySwitch == intent.desired = "up" /\ intent.zone # zone

WantsSwitch == intent.desired = "up" /\ intent.zone \in Zones \ {zone}

Redial ==
  /\ SetsOut
  /\ dpc' = "dial"
  /\ path' = "redial"
  /\ conn' = None

TickDown ==
  /\ dpc = "loop" /\ WantsDown /\ conn # None
  /\ DownAnyway("daemon")
  /\ conn' = None
  /\ UNCHANGED <<lock, store, opVars, live, swept, unit, dpc, path, zone, fails, intent, writes>>

(* Mutant: the new zone is dialled only if the old one was connected.      *)
TickSwitchConnected ==
  /\ dpc = "loop" /\ WantsSwitch
  /\ IF conn # None THEN DownAnyway("daemon") ELSE UNCHANGED <<tun, guard, rules, mishap>>
  /\ zone' = IF conn # None THEN intent.zone ELSE zone
  /\ fails' = 0
  /\ Redial
  /\ UNCHANGED <<lock, store, opVars, live, unit, intent, writes>>

TickSwitch ==
  /\ dpc = "loop" /\ WantsSwitch
  /\ IF conn # None THEN DownAnyway("daemon") ELSE UNCHANGED <<tun, guard, rules, mishap>>
  /\ zone' = intent.zone
  /\ fails' = 0
  /\ Redial
  /\ UNCHANGED <<lock, store, opVars, live, unit, intent, writes>>

TickRedial ==
  /\ dpc = "loop" /\ ~WantsSwitch /\ conn = None
  /\ Redial
  /\ UNCHANGED <<lock, tun, guard, rules, store, opVars, live, mishap, unit, zone, fails, intent, writes>>

TickProtected ==
  /\ dpc = "loop" /\ ~WantsSwitch /\ ~WantsDown /\ conn # None
  /\ Protected("daemon")
  /\ fails' = 0
  /\ UNCHANGED <<shared, unit, dpc, path, zone, conn, intent, writes>>

(* Mutant: failures are not counted.                                       *)
TickUnprotectedUncounted ==
  /\ dpc = "loop" /\ ~WantsSwitch /\ ~WantsDown /\ conn # None
  /\ ~Protected("daemon")
  /\ Count(fails) < reconnectLimit
  /\ UNCHANGED <<shared, daemonVars>>

TickUnprotected ==
  /\ dpc = "loop" /\ ~WantsSwitch /\ ~WantsDown /\ conn # None
  /\ ~Protected("daemon")
  /\ Count(fails) < reconnectLimit
  /\ fails' = Count(fails)
  /\ UNCHANGED <<shared, unit, dpc, path, zone, conn, intent, writes>>

(* Down, and after enough failures the best live zone instead of this one. *)
TickReconnect ==
  /\ dpc = "loop" /\ ~WantsSwitch /\ ~WantsDown /\ conn # None
  /\ ~Protected("daemon")
  /\ Count(fails) >= reconnectLimit
  /\ DownAnyway("daemon")
  /\ dpc' = "dial"
  /\ path' = "reconnect"
  /\ \/ /\ Count(fails) < failoverLimit
        /\ fails' = Count(fails)
        /\ UNCHANGED zone
     \/ /\ Count(fails) >= failoverLimit
        /\ \E best \in Picks :
             IF best \notin {zone, None}
             THEN zone' = best /\ fails' = 0
             ELSE UNCHANGED zone /\ fails' = Count(fails)
  /\ SetsOut
  /\ UNCHANGED <<lock, store, opVars, live, unit, conn, intent, writes>>

Tick ==
  \/ TickDown \/ TickSwitch \/ TickRedial
  \/ TickProtected \/ TickUnprotected \/ TickReconnect

-----------------------------------------------------------------------------
(* What the process had in memory is gone.                                 *)
Exit ==
  /\ dpc' = "stopped"
  /\ path' = None
  /\ zone' = None
  /\ conn' = None
  /\ fails' = 0
  /\ UNCHANGED <<intent, writes>>

UnitStart ==
  /\ ~unit
  /\ unit' = TRUE
  /\ UNCHANGED <<shared, dpc, path, zone, conn, fails, intent, writes>>

UnitStop ==
  /\ unit
  /\ unit' = FALSE
  /\ UNCHANGED <<shared, dpc, path, zone, conn, fails, intent, writes>>

(* Mutant: a daemon between two connections does not exit.                 *)
DaemonStopsConnected ==
  /\ ~unit /\ dpc = "loop" /\ conn # None
  /\ DownAnyway("daemon")
  /\ store' = Lowered(store)
  /\ lock' = "free"
  /\ Exit
  /\ UNCHANGED <<opVars, live, swept, unit>>

(* SIGTERM of a stopping unit, taken between two ticks.                    *)
DaemonStops ==
  /\ ~unit /\ dpc = "loop"
  /\ IF conn # None THEN DownAnyway("daemon") ELSE UNCHANGED <<tun, guard, rules, mishap>>
  /\ store' = Lowered(store)
  /\ lock' = "free"
  /\ Exit
  /\ UNCHANGED <<opVars, live, swept, unit>>

(* SIGTERM before signal.Notify, or SIGKILL after TimeoutStopSec=20: a     *)
(* backoff (up to 30 s) and WaitProtected (20 s) do not look at signals.   *)
DaemonKilled ==
  /\ ~unit /\ dpc \in {"dial", "verify"}
  /\ Dies("daemon")
  /\ Exit
  /\ UNCHANGED unit

(* A panic, the OOM killer, a power cut: systemd starts it again.          *)
DaemonCrash ==
  /\ "crash" \in Faults
  /\ dpc # "stopped"
  /\ Dies("daemon")
  /\ Exit
  /\ UNCHANGED unit

(* writeDesired: connect a zone, connect the best one, disconnect.         *)
TUIWrites ==
  /\ writes < Writes
  /\ writes' = writes + 1
  /\ intent' \in {[desired |-> "up", zone |-> z] : z \in Zones \union {"--best"}}
                 \union {[desired |-> "down", zone |-> None]}
  /\ UNCHANGED <<shared, unit, dpc, path, zone, conn, fails>>

DaemonStep ==
  \/ DaemonStart \/ DaemonDial \/ DaemonDialFails \/ DaemonVerify \/ Tick
  \/ DaemonStops

DaemonNext ==
  \/ DaemonStep
  \/ UnitStart \/ UnitStop \/ DaemonKilled \/ DaemonCrash \/ TUIWrites

-----------------------------------------------------------------------------
vars == <<shared, daemonVars>>

Init == HostInit /\ DaemonInit

Next == DaemonNext \/ (HostStep /\ UNCHANGED daemonVars)

(* The daemon alone, under systemd.  The ticker and RestartSec keep it     *)
(* going; the select of the loop does not pass over a pending signal for   *)
(* ever.  The environment owes nothing.                                    *)
Spec ==
  /\ Init /\ [][Next]_vars
  /\ WF_vars(DaemonStep) /\ SF_vars(DaemonStops)

TypeOK == HostTypeOK /\ DaemonTypeOK

(* Rules of an earlier process are in the way of connect.Up.               *)
Blocked == dpc = "dial" /\ rules # "none"

(* desired.json does not ask for something the zones in up cannot give.    *)
Agrees(up) == ~WantsDown /\ (intent.desired = "up" => intent.zone \in up \union {"--best"})

(* The daemon is killed finitely often.                                    *)
CrashesEnd == <>[][~DaemonCrash]_vars

(* The daemon "runs the VPN persistently with self-healing": once the same *)
(* zones stay reachable, desired.json agrees with them and nothing kills   *)
(* the process any more, it ends up protected for good, however it got to  *)
(* that point, unless leftover policy rules keep connect.Up from           *)
(* succeeding.                                                             *)
SelfHeals ==
  \A up \in SUBSET Zones \ {{}} :
    CrashesEnd /\ <>[](unit /\ live = up /\ Agrees(up) /\ ~Blocked) => <>[]Protected("daemon")

(* An intent to be on a zone is applied again and again while it stands,   *)
(* even if that zone keeps failing and the daemon fails over in between,   *)
(* or is killed and started again.                                         *)
SwitchApplied ==
  \A z \in Zones :
    CrashesEnd /\ <>[](unit /\ intent.desired = "up" /\ intent.zone = z) => []<>(zone = z)

(* A stopped unit lets go of its tunnel and of the lock, in whatever phase *)
(* of connecting or reconnecting the stop found it.                        *)
StopReleases == ~unit ~> unit \/ (lock # "daemon" /\ tun["daemon"] = None)

(* ADR-0006:47: the TUI's disconnect writes desired=down, which the daemon *)
(* applies: while that is the intent, the tunnel goes down and stays down. *)
DisconnectSticks == <>[]WantsDown => <>[](tun["daemon"] = None)

(* daemon.go:26: "if a zone keeps failing" the daemon "fails over to the   *)
(* next best LIVE zone": it does not stay on one that carries no traffic   *)
(* while another does.                                                     *)
FailsOver ==
  \A up \in SUBSET Zones \ {{}} :
    <>[](unit /\ live = up /\ intent = NoIntent /\ ~Blocked) => []<>(zone \in live)

=============================================================================
