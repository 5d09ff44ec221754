----------------------------- MODULE Foreground -----------------------------
(***************************************************************************)
(* "mazzy-vpn connect PROFILE.conf": connect one profile in the foreground *)
(* under the mutation lock, watch its egress, reconnect in place, and take *)
(* the connection down on SIGINT or SIGTERM.                               *)
(***************************************************************************)
EXTENDS HostState

failLimit == 3

VARIABLES
  fpc,     \* "off", in the calls "dial", "persist", "verify", "watch", "redial"
  profile, \* the profile to connect, or None
  auto,    \* --no-reconnect was not given
  open,    \* conn has layers: it was not torn down
  missed   \* consecutiveFail

fgVars == <<fpc, profile, auto, open, missed>>

FgInit ==
  /\ fpc = "off"
  /\ profile = None
  /\ auto = TRUE
  /\ open = FALSE
  /\ missed = 0

(* Mutant: the lock is not looked at.                                      *)
FgStartUnlocked ==
  /\ fpc = "off"
  /\ lock' = "connect"
  /\ profile' \in Zones
  /\ auto' \in BOOLEAN
  /\ missed' = 0
  /\ fpc' = "dial"
  /\ SetsOut
  /\ UNCHANGED <<tun, guard, rules, store, opVars, live, mishap, open>>

FgStart ==
  /\ fpc = "off"
  /\ lock = "free"
  /\ lock' = "connect"
  /\ profile' \in Zones
  /\ auto' \in BOOLEAN
  /\ missed' = 0
  /\ fpc' = "dial"
  /\ SetsOut
  /\ UNCHANGED <<tun, guard, rules, store, opVars, live, mishap, open>>

FgDial ==
  /\ fpc = "dial"
  /\ UpSucceeds("connect", profile)
  /\ open' = TRUE
  /\ fpc' = "persist"
  /\ UNCHANGED <<lock, store, opVars, live, swept, mishap, profile, auto, missed>>

(* What the process had in memory is gone.                                 *)
FgExit ==
  /\ fpc' = "off"
  /\ profile' = None
  /\ auto' = TRUE
  /\ open' = FALSE
  /\ missed' = 0

FgDialFails ==
  /\ fpc = "dial"
  /\ UpFails
  /\ lock' = "free"
  /\ FgExit
  /\ UNCHANGED <<store, opVars, live, swept>>

(* The intent is written before the egress is verified, and whatever the   *)
(* verification says.                                                      *)
FgPersist ==
  /\ fpc = "persist"
  /\ Persist(profile)
  /\ fpc' = "verify"
  /\ UNCHANGED <<lock, tun, guard, rules, opVars, live, swept, mishap, profile, auto, open, missed>>

(* WaitProtected; signals are handled from here on.                        *)
FgVerified ==
  /\ fpc = "verify"
  /\ fpc' = "watch"
  /\ UNCHANGED <<shared, profile, auto, open, missed>>

(* Mutant: the old connection is dropped without its Down.                 *)
TearDownForgotten(ok) == ok /\ UNCHANGED <<tun, guard, rules, mishap>>

(* The Down of a conn that is torn down already finds nothing to do.       *)
TearDown(ok) ==
  IF open THEN Down("connect", ok) ELSE ok /\ UNCHANGED <<tun, guard, rules, mishap>>

FgProtected ==
  /\ fpc = "watch" /\ Protected("connect")
  /\ missed' = 0
  /\ UNCHANGED <<shared, fpc, profile, auto, open>>

FgMissed ==
  /\ fpc = "watch" /\ ~Protected("connect") /\ auto
  /\ \/ /\ missed + 1 < failLimit
        /\ missed' = missed + 1
        /\ UNCHANGED <<tun, guard, rules, swept, mishap, fpc, open>>
     \/ /\ missed + 1 = failLimit
        /\ \E ok \in BOOLEAN : TearDown(ok)
        /\ SetsOut
        /\ fpc' = "redial"
        /\ open' = FALSE
        /\ missed' = 0
  /\ UNCHANGED <<lock, store, opVars, live, profile, auto>>

FgRedial ==
  /\ fpc = "redial"
  /\ UpSucceeds("connect", profile)
  /\ open' = TRUE
  /\ fpc' = "watch"
  /\ UNCHANGED <<lock, store, opVars, live, swept, mishap, profile, auto, missed>>

(* The torn-down conn is kept, and tried again failLimit ticks later.      *)
FgRedialFails ==
  /\ fpc = "redial"
  /\ UpFails
  /\ fpc' = "watch"
  /\ UNCHANGED <<lock, store, opVars, live, swept, profile, auto, open, missed>>

(* A signal ends the loop.  A teardown error ends the command before it    *)
(* records the intent.                                                     *)
FgSignal ==
  /\ fpc = "watch"
  /\ \E ok \in BOOLEAN :
       /\ TearDown(ok)
       /\ store' = IF ok THEN Lowered(store) ELSE store
  /\ lock' = "free"
  /\ FgExit
  /\ UNCHANGED <<opVars, live, swept>>

(* A signal before signal.Notify kills the process where it is.            *)
FgKilled ==
  /\ fpc \in {"dial", "persist", "verify"} \/ (fpc # "off" /\ "crash" \in Faults)
  /\ Dies("connect")
  /\ FgExit

FgNext ==
  \/ FgStart \/ FgDial \/ FgDialFails \/ FgPersist \/ FgVerified
  \/ FgProtected \/ FgMissed \/ FgRedial \/ FgRedialFails
  \/ FgSignal \/ FgKilled

=============================================================================
