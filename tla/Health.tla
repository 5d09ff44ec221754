------------------------------- MODULE Health -------------------------------
(***************************************************************************)
(* core/health over core/probe: a tick looks at the interface and at the   *)
(* egress, counts consecutive failures outside the startup grace and fires *)
(* the recovery at the limit.  What a tick observes is free, tick by tick. *)
(***************************************************************************)
EXTENDS Naturals

CONSTANTS
  FailureLimit,  \* Config.FailureLimit; 0 asks for the default
  Addresses,     \* public addresses a probe may answer
  FullTunnel,    \* NetProbe.RequireDefaultEgress
  MaxStreak      \* bound on the counted failures of a streak

NoAddress == "none"

Limit == IF FailureLimit >= 1 THEN FailureLimit ELSE 2

ASSUME HealthAssumption ==
  /\ FailureLimit \in Nat /\ MaxStreak \in Nat
  /\ FullTunnel \in BOOLEAN
  /\ NoAddress \notin Addresses

VARIABLES
  failures,   \* Monitor.failures
  recovered,  \* Monitor.recoveredAtLimit
  grace,      \* the startup deadline is not over
  streak,     \* history: failures counted since the last healthy tick
  fired       \* history: recoveries since the last healthy tick

healthVars == <<failures, recovered, grace, streak, fired>>

HealthInit ==
  /\ failures = 0
  /\ recovered = FALSE
  /\ grace \in BOOLEAN
  /\ streak = 0
  /\ fired = 0

-----------------------------------------------------------------------------
(* NetProbe.InternetOK: an address answered through the tunnel, which on a *)
(* full tunnel no different address on the default route contradicts.      *)
InternetOK(bound, default) ==
  /\ bound # NoAddress
  /\ FullTunnel => default \in {NoAddress, bound}

(* Mutant: a recovery re-arms as soon as it has run.                       *)
FiresAgain(n) == n >= Limit

Fires(n) == n = Limit /\ ~recovered

HealthyNow(link, bound, default) == link /\ InternetOK(bound, default)

Fail ==
  LET n == IF failures < Limit + 1 THEN failures + 1 ELSE failures IN
  /\ streak < MaxStreak
  /\ failures' = n
  /\ recovered' = (recovered \/ Fires(n))
  /\ fired' = IF Fires(n) THEN fired + 1 ELSE fired
  /\ streak' = streak + 1

Reset == failures' = 0 /\ recovered' = FALSE /\ streak' = 0 /\ fired' = 0

Check ==
  \E link \in BOOLEAN, bound, default \in Addresses \union {NoAddress} :
    /\ CASE HealthyNow(link, bound, default) -> Reset
         [] ~HealthyNow(link, bound, default) /\ grace -> UNCHANGED <<failures, recovered, streak, fired>>
         [] OTHER -> Fail
    /\ UNCHANGED grace

GraceEnds == grace /\ grace' = FALSE /\ UNCHANGED <<failures, recovered, streak, fired>>

HealthNext == Check \/ GraceEnds

HealthSpec == HealthInit /\ [][HealthNext]_healthVars

-----------------------------------------------------------------------------
(* health.go:10: recovery fires exactly once per streak of failures, when  *)
(* it reaches the limit: not before, however often the grace deferred a    *)
(* failure, and never again however long the streak goes on.               *)
OneRecoveryPerStreak == fired = IF streak >= Limit THEN 1 ELSE 0

=============================================================================
