---------------------------- MODULE HostCleanup ----------------------------
(***************************************************************************)
(* "mazzy-vpn disconnect" and "mazzy-vpn recover", which take the host's   *)
(* network state apart from outside the process that built it.  Neither    *)
(* takes the mutation lock, so each of their commands may come between any *)
(* two commands of a running connect.Up or connect.Down.                   *)
(***************************************************************************)
EXTENDS Tunnel

CONSTANT DefaultMark  \* routes.DefaultMark, what a profile without FwMark uses

ASSUME CleanupAssumption == DefaultMark \in Marks

VARIABLES
  cleaner,  \* the cleanup command running, or the last one
  cpc,      \* its next step; "off" when it is not running
  ruled,    \* how many "ip rule del" it has run
  alone     \* history: no connection was active during it, no command failed

cleanupVars == <<vars, cleaner, cpc, ruled, alone>>

CleanupInit == Init /\ cleaner = "none" /\ cpc = "off" /\ ruled = 0 /\ alone = FALSE

-----------------------------------------------------------------------------
(* disconnect does nothing unless a managed interface is present; recover  *)
(* always goes through all of its steps.                                   *)
DisconnectStart ==
  /\ cpc = "off"
  /\ host.link = Intended
  /\ cleaner' = "disconnect"
  /\ cpc' = "link"
  /\ ruled' = 0
  /\ alone' = (pc = "idle")
  /\ UNCHANGED vars

RecoverStart ==
  /\ cpc = "off"
  /\ cleaner' = "recover"
  /\ cpc' = "link"
  /\ ruled' = 0
  /\ alone' = (pc = "idle")
  /\ UNCHANGED vars

(* One command of the cleanup: its precondition, the host it leads to, and *)
(* the step after it, or after its failure.                                *)
Command(pre, h, next, failed) ==
  \E r \in Answers(pre) :
    /\ After(r, h)
    /\ cpc' = IF r = "ok" THEN next ELSE failed
    /\ alone' = (alone /\ (pre => r = "ok"))
    /\ UNCHANGED <<conn, cfg, pc, call, todo, fam, tdErr, last, clean, cleaner>>

(* "ip link del".  If it fails, also because the interface has gone since  *)
(* it was seen, disconnect returns; recover goes on.                       *)
RemoveLink ==
  /\ cpc = "link"
  /\ Command(host.link = Intended, Unlink(host),
             "guard", IF cleaner = "disconnect" THEN "off" ELSE "guard")
  /\ UNCHANGED ruled

RemoveGuard ==
  /\ cpc = "guard"
  /\ Command(host.guard6 # {}, [host EXCEPT !.guard6 = {}], "connmark", "connmark")
  /\ UNCHANGED ruled

(* Mutant: recover ends where disconnect does.                             *)
RemoveConnmarkLast ==
  /\ cpc = "connmark"
  /\ Command(host.connmark, [host EXCEPT !.connmark = FALSE], "off", "off")
  /\ UNCHANGED ruled

RemoveConnmark ==
  /\ cpc = "connmark"
  /\ LET next == IF cleaner = "disconnect" THEN "off" ELSE "rules"
     IN  Command(host.connmark, [host EXCEPT !.connmark = FALSE], next, next)
  /\ UNCHANGED ruled

(* Four rounds of four "ip rule del": the mark rule, for the default mark  *)
(* only, of v4 and v6, and the suppress rule of v4 and v6.                 *)
rounds == 4

RuleFamily == IF ruled % 2 = 0 THEN "v4" ELSE "v6"

RemoveRule ==
  /\ cpc = "rules"
  /\ ruled' = ruled + 1
  /\ LET next == IF ruled' = 4 * rounds THEN "flush" ELSE "rules"
         rule == <<RuleFamily, DefaultMark>>
     IN  IF ruled % 4 < 2
         THEN Command(rule \in host.mark, [host EXCEPT !.mark = @ \ {rule}], next, next)
         ELSE Command(RuleFamily \in host.suppress, [host EXCEPT !.suppress = @ \ {RuleFamily}],
                      next, next)

(* "ip route flush table": the v4 routes of the default table.             *)
FlushTable ==
  /\ cpc = "flush"
  /\ Command(TRUE, IF cfg.mark = DefaultMark THEN [host EXCEPT !.routes = @ \ {"v4"}] ELSE host,
             "off", "off")
  /\ UNCHANGED ruled

Cleanup ==
  \/ DisconnectStart \/ RecoverStart \/ RemoveLink \/ RemoveGuard
  \/ RemoveConnmark \/ RemoveRule \/ FlushTable

(* A step of the connecting process, with or without a cleanup under way.  *)
Connection ==
  /\ Next
  /\ alone' = FALSE
  /\ UNCHANGED <<cleaner, cpc, ruled>>

CleanupNext == Connection \/ Cleanup

CleanupSpec == CleanupInit /\ [][CleanupNext]_cleanupVars

-----------------------------------------------------------------------------
(* recover.go:19: recover returns "the host to a clean state (no tunnels,  *)
(* no leftover nftables/ip rules)", whatever crashed and failed runs left. *)
RecoverCleans ==
  cpc = "off" /\ cleaner = "recover" /\ alone =>
    /\ host.link = None /\ host.guard6 = {} /\ ~host.connmark
    /\ host.mark = {} /\ host.suppress = {}

(* A teardown attempts every layer.  However a disconnect or a recover     *)
(* interleaved with the connection, once Down has returned, with or        *)
(* without an error, nothing the connection applied is left on the host.   *)
TeardownComplete ==
  pc = "idle" /\ last \in {"downOk", "downErr"} /\ clean /\ Results = {"ok"} =>
    host = CleanHost

=============================================================================
