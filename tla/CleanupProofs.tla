--------------------------- MODULE CleanupProofs ---------------------------
(***************************************************************************)
(* Proofs about what is left of a connection, for any names, marks,        *)
(* profiles and results of the commands: nothing after a Down that reports *)
(* success, no tunnel, guard or resolver after a failed Up, nothing at all *)
(* after a "mazzy-vpn recover" that was alone on the host, and nothing of  *)
(* its own after a Down that unlocked cleanups interleaved with.           *)
(*                                                                         *)
(* The argument is a ledger: in a call that found the host clean, each     *)
(* layer of the host is accounted for by a flag of the connection, or by   *)
(* the command that has just run, and a teardown crosses the layers off.   *)
(***************************************************************************)
EXTENDS HostCleanup, TunnelProofs

(* The families whose rules are there at this step of Up: those that are   *)
(* done, and the one in hand from its first, or second, command on.        *)
Marked == conn.applied \union (IF pc \in {"suppress", "route", "sysctl"} THEN {fam} ELSE {})

Suppressed == conn.applied \union (IF pc \in {"route", "sysctl"} THEN {fam} ELSE {})

UpLedger ==
  pc \in UpSteps \union {"up"} =>
    /\ call = "up"
    /\ pc \in {"disarm", "arm"} => conn = NoConn /\ host.guard6 = {}
    /\ pc \notin {"disarm", "arm"} => conn.guardOn
    /\ host.connmark => conn.connmarkOn \/ "late" \in Results
    /\ pc \notin {"dns", "up"} => ~host.connmark
    /\ host.dns = IF pc = "up" /\ conn.dnsApplied THEN {cfg.dns} ELSE {}
    /\ pc = "up" => conn.dnsOn
    /\ pc # "up" => ~conn.dnsApplied
    /\ host.pin <=> conn.pinned
    /\ host.mark = Marked \X {cfg.mark}
    /\ host.suppress = Suppressed
    /\ pc \in {"unmark", "mark", "dns", "up"} => conn.routesOn

(* Down, as long as no command of it has reported an error.                *)
DownLedger ==
  pc \in DownSteps /\ call = "down" /\ ~tdErr =>
    LET left == CASE pc \in {"t_dns", "t_connmark", "t_routes"} -> conn.applied
                  [] pc \in {"t_families", "t_suppress"} -> todo
                  [] OTHER -> {}
    IN  /\ conn.guardOn
        /\ pc # "t_guard" => conn.engine
        /\ pc \in {"t_dns", "t_connmark", "t_routes"} => conn.routesOn
        /\ pc = "t_dns" => conn.dnsOn
        /\ host.dns = IF pc = "t_dns" /\ conn.dnsApplied THEN {cfg.dns} ELSE {}
        /\ host.connmark =>
             (pc \in {"t_dns", "t_connmark"} /\ conn.connmarkOn) \/ "late" \in Results
        /\ host.mark = (left \ (IF pc = "t_suppress" THEN {fam} ELSE {})) \X {cfg.mark}
        /\ host.suppress = left
        /\ pc \notin {"t_engine", "t_guard"} => (host.pin <=> conn.pinned)
        /\ pc \in {"t_engine", "t_guard"} => ~host.pin
        /\ pc = "t_guard" => host.routes = {}

(* The unwind of a failed Up, where a command that fails has no effect.    *)
UnwindLedger ==
  pc \in DownSteps /\ call = "up" /\ "late" \notin Results =>
    /\ conn.guardOn
    /\ host.dns = {}
    /\ host.connmark => conn.connmarkOn \/ tdErr
    /\ host.connmark /\ pc \notin {"t_dns", "t_connmark"} => tdErr

Settled == CleanDown /\ FailedUpIsOff

LedgerInv == (clean => UpLedger /\ DownLedger /\ UnwindLedger) /\ Settled

-----------------------------------------------------------------------------
(* A host without any of its layers is the clean one.                      *)
LEMMA HostIsClean ==
  ASSUME NEW h \in Host, h.guard6 = {}, ~h.connmark, h.mark = {}, h.suppress = {}, ~h.pin,
         h.dns = {}, h.link = None, h.routes = {}
  PROVE  h = CleanHost
<1>1. h = [guard6 |-> h.guard6, connmark |-> h.connmark, mark |-> h.mark,
           suppress |-> h.suppress, pin |-> h.pin, dns |-> h.dns, link |-> h.link,
           routes |-> h.routes]
  BY DEF Host
<1>2. h.connmark = FALSE /\ h.pin = FALSE
  BY DEF Host
<1> QED
  BY <1>1, <1>2 DEF CleanHost

LEMMA MarksOf ==
  ASSUME NEW S, NEW f, NEW m
  PROVE  /\ (S \X {m}) \ {<<f, m>>} = (S \ {f}) \X {m}
         /\ (S \X {m}) \union {<<f, m>>} = (S \union {f}) \X {m}
  OBVIOUS

LEMMA LedgerStep ==
  ASSUME IInv, LedgerInv, Next
  PROVE  LedgerInv'
<1> TypeOK /\ LinkInv /\ host \in Host /\ conn \in Conn
  BY DEF IInv, TypeOK
<1> USE DEF LedgerInv, Settled, CleanDown, FailedUpIsOff, UpLedger, DownLedger, UnwindLedger,
            Marked, Suppressed, UpSteps, DownSteps, Host, Conn, After, Took, Answers
<1>1. CASE UpStart
  <2>a. /\ clean' => host' = CleanHost
        /\ conn' = NoConn /\ pc' = "disarm" /\ call' = "up"
    BY <1>1, Zenon DEF UpStart
  <2>1. clean' => UpLedger'
    BY <2>a DEF CleanHost, NoConn
  <2>2. clean' => DownLedger'
    BY <1>1 DEF UpStart, CleanHost, NoConn
  <2>3. clean' => UnwindLedger'
    BY <1>1 DEF UpStart, CleanHost, NoConn
  <2>4. Settled'
    BY <1>1 DEF UpStart, CleanHost, NoConn
  <2> QED
    BY <2>1, <2>2, <2>3, <2>4
<1>2. CASE UpDisarm
  BY <1>2 DEF UpDisarm, Disarm
<1>3. CASE UpArm
  <2>1. clean' => UpLedger'
    BY <1>3 DEF UpArm, Armed, NoConn
  <2>2. clean' => DownLedger'
    BY <1>3 DEF UpArm, Armed, NoConn
  <2>3. clean' => UnwindLedger'
    BY <1>3 DEF UpArm, Armed, NoConn
  <2>a. /\ host' = host \/ "late" \in Results \/ pc' = "tun"
        /\ last' = "upErr" \/ pc' = "tun"
        /\ UNCHANGED clean
    BY <1>3, TunnelAssumption DEF UpArm, TunnelAssumption
  <2>b. clean => host.link = None /\ host.guard6 = {} /\ ~host.connmark /\ host.dns = {}
    BY <1>3 DEF UpArm, LinkInv
  <2>4. Settled'
    BY <2>a, <2>b
  <2> QED
    BY <2>1, <2>2, <2>3, <2>4
<1>4. CASE UpCreateTUN
  BY <1>4 DEF UpCreateTUN, Unwind
<1>5. CASE UpDevice
  BY <1>5 DEF UpDevice, Unwind, Unlink
<1>6. CASE UpRedisarm
  BY <1>6 DEF UpRedisarm, Disarm
<1>7. CASE UpRearm
  BY <1>7 DEF UpRearm, Armed, Unwind
<1>8. CASE UpAddress
  BY <1>8 DEF UpAddress, Unwind
<1>9. CASE UpPin
  BY <1>9 DEF UpPin, Unwind
<1>10. CASE UpMarkRule
  BY <1>10 DEF UpMarkRule, Unwind
<1>11. CASE UpSuppressRule
  BY <1>11 DEF UpSuppressRule, Unwind
<1>12. CASE UpTableRoute
  BY <1>12 DEF UpTableRoute, Unwind, FamilyDone
<1>13. CASE UpSysctl
  BY <1>13 DEF UpSysctl, Unwind, FamilyDone
<1>14. CASE UpRoutesOn
  BY <1>14 DEF UpRoutesOn
<1>15. CASE UpUnmark
  BY <1>15 DEF UpUnmark
<1>16. CASE UpConnmark
  <2>a. PICK r \in Results :
          /\ host' = IF Took(r) THEN [host EXCEPT !.connmark = TRUE] ELSE host
          /\ conn' = [conn EXCEPT !.connmarkOn = (r = "ok")]
    BY <1>16 DEF UpConnmark
  <2>b. CASE r = "ok"
    <3>1. conn' = [conn EXCEPT !.connmarkOn = TRUE]
      BY <2>a, <2>b
    <3> QED
      BY <1>16, <3>1, <2>a, <2>b DEF UpConnmark
  <2>c. CASE r # "ok"
    <3>1. conn' = [conn EXCEPT !.connmarkOn = FALSE]
      BY <2>a, <2>c
    <3>2. clean /\ host'.connmark => "late" \in Results
      BY <1>16, <2>a, <2>c, TunnelAssumption DEF UpConnmark, TunnelAssumption
    <3> QED
      BY <1>16, <3>1, <3>2, <2>a DEF UpConnmark
  <2>1. clean' => UpLedger'
    BY <2>b, <2>c
  <2>2. clean' => DownLedger'
    BY <1>16 DEF UpConnmark
  <2>3. clean' => UnwindLedger'
    BY <1>16 DEF UpConnmark
  <2>4. Settled'
    BY <1>16 DEF UpConnmark
  <2> QED
    BY <2>1, <2>2, <2>3, <2>4
<1>17. CASE UpDNS
  <2>1. CASE cfg.dns = "off"
    BY <1>17, <2>1 DEF UpDNS, Backends
  <2>2. CASE pc' = "t_dns"
    <3>1. host' = host \/ "late" \in Results
      BY <1>17, <2>2, TunnelAssumption DEF UpDNS, Unwind, Backends, TunnelAssumption
    <3>2. conn' = conn /\ pc = "dns" /\ UNCHANGED <<clean, call>>
      BY <1>17, <2>2 DEF UpDNS, Unwind
    <3> QED
      BY <2>2, <3>1, <3>2
  <2>3. CASE cfg.dns \in Backends /\ pc' = "up"
    <3>1. /\ host' = [host EXCEPT !.dns = @ \union {cfg.dns}]
          /\ conn' = [conn EXCEPT !.dnsOn = TRUE, !.dnsApplied = TRUE]
          /\ pc = "dns" /\ UNCHANGED <<clean, call, cfg, fam>>
      BY <1>17, <2>3 DEF UpDNS, Unwind, Backends
    <3> QED
      BY <2>3, <3>1
  <2> QED
    BY <1>17, <2>1, <2>2, <2>3 DEF UpDNS, Unwind
<1>18. CASE DownStart
  <2>1. clean' => UpLedger'
    BY <1>18 DEF DownStart
  <2>a. Marked = conn.applied /\ Suppressed = conn.applied
    BY <1>18 DEF DownStart
  <2>b. /\ pc = "up" /\ pc' = "t_dns"
        /\ UNCHANGED <<host, conn, cfg, clean>>
    BY <1>18 DEF DownStart
  <2>c. clean =>
          /\ conn.guardOn /\ conn.engine /\ conn.routesOn /\ conn.dnsOn
          /\ host.dns = IF conn.dnsApplied THEN {cfg.dns} ELSE {}
          /\ host.connmark => conn.connmarkOn \/ "late" \in Results
          /\ host.mark = conn.applied \X {cfg.mark} /\ host.suppress = conn.applied
          /\ host.pin <=> conn.pinned
    <3>1. UpLedger /\ pc = "up" => conn.guardOn /\ conn.routesOn /\ conn.dnsOn
      OBVIOUS
    <3>2. conn.engine
      BY <2>b DEF LinkInv, Linked
    <3>3. UpLedger /\ pc = "up" =>
            /\ host.dns = IF conn.dnsApplied THEN {cfg.dns} ELSE {}
            /\ host.connmark => conn.connmarkOn \/ "late" \in Results
            /\ host.mark = conn.applied \X {cfg.mark} /\ host.suppress = conn.applied
      BY <2>a
    <3>4. UpLedger /\ pc = "up" => (host.pin <=> conn.pinned)
      OBVIOUS
    <3> QED
      BY <2>b, <3>1, <3>2, <3>3, <3>4
  <2>2. clean' => DownLedger'
    BY <2>b, <2>c
  <2>3. clean' => UnwindLedger'
    BY <1>18 DEF DownStart
  <2>4. Settled'
    BY <1>18 DEF DownStart
  <2> QED
    BY <2>1, <2>2, <2>3, <2>4
<1>19. CASE TearDNS
  BY <1>19 DEF TearDNS, Note
<1>20. CASE TearConnmark
  BY <1>20 DEF TearConnmark, Note
<1>21. CASE TearRoutes
  BY <1>21 DEF TearRoutes
<1>22. CASE TearMarkRule
  <2>1. clean' => UpLedger'
    BY <1>22 DEF TearMarkRule, Note
  <2>a. PICK f \in todo, r \in Results \union {"fail"} :
          /\ fam' = f
          /\ host' = IF Took(r) THEN [host EXCEPT !.mark = @ \ {<<f, cfg.mark>>}] ELSE host
          /\ tdErr' = (tdErr \/ r # "ok")
    BY <1>22 DEF TearMarkRule, Note
  <2>b. ~tdErr' => ~tdErr /\ host' = [host EXCEPT !.mark = @ \ {<<f, cfg.mark>>}]
    BY <2>a
  <2>c. host.mark = todo \X {cfg.mark} => host.mark \ {<<f, cfg.mark>>} = (todo \ {f}) \X {cfg.mark}
    BY MarksOf
  <2>2. clean' => DownLedger'
    BY <1>22, <2>a, <2>b, <2>c DEF TearMarkRule
  <2>3. clean' => UnwindLedger'
    BY <1>22 DEF TearMarkRule, Note
  <2>4. Settled'
    BY <1>22 DEF TearMarkRule, Note
  <2> QED
    BY <2>1, <2>2, <2>3, <2>4
<1>23. CASE TearSuppressRule
  <2>1. clean' => UpLedger'
    BY <1>23 DEF TearSuppressRule, Note
  <2>a. PICK r \in Results \union {"fail"} :
          /\ host' = IF Took(r) THEN [host EXCEPT !.suppress = @ \ {fam}] ELSE host
          /\ tdErr' = (tdErr \/ r # "ok")
    BY <1>23 DEF TearSuppressRule, Note
  <2>b. ~tdErr' => ~tdErr /\ host' = [host EXCEPT !.suppress = @ \ {fam}]
    BY <2>a
  <2>2. clean' => DownLedger'
    BY <1>23, <2>b DEF TearSuppressRule
  <2>3. clean' => UnwindLedger'
    BY <1>23 DEF TearSuppressRule, Note
  <2>4. Settled'
    BY <1>23 DEF TearSuppressRule, Note
  <2> QED
    BY <2>1, <2>2, <2>3, <2>4
<1>24. CASE TearPin
  BY <1>24 DEF TearPin, Note
<1>25. CASE TearEngine
  BY <1>25 DEF TearEngine, Unlink
<1>26. CASE TearGuard
  <2>1. clean' => UpLedger'
    BY <1>26 DEF TearGuard, Note, NoConn
  <2>2. clean' => DownLedger'
    BY <1>26 DEF TearGuard, Note, NoConn
  <2>3. clean' => UnwindLedger'
    BY <1>26 DEF TearGuard, Note, NoConn
  <2>a. host.link = None /\ UNCHANGED clean
        /\ last' = (IF call = "up" THEN "upErr" ELSE IF tdErr' THEN "downErr" ELSE "downOk")
    BY <1>26 DEF TearGuard, LinkInv
  <2>b. clean /\ ~tdErr' /\ conn.guardOn => ~tdErr /\ host' = [host EXCEPT !.guard6 = {}]
    BY <1>26 DEF TearGuard, Note
  <2>c. ASSUME clean, last' = "downOk"
        PROVE  [host' EXCEPT !.connmark = FALSE] = CleanHost
               /\ (host'.connmark => "late" \in Results)
    <3>1. ~tdErr' /\ call = "down" /\ pc = "t_guard" /\ call \in {"up", "down"}
      BY <1>26, <2>a, <2>c DEF TearGuard, TypeOK
    <3>2. DownLedger /\ ~tdErr
      BY <2>b, <2>c, <3>1, <1>26 DEF TearGuard, Note
    <3>3. /\ host.dns = {} /\ host.mark = {} /\ host.suppress = {} /\ ~host.pin
          /\ host.routes = {} /\ conn.guardOn
          /\ host.connmark => "late" \in Results
      BY <3>1, <3>2
    <3>4. host' = [host EXCEPT !.guard6 = {}]
      BY <2>b, <2>c, <3>1, <3>3
    <3> DEFINE h == [host' EXCEPT !.connmark = FALSE]
    <3>5. /\ h \in Host /\ h.guard6 = {} /\ ~h.connmark /\ h.mark = {} /\ h.suppress = {}
          /\ ~h.pin /\ h.dns = {} /\ h.link = None /\ h.routes = {}
      BY <2>a, <3>3, <3>4
    <3> QED
      BY <3>3, <3>4, <3>5, HostIsClean
  <2>d. CleanDown'
    BY <2>a, <2>c
  <2>e. ASSUME clean, last' = "upErr", ~tdErr', "late" \notin Results
        PROVE  host'.link = None /\ host'.guard6 = {} /\ ~host'.connmark /\ host'.dns = {}
    <3>1. call = "up" /\ pc = "t_guard"
      BY <1>26, <2>a, <2>e DEF TearGuard
    <3>2. conn.guardOn /\ host.dns = {} /\ (host.connmark => tdErr)
      BY <2>e, <3>1
    <3>3. ~tdErr /\ host' = [host EXCEPT !.guard6 = {}]
      BY <2>b, <2>e, <3>2
    <3> QED
      BY <2>a, <3>2, <3>3
  <2>f. FailedUpIsOff'
    BY <2>a, <2>e
  <2>4. Settled'
    BY <2>d, <2>f
  <2> QED
    BY <2>1, <2>2, <2>3, <2>4
<1>27. CASE Crash
  BY <1>27 DEF Crash
<1> QED
  BY <1>1, <1>2, <1>3, <1>4, <1>5, <1>6, <1>7, <1>8, <1>9, <1>10, <1>11, <1>12, <1>13, <1>14, <1>15, <1>16, <1>17, <1>18, <1>19, <1>20, <1>21, <1>22, <1>23, <1>24, <1>25, <1>26, <1>27
  DEF Next, UpStep, DownStep

LEMMA LedgerInvariance == Spec => [](IInv /\ LedgerInv)
<1>1. Init => LedgerInv
  <2> SUFFICES ASSUME Init PROVE LedgerInv
    OBVIOUS
  <2>1. pc = "idle" /\ last = "none"
    BY DEF Init
  <2> QED
    BY <2>1
    DEF LedgerInv, Settled, CleanDown, FailedUpIsOff, UpLedger, DownLedger, UnwindLedger,
        UpSteps, DownSteps
<1>2. IInv /\ LedgerInv /\ [Next]_vars => LedgerInv'
  <2> SUFFICES ASSUME IInv, LedgerInv, [Next]_vars PROVE LedgerInv'
    OBVIOUS
  <2>1. CASE UNCHANGED vars
    BY <2>1
    DEF vars, LedgerInv, Settled, CleanDown, FailedUpIsOff, UpLedger, DownLedger, UnwindLedger,
        Marked, Suppressed
  <2> QED
    BY <2>1, LedgerStep
<1> QED
  BY Invariance, <1>1, <1>2, PTL DEF Spec

-----------------------------------------------------------------------------
(* For any profile, mark, interface name and results of the commands: a    *)
(* connect.Down that reports success leaves a host clean that was so       *)
(* before Up, except for a CONNMARK table nobody knows of.                 *)
THEOREM DownCleansUp == Spec => []CleanDown
<1>1. LedgerInv => CleanDown
  BY DEF LedgerInv, Settled
<1> QED
  BY LedgerInvariance, <1>1, PTL

(* A connect.Up that failed and unwound without an error has left no       *)
(* interface, guard, CONNMARK table or resolver entry.                     *)
THEOREM FailedUpLeavesNoTunnel == Spec => []FailedUpIsOff
<1>1. LedgerInv => FailedUpIsOff
  BY DEF LedgerInv, Settled
<1> QED
  BY LedgerInvariance, <1>1, PTL

-----------------------------------------------------------------------------
(* "mazzy-vpn recover" may have met anything: a connection torn down or    *)
(* killed halfway, or one whose interface disconnect has removed.  What    *)
(* stays true of the connecting process then is that the interface it is   *)
(* about to guard has a name.                                              *)
NamedInv == pc \in {"device", "redisarm", "rearm"} => conn.iface \in Names

(* The rules that are gone after the first n "ip rule del".                *)
RulesGone(n) ==
  /\ n > 0 => <<"v4", DefaultMark>> \notin host.mark
  /\ n > 1 => <<"v6", DefaultMark>> \notin host.mark
  /\ n > 2 => "v4" \notin host.suppress
  /\ n > 3 => "v6" \notin host.suppress

(* Alone on the host, and with none of its commands failing, recover has   *)
(* removed the layers of the steps it has behind it.                       *)
RecoverInv ==
  cleaner = "recover" /\ alone =>
    /\ cpc # "link" => host.link = None
    /\ cpc \notin {"link", "guard"} => host.guard6 = {}
    /\ cpc \notin {"link", "guard", "connmark"} => ~host.connmark
    /\ cpc \in {"link", "guard", "connmark"} => ruled = 0
    /\ cpc = "rules" => ruled \in 0..(4 * rounds - 1) /\ RulesGone(ruled)
    /\ cpc \notin {"link", "guard", "connmark", "rules"} => host.mark = {} /\ host.suppress = {}

CleanupInv == TypeOK /\ NamedInv /\ RecoverInv

LEMMA NamedStep ==
  ASSUME TypeOK, NamedInv, Next
  PROVE  NamedInv'
<1> USE DEF NamedInv, TypeOK, Conn
<1>1. CASE pc' \notin {"device", "redisarm", "rearm"}
  BY <1>1
<1>2. CASE UpCreateTUN
  BY <1>2 DEF UpCreateTUN, Unwind, Names
<1>3. CASE UpDevice
  BY <1>3 DEF UpDevice, Unwind
<1>4. CASE UpRedisarm
  BY <1>4 DEF UpRedisarm, Disarm
<1>5. CASE Next /\ ~UpCreateTUN /\ ~UpDevice /\ ~UpRedisarm
  <2>1. pc' \notin {"device", "redisarm", "rearm"}
    BY <1>5
    DEF Next, UpStep, DownStep, UpStart, UpDisarm, Disarm, UpArm, UpRearm, UpAddress, UpPin,
        UpMarkRule, UpSuppressRule, UpTableRoute, UpSysctl, FamilyDone, UpRoutesOn, UpUnmark,
        UpConnmark, UpDNS, Unwind, DownStart, TearDNS, TearConnmark, TearRoutes, TearMarkRule,
        TearSuppressRule, TearPin, TearEngine, TearGuard, Crash
  <2> QED
    BY <2>1, <1>1
<1> QED
  BY <1>2, <1>3, <1>4, <1>5

(* The command of a cleanup either takes effect, or recover is no longer   *)
(* without a failure; what it does to the host, the host's type allows.    *)
LEMMA CommandRuns ==
  ASSUME NEW pre \in BOOLEAN, NEW h, NEW next, NEW failed, Command(pre, h, next, failed)
  PROVE  /\ host' \in {host, h}
         /\ cpc' \in {next, failed}
         /\ alone' /\ pre => host' = h /\ cpc' = next
         /\ alone' => alone
         /\ UNCHANGED <<conn, cfg, pc, call, todo, fam, tdErr, last, clean, cleaner>>
  BY DEF Command, After, Took

(* One "ip rule del" of recover.                                           *)
LEMMA RuleRuns ==
  ASSUME TypeOK, RemoveRule, ruled \in 0..(4 * rounds - 1)
  PROVE  /\ host' \in Host /\ host'.mark \subseteq host.mark /\ host'.suppress \subseteq host.suppress
         /\ host'.link = host.link /\ host'.guard6 = host.guard6 /\ host'.connmark = host.connmark
         /\ cpc' = IF ruled' = 4 * rounds THEN "flush" ELSE "rules"
         /\ alone' => alone
         /\ alone' /\ ruled = 0 => <<"v4", DefaultMark>> \notin host'.mark
         /\ alone' /\ ruled = 1 => <<"v6", DefaultMark>> \notin host'.mark
         /\ alone' /\ ruled = 2 => "v4" \notin host'.suppress
         /\ alone' /\ ruled = 3 => "v6" \notin host'.suppress
         /\ UNCHANGED <<conn, cfg, pc, call, todo, fam, tdErr, last, clean, cleaner>>
<1> host \in Host
  BY DEF TypeOK
<1> DEFINE rule == <<RuleFamily, DefaultMark>>
           fewer == [host EXCEPT !.mark = @ \ {rule}]
           bare == [host EXCEPT !.suppress = @ \ {RuleFamily}]
           step == IF ruled' = 4 * rounds THEN "flush" ELSE "rules"
<1>1. IF ruled % 4 < 2 THEN Command(rule \in host.mark, fewer, step, step)
                       ELSE Command(RuleFamily \in host.suppress, bare, step, step)
  BY DEF RemoveRule
<1>2. /\ (ruled = 0 \/ ruled = 2) => RuleFamily = "v4"
      /\ (ruled = 1 \/ ruled = 3) => RuleFamily = "v6"
      /\ (ruled = 0 \/ ruled = 1) => ruled % 4 < 2
      /\ (ruled = 2 \/ ruled = 3) => ~(ruled % 4 < 2)
  BY DEF RuleFamily
<1>3. /\ fewer \in Host /\ bare \in Host
      /\ fewer = [host EXCEPT !.mark = host.mark \ {rule}] /\ fewer.mark = host.mark \ {rule}
      /\ bare.suppress = host.suppress \ {RuleFamily}
      /\ fewer.suppress = host.suppress /\ bare.mark = host.mark
      /\ fewer.link = host.link /\ fewer.guard6 = host.guard6 /\ fewer.connmark = host.connmark
      /\ bare.link = host.link /\ bare.guard6 = host.guard6 /\ bare.connmark = host.connmark
  BY DEF Host
<1> HIDE DEF fewer, bare, step
<1>4. CASE ruled % 4 < 2
  <2>1. Command(rule \in host.mark, fewer, step, step)
    BY <1>1, <1>4
  <2>2. /\ host' \in {host, fewer} /\ cpc' = step /\ (alone' => alone)
        /\ alone' /\ rule \in host.mark => host' = fewer
        /\ UNCHANGED <<conn, cfg, pc, call, todo, fam, tdErr, last, clean, cleaner>>
    BY <2>1 DEF Command, After, Took
  <2>3. alone' => rule \notin host'.mark
    BY <1>3, <2>2
  <2> QED
    BY <1>2, <1>3, <1>4, <2>2, <2>3 DEF step
<1>5. CASE ~(ruled % 4 < 2)
  <2>1. Command(RuleFamily \in host.suppress, bare, step, step)
    BY <1>1, <1>5
  <2>2. /\ host' \in {host, bare} /\ cpc' = step /\ (alone' => alone)
        /\ alone' /\ RuleFamily \in host.suppress => host' = bare
        /\ UNCHANGED <<conn, cfg, pc, call, todo, fam, tdErr, last, clean, cleaner>>
    BY <2>1 DEF Command, After, Took
  <2>3. alone' => RuleFamily \notin host'.suppress
    BY <1>3, <2>2
  <2> QED
    BY <1>2, <1>3, <1>5, <2>2, <2>3 DEF step
<1> QED
  BY <1>4, <1>5

LEMMA CleanupStep ==
  ASSUME CleanupInv, Marks = {DefaultMark}, RealNames = {Intended}, CleanupNext
  PROVE  CleanupInv'
<1> TypeOK /\ NamedInv /\ RecoverInv /\ host \in Host
  BY DEF CleanupInv, TypeOK
<1>1. CASE Connection
  <2>1. TypeOK'
    BY <1>1, HostTyped, ConnTyped, RestTyped DEF Connection, NamedInv, TypeOK
  <2> QED
    BY <1>1, <2>1, NamedStep DEF Connection, CleanupInv, RecoverInv
<1>2. ASSUME UNCHANGED <<conn, cfg, pc, call, todo, fam, tdErr, last, clean>>, host' \in Host
      PROVE  TypeOK' /\ NamedInv'
  BY <1>2 DEF TypeOK, NamedInv
<1>3. CASE DisconnectStart \/ RecoverStart
  <2>1. UNCHANGED vars /\ cpc' = "link" /\ ruled' = 0
    BY <1>3 DEF DisconnectStart, RecoverStart
  <2> QED
    BY <2>1, <1>2 DEF vars, RecoverInv, CleanupInv
<1>4. CASE RemoveLink
  <2> DEFINE failed == IF cleaner = "disconnect" THEN "off" ELSE "guard"
  <2>1. Command(host.link = Intended, Unlink(host), "guard", failed) /\ cpc = "link"
        /\ ruled' = ruled
    BY <1>4 DEF RemoveLink
  <2>2. host' \in Host
    BY <2>1, CommandRuns, UnlinkHost
  <2>a. alone' /\ host.link = Intended => host' = Unlink(host)
    BY <2>1 DEF Command, After, Took
  <2>b. host.link \in {Intended, None} /\ Unlink(host).link = None /\ host' \in {host, Unlink(host)}
    BY <2>1, CommandRuns DEF Host, Names, Unlink
  <2>3. alone' => host'.link = None
    BY <2>a, <2>b
  <2>c. cpc' \in {"guard", failed} /\ cleaner' = cleaner /\ (alone' => alone)
    BY <2>1, CommandRuns
  <2>4. RecoverInv'
    BY <2>1, <2>c, <2>3 DEF RecoverInv
  <2> QED
    BY <2>1, <2>2, <2>4, <1>2, CommandRuns DEF CleanupInv
<1>5. CASE RemoveGuard
  <2>1. Command(host.guard6 # {}, [host EXCEPT !.guard6 = {}], "connmark", "connmark") /\ cpc = "guard"
        /\ ruled' = ruled
    BY <1>5 DEF RemoveGuard
  <2>a. /\ host' \in {host, [host EXCEPT !.guard6 = {}]}
        /\ alone' => alone /\ (host.guard6 # {} => host' = [host EXCEPT !.guard6 = {}])
    BY <2>1 DEF Command, After, Took
  <2>2. host' \in Host
    BY <2>a, HostUpdate
  <2>b. cleaner' = cleaner /\ cpc' = "connmark" /\ host'.link = host.link /\ (alone' => host'.guard6 = {})
    BY <2>1, <2>a DEF Command, Host
  <2>3. RecoverInv'
    BY <2>1, <2>a, <2>b DEF RecoverInv
  <2> QED
    BY <2>1, <2>2, <2>3, <1>2 DEF CleanupInv, Command
<1>6. CASE RemoveConnmark
  <2> DEFINE step == IF cleaner = "disconnect" THEN "off" ELSE "rules"
  <2>1. Command(host.connmark, [host EXCEPT !.connmark = FALSE], step, step) /\ cpc = "connmark"
        /\ ruled' = ruled
    BY <1>6 DEF RemoveConnmark
  <2>2. host' \in Host /\ host.connmark \in BOOLEAN
    BY <2>1, CommandRuns, HostUpdate, HostField
  <2>3. RecoverInv'
    <3> SUFFICES ASSUME cleaner' = "recover", alone' PROVE RecoverInv'
      BY DEF RecoverInv
    <3>1. cleaner = "recover" /\ alone /\ cpc' = "rules" /\ host' \in {host, [host EXCEPT !.connmark = FALSE]}
      BY <2>1, <2>2, CommandRuns
    <3>2. ~host'.connmark /\ host'.link = host.link /\ host'.guard6 = host.guard6
      BY <2>1, <2>2, CommandRuns DEF Host
    <3>3. ruled' \in 0..(4 * rounds - 1) /\ RulesGone(ruled)'
      BY <2>1, <3>1 DEF RecoverInv, RulesGone, rounds
    <3> QED
      BY <2>1, <3>1, <3>2, <3>3 DEF RecoverInv
  <2> QED
    BY <2>1, <2>2, <2>3, <1>2, CommandRuns DEF CleanupInv
<1>7. CASE RemoveRule
  <2>1. TypeOK /\ cpc = "rules" /\ ruled' = ruled + 1
    BY <1>7 DEF RemoveRule
  <2>2. UNCHANGED <<conn, cfg, pc, call, todo, fam, tdErr, last, clean, cleaner>> /\ host' \in Host
    <3>1. /\ [host EXCEPT !.mark = @ \ {<<RuleFamily, DefaultMark>>}] \in Host
          /\ [host EXCEPT !.suppress = @ \ {RuleFamily}] \in Host
      BY DEF Host
    <3> QED
      BY <1>7, <3>1 DEF RemoveRule, Command, After
  <2>3. RecoverInv'
    <3> SUFFICES ASSUME cleaner' = "recover", alone' PROVE RecoverInv'
      BY DEF RecoverInv
    <3>1. cleaner = "recover" /\ alone
      BY <1>7, <2>2 DEF RemoveRule, Command
    <3>2. ruled \in 0..(4 * rounds - 1) /\ RulesGone(ruled)
      BY <2>1, <3>1 DEF RecoverInv
    <3>3. RulesGone(ruled)' /\ ruled' \in 1..(4 * rounds)
      BY <1>7, <2>1, <3>2, RuleRuns DEF RulesGone, rounds
    <3>4. ruled' = 4 * rounds => host'.mark = {} /\ host'.suppress = {}
      BY <2>2, <3>3 DEF RulesGone, rounds, Host, Families
    <3> QED
      BY <1>7, <2>1, <3>1, <3>2, <3>3, <3>4, RuleRuns DEF RecoverInv, rounds
  <2> QED
    BY <2>2, <2>3, <1>2 DEF CleanupInv
<1>8. CASE FlushTable
  <2> DEFINE h == IF cfg.mark = DefaultMark THEN [host EXCEPT !.routes = @ \ {"v4"}] ELSE host
  <2>1. Command(TRUE, h, "off", "off") /\ cpc = "flush"
    BY <1>8 DEF FlushTable
  <2>2. h \in Host /\ h.mark = host.mark /\ h.suppress = host.suppress /\ h.link = host.link
        /\ h.guard6 = host.guard6 /\ h.connmark = host.connmark
    BY DEF Host
  <2>3. host' \in Host
    BY <2>1, <2>2, CommandRuns
  <2> HIDE DEF h
  <2>4. cpc' = "off" /\ cleaner' = cleaner /\ (alone' => alone) /\ host' \in {host, h}
    BY <2>1 DEF Command, After
  <2>5. RecoverInv'
    BY <2>1, <2>2, <2>4 DEF RecoverInv
  <2> QED
    BY <2>1, <2>3, <2>5, <1>2 DEF CleanupInv, Command
<1> QED
  BY <1>1, <1>3, <1>4, <1>5, <1>6, <1>7, <1>8 DEF CleanupNext, Cleanup

(* One mark for all profiles, and a kernel that gives the interface the    *)
(* name it is asked for: whatever crashed and failed runs have left, and   *)
(* whatever disconnects came before, recover leaves no interface, guard,   *)
(* CONNMARK table or rule.                                                 *)
THEOREM RecoverLeavesAHostClean ==
  ASSUME Marks = {DefaultMark}, RealNames = {Intended}
  PROVE  CleanupSpec => []RecoverCleans
<1>1. CleanupInit => CleanupInv
  <2> SUFFICES ASSUME CleanupInit PROVE CleanupInv
    OBVIOUS
  <2>1. IInv
    BY InitHolds DEF CleanupInit
  <2> QED
    BY <2>1 DEF CleanupInit, Init, CleanupInv, NamedInv, RecoverInv, IInv
<1>2. CleanupInv /\ [CleanupNext]_cleanupVars => CleanupInv'
  <2>1. CASE UNCHANGED cleanupVars
    BY <2>1 DEF cleanupVars, vars, CleanupInv, TypeOK, NamedInv, RecoverInv, RulesGone
  <2> QED
    BY <2>1, CleanupStep
<1>3. CleanupInv => RecoverCleans
  BY DEF CleanupInv, RecoverInv, RecoverCleans
<1> QED
  BY <1>1, <1>2, <1>3, PTL DEF CleanupSpec

-----------------------------------------------------------------------------
(* Under a cleanup that removes layers while the connection goes up or     *)
(* down, the connection no longer finds what it has applied.  What is left *)
(* is never more than the flags account for: a layer that is gone is       *)
(* reported as an error, and one that is there is removed.  The interface  *)
(* is there only while the engine is, or is about to be, and takes its     *)
(* routes and its resolved link with it.                                   *)
LinkLeft ==
  /\ pc \in Linked => conn.iface \in Names
  /\ host.link \in {None, conn.iface}
  /\ pc \in {"idle", "disarm", "arm", "tun", "t_guard"} => host.link = None
  /\ pc \in Linked \ {"device"} => conn.engine
  /\ pc \in DownSteps \ {"t_guard"} => (host.link # None => conn.engine)
  /\ host.link = None => host.routes = {} /\ "resolvectl" \notin host.dns

UpLeft ==
  pc \in UpSteps \union {"up"} =>
    /\ call = "up"
    /\ pc \in {"disarm", "arm"} => conn = NoConn /\ host = CleanHost
    /\ pc \notin {"disarm", "arm"} => conn.guardOn
    /\ host.connmark => conn.connmarkOn /\ pc \in {"dns", "up"}
    /\ host.dns \subseteq IF pc = "up" /\ conn.dnsApplied THEN {cfg.dns} ELSE {}
    /\ pc = "up" => conn.dnsOn
    /\ pc # "up" => ~conn.dnsApplied
    /\ host.pin => conn.pinned
    /\ host.mark \subseteq Marked \X {cfg.mark}
    /\ host.suppress \subseteq Suppressed
    /\ pc \in {"unmark", "mark", "dns", "up"} => conn.routesOn

DownLeft ==
  pc \in DownSteps /\ call = "down" =>
    LET left == CASE pc \in {"t_dns", "t_connmark", "t_routes"} -> conn.applied
                  [] pc \in {"t_families", "t_suppress"} -> todo
                  [] OTHER -> {}
    IN  /\ conn.guardOn
        /\ pc \in {"t_dns", "t_connmark", "t_routes"} => conn.routesOn
        /\ pc = "t_dns" => conn.dnsOn
        /\ host.dns \subseteq IF pc = "t_dns" /\ conn.dnsApplied THEN {cfg.dns} ELSE {}
        /\ host.connmark => pc \in {"t_dns", "t_connmark"} /\ conn.connmarkOn
        /\ host.mark \subseteq (left \ (IF pc = "t_suppress" THEN {fam} ELSE {})) \X {cfg.mark}
        /\ host.suppress \subseteq left
        /\ host.pin => conn.pinned /\ pc \notin {"t_engine", "t_guard"}

LeftInv == clean /\ Results = {"ok"} => UpLeft /\ DownLeft

TearInv == TypeOK /\ LinkLeft /\ LeftInv /\ TeardownComplete

LEMMA Unlinked ==
  ASSUME NEW h \in Host
  PROVE  /\ Unlink(h).link = None /\ Unlink(h).routes = {} /\ "resolvectl" \notin Unlink(h).dns
         /\ Unlink(h).guard6 = h.guard6 /\ Unlink(h).connmark = h.connmark
         /\ Unlink(h).mark = h.mark /\ Unlink(h).suppress = h.suppress
         /\ Unlink(h).pin = h.pin /\ Unlink(h).dns \subseteq h.dns
  BY DEF Host, Unlink

LEMMA LinkLeftStep ==
  ASSUME TypeOK, LinkLeft, Next
  PROVE  LinkLeft'
<1> host \in Host /\ conn \in Conn /\ cfg \in Config /\ None \notin Names
  BY TunnelAssumption DEF TypeOK, TunnelAssumption
<1> USE DEF LinkLeft, Linked, UpSteps, DownSteps, Host, Conn, After, Took, Answers
<1>1. CASE UpStart \/ UpDisarm \/ UpArm
  BY <1>1 DEF UpStart, UpDisarm, Disarm, UpArm, Armed, NoConn
<1>2. CASE UpCreateTUN
  BY <1>2 DEF UpCreateTUN, Unwind, Names
<1>3. CASE UpDevice
  <2>1. CASE host' = host /\ conn' = [conn EXCEPT !.engine = TRUE] /\ pc' \in {"redisarm", "address"}
    BY <1>3, <2>1 DEF UpDevice
  <2>2. CASE host' = Unlink(host) /\ Unwind
    BY <2>2, Unlinked DEF Unwind
  <2> QED
    BY <1>3, <2>1, <2>2 DEF UpDevice
<1>4. CASE UpRedisarm \/ UpRearm \/ UpAddress \/ UpPin
  BY <1>4 DEF UpRedisarm, Disarm, UpRearm, Armed, UpAddress, UpPin, Unwind
<1>5. CASE UpMarkRule \/ UpSuppressRule \/ UpSysctl \/ UpRoutesOn \/ UpUnmark \/ UpConnmark
  BY <1>5 DEF UpMarkRule, UpSuppressRule, UpSysctl, FamilyDone, Unwind, UpRoutesOn, UpUnmark, UpConnmark
<1>6. CASE UpTableRoute
  BY <1>6 DEF UpTableRoute, FamilyDone, Unwind
<1>7. CASE UpDNS
  <2>1. /\ pc = "dns" /\ pc' \in {"up", "t_dns"} /\ conn'.iface = conn.iface /\ conn'.engine = conn.engine
        /\ host'.link = host.link /\ host'.routes = host.routes
    BY <1>7 DEF UpDNS, Unwind
  <2>2. "resolvectl" \in host'.dns /\ "resolvectl" \notin host.dns => host.link = conn.iface
    BY <1>7 DEF UpDNS, Backends
  <2> QED
    BY <2>1, <2>2
<1>8. CASE DownStart \/ TearDNS \/ TearConnmark \/ TearRoutes
  BY <1>8 DEF DownStart, TearDNS, TearConnmark, TearRoutes, Note
<1>9. CASE TearMarkRule \/ TearSuppressRule \/ TearPin
  BY <1>9 DEF TearMarkRule, TearSuppressRule, TearPin, Note
<1>10. CASE TearEngine \/ TearGuard \/ Crash
  <2>1. CASE TearGuard
    BY <2>1 DEF TearGuard, Note, NoConn
  <2>2. CASE Crash
    BY <2>2, Unlinked DEF Crash, NoConn
  <2>3. CASE TearEngine
    <3>1. host' = Unlink(host) \/ (~conn.engine /\ host' = host)
      BY <2>3 DEF TearEngine
    <3>2. pc = "t_engine" /\ pc' = "t_guard" /\ conn'.iface = conn.iface
      BY <2>3 DEF TearEngine
    <3> QED
      BY <3>1, <3>2, Unlinked
  <2> QED
    BY <1>10, <2>1, <2>2, <2>3
<1> QED
  BY <1>1, <1>2, <1>3, <1>4, <1>5, <1>6, <1>7, <1>8, <1>9, <1>10 DEF Next, UpStep, DownStep

LEMMA UpLeftStep ==
  ASSUME TypeOK, LinkLeft, LeftInv, Next, clean', Results = {"ok"}
  PROVE  UpLeft'
<1> host \in Host /\ conn \in Conn /\ cfg \in Config /\ fam \in Families
  BY DEF TypeOK
<1> USE DEF LeftInv, UpLeft, Marked, Suppressed, UpSteps, DownSteps, Host, Conn, After, Took, Answers
<1>1. CASE UpStart
  <2>1. pc' = "disarm" /\ call' = "up" /\ conn' = NoConn /\ host' = CleanHost
    BY <1>1, Zenon DEF UpStart
  <2> QED
    BY <2>1 DEF CleanHost, NoConn
<1>2. CASE UpDisarm
  <2>1. host = CleanHost /\ conn = NoConn /\ call = "up"
    BY <1>2 DEF UpDisarm, Disarm
  <2>2. pc' = "arm" /\ host' = CleanHost /\ conn' = NoConn /\ call' = "up"
    BY <1>2, <2>1 DEF UpDisarm, Disarm, CleanHost
  <2> QED
    BY <2>2 DEF CleanHost, NoConn
<1>3. CASE UpArm
  BY <1>3 DEF UpArm, Armed, NoConn, CleanHost
<1>4. CASE UpCreateTUN
  BY <1>4 DEF UpCreateTUN, Unwind
<1>5. CASE UpDevice
  BY <1>5 DEF UpDevice, Unwind, Unlink
<1>6. CASE UpRedisarm \/ UpRearm
  BY <1>6 DEF UpRedisarm, Disarm, UpRearm, Armed, Unwind
<1>7. CASE UpAddress
  BY <1>7 DEF UpAddress, Unwind
<1>8. CASE UpPin
  BY <1>8 DEF UpPin, Unwind
<1>9. CASE UpMarkRule
  BY <1>9 DEF UpMarkRule, Unwind
<1>10. CASE UpSuppressRule
  BY <1>10 DEF UpSuppressRule, Unwind
<1>11. CASE UpTableRoute
  BY <1>11 DEF UpTableRoute, Unwind, FamilyDone
<1>12. CASE UpSysctl
  BY <1>12 DEF UpSysctl, Unwind, FamilyDone
<1>13. CASE UpRoutesOn
  BY <1>13 DEF UpRoutesOn
<1>14. CASE UpUnmark
  BY <1>14 DEF UpUnmark
<1>15. CASE UpConnmark
  <2>1. host' = [host EXCEPT !.connmark = TRUE] /\ conn' = [conn EXCEPT !.connmarkOn = TRUE]
    BY <1>15 DEF UpConnmark
  <2> QED
    BY <1>15, <2>1 DEF UpConnmark
<1>16. CASE UpDNS
  <2>1. UpLeft /\ pc = "dns" /\ call' = call /\ UNCHANGED <<cfg, fam>>
    BY <1>16 DEF UpDNS
  <2>2. CASE pc' = "t_dns"
    BY <2>2
  <2>3. CASE pc' # "t_dns"
    <3>1. pc' = "up" /\ conn' \in {[conn EXCEPT !.dnsOn = TRUE], [conn EXCEPT !.dnsOn = TRUE, !.dnsApplied = TRUE]}
      BY <1>16, <2>3 DEF UpDNS, Unwind
    <3>2. host'.dns \subseteq IF conn'.dnsApplied THEN {cfg.dns} ELSE {}
      <4>1. host.dns = {} /\ ~conn.dnsApplied
        BY <2>1
      <4>2. \/ host' = host
            \/ /\ host' = [host EXCEPT !.dns = @ \union {cfg.dns}]
               /\ conn' = [conn EXCEPT !.dnsOn = TRUE, !.dnsApplied = TRUE]
        BY <1>16, <2>3 DEF UpDNS, Unwind
      <4> QED
        BY <4>1, <4>2
    <3>3. host' = [host EXCEPT !.dns = host'.dns]
      BY <1>16, <2>3 DEF UpDNS, Unwind
    <3> QED
      BY <2>1, <3>1, <3>2, <3>3
  <2> QED
    BY <2>2, <2>3
<1>17. CASE DownStart \/ DownStep \/ Crash
  <2>1. pc' \notin UpSteps \union {"up"}
    BY <1>17 DEF DownStart, DownStep, TearDNS, TearConnmark, TearRoutes, TearMarkRule,
         TearSuppressRule, TearPin, TearEngine, TearGuard, Crash
  <2> QED
    BY <2>1
<1> QED
  BY <1>1, <1>2, <1>3, <1>4, <1>5, <1>6, <1>7, <1>8, <1>9, <1>10, <1>11, <1>12, <1>13, <1>14,
     <1>15, <1>16, <1>17 DEF Next, UpStep

LEMMA DownLeftStep ==
  ASSUME TypeOK, LinkLeft, LeftInv, Next, clean', Results = {"ok"}
  PROVE  DownLeft'
<1> host \in Host /\ conn \in Conn /\ cfg \in Config /\ fam \in Families
  BY DEF TypeOK
<1> USE DEF DownLeft, UpSteps, DownSteps, Host, Conn, After, Took, Answers
<1>1. CASE UpStart \/ UpStep \/ Crash
  <2>1. CASE UpStart \/ Crash
    BY <2>1 DEF UpStart, Crash
  <2>2. CASE UpStep
    <3>1. pc' # "idle" => UpLeft /\ pc \in UpSteps /\ UNCHANGED call
      BY <2>2 DEF LeftInv, UpStep, UpDisarm, Disarm, UpArm, UpCreateTUN, UpDevice, UpRedisarm, UpRearm,
           UpAddress, UpPin, UpMarkRule, UpSuppressRule, UpTableRoute, UpSysctl, UpRoutesOn,
           UpUnmark, UpConnmark, UpDNS, Unwind, FamilyDone
    <3> QED
      BY <3>1 DEF UpLeft
  <2> QED
    BY <1>1, <2>1, <2>2
<1>2. CASE DownStart
  <2>1. UpLeft /\ pc = "up" /\ pc' = "t_dns" /\ UNCHANGED <<host, conn, cfg>>
    BY <1>2 DEF DownStart, LeftInv
  <2>2. Marked = conn.applied /\ Suppressed = conn.applied
    BY <2>1 DEF Marked, Suppressed
  <2> QED
    BY <2>1, <2>2 DEF UpLeft
<1>3. CASE TearDNS
  <2>1. clean /\ DownLeft /\ pc = "t_dns" /\ pc' = "t_connmark" /\ conn' = [conn EXCEPT !.dnsOn = FALSE]
        /\ UNCHANGED <<cfg, call>>
    BY <1>3 DEF TearDNS, LeftInv
  <2>2. call = "down" => host'.dns = {} /\ \E x \in SUBSET Backends : host' = [host EXCEPT !.dns = x]
    BY <1>3, <2>1 DEF TearDNS, LinkLeft, Note
  <2> QED
    BY <2>1, <2>2
<1>4. CASE TearConnmark
  BY <1>4 DEF TearConnmark, Note, LeftInv
<1>5. CASE TearRoutes
  BY <1>5 DEF TearRoutes, LeftInv
<1>6. CASE TearMarkRule
  <2>1. PICK f \in todo :
          /\ fam' = f
          /\ host' = IF <<f, cfg.mark>> \in host.mark
                     THEN [host EXCEPT !.mark = @ \ {<<f, cfg.mark>>}] ELSE host
    BY <1>6 DEF TearMarkRule
  <2>2. host'.mark = host.mark \ {<<f, cfg.mark>>}
    BY <2>1
  <2> QED
    BY <1>6, <2>1, <2>2 DEF TearMarkRule, LeftInv
<1>7. CASE TearSuppressRule
  BY <1>7 DEF TearSuppressRule, Note, LeftInv
<1>8. CASE TearPin
  BY <1>8 DEF TearPin, Note, LeftInv
<1>9. CASE TearEngine
  BY <1>9 DEF TearEngine, Unlink, LeftInv
<1>10. CASE TearGuard
  BY <1>10 DEF TearGuard
<1> QED
  BY <1>1, <1>2, <1>3, <1>4, <1>5, <1>6, <1>7, <1>8, <1>9, <1>10 DEF Next, DownStep

(* Down returns with the guard removed or gone, and nothing else left.     *)
LEMMA CompleteStep ==
  ASSUME TypeOK, LinkLeft, LeftInv, TeardownComplete, Next
  PROVE  TeardownComplete'
<1> SUFFICES ASSUME pc' = "idle", last' \in {"downOk", "downErr"}, clean', Results = {"ok"}
             PROVE  host' = CleanHost
  BY DEF TeardownComplete
<1> host \in Host /\ conn \in Conn
  BY DEF TypeOK
<1>1. TearGuard
  BY DEF Next, UpStart, UpStep, UpDisarm, Disarm, UpArm, UpCreateTUN, UpDevice, UpRedisarm, UpRearm,
       UpAddress, UpPin, UpMarkRule, UpSuppressRule, UpTableRoute, UpSysctl, UpRoutesOn,
       UpUnmark, UpConnmark, UpDNS, Unwind, FamilyDone, DownStart, DownStep, TearDNS, TearConnmark,
       TearRoutes, TearMarkRule, TearSuppressRule, TearPin, TearEngine, Crash
<1>2. pc = "t_guard" /\ call = "down" /\ clean
  BY <1>1 DEF TearGuard, TypeOK
<1>3. /\ conn.guardOn /\ host.dns = {} /\ ~host.connmark /\ host.mark = {} /\ host.suppress = {}
      /\ ~host.pin
  BY <1>2 DEF LeftInv, DownLeft, DownSteps
<1>4. host.link = None /\ host.routes = {}
  BY <1>2 DEF LinkLeft
<1>5. host' = [host EXCEPT !.guard6 = {}]
  BY <1>1, <1>3 DEF TearGuard, Answers, After, Took, Host
<1>6. /\ host' \in Host /\ host'.guard6 = {} /\ host'.dns = {} /\ ~host'.connmark /\ host'.mark = {}
      /\ host'.suppress = {} /\ ~host'.pin /\ host'.link = None /\ host'.routes = {}
  BY <1>3, <1>4, <1>5 DEF Host
<1> QED
  BY <1>6, HostIsClean

(* A command of a cleanup takes away at most.                              *)
Fewer(g, h) ==
  /\ g.guard6 \subseteq h.guard6 /\ (g.connmark => h.connmark) /\ g.mark \subseteq h.mark
  /\ g.suppress \subseteq h.suppress /\ g.pin = h.pin /\ g.dns \subseteq h.dns
  /\ g.link \in {None, h.link} /\ g.routes \subseteq h.routes
  /\ g.link # h.link => g.routes = {} /\ "resolvectl" \notin g.dns

LEMMA CleanupTakes ==
  ASSUME TypeOK, Cleanup
  PROVE  /\ host' \in Host /\ Fewer(host', host)
         /\ UNCHANGED <<conn, cfg, pc, call, todo, fam, tdErr, last, clean>>
<1>1. host \in Host /\ Fewer(host, host)
  <2>1. host \in Host
    BY DEF TypeOK
  <2>2. Fewer(host, host)
    BY <2>1 DEF Fewer, Host
  <2> QED
    BY <2>1, <2>2
<1>2. ASSUME NEW pre, NEW h \in Host, Fewer(h, host), NEW next, NEW failed, Command(pre, h, next, failed)
      PROVE  /\ host' \in Host /\ Fewer(host', host)
             /\ UNCHANGED <<conn, cfg, pc, call, todo, fam, tdErr, last, clean>>
  BY <1>1, <1>2 DEF Command, After
<1>3. CASE DisconnectStart \/ RecoverStart
  <2>1. UNCHANGED vars
    BY <1>3 DEF DisconnectStart, RecoverStart
  <2> QED
    BY <1>1, <2>1 DEF vars
<1>4. CASE RemoveLink
  <2>1. Unlink(host) \in Host /\ Fewer(Unlink(host), host)
    BY <1>1, UnlinkHost, Unlinked DEF Fewer
  <2>2. Command(host.link = Intended, Unlink(host), "guard",
                IF cleaner = "disconnect" THEN "off" ELSE "guard")
    BY <1>4 DEF RemoveLink
  <2> QED
    BY <1>2, <2>1, <2>2
<1>5. CASE RemoveGuard
  <2> DEFINE h == [host EXCEPT !.guard6 = {}]
  <2>1. h \in Host /\ Fewer(h, host)
    BY <1>1 DEF Fewer, Host
  <2>2. Command(host.guard6 # {}, h, "connmark", "connmark")
    BY <1>5 DEF RemoveGuard
  <2> QED
    BY <1>2, <2>1, <2>2
<1>6. CASE RemoveConnmark
  <2> DEFINE h == [host EXCEPT !.connmark = FALSE]
             step == IF cleaner = "disconnect" THEN "off" ELSE "rules"
  <2>1. h \in Host /\ Fewer(h, host)
    BY <1>1 DEF Fewer, Host
  <2>2. Command(host.connmark, h, step, step)
    BY <1>6 DEF RemoveConnmark
  <2> QED
    BY <1>2, <2>1, <2>2
<1>7. CASE RemoveRule
  <2> DEFINE rule == <<RuleFamily, DefaultMark>>
             fewer == [host EXCEPT !.mark = @ \ {rule}]
             bare == [host EXCEPT !.suppress = @ \ {RuleFamily}]
             step == IF ruled' = 4 * rounds THEN "flush" ELSE "rules"
  <2>1. fewer \in Host /\ Fewer(fewer, host) /\ bare \in Host /\ Fewer(bare, host)
    BY <1>1 DEF Fewer, Host
  <2>2. Command(rule \in host.mark, fewer, step, step)
        \/ Command(RuleFamily \in host.suppress, bare, step, step)
    BY <1>7 DEF RemoveRule
  <2> QED
    BY <1>2, <2>1, <2>2
<1>8. CASE FlushTable
  <2> DEFINE h == IF cfg.mark = DefaultMark THEN [host EXCEPT !.routes = @ \ {"v4"}] ELSE host
  <2>1. h \in Host /\ Fewer(h, host)
    BY <1>1 DEF Fewer, Host
  <2>2. Command(TRUE, h, "off", "off")
    BY <1>8 DEF FlushTable
  <2> QED
    BY <1>2, <2>1, <2>2
<1> QED
  BY <1>3, <1>4, <1>5, <1>6, <1>7, <1>8 DEF Cleanup

LEMMA FewerIsClean ==
  ASSUME NEW g \in Host, Fewer(g, CleanHost)
  PROVE  g = CleanHost
<1>1. /\ g.guard6 = {} /\ ~g.connmark /\ g.mark = {} /\ g.suppress = {} /\ ~g.pin /\ g.dns = {}
      /\ g.link = None /\ g.routes = {}
  BY DEF Fewer, CleanHost, Host
<1> QED
  BY <1>1, HostIsClean

LEMMA CleanupLeaves ==
  ASSUME TearInv, Cleanup
  PROVE  TearInv'
<1>1. /\ host \in Host /\ host' \in Host /\ Fewer(host', host)
      /\ UNCHANGED <<conn, cfg, pc, call, todo, fam, tdErr, last, clean>>
  BY CleanupTakes DEF TearInv, TypeOK
<1>2. TypeOK'
  BY <1>1 DEF TearInv, TypeOK
<1>3. LinkLeft'
  BY <1>1 DEF TearInv, LinkLeft, Fewer
<1>4. host = CleanHost => host' = CleanHost
  BY <1>1, FewerIsClean
<1>5. LeftInv'
  <2> SUFFICES ASSUME clean', Results = {"ok"} PROVE UpLeft' /\ DownLeft'
    BY DEF LeftInv
  <2>1. UpLeft /\ DownLeft
    BY <1>1 DEF TearInv, LeftInv
  <2>2. Marked' = Marked /\ Suppressed' = Suppressed
    BY <1>1 DEF Marked, Suppressed
  <2>3. UpLeft'
    BY <1>1, <1>4, <2>1, <2>2 DEF UpLeft, Fewer
  <2>4. DownLeft'
    BY <1>1, <2>1 DEF DownLeft, Fewer
  <2> QED
    BY <2>3, <2>4
<1>6. TeardownComplete'
  BY <1>1, <1>4 DEF TearInv, TeardownComplete
<1> QED
  BY <1>2, <1>3, <1>5, <1>6 DEF TearInv

(* For any names, marks and profiles, and however many disconnects and     *)
(* recovers put their commands, one at a time, between any two of its own: *)
(* a connect.Down that has returned has taken off the host all that its    *)
(* connect.Up applied, where commands fail only if the kernel refuses them.*)
THEOREM TeardownIsComplete == CleanupSpec => []TeardownComplete
<1>1. CleanupInit => TearInv
  <2> SUFFICES ASSUME CleanupInit PROVE TearInv
    OBVIOUS
  <2>1. IInv /\ host = CleanHost /\ pc = "idle" /\ last = "none"
    BY InitHolds DEF CleanupInit, Init
  <2> QED
    BY <2>1
    DEF TearInv, IInv, LinkLeft, LeftInv, UpLeft, DownLeft, TeardownComplete, CleanHost, Linked,
        UpSteps, DownSteps
<1>2. TearInv /\ [CleanupNext]_cleanupVars => TearInv'
  <2> SUFFICES ASSUME TearInv, [CleanupNext]_cleanupVars PROVE TearInv'
    OBVIOUS
  <2>1. CASE Connection
    <3>1. Next /\ TypeOK /\ LinkLeft /\ LeftInv /\ TeardownComplete
      BY <2>1 DEF Connection, TearInv
    <3>2. TypeOK'
      BY <3>1, HostTyped, ConnTyped, RestTyped DEF LinkLeft, Linked, TypeOK
    <3>3. LeftInv'
      BY <3>1, UpLeftStep, DownLeftStep DEF LeftInv
    <3> QED
      BY <3>1, <3>2, <3>3, LinkLeftStep, CompleteStep DEF TearInv
  <2>2. CASE Cleanup
    BY <2>2, CleanupLeaves
  <2>3. CASE UNCHANGED cleanupVars
    BY <2>3 DEF cleanupVars, vars, TearInv, TypeOK, LinkLeft, LeftInv, UpLeft, DownLeft, Marked,
         Suppressed, TeardownComplete
  <2> QED
    BY <2>1, <2>2, <2>3 DEF CleanupNext
<1>3. TearInv => TeardownComplete
  BY DEF TearInv
<1> QED
  BY <1>1, <1>2, <1>3, PTL DEF CleanupSpec

=============================================================================
