---------------------------- MODULE TunnelProofs ----------------------------
(***************************************************************************)
(* Proofs about Tunnel, for any names, marks, profiles and results of the  *)
(* commands: its type invariant; that the interface is never up under its  *)
(* intended name without the guard (GuardedTunnel); that connect.Up hands  *)
(* out complete connections only (Complete); and that, when the kernel     *)
(* gives the interface the name it is asked for, connect.Up and            *)
(* connect.Down implement the order of FailClosed.                         *)
(*                                                                         *)
(* The argument follows pc.  LinkInv says which steps the interface, its   *)
(* engine and the guard exist in; LayersInv says what each later step of   *)
(* Up may rely on being in the kernel already.  Both are inductive given   *)
(* the types.                                                              *)
(***************************************************************************)
EXTENDS Tunnel, TLAPS

(* Steps at which the TUN interface exists, the guard knows its real name, *)
(* and the route to the server is pinned; and the loop over the families.  *)
Linked == {"device", "redisarm", "rearm", "address", "pin", "families", "suppress",
           "route", "sysctl", "unmark", "mark", "dns", "up"}

Guarded == Linked \ {"device", "redisarm", "rearm"}

Pinned == Guarded \ {"address", "pin"}

Routing == {"families", "suppress", "route", "sysctl"}

(* The interface lives from UpCreateTUN to TearEngine, and is the one conn *)
(* names; it is created under the guard, which is taken away again only    *)
(* from an interface of another name, or from none.                        *)
LinkInv ==
  /\ pc \in {"idle", "disarm", "arm", "tun", "t_guard"} => host.link = None
  /\ pc \in Linked => conn.iface \in Names /\ host.link = conn.iface
  /\ pc \in Linked \ {"device"} => conn.engine
  /\ pc \in DownSteps \ {"t_guard"} => (host.link # None => conn.engine)
  /\ host.link \in {None, conn.iface}
  /\ pc \in {"redisarm", "rearm"} => conn.iface # Intended
  /\ pc = "tun" => Intended \in host.guard6
  /\ GuardedTunnel

Routed(f) == <<f, cfg.mark>> \in host.mark /\ f \in host.suppress /\ f \in host.routes

(* Up goes on only when a layer is in the kernel, so each step finds there *)
(* all the layers that the steps before it have added.                     *)
LayersInv ==
  /\ pc \in Guarded => conn.iface \in host.guard6
  /\ pc \in Pinned => (cfg.pin => host.pin)
  /\ pc \in Routing => \A f \in cfg.full \ todo : Routed(f)
  /\ pc \in Pinned \ Routing => \A f \in cfg.full : Routed(f)
  /\ pc \in Routing \ {"families"} => <<fam, cfg.mark>> \in host.mark
  /\ pc \in {"route", "sysctl"} => fam \in host.suppress
  /\ pc = "sysctl" => fam \in host.routes
  /\ pc = "up" => (cfg.dns \in Backends => cfg.dns \in host.dns)

IInv == TypeOK /\ LinkInv /\ LayersInv

-----------------------------------------------------------------------------
(***************************************************************************)
(* Types.                                                                  *)
(***************************************************************************)

(* A host stays a host when one of its layers changes.                     *)
LEMMA HostUpdate ==
  ASSUME NEW h \in Host
  PROVE  /\ \A x \in SUBSET Names : [h EXCEPT !.guard6 = x] \in Host
         /\ \A x \in BOOLEAN : [h EXCEPT !.connmark = x] \in Host
         /\ \A x \in SUBSET (Families \X Marks) : [h EXCEPT !.mark = x] \in Host
         /\ \A x \in SUBSET Families : [h EXCEPT !.suppress = x] \in Host
         /\ \A x \in BOOLEAN : [h EXCEPT !.pin = x] \in Host
         /\ \A x \in SUBSET Backends : [h EXCEPT !.dns = x] \in Host
         /\ \A x \in Names \union {None} : [h EXCEPT !.link = x] \in Host
         /\ \A x \in SUBSET Families : [h EXCEPT !.routes = x] \in Host
  BY DEF Host

(* The types of its layers.                                                *)
LEMMA HostField ==
  ASSUME NEW h \in Host
  PROVE  /\ h.guard6 \in SUBSET Names /\ h.connmark \in BOOLEAN
         /\ h.mark \in SUBSET (Families \X Marks) /\ h.suppress \in SUBSET Families
         /\ h.pin \in BOOLEAN /\ h.dns \in SUBSET Backends
         /\ h.link \in Names \union {None} /\ h.routes \in SUBSET Families
  BY DEF Host

(* A host that loses its interface is a host.                              *)
LEMMA UnlinkHost == ASSUME NEW h \in Host PROVE Unlink(h) \in Host
<1>1. [h EXCEPT !.link = None] \in Host
  BY HostUpdate
<1>2. \A k \in Host : [k EXCEPT !.routes = {}] \in Host
  BY HostUpdate
<1>3. \A k \in Host : [k EXCEPT !.dns = @ \ {"resolvectl"}] \in Host
  BY HostUpdate, HostField
<1> QED
  BY <1>1, <1>2, <1>3 DEF Unlink

(* A connection stays one when one of its flags changes.                   *)
LEMMA ConnUpdate ==
  ASSUME NEW c \in Conn
  PROVE  /\ \A b \in BOOLEAN :
              /\ [c EXCEPT !.guardOn = b] \in Conn
              /\ [c EXCEPT !.engine = b] \in Conn
              /\ [c EXCEPT !.connmarkOn = b] \in Conn
              /\ [c EXCEPT !.routesOn = b] \in Conn
              /\ [c EXCEPT !.pinned = b] \in Conn
              /\ [c EXCEPT !.dnsOn = b] \in Conn
              /\ [c EXCEPT !.dnsApplied = b] \in Conn
         /\ \A n \in Names : [c EXCEPT !.iface = n] \in Conn
         /\ \A f \in Families : [c EXCEPT !.applied = c.applied \union {f}] \in Conn
  BY DEF Conn

(* The connection Up starts from, and Down ends with, is one.              *)
LEMMA NoConnTyped == NoConn \in Conn
  BY DEF Conn, NoConn

(* No operation spoils the flags of the connection.                        *)
LEMMA ConnTyped ==
  ASSUME TypeOK, Next
  PROVE  conn' \in Conn
<1> conn \in Conn /\ fam \in Families
  BY DEF TypeOK
<1>1. CASE UpStart
  BY <1>1, NoConnTyped DEF UpStart
<1>2. CASE UpArm
  BY <1>2, NoConnTyped, ConnUpdate DEF UpArm
<1>3. CASE UpCreateTUN
  BY <1>3, ConnUpdate DEF UpCreateTUN, Names
<1>4. CASE UpDevice
  BY <1>4, ConnUpdate DEF UpDevice
<1>5. CASE UpPin
  BY <1>5, ConnUpdate DEF UpPin
<1>6. CASE UpTableRoute
  BY <1>6, ConnUpdate DEF UpTableRoute, FamilyDone
<1>7. CASE UpSysctl
  BY <1>7, ConnUpdate DEF UpSysctl, FamilyDone
<1>8. CASE UpRoutesOn
  BY <1>8, ConnUpdate DEF UpRoutesOn
<1>9. CASE UpConnmark
  BY <1>9, ConnUpdate DEF UpConnmark
<1>10. CASE UpDNS
  <2>1. \A c \in Conn : [c EXCEPT !.dnsOn = TRUE, !.dnsApplied = TRUE] \in Conn
    BY ConnUpdate
  <2> QED
    BY <1>10, <2>1, ConnUpdate DEF UpDNS
<1>11. CASE TearDNS \/ TearConnmark
  BY <1>11, ConnUpdate DEF TearDNS, TearConnmark
<1>12. CASE TearPin
  <2>1. \A c \in Conn : [c EXCEPT !.pinned = FALSE, !.routesOn = FALSE] \in Conn
    BY ConnUpdate
  <2> QED
    BY <1>12, <2>1 DEF TearPin
<1>13. CASE TearEngine
  BY <1>13, ConnUpdate DEF TearEngine
<1>14. CASE TearGuard \/ Crash
  BY <1>14, NoConnTyped DEF TearGuard, Crash
<1>15. CASE \/ UpDisarm \/ UpRedisarm \/ UpRearm \/ UpAddress \/ UpMarkRule
            \/ UpSuppressRule \/ UpUnmark \/ DownStart \/ TearRoutes
            \/ TearMarkRule \/ TearSuppressRule
  BY <1>15 DEF UpDisarm, UpRedisarm, Disarm, UpRearm, UpAddress, UpMarkRule,
     UpSuppressRule, UpUnmark, DownStart, TearRoutes, TearMarkRule, TearSuppressRule
<1> QED
  BY <1>1, <1>2, <1>3, <1>4, <1>5, <1>6, <1>7, <1>8, <1>9, <1>10, <1>11, <1>12,
     <1>13, <1>14, <1>15 DEF Next, UpStep, DownStep

(* No command spoils the state of the host; the guard is re-affirmed for   *)
(* an interface that has a name.                                           *)
LEMMA HostTyped ==
  ASSUME TypeOK, Next, pc = "rearm" => conn.iface \in Names
  PROVE  host' \in Host
<1> host \in Host /\ conn \in Conn /\ cfg \in Config /\ fam \in Families
  BY DEF TypeOK
<1>1. CASE UpDisarm \/ UpRedisarm 
  BY <1>1, HostUpdate DEF UpDisarm, UpRedisarm, Disarm, After
<1>2. CASE UpArm
  BY <1>2, HostUpdate, HostField DEF UpArm, After, Armed, Names
<1>3. CASE UpCreateTUN
  BY <1>3, HostUpdate DEF UpCreateTUN, Names
<1>4. CASE UpDevice
  BY <1>4, UnlinkHost DEF UpDevice
<1>5. CASE UpRearm
  <2>1. conn.iface \in Names
    BY <1>5 DEF UpRearm
  <2> QED
    BY <1>5, <2>1, HostUpdate, HostField DEF UpRearm, After, Armed
<1>6. CASE UpPin
  BY <1>6, HostUpdate DEF UpPin, After
<1>7. CASE UpMarkRule
  <2>1. PICK f \in Families :
          host' \in {host, [host EXCEPT !.mark = host.mark \union {<<f, cfg.mark>>}]}
    BY <1>7 DEF UpMarkRule, After, Families
  <2> QED
    BY <2>1, HostUpdate, HostField DEF Config
<1>8. CASE UpSuppressRule
  BY <1>8, HostUpdate, HostField DEF UpSuppressRule, After
<1>9. CASE UpTableRoute
  BY <1>9, HostUpdate, HostField DEF UpTableRoute, After
<1>10. CASE UpUnmark \/ UpConnmark
  BY <1>10, HostUpdate DEF UpUnmark, UpConnmark, After
<1>11. CASE UpDNS
  BY <1>11, HostUpdate, HostField DEF UpDNS, After
<1>12. CASE TearDNS
  BY <1>12, HostUpdate, HostField DEF TearDNS, After
<1>13. CASE TearConnmark
  BY <1>13, HostUpdate DEF TearConnmark, After
<1>14. CASE TearMarkRule
  <2>1. PICK f \in todo :
          host' \in {host, [host EXCEPT !.mark = host.mark \ {<<f, cfg.mark>>}]}
    BY <1>14 DEF TearMarkRule, After
  <2> QED
    BY <2>1, HostUpdate, HostField
<1>15. CASE TearSuppressRule
  BY <1>15, HostUpdate, HostField DEF TearSuppressRule, After
<1>16. CASE TearPin
  BY <1>16, HostUpdate DEF TearPin, After
<1>17. CASE TearEngine \/ Crash
  BY <1>17, UnlinkHost DEF TearEngine, Crash
<1>18. CASE TearGuard
  BY <1>18, HostUpdate DEF TearGuard, After
<1>19. CASE UpStart \/ UpAddress \/ UpSysctl \/ UpRoutesOn \/ DownStart \/ TearRoutes
  BY <1>19 DEF UpStart, UpAddress, UpSysctl, UpRoutesOn, DownStart, TearRoutes
<1> QED
  BY <1>1, <1>2, <1>3, <1>4, <1>5, <1>6, <1>7, <1>8, <1>9, <1>10, <1>11, <1>12,
     <1>13, <1>14, <1>15, <1>16, <1>17, <1>18, <1>19 DEF Next, UpStep, DownStep

(* Nor the arguments, the control state and the history.                   *)
LEMMA RestTyped ==
  ASSUME TypeOK, Next
  PROVE  /\ cfg' \in Config
         /\ pc' \in Steps \union {"idle", "up"}
         /\ call' \in {"up", "down"}
         /\ todo' \in SUBSET Families
         /\ fam' \in Families
         /\ last' \in Outcomes
         /\ tdErr' \in BOOLEAN /\ clean' \in BOOLEAN
<1> USE DEF Next, UpStep, DownStep, UpStart, UpDisarm, UpRedisarm, Disarm, UpArm,
            UpCreateTUN, UpDevice, UpRearm, UpAddress, UpPin, UpMarkRule,
            UpSuppressRule, UpTableRoute, UpSysctl, FamilyDone, UpRoutesOn,
            UpUnmark, UpConnmark, UpDNS, Unwind, DownStart, TearDNS, TearConnmark,
            TearRoutes, TearMarkRule, TearSuppressRule, TearPin, TearEngine,
            TearGuard, Note, Crash
<1>1. cfg' \in Config
  BY TunnelAssumption DEF TypeOK, TunnelAssumption
<1>2. pc' \in Steps \union {"idle", "up"}
  BY DEF Steps, UpSteps, DownSteps
<1>3. call' \in {"up", "down"}
  BY DEF TypeOK
<1>4. todo' \in SUBSET Families
  BY DEF TypeOK, Config, Conn
<1>5. fam' \in Families
  BY DEF TypeOK, Families
<1>6. last' \in Outcomes
  BY DEF TypeOK, Outcomes
<1>7. tdErr' \in BOOLEAN /\ clean' \in BOOLEAN
  BY DEF TypeOK
<1> QED
  BY <1>1, <1>2, <1>3, <1>4, <1>5, <1>6, <1>7

-----------------------------------------------------------------------------
(***************************************************************************)
(* The interface and its guard.                                            *)
(***************************************************************************)

(* A host that has never been touched has neither interface nor guard.     *)
LEMMA LinkInit == Init => LinkInv
  BY TunnelAssumption
  DEF Init, LinkInv, CleanHost, NoConn, GuardedTunnel, Names, TunnelAssumption,
      Linked, DownSteps

(* Every command keeps LinkInv, also one that fails or seems to.           *)
LEMMA LinkStep ==
  ASSUME TypeOK, LinkInv, Next
  PROVE  LinkInv'
<1> host \in Host /\ conn \in Conn
  BY DEF TypeOK
<1>1. None \notin Names /\ Intended \in Names
  BY TunnelAssumption DEF TunnelAssumption, Names
<1> USE <1>1 DEF LinkInv, GuardedTunnel, Linked, DownSteps, Host, Conn, After
<1>2. CASE UpStart
  BY <1>2 DEF UpStart, NoConn
<1>3. CASE UpDisarm
  BY <1>3 DEF UpDisarm, Disarm
<1>4. CASE UpArm
  BY <1>4 DEF UpArm, Armed, NoConn, Took
<1>5. CASE UpCreateTUN
  BY <1>5 DEF UpCreateTUN, Unwind, Names
<1>6. CASE UpDevice
  BY <1>6 DEF UpDevice, Unwind, Unlink
<1>7. CASE UpRedisarm
  BY <1>7 DEF UpRedisarm, Disarm
<1>8. CASE UpRearm
  BY <1>8 DEF UpRearm, Armed, Unwind
<1>9. CASE UpAddress
  BY <1>9 DEF UpAddress, Unwind
<1>10. CASE UpPin
  BY <1>10 DEF UpPin, Unwind
<1>11. CASE UpMarkRule
  BY <1>11 DEF UpMarkRule, Unwind
<1>12. CASE UpSuppressRule
  BY <1>12 DEF UpSuppressRule, Unwind
<1>13. CASE UpTableRoute
  BY <1>13 DEF UpTableRoute, Unwind, FamilyDone
<1>14. CASE UpSysctl
  BY <1>14 DEF UpSysctl, Unwind, FamilyDone
<1>15. CASE UpRoutesOn
  BY <1>15 DEF UpRoutesOn
<1>16. CASE UpUnmark
  BY <1>16 DEF UpUnmark
<1>17. CASE UpConnmark
  BY <1>17 DEF UpConnmark
<1>18. CASE UpDNS
  BY <1>18 DEF UpDNS, Unwind
<1>19. CASE DownStart
  BY <1>19 DEF DownStart
<1>20. CASE TearDNS
  BY <1>20 DEF TearDNS
<1>21. CASE TearConnmark
  BY <1>21 DEF TearConnmark
<1>22. CASE TearRoutes
  BY <1>22 DEF TearRoutes
<1>23. CASE TearMarkRule
  BY <1>23 DEF TearMarkRule
<1>24. CASE TearSuppressRule
  BY <1>24 DEF TearSuppressRule
<1>25. CASE TearPin
  BY <1>25 DEF TearPin
<1>26. CASE TearEngine
  BY <1>26 DEF TearEngine, Unlink
<1>27. CASE TearGuard
  BY <1>27 DEF TearGuard, NoConn
<1>28. CASE Crash
  BY <1>28 DEF Crash, Unlink, NoConn
<1> QED
  BY <1>2, <1>3, <1>4, <1>5, <1>6, <1>7, <1>8, <1>9, <1>10, <1>11, <1>12,
     <1>13, <1>14, <1>15, <1>16, <1>17, <1>18, <1>19, <1>20, <1>21, <1>22,
     <1>23, <1>24, <1>25, <1>26, <1>27, <1>28
  DEF Next, UpStep, DownStep

-----------------------------------------------------------------------------
(***************************************************************************)
(* The layers of a connection.                                             *)
(***************************************************************************)

(* Nothing is relied on before Up has created the interface.               *)
LEMMA LayersInit == Init => LayersInv
  BY DEF Init, LayersInv, Guarded, Pinned, Routing, Linked

(* Every command keeps LayersInv: Up adds one layer and never takes one    *)
(* away, and a teardown, a crash or a failed command relies on none.       *)
LEMMA LayersStep ==
  ASSUME TypeOK, LinkInv, LayersInv, Next
  PROVE  LayersInv'
<1> host \in Host /\ conn \in Conn
  BY DEF TypeOK
<1> USE DEF LayersInv, Routed, Linked, Guarded, Pinned, Routing, Host, Conn, After
<1>1. CASE UpStart \/ UpDisarm \/ UpArm \/ UpCreateTUN \/ UpRedisarm
  BY <1>1 DEF UpStart, UpDisarm, UpArm, UpCreateTUN, UpRedisarm, Disarm, Unwind
<1>2. CASE UpDevice
  BY <1>2 DEF UpDevice, Unwind, LinkInv, GuardedTunnel
<1>3. CASE UpRearm
  BY <1>3 DEF UpRearm, Unwind, Armed, Took
<1>4. CASE UpAddress
  BY <1>4 DEF UpAddress, Unwind
<1>5. CASE UpPin
  BY <1>5 DEF UpPin, Unwind, Took
<1>6. CASE UpMarkRule
  BY <1>6 DEF UpMarkRule, Unwind, Took
<1>7. CASE UpSuppressRule
  BY <1>7 DEF UpSuppressRule, Unwind, Took
<1>8. CASE UpTableRoute
  BY <1>8 DEF UpTableRoute, Unwind, Took, FamilyDone
<1>9. CASE UpSysctl
  BY <1>9 DEF UpSysctl, Unwind, FamilyDone
<1>10. CASE UpRoutesOn
  BY <1>10 DEF UpRoutesOn
<1>11. CASE UpUnmark
  BY <1>11 DEF UpUnmark
<1>12. CASE UpConnmark
  BY <1>12 DEF UpConnmark
<1>13. CASE UpDNS
  <2>1. CASE cfg.dns = "off" \/ cfg.dns = "absent"
    BY <1>13, <2>1 DEF UpDNS, Unwind, Backends
  <2>2. CASE cfg.dns \in Backends
    <3>1. \/ pc' = "t_dns"
          \/ pc' = "up" /\ host' = [host EXCEPT !.dns = @ \union {cfg.dns}]
      BY <1>13, <2>2 DEF UpDNS, Unwind, Took, Backends
    <3> QED
      BY <1>13, <3>1 DEF UpDNS
  <2> QED
    BY <1>13, <2>1, <2>2 DEF UpDNS
<1>14. CASE DownStart \/ DownStep
  BY <1>14 DEF DownStart, DownStep, TearDNS, TearConnmark, TearRoutes, TearMarkRule,
     TearSuppressRule, TearPin, TearEngine, TearGuard
<1>15. CASE Crash
  BY <1>15 DEF Crash
<1> QED
  BY <1>1, <1>2, <1>3, <1>4, <1>5, <1>6, <1>7, <1>8, <1>9, <1>10, <1>11,
     <1>12, <1>13, <1>14, <1>15
  DEF Next, UpStep

-----------------------------------------------------------------------------
(***************************************************************************)
(* The theorems.                                                           *)
(***************************************************************************)

LEMMA InitHolds == Init => IInv
<1>1. Init => TypeOK
  <2> SUFFICES ASSUME Init PROVE TypeOK
    OBVIOUS
  <2>1. host \in Host
    BY DEF Init, CleanHost, Host
  <2>2. conn \in Conn
    BY NoConnTyped DEF Init
  <2>3. pc \in Steps \union {"idle", "up"} /\ call \in {"up", "down"} /\ todo \in SUBSET Families
    BY DEF Init
  <2>4. cfg \in Config /\ fam \in Families /\ last \in Outcomes
    BY TunnelAssumption DEF Init, TunnelAssumption, Families, Outcomes
  <2>5. tdErr \in BOOLEAN /\ clean \in BOOLEAN
    BY DEF Init
  <2> QED
    BY <2>1, <2>2, <2>3, <2>4, <2>5 DEF TypeOK
<1> QED
  BY <1>1, LinkInit, LayersInit DEF IInv

(* All of it is invariant.                                                 *)
LEMMA Invariance == Spec => []IInv
<1>1. IInv /\ [Next]_vars => IInv'
  <2> SUFFICES ASSUME IInv, [Next]_vars PROVE IInv'
    OBVIOUS
  <2>1. CASE Next
    <3>1. pc = "rearm" => conn.iface \in Names
      BY DEF IInv, LinkInv, Linked
    <3> QED
      BY <2>1, <3>1, HostTyped, ConnTyped, RestTyped, LinkStep, LayersStep DEF IInv, TypeOK
  <2>2. CASE UNCHANGED vars
    BY <2>2 DEF vars, IInv, TypeOK, LinkInv, GuardedTunnel, LayersInv, Routed
  <2> QED
    BY <2>1, <2>2
<1> QED
  BY InitHolds, <1>1, PTL DEF Spec

(* The variables keep to their types: no layer is ever recorded twice or   *)
(* under a name or mark that no profile has.                               *)
THEOREM TypeCorrect == Spec => []TypeOK
  BY Invariance, PTL DEF IInv

(* Up, in use, unwinding or going down: while the interface is there under *)
(* its intended name, the IPv6 guard is there and lets it out.             *)
THEOREM TunnelIsGuarded == Spec => []GuardedTunnel
<1>1. IInv => GuardedTunnel
  BY DEF IInv, LinkInv
<1> QED
  BY Invariance, <1>1, PTL

(* connect.Up returns complete connections only, whatever leftovers of     *)
(* earlier runs and failing commands it met.                               *)
THEOREM ConnectionsAreComplete == Spec => []Complete
<1>1. IInv => Complete
  BY DEF IInv, TypeOK, LinkInv, LayersInv, Routed, Complete, Linked, Guarded, Pinned, Routing
<1> QED
  BY Invariance, <1>1, PTL

(* A step of Up, of Down or of a crash is a step of FailClosed, or leaves  *)
(* guard, tunnel and use as they are.                                      *)
LEMMA FailClosedStep ==
  ASSUME RealNames = {Intended}, IInv, Next
  PROVE  [FC!Next]_(FC!fcVars)
<1> DEFINE armed == Intended \in host.guard6
           tunnel == host.link # None
           online == pc = "up"
<1> host \in Host /\ conn \in Conn /\ LinkInv
  BY DEF IInv, TypeOK
<1>1. Intended # None /\ Names = {Intended}
  BY TunnelAssumption DEF TunnelAssumption, Names
<1> USE <1>1 DEF Host, Conn, After, Linked, FC!Next, FC!fcVars
<1>2. CASE UpStart
  BY <1>2 DEF UpStart
<1>3. CASE UpDisarm
  BY <1>3 DEF UpDisarm, Disarm, LinkInv, FC!Disarm
<1>4. CASE UpArm
  BY <1>4 DEF UpArm, Armed, FC!Arm
<1>5. CASE UpCreateTUN
  BY <1>5 DEF UpCreateTUN, Unwind, LinkInv, FC!CreateTunnel
<1>6. CASE UpDevice
  BY <1>6 DEF UpDevice, Unwind, Unlink, FC!DestroyTunnel
<1>7. CASE UpRedisarm \/ UpRearm
  BY <1>7 DEF UpRedisarm, Disarm, UpRearm, LinkInv
<1>8. CASE UpAddress
  BY <1>8 DEF UpAddress, Unwind
<1>9. CASE UpPin
  BY <1>9 DEF UpPin, Unwind
<1>10. CASE UpMarkRule
  BY <1>10 DEF UpMarkRule, Unwind
<1>11. CASE UpSuppressRule
  BY <1>11 DEF UpSuppressRule, Unwind
<1>12. CASE UpTableRoute
  BY <1>12 DEF UpTableRoute, Unwind, FamilyDone
<1>13. CASE UpSysctl
  BY <1>13 DEF UpSysctl, Unwind, FamilyDone
<1>14. CASE UpRoutesOn \/ UpUnmark \/ UpConnmark
  BY <1>14 DEF UpRoutesOn, UpUnmark, UpConnmark
<1>15. CASE UpDNS
  <2>1. armed /\ tunnel
    BY <1>15 DEF UpDNS, LinkInv, GuardedTunnel
  <2>2. UNCHANGED <<host.link, host.guard6>> /\ pc' \in {"up", "t_dns"}
    BY <1>15 DEF UpDNS, Unwind
  <2> QED
    BY <1>15, <2>1, <2>2 DEF UpDNS, FC!GoOnline
<1>16. CASE DownStart
  BY <1>16 DEF DownStart, LinkInv, GuardedTunnel, FC!GoOffline
<1>17. CASE TearDNS \/ TearConnmark
  BY <1>17 DEF TearDNS, TearConnmark
<1>18. CASE TearRoutes \/ TearMarkRule \/ TearSuppressRule \/ TearPin
  BY <1>18 DEF TearRoutes, TearMarkRule, TearSuppressRule, TearPin
<1>19. CASE TearEngine
  BY <1>19 DEF TearEngine, Unlink, FC!DestroyTunnel
<1>20. CASE TearGuard
  BY <1>20 DEF TearGuard, LinkInv, FC!Disarm
<1>21. CASE Crash
  BY <1>21 DEF Crash, Unlink, FC!Crash
<1> QED
  BY <1>2, <1>3, <1>4, <1>5, <1>6, <1>7, <1>8, <1>9, <1>10, <1>11, <1>12,
     <1>13, <1>14, <1>15, <1>16, <1>17, <1>18, <1>19, <1>20, <1>21
  DEF Next, UpStep, DownStep

(* When the kernel gives the interface the name it is asked for, connect   *)
(* implements the fail-closed order: guard before tunnel before use, and   *)
(* back.                                                                   *)
THEOREM ConnectIsFailClosed ==
  ASSUME RealNames = {Intended}
  PROVE  Spec => ImplementsFailClosed
<1>1. Init => FC!Init
  BY DEF Init, CleanHost, FC!Init
<1>2. IInv /\ [Next]_vars => [FC!Next]_(FC!fcVars)
  <2>1. ASSUME UNCHANGED vars PROVE UNCHANGED FC!fcVars
    BY <2>1 DEF vars, FC!fcVars
  <2> QED
    BY <2>1, FailClosedStep
<1> QED
  BY Invariance, <1>1, <1>2, PTL DEF Spec, FC!Spec, ImplementsFailClosed

=============================================================================
