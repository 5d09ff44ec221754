--------------------------- MODULE SessionsProofs ---------------------------
(***************************************************************************)
(* Proofs about everything that drives the one tunnel of a host: for any   *)
(* zones, faults and intents, a tunnel belongs to the holder of the lock,  *)
(* is without guard or rules only when a cleanup without the lock took     *)
(* them, and what stays after an exit is what a failed command left;       *)
(* together they are a host with a single tunnel.  At the end, the types   *)
(* of the daemon.                                                          *)
(***************************************************************************)
EXTENDS Sessions, TLAPS

Typed ==
  /\ lock \in Procs \union {"free"}
  /\ tun \in [Procs -> Zones \union {None}]
  /\ rules \in {"none", "some", "all"}
  /\ {store, snap} \subseteq State \union {NoState}
  /\ opc \in {"off", "link", "guard", "rules", "read", "write"}
  /\ live \in SUBSET Zones
  /\ mishap \in {"none", "teardown", "earlier", "outside"}
  /\ dpc \in {"stopped", "dial", "verify", "loop"}
  /\ zone \in Zones \union {None} /\ (dpc # "stopped" => zone # None)
  /\ conn \in Zones \union {None}
  /\ fpc \in {"off", "dial", "persist", "verify", "watch", "redial"}
  /\ profile \in Zones \union {None} /\ (fpc # "off" => profile # None)

(* A process holds the lock from its start to its end.                     *)
LockInv ==
  /\ lock = "daemon" <=> dpc # "stopped"
  /\ lock = "connect" <=> fpc # "off"

(* What a process's conn says of its tunnel: a conn that is nil, or torn   *)
(* down, has none.                                                         *)
ConnInv ==
  /\ dpc \in {"stopped", "dial"} => tun["daemon"] = None
  /\ dpc = "loop" /\ conn = None => tun["daemon"] = None
  /\ fpc \in {"off", "dial", "redial"} => tun["connect"] = None
  /\ fpc = "watch" /\ ~open => tun["connect"] = None
  /\ fpc \in {"persist", "verify"} => open
  /\ fpc = "redial" => ~open

OwnInv == Typed /\ LockInv /\ ConnInv /\ NoNakedTunnel

(* As long as nobody was killed and no operator interfered: what a host    *)
(* without a tunnel may still have, what the store may claim, and that the *)
(* conn of a process has its tunnel, so only a failing command makes a     *)
(* teardown report an error.                                               *)
LeftInv ==
  /\ (\A p \in Procs : tun[p] = None) =>
       /\ guard => mishap = "teardown"
       /\ rules # "none" => mishap # "none" \/ "partial" \in Faults
  /\ lock = "free" \/ fpc \in {"dial", "persist"} => (store.desired = "up" => mishap # "none")
  /\ mishap # "none" => "down" \in Faults

HeldInv ==
  /\ dpc = "verify" \/ (dpc = "loop" /\ conn # None) => tun["daemon"] # None
  /\ fpc \in {"persist", "verify"} \/ (fpc = "watch" /\ open) => tun["connect"] # None

CleanInv == mishap # "outside" => opc = "off" /\ ~swept /\ LeftInv /\ HeldInv

SessionInv == OwnInv /\ CleanInv

-----------------------------------------------------------------------------
LEMMA ZonesChosen ==
  ASSUME Typed
  PROVE  /\ None \notin Zones
         /\ Picks \subseteq Zones \union {None}
         /\ StartZone # "--best" => StartZone \in Zones
  BY HostAssumption, DaemonAssumption
  DEF HostAssumption, DaemonAssumption, Typed, Picks, Alive

LEMMA LoweredIsDown ==
  ASSUME NEW s \in State \union {NoState}
  PROVE  Lowered(s) \in State \union {NoState} /\ Lowered(s).desired = "down"
  BY DEF Lowered, State, NoState

(* Only one process can have a tunnel, so guard and rules are its own.     *)
LEMMA OneTunnel ==
  ASSUME OwnInv
  PROVE  /\ lock # "daemon" => tun["daemon"] = None
         /\ lock # "connect" => tun["connect"] = None
  BY DEF OwnInv, LockInv, ConnInv, Typed, Procs

LEMMA SessionInitHolds == SessionInit => SessionInv
<1> SUFFICES ASSUME SessionInit PROVE SessionInv
  OBVIOUS
<1> USE DEF SessionInit, HostInit, DaemonInit, FgInit
<1>1. Typed
  BY DEF Typed, Procs
<1>2. LockInv /\ ConnInv
  BY DEF LockInv, ConnInv, Procs
<1>3. NoNakedTunnel
  BY DEF NoNakedTunnel, Procs
<1>4. CleanInv
  BY DEF CleanInv, LeftInv, HeldInv, NoState
<1> QED
  BY <1>1, <1>2, <1>3, <1>4 DEF SessionInv, OwnInv

-----------------------------------------------------------------------------
(* What one Up, Down or death of a process does to the host.               *)
LEMMA UpOwn ==
  ASSUME OwnInv, NEW p \in Procs, lock = p, NEW z \in Zones, UpSucceeds(p, z), swept' = swept
  PROVE  /\ tun' \in [Procs -> Zones \union {None}]
         /\ tun'[p] = z /\ \A q \in Procs \ {p} : tun'[q] = None
         /\ rules' \in {"none", "some", "all"}
         /\ NoNakedTunnel'
         /\ (guard' /\ rules' = "all") \/ swept
<1> USE DEF OwnInv, Typed
<1>1. /\ tun' \in [Procs -> Zones \union {None}]
      /\ tun'[p] = z /\ \A q \in Procs \ {p} : tun'[q] = None
      /\ rules' \in {"none", "some", "all"}
  BY OneTunnel DEF Procs, UpSucceeds
<1>2. (guard' /\ rules' = "all") \/ swept
  <2>1. CASE ~swept
    <3>1. guard' \in {TRUE} /\ rules' \in {"all"}
      BY <2>1 DEF UpSucceeds
    <3> QED
      BY <3>1
  <2> QED
    BY <2>1
<1> QED
  BY <1>1, <1>2 DEF NoNakedTunnel

LEMMA TornDownFacts ==
  ASSUME Typed, NEW ok, TornDown(ok)
  PROVE  /\ mishap' \in {"none", "teardown", "earlier", "outside"}
         /\ mishap' = "outside" <=> mishap = "outside"
         /\ mishap' = "none" => mishap = "none" /\ ok
         /\ mishap' # "none" => mishap # "none" \/ ~ok
         /\ ~ok => mishap' \in {"teardown", "outside"}
  BY DEF Typed, TornDown

LEMMA FailOwn ==
  ASSUME OwnInv, NEW p \in Procs, lock = p, tun[p] = None, UpFails
  PROVE  /\ tun' = tun /\ \A q \in Procs : tun[q] = None
         /\ NoNakedTunnel'
         /\ rules' \in {"none", "some", "all"}
         /\ mishap' \in {"none", "teardown", "earlier", "outside"}
         /\ mishap' = "outside" <=> mishap = "outside"
         /\ mishap' = "none" => mishap = "none"
         /\ mishap' # "none" => mishap # "none" \/ "down" \in Faults
         /\ guard' => mishap' \in {"teardown", "outside"}
         /\ rules' # "none" => rules # "none" \/ mishap' # "none" \/ "partial" \in Faults
<1> Typed
  BY DEF OwnInv
<1>1. tun' = tun /\ \A q \in Procs : tun[q] = None
  BY OneTunnel DEF UpFails, Procs
<1>2. PICK ok \in {TRUE} \union May("down", {FALSE}) :
        /\ TornDown(ok)
        /\ guard' \in IF ok THEN {FALSE} ELSE BOOLEAN
        /\ rules' \in {rules} \union May("partial", {"some"}) \union (IF ok THEN {} ELSE {"some"})
  BY DEF UpFails
<1>3. CASE ok
  <2>1. guard' = FALSE /\ rules' \in {rules} \union May("partial", {"some"})
    BY <1>2, <1>3
  <2>2. rules' = rules \/ (rules' = "some" /\ "partial" \in Faults)
    BY <2>1 DEF May
  <2> QED
    BY <1>1, <1>2, <1>3, <2>1, <2>2, TornDownFacts DEF Typed, NoNakedTunnel
<1>4. CASE ~ok
  <2>1. "down" \in Faults
    BY <1>2, <1>4 DEF May
  <2>2. rules' \in {rules, "some"}
    BY <1>2, <1>4 DEF May
  <2> QED
    BY <1>1, <1>2, <1>4, <2>1, <2>2, TornDownFacts DEF Typed, NoNakedTunnel
<1> QED
  BY <1>3, <1>4

LEMMA DownOwn ==
  ASSUME OwnInv, NEW p \in Procs, lock = p, NEW ok, Down(p, ok)
  PROVE  /\ tun' \in [Procs -> Zones \union {None}]
         /\ \A q \in Procs : tun'[q] = None
         /\ NoNakedTunnel'
         /\ rules' \in {"none", "some", "all"}
         /\ mishap' \in {"none", "teardown", "earlier", "outside"}
         /\ mishap' = "outside" <=> mishap = "outside"
         /\ mishap' = "none" => mishap = "none" /\ ok
         /\ guard' => mishap' \in {"teardown", "outside"}
         /\ rules' # "none" => mishap' # "none"
         /\ tun[p] # None /\ ~swept /\ mishap' # "none" => mishap # "none" \/ "down" \in Faults
<1> Typed
  BY DEF OwnInv
<1>1. tun' \in [Procs -> Zones \union {None}] /\ \A q \in Procs : tun'[q] = None
  BY OneTunnel DEF Typed, Procs, Down
<1>2. NoNakedTunnel'
  BY <1>1 DEF NoNakedTunnel
<1>3. TornDown(ok)
  BY DEF Down
<1>4. CASE ok
  <2>1. guard' = FALSE /\ rules' = "none"
    BY <1>4 DEF Down
  <2> QED
    BY <1>1, <1>2, <1>3, <1>4, <2>1, TornDownFacts
<1>5. CASE ~ok
  <2>1. rules' \in {"none", "some", "all"}
    BY DEF Down, May, Typed
  <2>2. "down" \in Faults \/ ~guard \/ rules # "all" \/ tun[p] = None
    BY <1>5 DEF Down
  <2>3. tun[p] # None /\ ~swept => "down" \in Faults
    BY <2>2 DEF OwnInv, NoNakedTunnel
  <2> QED
    BY <1>1, <1>2, <1>3, <1>5, <2>1, <2>3, TornDownFacts
<1> QED
  BY <1>4, <1>5

LEMMA DiesOwn ==
  ASSUME OwnInv, NEW p \in Procs, lock = p, Dies(p)
  PROVE  /\ tun' \in [Procs -> Zones \union {None}]
         /\ \A q \in Procs : tun'[q] = None
         /\ NoNakedTunnel'
         /\ rules' \in {"none", "some", "all"}
         /\ lock' = "free" /\ mishap' = "outside"
  BY OneTunnel DEF OwnInv, Typed, Procs, Dies, NoNakedTunnel

(* The callers that ignore the error.                                      *)
LEMMA DownAnywayOwn ==
  ASSUME OwnInv, NEW p \in Procs, lock = p, DownAnyway(p)
  PROVE  /\ tun' \in [Procs -> Zones \union {None}]
         /\ \A q \in Procs : tun'[q] = None
         /\ NoNakedTunnel'
         /\ rules' \in {"none", "some", "all"}
         /\ mishap' \in {"none", "teardown", "earlier", "outside"}
         /\ mishap' = "outside" <=> mishap = "outside"
         /\ mishap' = "none" => mishap = "none"
         /\ guard' => mishap' \in {"teardown", "outside"}
         /\ rules' # "none" => mishap' # "none"
         /\ tun[p] # None /\ ~swept /\ mishap' # "none" => mishap # "none" \/ "down" \in Faults
<1>1. PICK ok \in BOOLEAN : Down(p, ok)
  BY DEF DownAnyway
<1> QED
  BY <1>1, DownOwn

-----------------------------------------------------------------------------
(* The daemon's actions.  It holds the lock in all but the first.          *)
LEMMA DaemonOwn ==
  ASSUME SessionInv, DaemonNext, UNCHANGED fgVars
  PROVE  SessionInv'
<1> OwnInv
  BY DEF SessionInv
<1> USE DEF fgVars, opVars
<1>1. CASE DaemonStart
  BY <1>1, ZonesChosen
  DEF DaemonStart, SetsOut, SessionInv, OwnInv, Typed, LockInv, ConnInv, NoNakedTunnel, CleanInv,
      LeftInv, HeldInv, Procs
<1>2. CASE DaemonDial
  <2>1. /\ lock = "daemon" /\ fpc = "off" /\ zone \in Zones /\ zone # None
        /\ UpSucceeds("daemon", zone) /\ "daemon" \in Procs
        /\ dpc' = "verify"
        /\ UNCHANGED <<lock, store, oper, opc, snap, live, swept, mishap, zone, conn>>
    BY <1>2, ZonesChosen DEF DaemonDial, OwnInv, Typed, LockInv, Procs
  <2> QED
    BY <2>1, UpOwn, ZonesChosen
    DEF SessionInv, OwnInv, Typed, LockInv, ConnInv, CleanInv, LeftInv, HeldInv, Procs
<1>3. CASE DaemonDialFails
  <2>1. lock = "daemon" /\ fpc = "off" /\ tun["daemon"] = None /\ UpFails /\ "daemon" \in Procs
    BY <1>3 DEF DaemonDialFails, OwnInv, Typed, LockInv, ConnInv, Procs
  <2>2. zone' \in Zones \union {None} /\ zone' # None
    BY <1>3, ZonesChosen DEF DaemonDialFails, OwnInv, Typed
  <2>3. dpc = "dial" /\ dpc' = "loop" /\ conn' = None
        /\ UNCHANGED <<lock, store, oper, opc, snap, live, swept>>
    BY <1>3 DEF DaemonDialFails
  <2> QED
    BY <2>1, <2>2, <2>3, FailOwn
    DEF SessionInv, OwnInv, Typed, LockInv, ConnInv, CleanInv, LeftInv, HeldInv, Procs
<1>4. CASE DaemonVerify
  <2>1. store' \in State \union {NoState} /\ conn' \in Zones /\ conn' # None
    BY <1>4, ZonesChosen DEF DaemonVerify, OwnInv, Typed, Persist, State
  <2>2. lock = "daemon" /\ fpc = "off" /\ dpc = "verify" /\ dpc' = "loop"
        /\ UNCHANGED <<lock, tun, guard, rules, oper, opc, snap, live, swept, mishap, zone>>
    BY <1>4 DEF DaemonVerify, OwnInv, LockInv, Typed
  <2> QED
    BY <2>1, <2>2
    DEF SessionInv, OwnInv, Typed, LockInv, ConnInv, NoNakedTunnel, CleanInv, LeftInv, HeldInv, Procs
<1>5. ASSUME dpc = "loop", dpc' \in {"loop", "dial"}, zone' \in Zones, conn' = None,
             conn # None => DownAnyway("daemon"),
             conn = None => UNCHANGED <<tun, guard, rules, mishap>>,
             swept' = swept \/ ~swept',
             UNCHANGED <<lock, store, oper, opc, snap, live>>
      PROVE  SessionInv'
  <2>1. lock = "daemon" /\ fpc = "off" /\ "daemon" \in Procs /\ zone' # None
    BY <1>5, ZonesChosen DEF OwnInv, LockInv, Typed, Procs
  <2>2. CASE conn = None
    <3>1. \A q \in Procs : tun[q] = None
      BY <1>5, <2>1, <2>2, OneTunnel DEF OwnInv, ConnInv, Procs
    <3> QED
      BY <1>5, <2>1, <2>2, <3>1
      DEF SessionInv, OwnInv, Typed, LockInv, ConnInv, NoNakedTunnel, CleanInv, LeftInv, HeldInv, Procs
  <2>3. CASE conn # None
    <3>1. mishap # "outside" => tun["daemon"] # None /\ ~swept
      BY <1>5, <2>3 DEF SessionInv, CleanInv, HeldInv
    <3> QED
      BY <1>5, <2>1, <2>3, <3>1, DownAnywayOwn
      DEF SessionInv, OwnInv, Typed, LockInv, ConnInv, CleanInv, LeftInv, HeldInv, Procs
  <2> QED
    BY <2>2, <2>3
<1>6. CASE TickDown \/ TickSwitch \/ TickRedial
  BY <1>5, <1>6
  DEF TickDown, TickSwitch, TickRedial, Redial, SetsOut, WantsSwitch, OwnInv, Typed
<1>7. CASE TickReconnect
  <2>1. lock = "daemon" /\ fpc = "off" /\ DownAnyway("daemon") /\ "daemon" \in Procs
    BY <1>7 DEF TickReconnect, OwnInv, LockInv, Typed, Procs
  <2>2. zone' \in Zones \union {None} /\ zone' # None
    BY <1>7, ZonesChosen DEF TickReconnect, OwnInv, Typed
  <2>3. dpc = "loop" /\ conn # None /\ dpc' = "dial" /\ ~swept'
        /\ UNCHANGED <<lock, store, oper, opc, snap, live, conn>>
    BY <1>7 DEF TickReconnect, SetsOut
  <2>4. mishap # "outside" => tun["daemon"] # None /\ ~swept
    BY <2>3 DEF SessionInv, CleanInv, HeldInv
  <2> QED
    BY <2>1, <2>2, <2>3, <2>4, DownAnywayOwn
    DEF SessionInv, OwnInv, Typed, LockInv, ConnInv, CleanInv, LeftInv, HeldInv, Procs
<1>8. ASSUME UNCHANGED <<shared, dpc, zone, conn>> PROVE SessionInv'
  BY <1>8
  DEF shared, SessionInv, OwnInv, Typed, LockInv, ConnInv, NoNakedTunnel, CleanInv, LeftInv, HeldInv
<1>9. CASE TickProtected \/ TickUnprotected \/ UnitStart \/ UnitStop \/ TUIWrites
  BY <1>8, <1>9 DEF TickProtected, TickUnprotected, UnitStart, UnitStop, TUIWrites
<1>10. CASE DaemonStops
  <2>1. lock = "daemon" /\ fpc = "off" /\ dpc = "loop" /\ "daemon" \in Procs
    BY <1>10 DEF DaemonStops, OwnInv, LockInv, Typed, Procs
  <2>2. /\ lock' = "free" /\ dpc' = "stopped" /\ conn' = None /\ zone' = None
        /\ store' = Lowered(store) /\ UNCHANGED <<oper, opc, snap, live, swept>>
    BY <1>10 DEF DaemonStops, Exit
  <2>3. store' \in State \union {NoState} /\ store'.desired = "down"
    BY <2>2, LoweredIsDown DEF OwnInv, Typed
  <2>4. CASE conn = None
    <3>1. UNCHANGED <<tun, guard, rules, mishap>>
      BY <1>10, <2>4 DEF DaemonStops
    <3>2. \A q \in Procs : tun[q] = None
      BY <2>1, <2>4, OneTunnel DEF OwnInv, ConnInv, Procs
    <3> QED
      BY <2>1, <2>2, <2>3, <2>4, <3>1, <3>2
      DEF SessionInv, OwnInv, Typed, LockInv, ConnInv, NoNakedTunnel, CleanInv, LeftInv, HeldInv, Procs
  <2>5. CASE conn # None
    <3>1. DownAnyway("daemon")
      BY <1>10, <2>5 DEF DaemonStops
    <3>2. mishap # "outside" => tun["daemon"] # None /\ ~swept
      BY <2>1, <2>5 DEF SessionInv, CleanInv, HeldInv
    <3> QED
      BY <2>1, <2>2, <2>3, <3>1, <3>2, DownAnywayOwn
      DEF SessionInv, OwnInv, Typed, LockInv, ConnInv, CleanInv, LeftInv, HeldInv, Procs
  <2> QED
    BY <2>4, <2>5
<1>11. CASE DaemonKilled \/ DaemonCrash
  <2>1. lock = "daemon" /\ fpc = "off" /\ Dies("daemon") /\ Exit /\ "daemon" \in Procs
    BY <1>11 DEF DaemonKilled, DaemonCrash, OwnInv, LockInv, Typed, Procs
  <2>2. UNCHANGED <<store, opc, snap, live>>
    BY <2>1 DEF Dies
  <2> QED
    BY <2>1, <2>2, DiesOwn
    DEF Exit, SessionInv, OwnInv, Typed, LockInv, ConnInv, CleanInv, Procs
<1> QED
  BY <1>1, <1>2, <1>3, <1>4, <1>6, <1>7, <1>9, <1>10, <1>11 DEF DaemonNext, DaemonStep, Tick

-----------------------------------------------------------------------------
(* The foreground command's actions.                                       *)
LEMMA FgOwn ==
  ASSUME SessionInv, FgNext, UNCHANGED daemonVars
  PROVE  SessionInv'
<1> OwnInv /\ "connect" \in Procs
  BY DEF SessionInv, Procs
<1> USE DEF daemonVars, opVars
<1>1. CASE FgStart
  BY <1>1, ZonesChosen
  DEF FgStart, SetsOut, SessionInv, OwnInv, Typed, LockInv, ConnInv, NoNakedTunnel, CleanInv,
      LeftInv, HeldInv, Procs
<1>2. CASE FgDial \/ FgRedial
  <2>1. /\ lock = "connect" /\ dpc = "stopped" /\ profile \in Zones
        /\ UpSucceeds("connect", profile)
        /\ open' /\ fpc' \in {"persist", "watch"}
        /\ fpc = "redial" => fpc' = "watch"
        /\ fpc \in {"dial", "redial"}
        /\ UNCHANGED <<lock, store, oper, opc, snap, live, swept, mishap, profile>>
    BY <1>2 DEF FgDial, FgRedial, OwnInv, LockInv, Typed
  <2> QED
    BY <2>1, UpOwn, ZonesChosen
    DEF SessionInv, OwnInv, Typed, LockInv, ConnInv, CleanInv, LeftInv, HeldInv, Procs
<1>3. CASE FgDialFails \/ FgRedialFails
  <2>1. /\ lock = "connect" /\ dpc = "stopped" /\ tun["connect"] = None /\ UpFails
        /\ UNCHANGED <<store, oper, opc, snap, live, swept>>
    BY <1>3 DEF FgDialFails, FgRedialFails, OwnInv, LockInv, ConnInv, Typed
  <2>2. CASE FgDialFails
    BY <2>1, <2>2, FailOwn
    DEF FgDialFails, FgExit, SessionInv, OwnInv, Typed, LockInv, ConnInv, CleanInv, LeftInv, HeldInv,
        Procs
  <2>3. CASE FgRedialFails
    BY <2>1, <2>3, FailOwn
    DEF FgRedialFails, SessionInv, OwnInv, Typed, LockInv, ConnInv, CleanInv, LeftInv, HeldInv, Procs
  <2> QED
    BY <1>3, <2>2, <2>3
<1>4. CASE FgPersist
  <2>1. store' \in State \union {NoState}
    BY <1>4 DEF FgPersist, Persist, State, OwnInv, Typed
  <2>2. lock = "connect"
    BY <1>4 DEF FgPersist, OwnInv, LockInv
  <2> QED
    BY <1>4, <2>1, <2>2
    DEF FgPersist, SessionInv, OwnInv, Typed, LockInv, ConnInv, NoNakedTunnel, CleanInv, LeftInv,
        HeldInv, Procs
<1>5. CASE FgVerified \/ FgProtected
  BY <1>5
  DEF FgVerified, FgProtected, shared, SessionInv, OwnInv, Typed, LockInv, ConnInv, NoNakedTunnel,
      CleanInv, LeftInv, HeldInv
<1>6. CASE FgMissed
  <2>1. CASE UNCHANGED <<tun, guard, rules, swept, mishap, fpc, open>>
    BY <1>6, <2>1
    DEF FgMissed, SessionInv, OwnInv, Typed, LockInv, ConnInv, NoNakedTunnel, CleanInv, LeftInv, HeldInv
  <2>2. ASSUME NEW ok \in BOOLEAN, TearDown(ok), ~swept', fpc' = "redial", open' = FALSE
        PROVE SessionInv'
    <3>1. lock = "connect" /\ dpc = "stopped" /\ fpc = "watch"
          /\ UNCHANGED <<lock, store, oper, opc, snap, live, profile>>
      BY <1>6 DEF FgMissed, OwnInv, LockInv, Typed
    <3>2. CASE open
      <4>1. Down("connect", ok)
        BY <2>2, <3>2 DEF TearDown
      <4>2. mishap # "outside" => tun["connect"] # None /\ ~swept
        BY <3>1, <3>2 DEF SessionInv, CleanInv, HeldInv
      <4> QED
        BY <2>2, <3>1, <4>1, <4>2, DownOwn
        DEF SessionInv, OwnInv, Typed, LockInv, ConnInv, CleanInv, LeftInv, HeldInv, Procs
    <3>3. CASE ~open
      <4>1. UNCHANGED <<tun, guard, rules, mishap>>
        BY <2>2, <3>3 DEF TearDown
      <4>2. \A q \in Procs : tun[q] = None
        BY <3>1, <3>3, OneTunnel DEF OwnInv, ConnInv, Procs
      <4> QED
        BY <2>2, <3>1, <4>1, <4>2
        DEF SessionInv, OwnInv, Typed, LockInv, ConnInv, NoNakedTunnel, CleanInv, LeftInv, HeldInv, Procs
    <3> QED
      BY <3>2, <3>3
  <2> QED
    BY <1>6, <2>1, <2>2 DEF FgMissed, SetsOut
<1>7. CASE FgSignal
  <2>1. PICK ok \in BOOLEAN : TearDown(ok) /\ store' = IF ok THEN Lowered(store) ELSE store
    BY <1>7 DEF FgSignal
  <2>2. lock = "connect" /\ dpc = "stopped" /\ fpc = "watch"
        /\ lock' = "free" /\ fpc' = "off" /\ profile' = None /\ open' = FALSE
        /\ UNCHANGED <<oper, opc, snap, live, swept>>
    BY <1>7 DEF FgSignal, FgExit, OwnInv, LockInv, Typed
  <2>3. /\ store' \in State \union {NoState}
        /\ ok => store'.desired = "down"
    BY <2>1, LoweredIsDown DEF OwnInv, Typed
  <2>4. CASE open
    <3>1. Down("connect", ok)
      BY <2>1, <2>4 DEF TearDown
    <3>2. mishap # "outside" => tun["connect"] # None /\ ~swept
      BY <2>2, <2>4 DEF SessionInv, CleanInv, HeldInv
    <3> QED
      BY <2>2, <2>3, <3>1, <3>2, DownOwn
      DEF SessionInv, OwnInv, Typed, LockInv, ConnInv, CleanInv, LeftInv, HeldInv, Procs
  <2>5. CASE ~open
    <3>1. UNCHANGED <<tun, guard, rules, mishap>> /\ ok
      BY <2>1, <2>5 DEF TearDown
    <3>2. \A q \in Procs : tun[q] = None
      BY <2>2, <2>5, OneTunnel DEF OwnInv, ConnInv, Procs
    <3> QED
      BY <2>2, <2>3, <3>1, <3>2
      DEF SessionInv, OwnInv, Typed, LockInv, ConnInv, NoNakedTunnel, CleanInv, LeftInv, HeldInv, Procs
  <2> QED
    BY <2>4, <2>5
<1>8. CASE FgKilled
  <2>1. lock = "connect" /\ dpc = "stopped" /\ Dies("connect") /\ FgExit
    BY <1>8 DEF FgKilled, OwnInv, LockInv, Typed
  <2>2. UNCHANGED <<store, opc, snap, live>>
    BY <2>1 DEF Dies
  <2> QED
    BY <2>1, <2>2, DiesOwn
    DEF FgExit, SessionInv, OwnInv, Typed, LockInv, ConnInv, CleanInv, Procs
<1> QED
  BY <1>1, <1>2, <1>3, <1>4, <1>5, <1>6, <1>7, <1>8 DEF FgNext

(* The operator's commands.  Going for guard or rules is remembered; and   *)
(* while one runs, nothing is claimed of what is left.                     *)
LEMMA HostOwn ==
  ASSUME SessionInv, HostStep,
         UNCHANGED daemonVars, UNCHANGED fgVars
  PROVE  SessionInv'
<1> OwnInv
  BY DEF SessionInv
<1> USE DEF daemonVars, fgVars
<1>a. opc # "off" => mishap = "outside"
  BY DEF SessionInv, CleanInv
<1>1. CASE OperatorStarts
  BY <1>1
  DEF OperatorStarts, SessionInv, OwnInv, Typed, LockInv, ConnInv, NoNakedTunnel, CleanInv
<1>2. ASSUME opc # "off",
             opc' \in {"off", "link", "guard", "rules", "read", "write"},
             snap' \in State \union {NoState}, store' \in State \union {NoState},
             tun' = tun \/ tun' = [p \in Procs |-> None],
             rules' \in {"none", "some", "all"},
             swept' \/ (swept' = swept /\ UNCHANGED <<guard, rules>>),
             UNCHANGED <<lock, live, mishap>>
      PROVE  SessionInv'
  <2>1. mishap' = "outside"
    BY <1>a, <1>2
  <2>2. tun' \in [Procs -> Zones \union {None}] /\ \A p \in Procs : tun'[p] # None => tun'[p] = tun[p]
    BY <1>2 DEF OwnInv, Typed
  <2>3. Typed' /\ LockInv'
    BY <1>2, <2>2 DEF OwnInv, Typed, LockInv
  <2>4. ConnInv' /\ NoNakedTunnel'
    BY <1>2, <2>2 DEF OwnInv, ConnInv, NoNakedTunnel, Procs
  <2> QED
    BY <2>1, <2>3, <2>4 DEF SessionInv, OwnInv, CleanInv
<1>3. ASSUME NEW to \in {"off", "link", "guard", "rules", "read", "write"}, OperatorGoes(to)
      PROVE  opc' = to /\ snap' \in State \union {NoState}
  BY <1>3 DEF OperatorGoes, OwnInv, Typed
<1>4. CASE OperatorLink
  BY <1>2, <1>3, <1>4 DEF OperatorLink, OwnInv, Typed
<1>5. CASE OperatorGuard
  BY <1>2, <1>3, <1>5 DEF OperatorGuard, OwnInv, Typed
<1>6. CASE OperatorRule
  BY <1>2, <1>3, <1>6 DEF OperatorRule, OwnInv, Typed
<1>7. CASE OperatorReads \/ OperatorStops
  BY <1>2, <1>3, <1>7 DEF OperatorReads, OperatorStops, OwnInv, Typed
<1>8. CASE OperatorRecords
  BY <1>2, <1>3, <1>8, LoweredIsDown DEF OperatorRecords, OwnInv, Typed
<1>9. CASE Outage
  BY <1>9
  DEF Outage, opVars, SessionInv, OwnInv, Typed, LockInv, ConnInv, NoNakedTunnel, CleanInv, LeftInv,
      HeldInv
<1> QED
  BY <1>1, <1>4, <1>5, <1>6, <1>7, <1>8, <1>9 DEF HostStep, Operator

LEMMA SessionInvariance == SessionSpec => []SessionInv
<1>1. SessionInv /\ [SessionNext]_sessionVars => SessionInv'
  <2> SUFFICES ASSUME SessionInv, [SessionNext]_sessionVars PROVE SessionInv'
    OBVIOUS
  <2>1. CASE UNCHANGED sessionVars
    BY <2>1
    DEF sessionVars, shared, opVars, daemonVars, fgVars, SessionInv, OwnInv, Typed, LockInv, ConnInv,
        NoNakedTunnel, CleanInv, LeftInv, HeldInv
  <2> QED
    BY <2>1, DaemonOwn, FgOwn, HostOwn DEF SessionNext
<1> QED
  BY SessionInitHolds, <1>1, PTL DEF SessionSpec

-----------------------------------------------------------------------------
(* However daemon and foreground connect start, fail, reconnect, are       *)
(* stopped or killed: a tunnel belongs to the holder of the lock.          *)
THEOREM TunnelsAreOwned == SessionSpec => []TunnelUnderLock
<1>1. SessionInv => TunnelUnderLock
  BY OneTunnel DEF SessionInv, TunnelUnderLock, Procs
<1> QED
  BY SessionInvariance, <1>1, PTL

(* A tunnel without its guard or its rules was swept by an operator's      *)
(* command after its owner set out to connect: no failed Up or teardown,   *)
(* no death of a process and no earlier cleanup leaves one.                *)
THEOREM TunnelsAreCovered == SessionSpec => []NoNakedTunnel
<1>1. SessionInv => NoNakedTunnel
  BY DEF SessionInv, OwnInv
<1> QED
  BY SessionInvariance, <1>1, PTL

(* When nobody holds the lock, and nobody was killed or interfered with:   *)
(* a guard that is left, or a store that claims a VPN, is due to a         *)
(* teardown that met an error.                                             *)
THEOREM ExitsAreClean == SessionSpec => []CleanExit
<1>1. SessionInv => CleanExit
  BY OneTunnel DEF SessionInv, CleanInv, LeftInv, CleanExit, Procs
<1> QED
  BY SessionInvariance, <1>1, PTL

-----------------------------------------------------------------------------
(* The steps of the abstract host, in terms of the concrete one.           *)
LEMMA NothingStands == (\A p \in Procs : tun[p] = None) => Standing = {}
  BY DEF Standing

LEMMA NothingStandsNext == (\A p \in Procs : tun'[p] = None) => Standing' = {}
  BY DEF Standing

LEMMA AbstractStutter ==
  ASSUME UNCHANGED <<lock, tun, guard, rules, swept>>
  PROVE  UNCHANGED ST!stVars
BY DEF ST!stVars, Standing

LEMMA AbstractRaise ==
  ASSUME OwnInv, NEW p \in Procs, lock = p, tun[p] = None, NEW z \in Zones,
         UpSucceeds(p, z), UNCHANGED <<lock, swept>>
  PROVE  ST!Raise
<1>1. Standing = {}
  BY OneTunnel, NothingStands DEF Procs
<1>2. tun'[p] = z /\ \A q \in Procs \ {p} : tun'[q] = None
  BY UpOwn
<1>3. z # None
  BY HostAssumption DEF HostAssumption
<1>4. Standing' = {[owner |-> p, zone |-> z]}
  BY <1>2, <1>3 DEF Standing
<1>5. (guard' /\ rules' = "all") \/ swept
  BY UpOwn
<1> HIDE DEF Standing
<1> QED
  BY <1>1, <1>4, <1>5 DEF ST!Raise

(* What an operator's command takes in place is the cover.                 *)
LEMMA AbstractSweep ==
  ASSUME swept' = TRUE, guard' => guard, rules' = "all" => rules = "all", UNCHANGED <<lock, tun>>
  PROVE  ST!Sweep
<1>1. Standing' = Standing
  BY DEF Standing
<1>2. (guard' /\ rules' = "all") => (guard /\ rules = "all")
  OBVIOUS
<1> QED
  BY <1>1, <1>2 DEF ST!Sweep

LEMMA AbstractLower ==
  ASSUME \A p \in Procs : tun'[p] = None, swept' \in BOOLEAN, UNCHANGED lock
  PROVE  ST!Lower
<1>1. Standing' = {}
  BY NothingStandsNext
<1>2. (guard' /\ rules' = "all") \in BOOLEAN
  OBVIOUS
<1> QED
  BY <1>1, <1>2, Zenon DEF ST!Lower, ST!Bare

LEMMA AbstractRelease ==
  ASSUME lock \in Procs, lock' = "free", \A p \in Procs : tun'[p] = None, swept' \in BOOLEAN
  PROVE  ST!Release
<1>1. Standing' = {}
  BY NothingStandsNext
<1>2. (guard' /\ rules' = "all") \in BOOLEAN
  OBVIOUS
<1> QED
  BY <1>1, <1>2, Zenon DEF ST!Release, ST!Bare

LEMMA AbstractTake ==
  ASSUME OwnInv, lock = "free", lock' \in Procs, UNCHANGED tun, swept' \in BOOLEAN
  PROVE  ST!Take
<1>1. \A p \in Procs : tun[p] = None
  BY OneTunnel DEF Procs
<1>2. Standing = {} /\ Standing' = {}
  BY <1>1, NothingStands, NothingStandsNext
<1>3. (guard' /\ rules' = "all") \in BOOLEAN
  OBVIOUS
<1> QED
  BY <1>2, <1>3, Zenon DEF ST!Take, ST!Bare

(* A failed Up took no tunnel away, since there was none.                  *)
LEMMA AbstractFailure ==
  ASSUME OwnInv, NEW p \in Procs, lock = p, tun[p] = None, UpFails, swept' \in BOOLEAN
  PROVE  /\ UNCHANGED lock => ST!Lower
         /\ lock' = "free" => ST!Release
<1>1. \A q \in Procs : tun'[q] = None
  BY FailOwn
<1> QED
  BY <1>1, AbstractLower, AbstractRelease

(* The history keeps its type.                                             *)
LEMMA DaemonSwept == DaemonNext => swept' \in {TRUE, FALSE, swept}
BY DEF DaemonNext, DaemonStep, Tick, DaemonStart, DaemonDial, DaemonDialFails, DaemonVerify,
       TickDown, TickSwitch, TickRedial, TickProtected, TickUnprotected, TickReconnect, Redial,
       SetsOut, UnitStart, UnitStop, DaemonStops, DaemonKilled, DaemonCrash, Dies, TUIWrites, shared

LEMMA FgSwept == FgNext => swept' \in {TRUE, FALSE, swept}
BY DEF FgNext, FgStart, FgDial, FgDialFails, FgPersist, FgVerified, FgProtected, FgMissed,
       FgRedial, FgRedialFails, FgSignal, FgKilled, SetsOut, Dies, shared

LEMMA HostSwept == HostStep => swept' \in {TRUE, swept}
BY DEF HostStep, Operator, OperatorStarts, OperatorLink, OperatorGuard, OperatorRule,
       OperatorReads, OperatorRecords, OperatorStops, Outage

SweptTyped == swept \in BOOLEAN

LEMMA SweptKept ==
  ASSUME SweptTyped, [SessionNext]_sessionVars
  PROVE  SweptTyped'
<1>1. swept' \in {TRUE, FALSE, swept}
  BY DaemonSwept, FgSwept, HostSwept DEF SessionNext, sessionVars, shared
<1> QED
  BY <1>1, Zenon DEF SweptTyped

LEMMA DaemonRefines ==
  ASSUME OwnInv, DaemonNext, swept' \in BOOLEAN
  PROVE  [ST!Next]_(ST!stVars)
<1> "daemon" \in Procs
  BY DEF Procs
<1> SUFFICES ST!Take \/ ST!Raise \/ ST!Sweep \/ ST!Lower \/ ST!Release \/ UNCHANGED ST!stVars
  BY DEF ST!Next
<1>a. dpc # "stopped" => lock = "daemon"
  BY DEF OwnInv, LockInv
<1>1. CASE DaemonStart
  BY <1>1, AbstractTake DEF DaemonStart
<1>2. CASE DaemonDial
  <2>1. /\ tun["daemon"] = None /\ zone \in Zones /\ UpSucceeds("daemon", zone)
        /\ UNCHANGED <<lock, swept>>
    BY <1>2 DEF DaemonDial, OwnInv, ConnInv, Typed
  <2> QED
    BY <1>2, <1>a, <2>1, AbstractRaise DEF DaemonDial
<1>3. CASE DaemonDialFails
  <2>1. tun["daemon"] = None /\ UpFails /\ UNCHANGED lock
    BY <1>3 DEF DaemonDialFails, OwnInv, ConnInv
  <2> QED
    BY <1>3, <1>a, <2>1, AbstractFailure DEF DaemonDialFails
<1>4. CASE DaemonVerify \/ TickProtected \/ TickUnprotected
           \/ UnitStart \/ UnitStop \/ TUIWrites
  <2>1. UNCHANGED <<lock, tun, guard, rules, swept>>
    BY <1>4
    DEF DaemonVerify, TickProtected, TickUnprotected, UnitStart, UnitStop, TUIWrites,
        shared
  <2> QED
    BY <2>1, AbstractStutter
<1>5. ASSUME lock = "daemon", dpc = "loop", UNCHANGED lock,
             IF conn # None THEN DownAnyway("daemon") ELSE UNCHANGED tun
      PROVE  ST!Lower
  <2>1. \A p \in Procs : tun'[p] = None
    <3>1. CASE conn # None
      BY <1>5, <3>1, DownAnywayOwn
    <3>2. CASE conn = None
      BY <1>5, <3>2, OneTunnel DEF OwnInv, ConnInv, Procs
    <3> QED
      BY <3>1, <3>2
  <2> QED
    BY <1>5, <2>1, AbstractLower
<1>6. CASE TickDown \/ TickSwitch \/ TickRedial \/ TickReconnect
  BY <1>6, <1>a, <1>5 DEF TickDown, TickSwitch, TickRedial, TickReconnect
<1>8. CASE DaemonStops
  <2>1. /\ lock = "daemon" /\ dpc = "loop" /\ lock' = "free"
        /\ conn # None => DownAnyway("daemon")
        /\ conn = None => UNCHANGED <<tun, guard, rules>>
    BY <1>8, <1>a DEF DaemonStops
  <2>2. \A p \in Procs : tun'[p] = None
    BY <2>1, DownAnywayOwn, OneTunnel DEF OwnInv, ConnInv, Procs
  <2> QED
    BY <2>1, <2>2, AbstractRelease
<1>9. CASE DaemonKilled \/ DaemonCrash
  <2>1. lock = "daemon" /\ Dies("daemon")
    BY <1>9, <1>a DEF DaemonKilled, DaemonCrash
  <2>2. (\A p \in Procs : tun'[p] = None) /\ lock' = "free"
    BY <2>1, DiesOwn
  <2> QED
    BY <2>1, <2>2, AbstractRelease
<1> QED
  BY <1>1, <1>2, <1>3, <1>4, <1>6, <1>8, <1>9 DEF DaemonNext, DaemonStep, Tick

LEMMA FgRefines ==
  ASSUME OwnInv, FgNext, swept' \in BOOLEAN
  PROVE  [ST!Next]_(ST!stVars)
<1> "connect" \in Procs
  BY DEF Procs
<1> SUFFICES ST!Take \/ ST!Raise \/ ST!Sweep \/ ST!Lower \/ ST!Release \/ UNCHANGED ST!stVars
  BY DEF ST!Next
<1>a. fpc # "off" => lock = "connect"
  BY DEF OwnInv, LockInv
<1>1. CASE FgStart
  BY <1>1, AbstractTake DEF FgStart
<1>2. CASE FgDial \/ FgRedial
  <2>1. /\ tun["connect"] = None /\ profile \in Zones /\ fpc # "off"
        /\ UpSucceeds("connect", profile) /\ UNCHANGED <<lock, swept>>
    BY <1>2 DEF FgDial, FgRedial, OwnInv, ConnInv, Typed
  <2> QED
    BY <1>a, <2>1, AbstractRaise
<1>3. CASE FgDialFails \/ FgRedialFails
  <2>1. /\ tun["connect"] = None /\ fpc # "off" /\ UpFails
        /\ UNCHANGED lock \/ lock' = "free"
    BY <1>3 DEF FgDialFails, FgRedialFails, OwnInv, ConnInv
  <2> QED
    BY <1>a, <2>1, AbstractFailure
<1>4. CASE FgPersist \/ FgVerified \/ FgProtected
  <2>1. UNCHANGED <<lock, tun, guard, rules, swept>>
    BY <1>4 DEF FgPersist, FgVerified, FgProtected, shared
  <2> QED
    BY <2>1, AbstractStutter
<1>b. ASSUME NEW ok \in BOOLEAN, lock = "connect", fpc = "watch", TearDown(ok)
      PROVE  \A p \in Procs : tun'[p] = None
  <2>1. CASE open
    BY <1>b, <2>1, DownOwn DEF TearDown
  <2>2. CASE ~open
    BY <1>b, <2>2, OneTunnel DEF TearDown, OwnInv, ConnInv, Procs
  <2> QED
    BY <2>1, <2>2
<1>5. CASE FgMissed
  <2>1. lock = "connect" /\ fpc = "watch" /\ UNCHANGED lock
    BY <1>5, <1>a DEF FgMissed
  <2>2. CASE UNCHANGED <<tun, guard, rules, swept>>
    BY <2>1, <2>2, AbstractStutter
  <2>3. ASSUME NEW ok \in BOOLEAN, TearDown(ok) PROVE ST!Lower
    <3>1. \A p \in Procs : tun'[p] = None
      BY <1>b, <2>1, <2>3
    <3> QED
      BY <2>1, <3>1, AbstractLower
  <2> QED
    BY <1>5, <2>2, <2>3 DEF FgMissed
<1>6. CASE FgSignal
  <2>1. lock = "connect" /\ fpc = "watch" /\ lock' = "free"
    BY <1>6, <1>a DEF FgSignal
  <2>2. PICK ok \in BOOLEAN : TearDown(ok)
    BY <1>6 DEF FgSignal
  <2>3. \A p \in Procs : tun'[p] = None
    BY <1>b, <2>1, <2>2
  <2> QED
    BY <2>1, <2>3, AbstractRelease
<1>7. CASE FgKilled
  <2>1. lock = "connect" /\ Dies("connect")
    BY <1>7, <1>a DEF FgKilled
  <2>2. (\A p \in Procs : tun'[p] = None) /\ lock' = "free"
    BY <2>1, DiesOwn
  <2> QED
    BY <2>1, <2>2, AbstractRelease
<1> QED
  BY <1>1, <1>2, <1>3, <1>4, <1>5, <1>6, <1>7 DEF FgNext

(* The operator's commands, from outside the lock.                         *)
LEMMA HostRefines ==
  ASSUME OwnInv, HostStep, swept' \in BOOLEAN
  PROVE  [ST!Next]_(ST!stVars)
<1> SUFFICES ST!Sweep \/ ST!Lower \/ UNCHANGED ST!stVars
  BY DEF ST!Next
<1>1. CASE OperatorLink
  <2>1. CASE tun' = tun
    <3>1. UNCHANGED <<lock, tun, guard, rules, swept>>
      BY <1>1, <2>1 DEF OperatorLink
    <3> QED
      BY <3>1, AbstractStutter
  <2>2. CASE tun' = [p \in Procs |-> None]
    <3>1. (\A p \in Procs : tun'[p] = None) /\ UNCHANGED lock
      BY <1>1, <2>2 DEF OperatorLink
    <3> QED
      BY <3>1, AbstractLower
  <2> QED
    BY <1>1, <2>1, <2>2 DEF OperatorLink
<1>2. CASE OperatorGuard
  <2>1. guard' \in {guard, FALSE} /\ swept' = TRUE /\ UNCHANGED <<lock, tun, rules>>
    BY <1>2 DEF OperatorGuard
  <2>2. guard' => guard
    BY <2>1, Zenon
  <2> QED
    BY <2>1, <2>2, AbstractSweep
<1>3. CASE OperatorRule
  BY <1>3, AbstractSweep DEF OperatorRule
<1>4. CASE OperatorStarts \/ OperatorReads \/ OperatorRecords \/ OperatorStops \/ Outage
  <2>1. UNCHANGED <<lock, tun, guard, rules, swept>>
    BY <1>4 DEF OperatorStarts, OperatorReads, OperatorRecords, OperatorStops, Outage
  <2> QED
    BY <2>1, AbstractStutter
<1> QED
  BY <1>1, <1>2, <1>3, <1>4 DEF HostStep, Operator

(* Whatever daemon, foreground connect and operator do, and whatever fails *)
(* or is killed on the way: the host goes through the steps of one with a  *)
(* single tunnel, raised by the holder of the lock, never moved in place,  *)
(* stripped in place only by a sweep of disconnect or recover, and gone    *)
(* before the lock changes hands.                                          *)
THEOREM SessionsAreSingle == SessionSpec => ImplementsSingleTunnel
<1>1. SessionInit => ST!Init /\ SweptTyped
  BY NothingStands DEF SessionInit, HostInit, ST!Init, SweptTyped
<1>2. SessionInv /\ SweptTyped /\ [SessionNext]_sessionVars => [ST!Next]_(ST!stVars) /\ SweptTyped'
  <2> SUFFICES ASSUME SessionInv, SweptTyped, [SessionNext]_sessionVars
               PROVE  [ST!Next]_(ST!stVars) /\ SweptTyped'
    OBVIOUS
  <2> OwnInv
    BY DEF SessionInv
  <2>1. SweptTyped' /\ swept' \in BOOLEAN
    BY SweptKept DEF SweptTyped
  <2>2. CASE UNCHANGED sessionVars
    <3>1. UNCHANGED <<lock, tun, guard, rules, swept>>
      BY <2>2 DEF sessionVars, shared
    <3> QED
      BY <2>1, <3>1, AbstractStutter
  <2> QED
    BY <2>1, <2>2, DaemonRefines, FgRefines, HostRefines DEF SessionNext
<1> QED
  BY SessionInvariance, <1>1, <1>2, PTL DEF SessionSpec, ImplementsSingleTunnel, ST!Spec

-----------------------------------------------------------------------------
(* The daemon alone under systemd keeps to its types.  What a process does *)
(* to the part of the host it shares with others:                          *)
LEMMA HostTouched ==
  ASSUME HostTypeOK, NEW p \in Procs, NEW z \in Zones \union {None},
         UpSucceeds(p, z) \/ UpFails \/ DownAnyway(p) \/ Dies(p)
  PROVE  /\ tun' \in [Procs -> Zones \union {None}]
         /\ guard' \in BOOLEAN /\ rules' \in {"none", "some", "all"}
<1> /\ tun \in [Procs -> Zones \union {None}] /\ rules \in {"none", "some", "all"}
    /\ guard \in BOOLEAN
  BY DEF HostTypeOK
<1>1. CASE UpSucceeds(p, z)
  <2>1. tun' \in [Procs -> Zones \union {None}] /\ rules' \in {"none", "some", "all"}
    BY <1>1 DEF UpSucceeds
  <2>2. guard' \in BOOLEAN
    BY <1>1, Zenon DEF UpSucceeds
  <2> QED
    BY <2>1, <2>2
<1>2. CASE UpFails
  <2>1. tun' \in [Procs -> Zones \union {None}] /\ rules' \in {"none", "some", "all"}
    BY <1>2 DEF UpFails, May
  <2>2. guard' \in BOOLEAN
    BY <1>2, Zenon DEF UpFails
  <2> QED
    BY <2>1, <2>2
<1>3. CASE DownAnyway(p)
  <2>1. tun' \in [Procs -> Zones \union {None}] /\ rules' \in {"none", "some", "all"}
    BY <1>3 DEF DownAnyway, Down, May
  <2>2. guard' \in {FALSE, guard}
    BY <1>3 DEF DownAnyway, Down, May
  <2>3. guard' \in BOOLEAN
    BY <2>2, Zenon
  <2> QED
    BY <2>1, <2>3
<1>4. CASE Dies(p)
  <2>1. tun' \in [Procs -> Zones \union {None}] /\ rules' \in {"none", "some", "all"}
    BY <1>4 DEF Dies
  <2>2. guard' \in BOOLEAN
    BY <1>4, Zenon DEF Dies
  <2> QED
    BY <2>1, <2>2
<1> QED
  BY <1>1, <1>2, <1>3, <1>4

LEMMA MishapTyped ==
  ASSUME HostTypeOK, NEW p \in Procs, UpFails \/ DownAnyway(p)
  PROVE  mishap' \in {"none", "teardown", "earlier", "outside"}
<1>1. PICK ok \in BOOLEAN : TornDown(ok)
  <2>1. CASE UpFails
    BY <2>1 DEF UpFails, May
  <2>2. CASE DownAnyway(p)
    BY <2>2 DEF DownAnyway, Down
  <2> QED
    BY <2>1, <2>2
<1> QED
  BY <1>1 DEF TornDown, HostTypeOK

LEMMA HostStepTyped ==
  ASSUME HostTypeOK, HostStep
  PROVE  HostTypeOK'
<1>1. /\ lock' = lock /\ live' \in SUBSET Zones
      /\ tun' \in [Procs -> Zones \union {None}]
      /\ rules' \in {"none", "some", "all"}
      /\ mishap' \in {"none", "teardown", "earlier", "outside"}
  BY DEF HostTypeOK, HostStep, Operator, OperatorStarts, OperatorLink, OperatorGuard, OperatorRule,
         OperatorReads, OperatorRecords, OperatorStops, Outage
<1>2. /\ guard' \in {guard, FALSE} /\ swept' \in {swept, TRUE}
      /\ guard \in BOOLEAN /\ swept \in BOOLEAN
  BY DEF HostTypeOK, HostStep, Operator, OperatorStarts, OperatorLink, OperatorGuard, OperatorRule,
         OperatorReads, OperatorRecords, OperatorStops, Outage
<1>3. store' \in State \union {NoState}
  BY LoweredIsDown
  DEF HostTypeOK, HostStep, Operator, OperatorStarts, OperatorLink, OperatorGuard, OperatorRule,
      OperatorReads, OperatorRecords, OperatorStops, Outage
<1>4. /\ oper' \in {None, "disconnect", "recover"}
      /\ opc' \in {"off", "link", "guard", "rules", "read", "write"}
      /\ snap' \in State \union {NoState}
  BY DEF HostTypeOK, HostStep, Operator, OperatorStarts, OperatorLink, OperatorGuard, OperatorRule,
         OperatorReads, OperatorRecords, OperatorStops, OperatorGoes, Outage, opVars
<1>5. guard' \in BOOLEAN /\ swept' \in BOOLEAN
  BY <1>2, Zenon
<1> QED
  BY <1>1, <1>3, <1>4, <1>5 DEF HostTypeOK

LEMMA ZoneNames == None \notin Zones
BY HostAssumption DEF HostAssumption

LEMMA CountTyped ==
  ASSUME NEW n \in 0..(failoverLimit + 1)
  PROVE  Count(n) \in 0..(failoverLimit + 1) /\ 0 \in 0..(failoverLimit + 1)
  BY DEF Count, failoverLimit

(* The zones a daemon may turn to, and what the TUI may ask for.           *)
LEMMA DaemonZones ==
  ASSUME HostTypeOK
  PROVE  /\ None \notin Zones
         /\ Picks \subseteq Zones \union {None}
         /\ (IF StartZone = "--best" THEN Picks \ {None} ELSE {StartZone}) \subseteq Zones
<1>1. Alive \subseteq Zones
  BY HostAssumption DEF HostAssumption, HostTypeOK, Alive
<1>2. Picks \subseteq Zones \union {None}
  BY <1>1 DEF Picks
<1> QED
  BY <1>2, HostAssumption, DaemonAssumption DEF HostAssumption, DaemonAssumption

LEMMA DaemonHostTyped ==
  ASSUME TypeOK, DaemonNext
  PROVE  HostTypeOK'
<1> HostTypeOK /\ "daemon" \in Procs /\ zone \in Zones \union {None}
  BY DEF TypeOK, DaemonTypeOK, Procs
<1> USE DEF opVars
<1>s. swept' \in BOOLEAN
  <2>1. swept \in BOOLEAN
    BY DEF HostTypeOK
  <2> QED
    BY <2>1, DaemonSwept, Zenon
<1>a. UNCHANGED shared => HostTypeOK'
  BY DEF shared, HostTypeOK
<1>b. ASSUME \/ UNCHANGED <<tun, guard, rules, mishap>>
             \/ UpSucceeds("daemon", zone) /\ UNCHANGED mishap
             \/ UpFails \/ DownAnyway("daemon"),
             lock' \in Procs \union {"free"}, store' \in State \union {NoState},
             UNCHANGED <<oper, opc, snap, live>>
      PROVE  HostTypeOK'
  <2>1. CASE UNCHANGED <<tun, guard, rules, mishap>>
    BY <1>b, <1>s, <2>1 DEF HostTypeOK
  <2>2. CASE UpSucceeds("daemon", zone) /\ UNCHANGED mishap
    BY <1>b, <1>s, <2>2, HostTouched DEF HostTypeOK
  <2>3. CASE UpFails \/ DownAnyway("daemon")
    BY <1>b, <1>s, <2>3, HostTouched, MishapTyped DEF HostTypeOK
  <2> QED
    BY <1>b, <2>1, <2>2, <2>3
<1>1. CASE DaemonStart
  BY <1>1, <1>b DEF DaemonStart, HostTypeOK
<1>2. CASE DaemonDial \/ DaemonDialFails
  BY <1>2, <1>b DEF DaemonDial, DaemonDialFails, HostTypeOK
<1>3. CASE DaemonVerify
  <2>1. zone # None
    BY <1>3 DEF DaemonVerify, TypeOK, DaemonTypeOK
  <2> QED
    BY <1>3, <1>b, <2>1 DEF DaemonVerify, Persist, State, HostTypeOK
<1>4. CASE TickDown \/ TickSwitch \/ TickRedial \/ TickReconnect
  BY <1>4, <1>b DEF TickDown, TickSwitch, TickRedial, TickReconnect, HostTypeOK
<1>5. CASE TickProtected \/ TickUnprotected \/ UnitStart \/ UnitStop \/ TUIWrites
  BY <1>5, <1>a DEF TickProtected, TickUnprotected, UnitStart, UnitStop, TUIWrites
<1>6. CASE DaemonStops
  BY <1>6, <1>b, LoweredIsDown DEF DaemonStops, HostTypeOK
<1>7. CASE DaemonKilled \/ DaemonCrash
  <2>1. Dies("daemon")
    BY <1>7 DEF DaemonKilled, DaemonCrash
  <2> QED
    BY <1>s, <2>1, HostTouched DEF Dies, HostTypeOK
<1> QED
  BY <1>1, <1>2, <1>3, <1>4, <1>5, <1>6, <1>7 DEF DaemonNext, DaemonStep, Tick

LEMMA DaemonStateTyped ==
  ASSUME TypeOK, DaemonNext
  PROVE  DaemonTypeOK'
<1> HostTypeOK /\ DaemonTypeOK
  BY DEF TypeOK
<1> USE CountTyped, ZoneNames DEF DaemonTypeOK
<1>a. unit' \in BOOLEAN
  <2>1. CASE UnitStart \/ UnitStop
    BY <2>1, Zenon DEF UnitStart, UnitStop
  <2>2. CASE UNCHANGED unit
    BY <2>2
  <2> QED
    BY <2>1, <2>2
    DEF DaemonNext, DaemonStep, Tick, DaemonStart, DaemonDial, DaemonDialFails, DaemonVerify,
        TickDown, TickSwitch, TickRedial, TickProtected, TickUnprotected, TickReconnect,
        DaemonStops, DaemonKilled, DaemonCrash, TUIWrites
<1>1. CASE DaemonStart
  BY <1>a, <1>1, DaemonZones DEF DaemonStart
<1>2. CASE DaemonDial \/ DaemonVerify
  BY <1>a, <1>2 DEF DaemonDial, DaemonVerify
<1>3. CASE DaemonDialFails
  BY <1>a, <1>3, DaemonZones DEF DaemonDialFails
<1>4. CASE TickDown \/ TickSwitch \/ TickRedial
  BY <1>a, <1>4 DEF TickDown, TickSwitch, TickRedial, Redial, WantsSwitch, shared
<1>5. CASE TickProtected \/ TickUnprotected \/ UnitStart \/ UnitStop
  BY <1>a, <1>5 DEF TickProtected, TickUnprotected, UnitStart, UnitStop
<1>6. CASE TickReconnect
  BY <1>a, <1>6, DaemonZones DEF TickReconnect
<1>7. CASE DaemonStops \/ DaemonKilled \/ DaemonCrash
  BY <1>a, <1>7 DEF DaemonStops, DaemonKilled, DaemonCrash, Exit
<1>8. CASE TUIWrites
  <2>1. intent' \in Intent
    BY <1>8 DEF TUIWrites, Intent
  <2>2. writes' \in 0..Writes
    BY <1>8, DaemonAssumption DEF TUIWrites, DaemonAssumption
  <2> QED
    BY <1>a, <1>8, <2>1, <2>2 DEF TUIWrites
<1> QED
  BY <1>1, <1>2, <1>3, <1>4, <1>5, <1>6, <1>7, <1>8 DEF DaemonNext, DaemonStep, Tick

(* Whatever fails, is written to desired.json or kills it: a running daemon*)
(* is on a zone of the catalog, which is what connect.Up is called with, and  *)
(* counts its failures to one past the limit.                              *)
THEOREM DaemonTypes == Spec => []TypeOK
<1>1. Init => TypeOK
  <2> SUFFICES ASSUME Init PROVE TypeOK
    OBVIOUS
  <2>1. HostTypeOK
    <3>1. guard \in BOOLEAN /\ swept \in BOOLEAN
      BY Zenon DEF Init, HostInit
    <3> QED
      BY <3>1 DEF Init, HostInit, HostTypeOK
  <2>2. DaemonTypeOK
    <3>1. unit \in BOOLEAN
      BY Zenon DEF Init, DaemonInit
    <3>2. 0 \in 0..(failoverLimit + 1) /\ 0 \in 0..Writes
      BY DaemonAssumption DEF DaemonAssumption, failoverLimit
    <3> QED
      BY <3>1, <3>2 DEF Init, DaemonInit, DaemonTypeOK, Intent, NoIntent
  <2> QED
    BY <2>1, <2>2 DEF TypeOK
<1>2. TypeOK /\ [Next]_vars => TypeOK'
  <2> SUFFICES ASSUME TypeOK, [Next]_vars PROVE TypeOK'
    OBVIOUS
  <2>1. CASE DaemonNext
    BY <2>1, DaemonHostTyped, DaemonStateTyped DEF TypeOK
  <2>2. CASE HostStep /\ UNCHANGED daemonVars
    <3>1. HostTypeOK'
      BY <2>2, HostStepTyped DEF TypeOK
    <3>2. DaemonTypeOK'
      BY <2>2 DEF TypeOK, DaemonTypeOK, daemonVars
    <3> QED
      BY <3>1, <3>2 DEF TypeOK
  <2>3. CASE UNCHANGED vars
    BY <2>3 DEF vars, shared, opVars, daemonVars, TypeOK, HostTypeOK, DaemonTypeOK
  <2> QED
    BY <2>1, <2>2, <2>3 DEF Next
<1> QED
  BY <1>1, <1>2, PTL DEF Spec

=============================================================================
