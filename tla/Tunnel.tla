------------------------------- MODULE Tunnel -------------------------------
(***************************************************************************)
(* core/connect: bringing one AmneziaWG/WireGuard connection up and down.  *)
(*                                                                         *)
(* connect.Up composes core/guard, core/engine/wireguard, core/routes and  *)
(* core/dns in a fail-closed order; connect.Down and the unwind of a       *)
(* failed Up share one teardown.  Every kernel command is one step, so a   *)
(* crash of the process, or another command of the host, can come between  *)
(* any two of them.  The host's network state outlives the process, except *)
(* for what the kernel destroys together with the TUN interface.           *)
(***************************************************************************)
EXTENDS Naturals

CONSTANTS
  Intended,   \* the name proto.Interface() asks for
  RealNames,  \* the names the kernel may give the TUN instead
  Marks,      \* the fwmarks profiles resolve to (routes.EffectiveMark)
  Configs,    \* the connection settings Up is called with
  Results     \* what a command may do: see ok, fail and late below

None == "none"

Families == {"v4", "v6"}

Names == RealNames \union {Intended}

(***************************************************************************)
(* What connect.Up reads of a parsed profile and of Options:               *)
(*   mark  the mark shared by the engine socket and the routing table      *)
(*   full  the families with a /0 AllowedIPs                               *)
(*   pin   an uplink is chosen and the endpoint is a literal address       *)
(*   dns   "off": no servers; "absent": servers, but no backend in PATH    *)
(***************************************************************************)
Backends == {"resolvectl", "resolvconf"}

Config == [mark : Marks, full : SUBSET Families, pin : BOOLEAN,
           dns : Backends \union {"off", "absent"}]

ASSUME TunnelAssumption ==
  /\ None \notin Names
  /\ Configs \subseteq Config
  /\ Results \subseteq {"ok", "fail", "late"}
  /\ "ok" \in Results

VARIABLES
  host,   \* network state of the machine, shared by everyone
  conn,   \* the flags of connect.Conn and of the layers it owns
  cfg,    \* the settings of the call in progress, or of the last one
  pc,     \* the command about to run; "idle" with no connection, "up" with one
  call,   \* "up" in Up and in its unwind, "down" in Down
  todo,   \* families the loop of routes.Up or routes.Down has left
  fam,    \* the family that loop is working on
  tdErr,  \* teardown has noted an error
  last,   \* history: how the last call ended
  clean   \* history: the host held nothing of ours when Up was called

vars == <<host, conn, cfg, pc, call, todo, fam, tdErr, last, clean>>

(***************************************************************************)
(* The host.                                                               *)
(*   guard6    interfaces the IPv6 guard table lets out; {} without table  *)
(*   connmark  the CONNMARK table is installed                             *)
(*   mark      rules "not fwmark m table m", by family and mark            *)
(*   suppress  rules "table main suppress_prefixlength 0", by family       *)
(*   pin       the host route to the server through the chosen uplink      *)
(*   dns       backends with servers registered for the interface          *)
(*   link      the TUN interface                                           *)
(*   routes    families with a default route in the table, via the link    *)
(***************************************************************************)
Host == [guard6 : SUBSET Names, connmark : BOOLEAN,
         mark : SUBSET (Families \X Marks), suppress : SUBSET Families,
         pin : BOOLEAN, dns : SUBSET Backends,
         link : Names \union {None}, routes : SUBSET Families]

CleanHost == [guard6 |-> {}, connmark |-> FALSE, mark |-> {}, suppress |-> {},
              pin |-> FALSE, dns |-> {}, link |-> None, routes |-> {}]

(* The interface goes, and its routes and its resolved link with it.       *)
Unlink(h) == [h EXCEPT !.link = None, !.routes = {}, !.dns = @ \ {"resolvectl"}]

Conn == [guardOn : BOOLEAN, engine : BOOLEAN, iface : Names \union {None},
         routesOn : BOOLEAN, applied : SUBSET Families, pinned : BOOLEAN,
         connmarkOn : BOOLEAN, dnsOn : BOOLEAN, dnsApplied : BOOLEAN]

NoConn == [guardOn |-> FALSE, engine |-> FALSE, iface |-> None,
           routesOn |-> FALSE, applied |-> {}, pinned |-> FALSE,
           connmarkOn |-> FALSE, dnsOn |-> FALSE, dnsApplied |-> FALSE]

UpSteps == {"disarm", "arm", "tun", "device", "redisarm", "rearm", "address",
            "pin", "families", "suppress", "route", "sysctl",
            "unmark", "mark", "dns"}

DownSteps == {"t_dns", "t_connmark", "t_routes", "t_families", "t_suppress",
              "t_engine", "t_guard"}

Steps == UpSteps \union DownSteps

Outcomes == {"none", "upErr", "downOk", "downErr", "crash"}

TypeOK ==
  /\ host \in Host
  /\ conn \in Conn
  /\ cfg \in Config
  /\ pc \in Steps \union {"idle", "up"}
  /\ call \in {"up", "down"}
  /\ todo \in SUBSET Families
  /\ fam \in Families
  /\ tdErr \in BOOLEAN
  /\ last \in Outcomes
  /\ clean \in BOOLEAN

Init ==
  /\ host = CleanHost
  /\ conn = NoConn
  /\ cfg \in Configs
  /\ pc = "idle"
  /\ call = "up"
  /\ todo = {}
  /\ fam = "v4"
  /\ tdErr = FALSE
  /\ last = "none"
  /\ clean = TRUE

(***************************************************************************)
(* netexec.Runner.Run.  A command succeeds, fails without effect, or is    *)
(* reported as timed out although it took effect ("late").  A command      *)
(* whose precondition the kernel refuses can only fail.                    *)
(***************************************************************************)
Answers(pre) == IF pre THEN Results ELSE {"fail"}

Took(r) == r # "fail"

(* The host once command r, whose effect is to make it h, has run.         *)
After(r, h) == host' = IF Took(r) THEN h ELSE host

Unwind == pc' = "t_dns" /\ tdErr' = FALSE

-----------------------------------------------------------------------------
(***************************************************************************)
(* connect.Up.  A call refused for its protocol or by the boot gate        *)
(* changes nothing and is a stuttering step.                               *)
(***************************************************************************)
UpStart ==
  /\ pc = "idle"
  /\ cfg' \in Configs
  /\ conn' = NoConn
  /\ call' = "up"
  /\ clean' = (host = CleanHost)
  /\ last' = "none"
  /\ tdErr' = FALSE
  /\ pc' = "disarm"
  /\ UNCHANGED <<host, todo, fam>>

(* InstallIPv6Guard first deletes the table, whatever the answer.          *)
Disarm(from, to) ==
  /\ pc = from
  /\ \E r \in Answers(host.guard6 # {}) : After(r, [host EXCEPT !.guard6 = {}])
  /\ pc' = to
  /\ UNCHANGED <<conn, cfg, call, todo, fam, tdErr, last, clean>>

UpDisarm == Disarm("disarm", "arm")

(* Then loads the ruleset; a table still there keeps its older rules.      *)
Armed(name) == [host EXCEPT !.guard6 = @ \union {name}]

(* Mutant: the guard is best effort.                                       *)
UpArmBestEffort ==
  /\ pc = "arm"
  /\ \E r \in Answers(TRUE) :
       /\ After(r, Armed(Intended))
       /\ conn' = [conn EXCEPT !.guardOn = (r = "ok")]
  /\ pc' = "tun"
  /\ UNCHANGED <<cfg, call, todo, fam, tdErr, last, clean>>

(* A guard that cannot be armed ends Up before anything else is applied.   *)
UpArm ==
  /\ pc = "arm"
  /\ \E r \in Answers(TRUE) :
       /\ After(r, Armed(Intended))
       /\ \/ /\ r = "ok"
             /\ conn' = [conn EXCEPT !.guardOn = TRUE]
             /\ pc' = "tun"
             /\ UNCHANGED last
          \/ /\ r # "ok"
             /\ conn' = NoConn
             /\ pc' = "idle"
             /\ last' = "upErr"
  /\ UNCHANGED <<cfg, call, todo, fam, tdErr, clean>>

(* wireguard.Up: the TUN device exists from here on, under its real name.  *)
UpCreateTUN ==
  /\ pc = "tun"
  /\ \/ /\ host.link = None
        /\ \E name \in RealNames :
             /\ host' = [host EXCEPT !.link = name]
             /\ conn' = [conn EXCEPT !.iface = name]
        /\ pc' = "device"
        /\ UNCHANGED tdErr
     \/ /\ "fail" \in Answers(host.link = None)
        /\ Unwind
        /\ UNCHANGED <<host, conn>>
  /\ UNCHANGED <<cfg, call, todo, fam, last, clean>>

(* Mutant: a device that cannot be configured is not closed.               *)
UpDeviceLeaks ==
  /\ pc = "device"
  /\ \/ /\ conn' = [conn EXCEPT !.engine = TRUE]
        /\ pc' = IF conn.iface # Intended THEN "redisarm" ELSE "address"
        /\ UNCHANGED tdErr
     \/ /\ "fail" \in Results
        /\ Unwind
        /\ UNCHANGED conn
  /\ UNCHANGED <<host, cfg, call, todo, fam, last, clean>>

(* UAPI rendering, IpcSet and dev.Up; any of them failing closes the TUN.  *)
UpDevice ==
  /\ pc = "device"
  /\ \/ /\ conn' = [conn EXCEPT !.engine = TRUE]
        /\ pc' = IF conn.iface # Intended THEN "redisarm" ELSE "address"
        /\ UNCHANGED <<host, tdErr>>
     \/ /\ "fail" \in Results
        /\ host' = Unlink(host)
        /\ Unwind
        /\ UNCHANGED conn
  /\ UNCHANGED <<cfg, call, todo, fam, last, clean>>

(* The guard is re-affirmed for a real name other than the intended one.   *)
UpRedisarm == Disarm("redisarm", "rearm")

(* Mutant: failing to re-affirm is not an error.                           *)
UpRearmBestEffort ==
  /\ pc = "rearm"
  /\ \E r \in Answers(TRUE) : After(r, Armed(conn.iface))
  /\ pc' = "address"
  /\ UNCHANGED <<conn, cfg, call, todo, fam, tdErr, last, clean>>

UpRearm ==
  /\ pc = "rearm"
  /\ \E r \in Answers(TRUE) :
       /\ After(r, Armed(conn.iface))
       /\ IF r = "ok" THEN pc' = "address" /\ UNCHANGED tdErr ELSE Unwind
  /\ UNCHANGED <<conn, cfg, call, todo, fam, last, clean>>

(* routes.Up: link up and addresses, which die with the link.              *)
UpAddress ==
  /\ pc = "address"
  /\ \E r \in Answers(host.link = conn.iface) :
       IF r = "ok" THEN pc' = "pin" /\ UNCHANGED tdErr ELSE Unwind
  /\ UNCHANGED <<host, conn, cfg, call, todo, fam, last, clean>>

UpPin ==
  /\ pc = "pin"
  /\ \/ /\ ~cfg.pin
        /\ todo' = cfg.full
        /\ pc' = "families"
        /\ UNCHANGED <<host, conn, tdErr>>
     \/ /\ cfg.pin
        /\ \E r \in Answers(~host.pin) :
             /\ After(r, [host EXCEPT !.pin = TRUE])
             /\ \/ /\ r = "ok"
                   /\ conn' = [conn EXCEPT !.pinned = TRUE]
                   /\ todo' = cfg.full
                   /\ pc' = "families"
                   /\ UNCHANGED tdErr
                \/ /\ r # "ok"
                   /\ Unwind
                   /\ UNCHANGED <<conn, todo>>
  /\ UNCHANGED <<cfg, call, fam, last, clean>>

(* addDefault, v4 before v6, one command at a time.                        *)
UpMarkRule ==
  /\ pc = "families" /\ todo # {}
  /\ LET f == IF "v4" \in todo THEN "v4" ELSE "v6"
     IN  /\ fam' = f
         /\ \E r \in Answers(<<f, cfg.mark>> \notin host.mark) :
              /\ After(r, [host EXCEPT !.mark = @ \union {<<f, cfg.mark>>}])
              /\ IF r = "ok" THEN pc' = "suppress" /\ UNCHANGED tdErr ELSE Unwind
  /\ UNCHANGED <<conn, cfg, call, todo, last, clean>>

(* Mutant: the suppress rule is best effort.                               *)
UpSuppressRuleBestEffort ==
  /\ pc = "suppress"
  /\ \E r \in Answers(fam \notin host.suppress) :
       After(r, [host EXCEPT !.suppress = @ \union {fam}])
  /\ pc' = "route"
  /\ UNCHANGED <<conn, cfg, call, todo, fam, tdErr, last, clean>>

UpSuppressRule ==
  /\ pc = "suppress"
  /\ \E r \in Answers(fam \notin host.suppress) :
       /\ After(r, [host EXCEPT !.suppress = @ \union {fam}])
       /\ IF r = "ok" THEN pc' = "route" /\ UNCHANGED tdErr ELSE Unwind
  /\ UNCHANGED <<conn, cfg, call, todo, fam, last, clean>>

(* Mutant: the family is not recorded as applied.                          *)
FamilyForgotten ==
  /\ todo' = todo \ {fam}
  /\ pc' = "families"
  /\ UNCHANGED <<conn, tdErr>>

FamilyDone ==
  /\ conn' = [conn EXCEPT !.applied = @ \union {fam}]
  /\ todo' = todo \ {fam}
  /\ pc' = "families"
  /\ UNCHANGED tdErr

UpTableRoute ==
  /\ pc = "route"
  /\ \E r \in Answers(host.link = conn.iface /\ fam \notin host.routes) :
       /\ After(r, [host EXCEPT !.routes = @ \union {fam}])
       /\ CASE r = "ok" /\ fam = "v6" -> FamilyDone
            [] r = "ok" /\ fam = "v4" -> pc' = "sysctl" /\ UNCHANGED <<conn, todo, tdErr>>
            [] OTHER -> Unwind /\ UNCHANGED <<conn, todo>>
  /\ UNCHANGED <<cfg, call, fam, last, clean>>

UpSysctl ==
  /\ pc = "sysctl"
  /\ \E r \in Answers(TRUE) :
       IF r = "ok" THEN FamilyDone ELSE Unwind /\ UNCHANGED <<conn, todo>>
  /\ UNCHANGED <<host, cfg, call, fam, last, clean>>

(* routes.Up has returned: only now does teardown know about the routes.   *)
UpRoutesOn ==
  /\ pc = "families" /\ todo = {}
  /\ conn' = [conn EXCEPT !.routesOn = TRUE]
  /\ pc' = "unmark"
  /\ UNCHANGED <<host, cfg, call, todo, fam, tdErr, last, clean>>

(* InstallConnmark, best effort: delete the table, then load it.           *)
UpUnmark ==
  /\ pc = "unmark"
  /\ \E r \in Answers(host.connmark) : After(r, [host EXCEPT !.connmark = FALSE])
  /\ pc' = "mark"
  /\ UNCHANGED <<conn, cfg, call, todo, fam, tdErr, last, clean>>

UpConnmark ==
  /\ pc = "mark"
  /\ \E r \in Answers(TRUE) :
       /\ After(r, [host EXCEPT !.connmark = TRUE])
       /\ conn' = [conn EXCEPT !.connmarkOn = (r = "ok")]
  /\ pc' = "dns"
  /\ UNCHANGED <<cfg, call, todo, fam, tdErr, last, clean>>

(* Mutant: the backend is not looked up in PATH first.                     *)
UpDNSUnchecked ==
  /\ pc = "dns"
  /\ host' = [host EXCEPT !.dns = @ \union {cfg.dns}]
  /\ conn' = [conn EXCEPT !.dnsOn = TRUE, !.dnsApplied = TRUE]
  /\ pc' = "up"
  /\ UNCHANGED <<cfg, call, todo, fam, tdErr, last, clean>>

(* dns.Up; with no servers the layer counts as on, with nothing applied.   *)
UpDNS ==
  /\ pc = "dns"
  /\ \/ /\ cfg.dns = "off"
        /\ conn' = [conn EXCEPT !.dnsOn = TRUE]
        /\ pc' = "up"
        /\ UNCHANGED <<host, tdErr>>
     \/ /\ cfg.dns = "absent"
        /\ Unwind
        /\ UNCHANGED <<host, conn>>
     \/ /\ cfg.dns \in Backends
        /\ \E r \in Answers(cfg.dns = "resolvectl" => host.link = conn.iface) :
             /\ After(r, [host EXCEPT !.dns = @ \union {cfg.dns}])
             /\ \/ /\ r = "ok"
                   /\ conn' = [conn EXCEPT !.dnsOn = TRUE, !.dnsApplied = TRUE]
                   /\ pc' = "up"
                   /\ UNCHANGED tdErr
                \/ /\ r # "ok"
                   /\ Unwind
                   /\ UNCHANGED conn
  /\ UNCHANGED <<cfg, call, todo, fam, last, clean>>

-----------------------------------------------------------------------------
(***************************************************************************)
(* connect.teardown: every layer whose flag is set, in reverse order, none *)
(* skipped because an earlier one failed.                                  *)
(***************************************************************************)
(* Mutant: the guard goes first.                                           *)
DownStartUnguarded ==
  /\ pc = "up"
  /\ host' = [host EXCEPT !.guard6 = {}]
  /\ pc' = "t_dns"
  /\ call' = "down"
  /\ tdErr' = FALSE
  /\ UNCHANGED <<conn, cfg, todo, fam, last, clean>>

DownStart ==
  /\ pc = "up"
  /\ pc' = "t_dns"
  /\ call' = "down"
  /\ tdErr' = FALSE
  /\ UNCHANGED <<host, conn, cfg, todo, fam, last, clean>>

(* note(err): remember that a command of the teardown reported an error.   *)
Note(r) == tdErr' = (tdErr \/ r # "ok")

TearDNS ==
  /\ pc = "t_dns"
  /\ IF conn.dnsOn /\ conn.dnsApplied
     THEN \E r \in Answers(cfg.dns = "resolvectl" => host.link = conn.iface) :
            After(r, [host EXCEPT !.dns = @ \ {cfg.dns}]) /\ Note(r)
     ELSE UNCHANGED <<host, tdErr>>
  /\ conn' = [conn EXCEPT !.dnsOn = FALSE]
  /\ pc' = "t_connmark"
  /\ UNCHANGED <<cfg, call, todo, fam, last, clean>>

TearConnmark ==
  /\ pc = "t_connmark"
  /\ IF conn.connmarkOn
     THEN \E r \in Answers(host.connmark) :
            After(r, [host EXCEPT !.connmark = FALSE]) /\ Note(r)
     ELSE UNCHANGED <<host, tdErr>>
  /\ conn' = [conn EXCEPT !.connmarkOn = FALSE]
  /\ pc' = "t_routes"
  /\ UNCHANGED <<cfg, call, todo, fam, last, clean>>

(* Mutant: an error so far ends the teardown of the layers on the host.    *)
TearRoutesUnlessError ==
  /\ pc = "t_routes"
  /\ todo' = IF conn.routesOn THEN conn.applied ELSE {}
  /\ pc' = IF conn.routesOn /\ ~tdErr THEN "t_families" ELSE "t_engine"
  /\ UNCHANGED <<host, conn, cfg, call, fam, tdErr, last, clean>>

TearRoutes ==
  /\ pc = "t_routes"
  /\ todo' = IF conn.routesOn THEN conn.applied ELSE {}
  /\ pc' = IF conn.routesOn THEN "t_families" ELSE "t_engine"
  /\ UNCHANGED <<host, conn, cfg, call, fam, tdErr, last, clean>>

(* delDefault; the map of applied families is visited in any order.        *)
TearMarkRule ==
  /\ pc = "t_families"
  /\ \E f \in todo :
       /\ fam' = f
       /\ \E r \in Answers(<<f, cfg.mark>> \in host.mark) :
            After(r, [host EXCEPT !.mark = @ \ {<<f, cfg.mark>>}]) /\ Note(r)
  /\ pc' = "t_suppress"
  /\ UNCHANGED <<conn, cfg, call, todo, last, clean>>

TearSuppressRule ==
  /\ pc = "t_suppress"
  /\ \E r \in Answers(fam \in host.suppress) :
       After(r, [host EXCEPT !.suppress = @ \ {fam}]) /\ Note(r)
  /\ todo' = todo \ {fam}
  /\ pc' = "t_families"
  /\ UNCHANGED <<conn, cfg, call, fam, last, clean>>

(* Mutant: the host route to the server is left in place.                  *)
TearPinForgotten ==
  /\ pc = "t_families" /\ todo = {}
  /\ conn' = [conn EXCEPT !.pinned = FALSE, !.routesOn = FALSE]
  /\ pc' = "t_engine"
  /\ UNCHANGED <<host, cfg, call, todo, fam, tdErr, last, clean>>

(* delEndpointRoute, the last command of routes.Down.                      *)
TearPin ==
  /\ pc = "t_families" /\ todo = {}
  /\ IF conn.pinned
     THEN \E r \in Answers(host.pin) :
            After(r, [host EXCEPT !.pin = FALSE]) /\ Note(r)
     ELSE UNCHANGED <<host, tdErr>>
  /\ conn' = [conn EXCEPT !.pinned = FALSE, !.routesOn = FALSE]
  /\ pc' = "t_engine"
  /\ UNCHANGED <<cfg, call, todo, fam, last, clean>>

(* The engine closes the TUN device; it reports no error.                  *)
TearEngine ==
  /\ pc = "t_engine"
  /\ host' = IF conn.engine THEN Unlink(host) ELSE host
  /\ conn' = [conn EXCEPT !.engine = FALSE]
  /\ pc' = "t_guard"
  /\ UNCHANGED <<cfg, call, todo, fam, tdErr, last, clean>>

(* The guard goes last, and the call returns.                              *)
TearGuard ==
  /\ pc = "t_guard"
  /\ IF conn.guardOn
     THEN \E r \in Answers(host.guard6 # {}) :
            After(r, [host EXCEPT !.guard6 = {}]) /\ Note(r)
     ELSE UNCHANGED <<host, tdErr>>
  /\ conn' = NoConn
  /\ pc' = "idle"
  /\ last' = IF call = "up" THEN "upErr" ELSE IF tdErr' THEN "downErr" ELSE "downOk"
  /\ UNCHANGED <<cfg, call, todo, fam, clean>>

(* The process dies: SIGKILL, a panic, or a signal before it is handled.   *)
Crash ==
  /\ pc # "idle"
  /\ host' = Unlink(host)
  /\ conn' = NoConn
  /\ pc' = "idle"
  /\ last' = "crash"
  /\ UNCHANGED <<cfg, call, todo, fam, tdErr, clean>>

-----------------------------------------------------------------------------
UpStep ==
  \/ UpDisarm \/ UpArm \/ UpCreateTUN \/ UpDevice \/ UpRedisarm \/ UpRearm
  \/ UpAddress \/ UpPin \/ UpMarkRule \/ UpSuppressRule \/ UpTableRoute
  \/ UpSysctl \/ UpRoutesOn \/ UpUnmark \/ UpConnmark \/ UpDNS

DownStep ==
  \/ TearDNS \/ TearConnmark \/ TearRoutes \/ TearMarkRule
  \/ TearSuppressRule \/ TearPin \/ TearEngine \/ TearGuard

Next == UpStart \/ UpStep \/ DownStart \/ DownStep \/ Crash

Spec == Init /\ [][Next]_vars

-----------------------------------------------------------------------------
(***************************************************************************)
(* Properties.                                                             *)
(***************************************************************************)

(* "The IPv6 leak guard is armed BEFORE the interface exists": while the   *)
(* interface exists under its intended name, in Up, in use and in any      *)
(* unwind, the guard is there and lets that interface out.                 *)
GuardedTunnel == host.link = Intended => Intended \in host.guard6

(* What connect.Up has returned a Conn for is complete: every layer is in  *)
(* the kernel, also when older runs left rules, guards or pins behind.     *)
Complete ==
  pc = "up" =>
    /\ host.link = conn.iface /\ conn.iface \in host.guard6
    /\ \A f \in cfg.full : /\ <<f, cfg.mark>> \in host.mark
                           /\ f \in host.suppress /\ f \in host.routes
    /\ cfg.pin => host.pin
    /\ cfg.dns \in Backends => cfg.dns \in host.dns

(* connect.Down that reports success leaves a host that was clean before   *)
(* Up clean again.  The one exception is a CONNMARK table whose load was   *)
(* reported as timed out: InstallConnmark is best effort, so nobody owns   *)
(* that table and no teardown removes it.                                  *)
CleanDown ==
  pc = "idle" /\ last = "downOk" /\ clean =>
    /\ [host EXCEPT !.connmark = FALSE] = CleanHost
    /\ host.connmark => "late" \in Results

(* A failed connect.Up whose unwind met no error is off: no interface, no  *)
(* resolver entry, no CONNMARK table and no IPv6 guard are left, provided  *)
(* commands that report an error did nothing.                              *)
FailedUpIsOff ==
  pc = "idle" /\ last = "upErr" /\ clean /\ ~tdErr /\ "late" \notin Results =>
    /\ host.link = None
    /\ host.guard6 = {}
    /\ ~host.connmark
    /\ host.dns = {}

(* connect.go:69: "It is fail-closed: if any step fails, all applied steps *)
(* are reverted".                                                          *)
FailedUpReverts ==
  pc = "idle" /\ last = "upErr" /\ clean /\ ~tdErr => host = CleanHost

(* connect.Up, connect.Down and a crash, command by command, implement     *)
(* the fail-closed order, whatever commands fail, when the kernel grants   *)
(* the interface its intended name.                                        *)
FC == INSTANCE FailClosed WITH
        armed  <- Intended \in host.guard6,
        tunnel <- host.link # None,
        online <- pc = "up"

ImplementsFailClosed == FC!Spec

=============================================================================
