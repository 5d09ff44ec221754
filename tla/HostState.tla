----------------------------- MODULE HostState -----------------------------
(***************************************************************************)
(* What the processes of the CLI share: the mutation lock, the tunnels and *)
(* the leftovers of connect.Up and connect.Down (command by command in     *)
(* module Tunnel, one step here), the persisted intent and the reachability*)
(* of the servers; and the two commands an operator may run without the    *)
(* lock, whose steps fall between those of the lock's holder, or inside an *)
(* Up of his.  Every profile here is a full tunnel.                        *)
(***************************************************************************)
EXTENDS Naturals

CONSTANTS
  Zones,     \* profiles of the catalog
  PingOnly,  \* zones whose server answers ping also when it routes nothing
  Faults     \* what may go wrong: see the actions that name a fault

None == "none"

(* The two long-running commands that hold the mutation lock.              *)
Procs == {"daemon", "connect"}

AllFaults == {"up", "partial", "down", "crash", "outage", "operator"}

ASSUME HostAssumption ==
  /\ None \notin Zones /\ "free" \notin Procs
  /\ PingOnly \subseteq Zones
  /\ Faults \subseteq AllFaults

VARIABLES
  lock,   \* holder of lockDir()/mutation.lock
  tun,    \* the zone each process has a TUN interface for
  guard,  \* the IPv6 guard table is installed
  rules,  \* policy routing: "none", "all" of a connection, or "some" of it
  store,  \* state.Store: the profile and DESIRED
  oper,   \* the operator's command that is running, or None
  opc,    \* its next step, or "off"
  snap,   \* what SetDesired of it has read
  live,   \* zones that carry traffic
  swept,  \* history: an operator's command went for guard or rules since the
          \* holder of the lock last set out to connect
  mishap  \* history: "outside" once a process died or an operator's command
          \* ran; before that, whether an own "teardown" (the last one, or
          \* an "earlier" one) met an error

opVars == <<oper, opc, snap>>

shared == <<lock, tun, guard, rules, store, opVars, live, swept, mishap>>

State == [zone : Zones, desired : {"up", "down"}]

NoState == [zone |-> None, desired |-> "down"]

HostTypeOK ==
  /\ lock \in Procs \union {"free"}
  /\ tun \in [Procs -> Zones \union {None}]
  /\ guard \in BOOLEAN
  /\ rules \in {"none", "some", "all"}
  /\ store \in State \union {NoState}
  /\ oper \in {None, "disconnect", "recover"}
  /\ opc \in {"off", "link", "guard", "rules", "read", "write"}
  /\ snap \in State \union {NoState}
  /\ live \in SUBSET Zones
  /\ swept \in BOOLEAN
  /\ mishap \in {"none", "teardown", "earlier", "outside"}

HostInit ==
  /\ lock = "free"
  /\ tun = [p \in Procs |-> None]
  /\ guard = FALSE
  /\ rules = "none"
  /\ store = NoState
  /\ oper = None /\ opc = "off" /\ snap = NoState
  /\ live \in SUBSET Zones
  /\ swept = FALSE
  /\ mishap = "none"

-----------------------------------------------------------------------------
(* The holder of the lock sets out to connect.                             *)
SetsOut == swept' = FALSE

(* connect.Up completes only if the kernel accepts its rules: "ip rule     *)
(* add" of a rule that is already there is refused.  A cleanup that ran    *)
(* between its commands may have taken what they had put in place.         *)
UpSucceeds(p, z) ==
  /\ rules = "none"
  /\ tun' = [tun EXCEPT ![p] = z]
  /\ guard' \in {TRUE} \union (IF swept THEN {FALSE} ELSE {})
  /\ rules' \in {"all"} \union (IF swept THEN {"some", "none"} ELSE {})

(* A teardown attempts every layer and remembers that one failed.          *)
TornDown(ok) ==
  mishap' = IF mishap = "outside" THEN "outside"
            ELSE IF ~ok THEN "teardown"
            ELSE IF mishap = "teardown" THEN "earlier" ELSE mishap

May(fault, outcomes) == IF fault \in Faults THEN outcomes ELSE {}

(* Mutant: the unwind forgets the guard.                                   *)
UpFailsGuarded ==
  /\ rules # "none" \/ {"up", "partial", "operator"} \intersect Faults # {}
  /\ guard' = TRUE
  /\ UNCHANGED <<tun, rules, mishap>>

(* A failed Up unwinds, ignoring the errors of its teardown.  Rules it had *)
(* added before routes.Up failed stay; so may any layer whose removal      *)
(* fails.                                                                  *)
UpFails ==
  /\ rules # "none" \/ {"up", "partial", "operator"} \intersect Faults # {}
  /\ UNCHANGED tun
  /\ \E ok \in {TRUE} \union May("down", {FALSE}) :
       /\ TornDown(ok)
       /\ guard' \in IF ok THEN {FALSE} ELSE BOOLEAN
       /\ rules' \in {rules} \union May("partial", {"some"}) \union (IF ok THEN {} ELSE {"some"})

(* conn.Down.  It reports an error when the removal of a layer fails, or   *)
(* the layer has been taken away; the TUN is gone in any case.             *)
Down(p, ok) ==
  /\ tun' = [tun EXCEPT ![p] = None]
  /\ IF ok THEN guard /\ rules = "all" ELSE "down" \in Faults \/ ~guard \/ rules # "all" \/ tun[p] = None
  /\ guard' \in {FALSE} \union (IF ok THEN {} ELSE May("down", {guard}))
  /\ rules' \in {"none"} \union (IF ok \/ rules = "none" THEN {} ELSE May("down", {"some", rules}))
  /\ TornDown(ok)

(* The callers that ignore the error of Down.                              *)
DownAnyway(p) == \E ok \in BOOLEAN : Down(p, ok)

(* The kernel drops the lock and the interface of a process that dies; the *)
(* guard and the rules stay as far as an Up or Down under way had got.     *)
Dies(p) ==
  /\ lock' = "free"
  /\ tun' = [tun EXCEPT ![p] = None]
  /\ guard' \in BOOLEAN
  /\ rules' \in {"none", "some"}
  /\ mishap' = "outside"
  /\ UNCHANGED <<store, opVars, live, swept>>

Persist(z) == store' = [zone |-> z, desired |-> "up"]

(* SetDesired(down) fails, writing nothing, when there is no state file.   *)
Lowered(s) == IF s = NoState THEN s ELSE [s EXCEPT !.desired = "down"]

(* livecheck: the interface is there and traffic goes through it.          *)
Protected(p) == tun[p] # None /\ tun[p] \in live

(* pickBestLive: a zone that answers ping if there is one, else whatever   *)
(* looked reachable over UDP, if anything did.                             *)
Alive == live \union PingOnly

Picks == IF Alive # {} THEN Alive ELSE Zones \union {None}

-----------------------------------------------------------------------------
(* mazzy-vpn disconnect and mazzy-vpn recover take no lock.  Bound: one of *)
(* them at a time.  disconnect does nothing unless it sees an interface.   *)
OperatorStarts ==
  /\ "operator" \in Faults
  /\ opc = "off"
  /\ oper' \in {"recover"} \union (IF \E p \in Procs : tun[p] # None THEN {"disconnect"} ELSE {})
  /\ opc' = "link"
  /\ mishap' = "outside"
  /\ UNCHANGED <<lock, tun, guard, rules, store, snap, live, swept>>

(* A command of it that takes something away may also fail.  Killed, or at *)
(* its end, it is off.                                                     *)
OperatorGoes(to) ==
  /\ opc' = to
  /\ oper' = IF to = "off" THEN None ELSE oper
  /\ snap' = IF to = "write" THEN store ELSE NoState

(* "ip link del": a failure, or an interface that is gone by now, ends     *)
(* disconnect; recover goes on.                                            *)
OperatorLink ==
  /\ opc = "link"
  /\ tun' \in {tun, [p \in Procs |-> None]}
  /\ OperatorGoes(IF oper = "disconnect" /\ tun' = tun THEN "off" ELSE "guard")
  /\ UNCHANGED <<lock, guard, rules, store, live, swept, mishap>>

OperatorGuard ==
  /\ opc = "guard"
  /\ guard' \in {guard, FALSE}
  /\ swept' = TRUE
  /\ OperatorGoes(IF oper = "disconnect" THEN "read" ELSE "rules")
  /\ UNCHANGED <<lock, tun, rules, store, live, mishap>>

(* One of the "ip rule del" of recover, or the flush of the table after    *)
(* them; how many are left is not counted.                                 *)
OperatorRule ==
  /\ opc = "rules"
  /\ rules' \in {rules} \union (IF rules = "none" THEN {} ELSE IF rules = "all" THEN {"some"} ELSE {"none"})
  /\ swept' = TRUE
  /\ \E to \in {"rules", "read"} : OperatorGoes(to)
  /\ UNCHANGED <<lock, tun, guard, store, live, mishap>>

(* SetDesired writes back what it read, with DESIRED changed.              *)
OperatorReads ==
  /\ opc = "read"
  /\ OperatorGoes("write")
  /\ UNCHANGED <<lock, tun, guard, rules, store, live, swept, mishap>>

OperatorRecords ==
  /\ opc = "write"
  /\ store' = IF snap = NoState THEN store ELSE Lowered(snap)
  /\ OperatorGoes("off")
  /\ UNCHANGED <<lock, tun, guard, rules, live, swept, mishap>>

OperatorStops ==
  /\ opc # "off"
  /\ OperatorGoes("off")
  /\ UNCHANGED <<lock, tun, guard, rules, store, live, swept, mishap>>

Operator ==
  \/ OperatorStarts \/ OperatorLink \/ OperatorGuard \/ OperatorRule
  \/ OperatorReads \/ OperatorRecords \/ OperatorStops

(* Servers stop and start carrying traffic.                                *)
Outage ==
  /\ "outage" \in Faults
  /\ live' \in SUBSET Zones
  /\ UNCHANGED <<lock, tun, guard, rules, store, opVars, swept, mishap>>

HostStep == Operator \/ Outage

=============================================================================
