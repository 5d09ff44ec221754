# A formal model of mazzy-vpn

TLA+ modules, TLC configurations and TLAPS proofs about the native Go client of
this repository (`src/core`, `src/mazzy-vpn-cli`). Everything below refers to
that code at one commit; `PROJECT.json` maps each definition to its lines.

Run a configuration with `tlc -config Tunnel.cfg MCTunnel` (the table of runs
names the module of each), and check the proofs with `tlapm TunnelProofs.tla`,
and likewise each of the other modules named `...Proofs`.

## 1. The system and its parts

The repository holds several clients. The one under active development is a Go
core with a CLI; it embeds amneziawg-go as a userspace engine and configures the
host with `ip`, `nft`, `resolvectl`/`resolvconf` and `sysctl`.

| Part | State | Operations | Talks to |
|---|---|---|---|
| `core/connect` | flags of a `Conn`: which layers are on | `Up`, `Down`, the unwind of a failed `Up` | guard, engine, routes, dns, one after another |
| `core/guard` | nft tables of the host | install/remove IPv6 guard, CONNMARK, kill-switch | kernel |
| `core/routes` | `appliedDefault`, `appliedEndpoint`; rules and routes of the host | `Up`, `Down` | kernel |
| `core/dns` | `applied`, `backend` | `Up`, `Down` | systemd-resolved / resolvconf |
| `core/engine/wireguard` | the TUN and the device | `Up`, `Down` | kernel, UDP |
| `core/netexec` | none | run a command with a timeout | every layer above |
| `core/lock` | an flock | `Acquire`, `AcquireRecovery`, `Unlock` | daemon, connect |
| `core/state` | the file `active` (zone, DESIRED, mode) | `Write`, `SetDesired`, `Read` | daemon, connect, disconnect, recover |
| daemon (CLI) | zone, conn, failure counter | loop of ticks: intents, checks, reconnect, failover | all of the above, `desired.json`, systemd |
| foreground connect (CLI) | conn, failure counter | connect, watch, reconnect, signal | all of the above |
| disconnect, recover (CLI) | none | dismantle the host from outside | kernel, store; **not** the lock |
| TUI | header, screen, overlay, samplings and rankings under way | writes `desired.json` without privileges, saves settings | daemon, livecheck, measure |
| `core/livecheck` | none | is traffic protected | daemon, connect, TUI |
| `core/measure`, `netadapter`, `zonescore` | probes of one call; the cache of scores | probe, rank, reorder; recommend an uplink | `up`, `auto`, TUI, daemon |
| `core/control` | participants, routes, trust, grants, open channels | register, pair, issue, revoke, prune, `Open`, `Reachable`, `Close` | each other, by four separate mutexes |
| `core/livetest` | a run: candidate, backup, stage | `Run`: connect, verify, commit or roll back | store, connector, verifier (interfaces) |
| `core/health`, `probe` | failure counter, flag, grace | `Check`, recovery at the limit | prober and recovery (interfaces) |
| `core/bootrecovery` | a state file | `Write`, `MutationAllowed`, `ServiceGate` | the service manager |
| catalog, settings, `trust.json`, identity, scores | JSON files of the user | read, change, save | CLI commands, TUI |
| `update` | the binary and its `.old` | check, download, replace, roll back | file system, GitHub |
| `verify`, `diagnose`, `stealth`, `dnscheck`, `pathtrace` | none | a verdict from what was observed | CLI commands |
| `core/api` | registered handlers | `Dispatch` | the embedding program |
| Android native library | table of handles, devices, sockets | `awgTurnOn`, `awgTurnOff` | the VPN service, amneziawg-go |
| desktop, Android app, bash client | – | – | – |

`core/livetest`, `core/health`, `core/bootrecovery` and `core/api` are libraries that
no command of the CLI uses yet; they are modelled against their interfaces.

`PROJECT.json` lists the parts with the reason for each that is left out.

**What is hard here.** The host outlives the process: rules, guards and pins of a
run that died, or failed half-way, are what the next run starts from. A layer
may fail after other layers are on. A command may be reported as timed out
although it took effect. `disconnect` and `recover` take no lock, so their
commands fall between those of a running connection. The daemon mixes intents,
outages, reconnects and failovers in one loop with one counter, and may be
stopped, killed or restarted at any point of it. The control plane checks three
gates behind different locks. Files are replaced by rename, with and without
fsync, by processes that may be killed or lose power in between. Goroutines of the
TUI answer late and out of order.

**What must be right.** A process never brings a tunnel up without its leak guard. A
connection that is reported is complete. A teardown leaves nothing. A tunnel belongs to the
holder of the lock. The daemon heals, follows intents, and lets go when stopped.
A channel is opened only through gates that held, and always when all held.
A write that was reported survives; a file that is read is whole. Nothing untested
is what the next boot dials. A binary is always left. The zone dialled, the verdict
told and the header shown are the right ones.

## 2. Modules

```
FailClosed                 the promise: an abstract order of guard and tunnel
   ^ refined by
Tunnel                     connect.Up / Down / unwind, one action per command
   ^ EXTENDS       ^ EXTENDS           ^ EXTENDS
MCTunnel       TunnelProofs (TLAPS)    HostCleanup  disconnect, recover
                                          ^ MCCleanup
HostState                  lock, tunnels, leftovers, store, outages, operator
   ^ EXTENDS       ^ EXTENDS
Daemon          Foreground
      ^ EXTENDS   ^
       Sessions            all processes of one host
   implements
SingleTunnel               the promise: one tunnel, its holder, its cover
ControlPlane               Plane, TrustStore, GrantBook, Broker
   ^ MCControlPlane

AtomicFile   state.Store and the boot gate on disk    ZoneChoice  which zone, which uplink
LiveTest     test, commit, roll back                  Verdicts    what reports conclude
Health       one recovery per streak                  Router      api.Dispatch
UserFiles    the user's JSON files                    TuiStatus   the header
Updater      the binary                               TuiKeys     keys, rankings, intents
AndroidTunnels  handles, devices, descriptors
   ^ MCParts EXTENDS them all
```

Proofs: `TunnelProofs` and `CleanupProofs` (the connection, recover),
`SessionsProofs` (Sessions, Daemon), `ControlPlaneProofs`, `FileProofs` (AtomicFile,
UserFiles, Updater), `LiveTestProofs`, `ClientProofs` (Health, Router, TuiKeys,
Verdicts, ZoneChoice), `AndroidTunnelsProofs`.

**Tunnel.** `host` is the network state of the machine, with one field for each
thing a layer leaves in the kernel; it survives a crash, except for what the
kernel destroys with the interface (`Unlink`). `conn` holds the flags of
`connect.Conn` and of the layers below it: they are what a teardown goes by, and
they die with the process. `pc` names the command about to run. `UpDisarm` and
`UpArm` are the two commands of `InstallIPv6Guard`, `UpCreateTUN` and `UpDevice`
the two halves of `wireguard.Up`, `UpRedisarm` and `UpRearm` the second guard for
a renamed interface, `UpAddress` to `UpSysctl` are `routes.Up`, and so on to
`TearGuard`. `UpRoutesOn` is `c.routesOn = true`: its place, after the whole of
`routes.Up`, is what finding `unwind_rules` is about. A command that fails in
`Up` goes to `t_dns`, the start of the one `teardown`, with `call = "up"`.
`Answers(pre)` says what a command may answer: if the kernel would refuse it
(`ip rule add` of a rule already present), only failure; otherwise any member of
the constant `Results`: `ok`, `fail` (no effect), `late` (an error although it
took effect, the timeout of `ExecRunner`). `clean` and `last` are history
variables; no guard reads them.

**FailClosed** has three Booleans, the guard armed, a tunnel there, traffic
offered, and the order between them. `Tunnel!ImplementsFailClosed` maps
`armed` to "the guard lets the intended interface out", `tunnel` to the TUN,
and `online` to `pc = "up"`.

**HostCleanup** adds the commands of `disconnect` and `recover` to the
connection's, one step for each, so that any of them may fall between two of the
connection's: `ruled` counts the sixteen `ip rule del` of recover. `disconnect` ends
when its `ip link del` fails, recover goes on. `alone` remembers that no connection was active during the cleanup
and none of its commands failed.

**HostState**, **Daemon**, **Foreground**, **Sessions** look at the same host from
further away: `Up` and `Down` of a connection are one step each. A failed Up may leave rules
behind (`"partial"`), a process may die in the middle and leave any part of guard and
rules (`Dies`), and a teardown may meet an error and leave guard or rules (`"down"`):
the one caller that looks at the error (connect.go:221) then skips `SetDesired`, the
others go on (`DownAnyway`). The operator's disconnect and recover are not one step:
`oper` and `opc` say which of their commands comes next, and daemon and connect take
steps between them. An Up into which they ran may come out without guard or rules;
`swept` remembers that one of their commands went for either since the holder of the
lock set out to connect. `mishap` remembers a death, an operator's command, or a
teardown that met an error. In `Daemon`, `dpc` is where the loop stands, and the three
calls of `connectZone` differ by `path`, since only the redial counts its
failures. Each branch of a tick is an action. In `Sessions` both
programs share the lock, the store and the host with the operator's commands.
`OperatorReads` and `OperatorRecords` are the two halves of `SetDesired`: what it
writes (`snap`) is what was read earlier.

**SingleTunnel** is the host as a user thinks of it: a holder of the lock, the
tunnels there are with their owners and zones, and whether guard and rules are in
place. A tunnel is raised only by the holder and where there is none, and no step
moves one to another zone or owner. Cover is taken from a tunnel that stands only by
a sweep from outside (`Sweep`), which the trace records in `swept`; a tunnel is raised
with its cover, or swept. `Sessions!ImplementsSingleTunnel`
maps `holder` to the lock, `tunnels` to the set of all tunnels of all processes, and
`covered` to "guard and rules".

**ControlPlane.** A method of a store is one step, as it holds the store's mutex.
`Broker.Open` takes five locks one after another and is six steps (`CheckFrom` to
`PutChannel`) which carry what was read: the target found by `CheckTo`, the time
passed by the caller. `Reachable` is a sequence of Opens over a snapshot of the
participants. `held` and `steady` are history: the gates that held at some
moment, or all along, of the current Open.

**AtomicFile** is `atomicWrite` step by step: fill a private temporary file, sync,
rename, sync the directory. `live` is what the name leads to, `durable` the set of
what it may lead to after the power went, `kept` the content of the last write that
returned nil. Two programs use it: `StoreNext` (`Write`, `SetDesired`, `Read` with
intents) and `GateNext` (`bootrecovery.Gate` with its states, whose
`MutationAllowed`, `ServiceGate` and `ServiceExitCode` are functions of `live`).

**LiveTest** is `Tester.Run` and its `rollback`: each call of the connector, the
verifier and the store is a step that may fail; the tester may be killed before
any of them and run again. A failed `Up` has unwound itself; the store may have
written although it reports an error (the sync of the directory comes after the
rename).

**Health** is `Monitor.Check` over what `NetProbe` concludes from the answers of its
addresses. `streak` and `fired` are history: they count what the contract of the
package counts, and the code's own counter stops past the limit.

**UserFiles** is the read-change-save that settings, catalog, `trust.json`,
identity and scores share, with the temporary file of a fixed name (`fd` tells
which file a saving process has open, since another may have renamed it). A
command sees the file's records or, when it cannot read the file, none (`Seen`), and
most commands go on with that; `misread` remembers it. `user`
says which of the five a behaviour is about; the catalog also has the files of its
profiles. `overlap` records whether two commands, or two saves, overlapped.

**Updater** is `update --apply`: the comparison of versions as the code makes it,
backup by rename, copy in place, rollback, kill between any two steps. `best` is
history, the newest version installed so far; `Older` is the order of releases
that `IsNewer` should agree with.

**AndroidTunnels** is `awgTurnOn` in its steps, and `awgTurnOff`; `returned` is what
the service still holds.

**ZoneChoice** and **Verdicts** are functions: the code's loops in closed form
(a stable sort puts each element where the number of those before it says) over the
catalog, the probes' answers and the observations, compared with what a best zone, a
verified connection, a healthy host is. One step evaluates them for a choice of inputs.

**Router** takes one request through decode, version, operation, policy, handler and
envelope; requests are records of what these steps look at. A handler may return any
error code, those of the router among them (`HandlerCodes`).

**TuiStatus** and **TuiKeys** are the two halves of the TUI's message loop with the
goroutines it starts: samplings behind the header, and keys with the rankings and
writes they start. `asked` is the set of requests made since no write was under way:
those whose writes may cross. They share no field, so each has its own model.

**MCParts** puts these eleven side by side; `part` says which of them (the store and
the gate count as two) a behaviour is about, the variables of the others rest.

## 3. Runs

| Run | Module, cfg | Question | Bounds |
|---|---|---|---|
| `tunnel` | MCTunnel, Tunnel.cfg | Up, Down, unwind, crash with failing commands: `GuardedTunnel`, `Complete`, `CleanDown`, `FailedUpIsOff`; FailClosed is implemented | all 16 profiles of one mark |
| `tunnel_timeouts` | MCTunnel, TunnelTimeouts.cfg | `Complete`, `CleanDown` with late answers, a renamed TUN, two marks | 8 full-tunnel profiles |
| `unwind_rules` | MCTunnel, UnwindRules.cfg | violation: a failed Up does not revert all (`FailedUpReverts`) | 4 full-tunnel profiles |
| `cleanup` | MCCleanup, Cleanup.cfg | `RecoverCleans`, `TeardownComplete` with the commands of unlocked cleanups at any point | 8 profiles, commands fail only where the kernel refuses them |
| `recover_marks` | MCCleanup, RecoverMarks.cfg | violation: rules of another mark survive recover | two marks |
| `daemon` | Daemon, Daemon.cfg | `SelfHeals`, `SwitchApplied`, `StopReleases` | 2 zones, 2 intents, any outages and crashes |
| `daemon_disconnect` | Daemon, DaemonDisconnect.cfg | violation: a disconnect intent does not stick | 2 zones, 1 intent |
| `daemon_failover` | Daemon, DaemonFailover.cfg | violation: no failover from a zone that only answers ping | 2 zones |
| `sessions` | Sessions, Sessions.cfg | `TunnelUnderLock`, `NoNakedTunnel`, `CleanExit` with crashes, half-failed Ups, failing teardowns and the operator's commands, one at a time, between all steps; SingleTunnel is implemented | 2 zones, 1 intent, `--best`, one operator's command at a time |
| `control` | MCControlPlane, Control.cfg | `OpenJustified`, `OpenSucceeds`, `OpenSound`, `RoutesKnown`, `PruneIsInvisible` | 3 participants, 2 edges, 2 grants, 3 changes, clock 0..1 |
| `parts` | MCParts, Parts.cfg | one question for each part that shares no state with a connection, see below | see below |
| `control_channel` | MCControlPlane, ControlChannel.cfg | violation: an open channel outlives its gates | 1 change |

What `parts` asks:

| Property | Part | Says | Bounds |
|---|---|---|---|
| `WriteKept` | store, gate | a write that returned nil is what is read, over kills and power loss; nothing torn is read | 2 writers, 2 profiles |
| `GateHolds` | gate | closed unless the last completed write said ready | 2 writers, 3 states |
| `OnlyVerifiedStored`, `RecordMatchesNetwork` | test | the next boot never dials an untested profile; a test that returned leaves record and network in agreement | 2 candidates, any number of tests |
| `OneRecoveryPerStreak` | health | exactly once, at the limit | limit 3, streak to 6, 2 addresses |
| `FilesNeverTorn`, `CommandsStick` | files | a kill leaves whole files, and keeps what was reported unless a command failed to read the file | 2 commands, 2 records |
| `BinarySafe` | update | a whole binary is left, never an older one | 3 versions and their pre-releases |
| `NothingLeaks` | tunnels | between calls, handles, devices and descriptors match | 3 descriptors, 2 handles |
| `ChoiceIsBest` | choice | the zone dialled is usable and the fastest; `--clean` trades only for a fresh better score | 3 zones, 5 answers each, 5 scores; 2 adapters |
| `VerifyRight`, `ReportsRight` | verdict | verified, critical, clean, leaking, clear and the exit codes are told exactly of the facts they are about, for every combination of observations | 2 hosts, 2 countries |
| `AnswersRight` | router | a handler sees only what the policy admits; ok, retryable and permission-denied mean what they say, unless the handler said otherwise itself | all requests of one operation each |
| `RequestsLand` | keys | "Measuring" ends; once all writes ended the daemon finds one of the requests whose writes overlapped, the last one if none did | 2 rankings, 2 writes at once |
| `HeaderCatchesUp` | header | the header ends up right, and stays so | 3 samplings at once |

Why the bounds are enough. *Tunnel*: the state of the host is finite by nature;
the two profiles' marks are enough for one run to meet the rules of another, and
nothing limits how often Up, Down and crashes alternate. *Daemon*: the counter is
counted to one past its higher limit, after which the code does not tell values
apart (the length of a backoff is not modelled); two zones give one to fail over
from and one to go to; `Writes` bounds the intents, outages are unbounded.
*ControlPlane*: one call can be hit by a change at each gate; three changes undo
and redo a gate, or give an edge two grants and prune one; one caller is enough
because calls interact only through `open`, which no gate reads. In `control`
the stores start with what earlier operations would have put there (`MCGiven`),
so that the three changes fall where they matter. There is no symmetry: zones and
participants play different roles. *The parts*: two writers are enough for a rename between any
two steps of another, and a third could only repeat one of them; a streak to twice
the limit passes the point where the counter stops; version numbers include the pair
(1.9, 1.10) that a comparison of strings gets wrong; a handle table of two can be
full. A sampling takes six seconds and ticks come every two, so that three are under
way at once. `CHECK_DEADLOCK FALSE` in `Parts.cfg`: a request that was answered, a
verdict that was told, a program that has quit and a binary that is lost are ends.

The property of each run is also tested the other way: `PROJECT.json` names, for
each, a plausible bug of the code (the operators marked "Mutant" in the modules),
with which the run must fail.

### Assumptions of the model

- `ip rule add` and `ip route add` of an entry that is already there fail (EEXIST);
  `nft -f` of a table that is there merges; `ip route flush table` flushes v4.
- One server and one uplink, so one pinned route.
- The kernel may name the TUN otherwise only if `RealNames` says so; the code's
  own comment (connect.go:113) is the reason to consider it.
- TUI and daemon agree on one `desired.json` (`MAZZY_CONFIG_HOME`).
- A rename is atomic, and after a power loss leads to the old or to the new file
  until the directory is synced; a file that was not synced may come back torn.
- One updater runs at a time; the Android service calls the library one call at a
  time (its lock and its serial executor).
- `CommandsStick` is about commands that do not overlap and can read the file,
  `FilesNeverTorn` about saves that do not overlap: the code takes no lock, and both
  can be lost when they do.
- In Daemon and Sessions every profile is a full tunnel with the default mark, and
  every zone named by an intent is in the catalog. A teardown takes the TUN down in
  any case (closing the device of one's own process), and when it reports success it
  has removed guard and rules (`CleanDown` and `TeardownComplete` say so of Tunnel).
  With an error it may have left either if `"down"` is among the faults; without that
  fault the error is of layers an operator's command took away before.
- One operator's command runs at a time, beside any daemon and connect.

### Fairness

- `Daemon!Spec`: weak fairness of the daemon's own steps: the ticker fires every
  ten seconds, and systemd restarts a failed unit (`Restart=on-failure`). Strong
  fairness of `DaemonStops`: the `select` of the loop chooses at random among the
  ready cases, so a pending signal is not passed over for ever. The zones, the
  TUI, the operator and systemd's decisions owe nothing. The liveness properties
  carry what they need of them as premises (`<>[](live = up)`, finitely many
  crashes, no leftover rules in the way).
- `TuiStatus!HeaderFairness`: weak fairness of each sampling (a goroutine, whose
  probes time out after six seconds), of the delivery of its message, and of the
  tick. The user need never quit, the connection may change for ever; the property
  speaks of a status that stays.

## 4. Findings

Five statements of the repository do not hold of the code; each has a run whose
counterexample shows it, and an entry in `PROJECT.json` with the quotation.

1. *A failed Up reverts all applied steps* (connect.go:69): not the rules of a
   `routes.Up` that failed half-way.
2. *recover leaves no ip rules* (recover.go:19): not those of a profile with its
   own FwMark.
3. *The daemon applies the TUI's disconnect* (ADR-0006): it disconnects and dials
   again, for ever.
4. *A zone that keeps failing is failed over to the next live one* (daemon.go:26):
   not if it still answers ping and ranks first.
5. *A Channel only exists when all three gates pass* (channel.go:14): an open one
   is not looked at again.

More things a reader of the code should know. The properties name them as premises
or exceptions; none has a run of its own.

- *Cleanups without the lock.* `disconnect` and `recover` do not take the lock of
  which lock.go:8 says that only one mutation may run at a time (for recover that is
  deliberate, see docs/AI_NATIVE_GO_VPN/audit/round-25-full-rereview.ru.md:36). A
  command of theirs past its `ip link del` can strip guard and rules from a tunnel
  that another process has just raised, and that tunnel stays up bare until somebody
  looks. `NoNakedTunnel` says that nothing else bares a tunnel, and
  `TeardownComplete` that the connection's own `Down` still takes away all it applied.
- *A teardown that meets an error.* `connect` then returns before `SetDesired(down)`
  (connect.go:221-224): the store keeps claiming a VPN that is off. The daemon and the
  in-place reconnect ignore the error and whatever layer it left. `CleanExit` says
  that only a teardown with an error leaves such a record, or a guard.
- *A file that cannot be read.* `pair` (control_cmd.go:119-121), the node's identity
  (control_cmd.go:64-66, called "stable"), `import` (catalog.go:125) and the scores
  (zonescore.go:65-68) take a file they fail to read for an empty one and save over
  it: participants, the key pair, the list of profiles or the scores are lost with no
  error told (`CommandsStick` has the premise `~misread`).
- *Overlapping commands.* Two that change the same JSON file at once can lose an
  update, and two that save at once can leave a torn file (`UserFiles`).
- *Update.* `replaceBinary` (update.go:222) says "atomically", but renames the binary
  away and copies the new one in place: a kill in between leaves a whole binary only
  under `.old` (`BinarySafe`).
- *Reports that say more than they know.* `dnscheck` tells "clean", which
  dnscheck.go:109 spells out as "DNS is in-country and encrypted", also for a resolver
  in another country (which it lists beside it) or an unknown one. `diagnose`
  lists the DNS after a missing tunnel or missing egress, where diagnose.go:78-79
  says that symptoms downstream of a cause are not reported. `pathtrace.Healthy`
  "reports whether every step is OK" (pathtrace.go:145), but lets warnings pass.
  `ReportsRight` states what does hold.
- *Crossing requests.* Each key of the TUI writes `desired.json` in a goroutine of its
  own; when two writes cross, the older request may be the one that stays
  (`RequestsLand` says that it is one of those that crossed).

## 5. Proofs

All theorems hold for all values of the constants that satisfy the modules' named
assumptions, and those that a theorem states.

| Module | Theorem | Property |
|---|---|---|
| TunnelProofs | `TypeCorrect` | `TypeOK` |
| | `TunnelIsGuarded` | `GuardedTunnel` |
| | `ConnectionsAreComplete` | `Complete` |
| | `ConnectIsFailClosed` (for `RealNames = {Intended}`) | `ImplementsFailClosed` |
| CleanupProofs | `DownCleansUp` | `CleanDown` |
| | `FailedUpLeavesNoTunnel` | `FailedUpIsOff` |
| | `RecoverLeavesAHostClean` (for one mark and `RealNames = {Intended}`) | `RecoverCleans` |
| | `TeardownIsComplete` | `TeardownComplete` |
| SessionsProofs | `TunnelsAreOwned` | `TunnelUnderLock` |
| | `TunnelsAreCovered` | `NoNakedTunnel` |
| | `ExitsAreClean` | `CleanExit` |
| | `SessionsAreSingle` | `ImplementsSingleTunnel` |
| | `DaemonTypes` | `TypeOK` of Daemon |
| ControlPlaneProofs | `ControlTypes` | `TypeOK` |
| | `RoutesAreKnown` | `RoutesKnown` |
| | `OpensAreJustified` | `OpenJustified` |
| | `OpensAreSound` | `OpenSound` |
| | `OpensDoSucceed` | `OpenSucceeds` |
| | `PruningIsInvisible` | `PruneIsInvisible` |
| FileProofs | `IntentsAreKept` | `WriteKept` |
| | `GateStaysClosed` | `GateHolds` |
| | `FilesAreNeverTorn` | `FilesNeverTorn` |
| | `CommandsAreKept` | `CommandsStick` |
| | `BinaryIsLeft` | `BinarySafe` |
| LiveTestProofs | `OnlyVerifiedIsStored` | `OnlyVerifiedStored` |
| | `RollbackRestores` | `RecordMatchesNetwork` |
| ClientProofs | `RecoveryFiresOnce` | `OneRecoveryPerStreak` |
| | `DispatchIsRight` | `AnswersRight` |
| | `RequestsArrive` | `RequestsLand` |
| | `VerifyIsRight` | `VerifyRight` |
| | `ReportsAreRight` | `ReportsRight` |
| | `ChoicesAreBest` | `ChoiceIsBest` |
| AndroidTunnelsProofs | `NoTunnelLeaks` | `NothingLeaks` |

`AtomicFile`, `LiveTest` and the other parts are proved under their own
specifications (`StoreSpec`, `GateSpec`, `TestSpec`, ...), whose steps are those that
`MCParts` checks.

### The connection

Neither `GuardedTunnel` nor `Complete` is inductive. What keeps
the guard there while the interface exists is where the call is: before `tun`
there is no interface, from `device` to `t_engine` the flag, the interface and
the guard agree, at `redisarm` and `rearm` the interface has another name, and
only when the engine has closed it may `t_guard` remove the table. `LinkInv` says
this for each group of steps. What makes a returned connection complete is that
each step of `Up` has left its mark on the host before the next one starts:
`LayersInv` says of each step which commands must have had their effect by then,
and for families still in `todo` nothing. The inductive invariant is
`IInv == TypeOK /\ LinkInv /\ LayersInv`; it was model-checked under `Tunnel.cfg`
and `TunnelTimeouts.cfg` before it was proved. `LinkStep` and `LayersStep` have a
case per action, `Invariance` puts them together. The refinement, `FailClosedStep`, maps each action to the
abstract step of its guard or tunnel, or to a stutter, with the help of `IInv`.
The lemmas `HostUpdate`, `HostField`, `UnlinkHost` and `ConnUpdate` say once what
an update of the two records keeps.

`CleanDown` and `FailedUpIsOff` need to know what is on the host at each step.
`LedgerInv` is a ledger: in a call that found the host clean, `UpLedger` accounts
for every rule, pin, table and resolver entry by a flag of the connection or by the
command just run; `DownLedger` crosses the layers off in the order of the teardown,
as long as no command reported an error; `UnwindLedger` does so for the layers a
failed Up promises to remove. It holds beside `IInv`, and was model-checked with
both configurations first. `TearGuard` settles the account.

For recover, `IInv` is not available: disconnect may have removed the interface
under a running `Up`. `CleanupInv` keeps the types (which need only that an
interface about to be guarded has a name, `NamedInv`) and says which layers the
steps behind recover have removed. The two assumptions of the theorem are real:
`recover_marks` shows what happens with two marks, and an interface of another name
is not one that recover looks for.

`TeardownComplete` compares the host after a `Down` with an empty one, while
disconnects and recovers took layers away between any two of its commands and those
of the `Up` before. The ledger of `CleanDown` says which flag accounts for which layer
as an equality, and a cleanup breaks equalities; `LeftInv` says instead that the host
holds *at most* what the flags account for and the steps ahead will remove, and that
is stable under anything that only removes. `LinkLeft` carries the interface: it is
there only while the engine is, or is about to be, and takes its routes with it. As in
the property, commands fail only where the kernel refuses them.

### The other components

- *Sessions*. `OwnInv`: the lock is held from the start of a process to its end, and
  a conn that is nil or torn down has no tunnel; hence only the holder has one
  (`OneTunnel`), and what a failing `Up` or a teardown does to guard and rules meets
  no other tunnel but one that an operator's command has swept. `CleanInv` adds what holds as long
  as nobody was killed and no operator's command ran: `mishap` accounts for whatever
  a teardown left. The refinement of SingleTunnel needs `OwnInv` only: `AbstractRaise`, `AbstractLower`
  and the like say once which abstract step an `Up`, a failed `Up`, a `Down` or a
  death is, and `DaemonRefines`, `FgRefines`, `HostRefines` go through the actions.
  It says more than the invariants do, which do not relate a state to the next.
- *Daemon*. Its type invariant is inductive; `zone` stays in the catalog, whatever
  desired.json and the probes say, and the counter within one of its limit.
- *ControlPlane*. `StageInv`: an Open that has come to a stage has passed the gates
  before it, which `held` recorded at that moment; nothing later removes it from
  `held`. `TodoInv` types the targets of `Reachable`. `OpenSound` holds since a gate
  that was steady is passing when `ReadScopes` reads. `OpenSucceeds` is the converse:
  `SteadyInv`, what is in `steady` is passing now, so that no gate in it can refuse;
  `TargetInv`, the target found is one that was registered.
- *AtomicFile*. `DurableInv`: only a synced file is renamed, so that nothing torn is
  in `durable`; from a completed write to the next rename `durable` is one content.
- *UserFiles*. `SaveInv`: without overlap the temporary file belongs to one save from
  its truncation to its rename, and the file is whole. `StickInv`: without overlap one
  command runs at a time, so that what it saves is built on what the file still holds,
  or on nothing after a failed read; and the profile files agree with the list.
- *Updater*. `WholeInv`: what is whole at each step, the binary until the backup, the
  backup until the copy has ended, then the binary. That none is older than `best`
  rests on `NewerIsNotOlder`: what `IsNewer` accepts over a version that is not older
  than `best` is not older than `best` either.
- *LiveTest*. `VerifiedInv` (the commit step follows the verification) and
  `RollbackInv` (what network and store are at each step of the rollback).
- *Health*. `StreakInv`: the counter is the streak up to one past the limit.
- *Router*. `Established`: what each stage of Dispatch has checked. The codes that the
  router gives and those a handler gives are told apart by `result`, not by name.
- *TuiKeys*. `KeysInv`: what is being written was asked for since no write was under
  way, and the file holds such a request unless all of them are still being written.
- *Verdicts*. What was told is the verdict of what was seen (`ToldInv`); each report is
  then compared with its definition by cases over the signals (`VerifyMeaning`,
  `DiagnoseMeaning`, `StealthMeaning`, `TraceMeaning`); `Connectable` is the definition
  of a host that diagnose should find nothing critical on.
- *ZoneChoice*. A stable sort puts an element at its rank, the number of elements that
  come before it or are it. `Ranks` shows, for any finite total order, that each rank
  is taken exactly once: they are as many as there are ranks and no two coincide.
  `Sorts` and `Filters` follow for any strict weak order and any test, without
  induction, and `RankBestRanks`, `CleanestIsBest`, `ListedAreAdapters` instantiate
  them; the rest compares the head of a sorted list with the best of a set.
- *AndroidTunnels*. `OwnedInv`: open descriptors are those of the table and the one
  of the call under way.

Every safety invariant and action property that a passing run checks is thus stated
by a theorem, and so are both refinements. Only model-checked is liveness
(`SelfHeals`, `SwitchApplied`, `StopReleases`, `HeaderCatchesUp`): it
rests on fairness, and so on `ENABLED`, which is beyond the proof system. Two theorems
name an assumption on the constants that not every host satisfies:
`ConnectIsFailClosed` (the kernel grants the intended name) and
`RecoverLeavesAHostClean` (that, and one mark). What `TeardownComplete`,
`FailedUpIsOff` and `RecordMatchesNetwork` need of failing commands is in their own
premises.

## 6. Not modelled

The parsing and rendering of profiles, the wording of reports, the drawing of
screens, the captures of command output by doctor and netdiag, the time zones of
mimicry, notify-send, and the download of provider lists: text, or input and
output with no state. The cryptography of the engine, grants and identities:
libraries. The transition kill-switch (`guard.InstallFailClosed`) and
`lock.AcquireRecovery` have no caller outside tests. What probes, DNS servers and
handlers answer is free in the models that ask them. The desktop shell runs the
CLI; the Kotlin app above the native library and the 11,600-line bash client are
other programs. `PROJECT.json` lists, among the hazards, those no property covers,
and why.

## 7. Plan

Done: the connection, its cleanup and its abstract specification; the processes of
one host and theirs; the control plane; the eleven parts of `MCParts`; proofs of every
safety property the runs check, and of both refinements.

Left, in this order:

1. The step from Tunnel to HostState: that the one-step `Up` and `Down` of Sessions
   have the outcomes of the calls that Tunnel makes command by command, with the
   operator's commands between them. It is argued above, not proved.
2. The journal of actions of the bash client, and the profile import journal of the
   Android app.
3. The transition kill-switch and `AcquireRecovery`, once a command uses them.
