--------------------------- MODULE AndroidTunnels ---------------------------
(***************************************************************************)
(* The native library of the Android client: awgTurnOn makes a device of   *)
(* the TUN descriptor of VpnService and returns a handle, awgTurnOff       *)
(* closes it.  The service calls them one at a time (under its             *)
(* stateTransitionLock and its serial executor); each step may fail.       *)
(***************************************************************************)
EXTENDS Naturals

CONSTANTS
  Fds,        \* descriptors VpnService hands over
  MaxHandle   \* first handle beyond the table (math.MaxInt32 in the code)

NoFd == "none"

ASSUME TunnelsAssumption == NoFd \notin Fds /\ MaxHandle \in Nat

Handles == 0..(MaxHandle - 1)

VARIABLES
  fds,       \* descriptors that are open
  devices,   \* descriptors a device is running on
  sockets,   \* descriptors whose device has a UAPI socket open
  table,     \* tunnelHandles: the descriptor of each handle's device
  turning,   \* the awgTurnOn under way
  returned   \* handles returned and not turned off since

tunnelVars == <<fds, devices, sockets, table, turning, returned>>

Resting == [at |-> "idle", fd |-> NoFd]

TunnelsInit ==
  /\ fds = {} /\ devices = {} /\ sockets = {}
  /\ table = [h \in {} |-> NoFd]
  /\ turning = Resting
  /\ returned = {}

-----------------------------------------------------------------------------
TurnAt(step) == turning.at = step

TurnGoes(step) == turning' = [turning EXCEPT !.at = step]

TurnOn(fd) ==
  /\ TurnAt("idle") /\ fd \notin fds
  /\ fds' = fds \union {fd}
  /\ turning' = [at |-> "tun", fd |-> fd]
  /\ UNCHANGED <<devices, sockets, table, returned>>

TunMade ==
  /\ TurnAt("tun")
  /\ devices' = devices \union {turning.fd}
  /\ TurnGoes("configure")
  /\ UNCHANGED <<fds, sockets, table, returned>>

TunFails ==
  /\ TurnAt("tun")
  /\ fds' = fds \ {turning.fd}
  /\ turning' = Resting
  /\ UNCHANGED <<devices, sockets, table, returned>>

(* device.Close closes the TUN, and with it the descriptor.                *)
CloseDevice(fd) ==
  /\ devices' = devices \ {fd}
  /\ fds' = fds \ {fd}
  /\ sockets' = sockets \ {fd}

Refused ==
  /\ CloseDevice(turning.fd)
  /\ turning' = Resting
  /\ UNCHANGED <<table, returned>>

(* The UAPI socket is optional.                                            *)
Configure ==
  /\ TurnAt("configure")
  /\ \/ Refused
     \/ /\ TurnGoes("up")
        /\ sockets' \in {sockets, sockets \union {turning.fd}}
        /\ UNCHANGED <<fds, devices, table, returned>>

(* Mutant: a device that does not come up is forgotten, not closed.        *)
ForgetDevice ==
  /\ TurnAt("up")
  /\ \/ turning' = Resting
     \/ TurnGoes("insert")
  /\ UNCHANGED <<fds, devices, sockets, table, returned>>

DeviceUp ==
  /\ TurnAt("up")
  /\ \/ Refused
     \/ TurnGoes("insert") /\ UNCHANGED <<fds, devices, sockets, table, returned>>

FreeHandles == Handles \ DOMAIN table

(* The smallest free handle, or none when the table is full.               *)
Insert ==
  /\ TurnAt("insert")
  /\ \/ FreeHandles = {} /\ Refused
     \/ \E h \in FreeHandles :
          /\ \A other \in FreeHandles : h <= other
          /\ table' = [i \in DOMAIN table \union {h} |-> IF i = h THEN turning.fd ELSE table[i]]
          /\ returned' = returned \union {h}
          /\ turning' = Resting
          /\ UNCHANGED <<fds, devices, sockets>>

(* A handle the table does not know is ignored.                            *)
TurnOff(h) ==
  /\ TurnAt("idle") /\ h \in DOMAIN table
  /\ CloseDevice(table[h])
  /\ table' = [i \in DOMAIN table \ {h} |-> table[i]]
  /\ returned' = returned \ {h}
  /\ UNCHANGED turning

(* awgGetSocketV4, awgGetSocketV6 and awgGetConfig ask the handle's device;*)
(* for a handle the table does not know they answer -1, or nil.            *)
HandleAnswers(h) == IF h \in DOMAIN table THEN table[h] ELSE NoFd

TunnelsNext ==
  \/ \E fd \in Fds : TurnOn(fd)
  \/ TunMade \/ TunFails \/ Configure \/ DeviceUp \/ Insert
  \/ \E h \in Handles : TurnOff(h)

TunnelsSpec == TunnelsInit /\ [][TunnelsNext]_tunnelVars

-----------------------------------------------------------------------------
(* However awgTurnOn fails, and in whatever order tunnels come and go:     *)
(* between calls every open descriptor and device belongs to exactly one   *)
(* handle that was returned and not turned off, a handle answers for a     *)
(* device that runs, and only its socket is open.                          *)
NothingLeaks ==
  TurnAt("idle") =>
    /\ fds = devices /\ sockets \subseteq devices
    /\ devices = {table[h] : h \in DOMAIN table}
    /\ \A g, h \in DOMAIN table : table[g] = table[h] => g = h
    /\ returned = DOMAIN table
    /\ \A h \in Handles : HandleAnswers(h) # NoFd <=> h \in returned

=============================================================================
