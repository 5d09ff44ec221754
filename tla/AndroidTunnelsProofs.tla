------------------------ MODULE AndroidTunnelsProofs ------------------------
(***************************************************************************)
(* A proof about the Android native library: for any descriptors and any   *)
(* size of the handle table, no failure of awgTurnOn and no order of calls *)
(* leaks a descriptor, a device or a socket.                               *)
(***************************************************************************)
EXTENDS AndroidTunnels, TLAPS

Tabled == {table[h] : h \in DOMAIN table}

(* What the awgTurnOn under way owns beside the tunnels of the table.      *)
OwnDevice == IF turning.at \in {"configure", "up", "insert"} THEN {turning.fd} ELSE {}
OwnFd == IF TurnAt("idle") THEN {} ELSE {turning.fd}

TunnelsTyped ==
  /\ turning \in [at : {"idle", "tun", "configure", "up", "insert"}, fd : Fds \union {NoFd}]
  /\ ~TurnAt("idle") => turning.fd \in Fds
  /\ DOMAIN table \subseteq Handles
  /\ table \in [DOMAIN table -> Fds]

OwnedInv ==
  /\ fds = Tabled \union OwnFd
  /\ devices = Tabled \union OwnDevice
  /\ sockets \subseteq devices
  /\ turning.fd \notin Tabled
  /\ \A g, h \in DOMAIN table : table[g] = table[h] => g = h
  /\ returned = DOMAIN table

TunnelsInv == TunnelsTyped /\ OwnedInv

-----------------------------------------------------------------------------
(* A device that is refused takes its descriptor and its socket with it.   *)
LEMMA RefusedKeeps ==
  ASSUME TunnelsInv, turning.at \in {"configure", "up", "insert"}, Refused
  PROVE  TunnelsInv'
  BY TunnelsAssumption
  DEF TunnelsAssumption, TunnelsInv, TunnelsTyped, OwnedInv, Tabled, OwnDevice, OwnFd, TurnAt,
      Refused, CloseDevice, Resting

LEMMA TunnelsStep ==
  ASSUME TunnelsInv, TunnelsNext
  PROVE  TunnelsInv'
<1> USE TunnelsAssumption DEF TunnelsAssumption, TunnelsInv, TunnelsTyped, OwnedInv, Tabled,
                              OwnDevice, OwnFd, TurnAt, TurnGoes, Resting
<1>1. ASSUME NEW fd \in Fds, TurnOn(fd) PROVE TunnelsInv'
  BY <1>1 DEF TurnOn
<1>2. CASE TunMade
  BY <1>2 DEF TunMade
<1>3. CASE TunFails
  BY <1>3 DEF TunFails
<1>4. CASE Configure
  BY <1>4, RefusedKeeps DEF Configure
<1>5. CASE DeviceUp
  BY <1>5, RefusedKeeps DEF DeviceUp
<1>6. CASE Insert
  <2>1. CASE Refused
    BY <1>6, <2>1, RefusedKeeps DEF Insert
  <2>2. ASSUME NEW h \in FreeHandles,
               table' = [i \in DOMAIN table \union {h} |-> IF i = h THEN turning.fd ELSE table[i]],
               returned' = returned \union {h}, turning' = Resting,
               UNCHANGED <<fds, devices, sockets>>
        PROVE  TunnelsInv'
    <3>1. DOMAIN table' = DOMAIN table \union {h} /\ h \notin DOMAIN table /\ h \in Handles
      BY <2>2 DEF FreeHandles
    <3>2. Tabled' = Tabled \union {turning.fd}
      BY <2>2, <3>1
    <3>3. turning.at = "insert" /\ turning.fd \in Fds
      BY <1>6 DEF Insert
    <3>4. TunnelsTyped'
      BY <2>2, <3>1, <3>3
    <3>5. /\ fds' = Tabled' /\ devices' = Tabled' /\ sockets' \subseteq devices'
          /\ OwnFd' = {} /\ OwnDevice' = {}
      BY <2>2, <3>2, <3>3
    <3>6. NoFd \notin Tabled'
      BY <3>2, <3>3
    <3>7. \A g, i \in DOMAIN table' : table'[g] = table'[i] => g = i
      BY <2>2, <3>1
    <3> QED
      BY <2>2, <3>1, <3>4, <3>5, <3>6, <3>7
  <2> QED
    BY <1>6, <2>1, <2>2 DEF Insert
<1>7. ASSUME NEW h \in Handles, TurnOff(h) PROVE TunnelsInv'
  <2>1. DOMAIN table' = DOMAIN table \ {h} /\ \A i \in DOMAIN table' : table'[i] = table[i]
    BY <1>7 DEF TurnOff
  <2>2. Tabled' = Tabled \ {table[h]}
    BY <1>7, <2>1 DEF TurnOff
  <2> QED
    BY <1>7, <2>1, <2>2 DEF TurnOff, CloseDevice
<1> QED
  BY <1>1, <1>2, <1>3, <1>4, <1>5, <1>6, <1>7 DEF TunnelsNext

(* Between calls every open descriptor and device belongs to exactly one   *)
(* handle that was returned and not turned off since.                      *)
THEOREM NoTunnelLeaks == TunnelsSpec => []NothingLeaks
<1>1. TunnelsInit => TunnelsInv
  BY TunnelsAssumption
  DEF TunnelsAssumption, TunnelsInit, TunnelsInv, TunnelsTyped, OwnedInv, Tabled, OwnDevice,
      OwnFd, TurnAt, Resting
<1>2. TunnelsInv /\ UNCHANGED tunnelVars => TunnelsInv'
  BY DEF tunnelVars, TunnelsInv, TunnelsTyped, OwnedInv, Tabled, OwnDevice, OwnFd, TurnAt
<1>3. TunnelsInv => NothingLeaks
  BY TunnelsAssumption
  DEF TunnelsAssumption, TunnelsInv, TunnelsTyped, OwnedInv, Tabled, OwnDevice, OwnFd, TurnAt,
      NothingLeaks, HandleAnswers
<1> QED
  BY <1>1, <1>2, TunnelsStep, <1>3, PTL DEF TunnelsSpec

=============================================================================
