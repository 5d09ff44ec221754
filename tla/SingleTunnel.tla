---------------------------- MODULE SingleTunnel ----------------------------
(***************************************************************************)
(* What the CLI promises of the tunnel of a host, without the loops of the *)
(* daemon and of the foreground command: who holds the mutation lock may   *)
(* raise one, under its guard and rules.  It is not moved to another zone  *)
(* or owner in place; it is gone when the lock is let go of, and anyone    *)
(* may take it down.  Its cover is not touched while it stands, except by  *)
(* a cleanup, which needs no lock and leaves a trace: a tunnel raised with *)
(* that trace on the host may be bare, too.                                *)
(***************************************************************************)
CONSTANTS Procs, Zones

VARIABLES
  holder,   \* who holds the lock, or "free"
  tunnels,  \* the tunnels there are: their owners and zones
  covered,  \* guard and rules are in place
  swept     \* a cleanup went for them

stVars == <<holder, tunnels, covered, swept>>

Init == holder = "free" /\ tunnels = {} /\ ~covered /\ ~swept

(* Nothing is said of the cover of a host without a tunnel.                *)
Bare == tunnels' = {} /\ covered' \in BOOLEAN /\ swept' \in BOOLEAN

Take == holder = "free" /\ holder' \in Procs /\ tunnels = {} /\ Bare

Raise ==
  /\ holder \in Procs /\ tunnels = {}
  /\ \E z \in Zones : tunnels' = {[owner |-> holder, zone |-> z]}
  /\ covered' \/ swept
  /\ UNCHANGED <<holder, swept>>

Sweep ==
  /\ swept' = TRUE
  /\ covered' => covered
  /\ UNCHANGED <<holder, tunnels>>

Lower == Bare /\ UNCHANGED holder

Release == holder \in Procs /\ holder' = "free" /\ Bare

Next == Take \/ Raise \/ Sweep \/ Lower \/ Release

Spec == Init /\ [][Next]_stVars

=============================================================================
