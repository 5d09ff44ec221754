----------------------------- MODULE TuiStatus -----------------------------
(***************************************************************************)
(* The live header of the terminal UI.  Every tick starts one more         *)
(* sampling of the status in a goroutine of its own; a sampling takes up   *)
(* to six seconds, ticks come every two, and the messages of the           *)
(* samplings are applied in whatever order they arrive.                    *)
(***************************************************************************)
CONSTANTS
  Samplings  \* bound: samplings that are under way at once

(* What livecheck finds: no interface, one without egress, one with it.    *)
Status == {"disconnected", "link up", "protected"}

VARIABLES
  status,   \* what a sampling would find now
  sampling, \* each sampling: none, started, or the status it carries
  header,   \* tuiModel.iface and .snap, as the header shows them
  ticking,  \* a tick is scheduled
  running   \* the program has not quit

headerVars == <<status, sampling, header, ticking, running>>

(* tuiModel.Init starts the first sampling and schedules the first tick;   *)
(* the zero value of the model reads DISCONNECTED.                         *)
HeaderInit ==
  /\ status \in Status
  /\ \E s \in Samplings : sampling = [i \in Samplings |-> IF i = s THEN "started" ELSE "none"]
  /\ header = "disconnected"
  /\ ticking = TRUE
  /\ running = TRUE

-----------------------------------------------------------------------------
(* detectLiveInterface and Check.                                          *)
Sample(s) ==
  /\ sampling[s] = "started"
  /\ sampling' = [sampling EXCEPT ![s] = status]
  /\ UNCHANGED <<status, header, ticking, running>>

(* Update of a statusMsg.                                                  *)
StatusMsg(s) ==
  /\ running /\ sampling[s] \in Status
  /\ header' = sampling[s]
  /\ sampling' = [sampling EXCEPT ![s] = "none"]
  /\ UNCHANGED <<status, ticking, running>>

(* Mutant: Update of a tickMsg samples without scheduling the next tick.   *)
TickOnce ==
  /\ running /\ ticking
  /\ \E s \in Samplings : sampling[s] = "none" /\ sampling' = [sampling EXCEPT ![s] = "started"]
  /\ ticking' = FALSE
  /\ UNCHANGED <<status, header, running>>

(* Update of a tickMsg: the next tick, and one sampling more.              *)
TickMsg ==
  /\ running /\ ticking
  /\ \E s \in Samplings : sampling[s] = "none" /\ sampling' = [sampling EXCEPT ![s] = "started"]
  /\ ticking' = TRUE
  /\ UNCHANGED <<status, header, running>>

HeaderQuit == running /\ running' = FALSE /\ UNCHANGED <<status, sampling, header, ticking>>

StatusChanges == status' \in Status \ {status} /\ UNCHANGED <<sampling, header, ticking, running>>

HeaderNext ==
  \/ \E s \in Samplings : Sample(s) \/ StatusMsg(s)
  \/ TickMsg \/ HeaderQuit \/ StatusChanges

(* The runtime runs every goroutine, a sampling ends by its timeout, the   *)
(* program receives every message, and timers fire.                        *)
HeaderFairness ==
  /\ \A s \in Samplings : WF_headerVars(Sample(s)) /\ WF_headerVars(StatusMsg(s))
  /\ WF_headerVars(TickMsg)

HeaderSpec == HeaderInit /\ [][HeaderNext]_headerVars /\ HeaderFairness

-----------------------------------------------------------------------------
(* When the connection stays as it is, the header ends up showing it, and  *)
(* stays so: no sampling taken before the last change, however late its    *)
(* message, is the last word.                                              *)
HeaderCatchesUp ==
  \A st \in Status : <>[](status = st /\ running) => <>[](header = st)

=============================================================================
