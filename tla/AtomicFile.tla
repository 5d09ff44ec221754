----------------------------- MODULE AtomicFile -----------------------------
(***************************************************************************)
(* The files core/state and core/bootrecovery keep with atomicWrite: a     *)
(* private temporary file is filled, synced and renamed over the old one,  *)
(* then the directory is synced.  Several processes may write, any of them *)
(* may fail or be killed between two steps, and the power may go.  The     *)
(* contents are the intents of state.Store or the states of the boot gate. *)
(***************************************************************************)
EXTENDS Naturals

CONSTANTS
  Writers,   \* processes that write the file
  Profiles,  \* profiles an intent may name
  Required,  \* Gate.Required: whether the gate is enforced
  GateUse    \* the states the gate's users write

NoContent == [kind |-> "absent"]

(* What a read takes for no content: garbage, or a symbolic link.          *)
Odd == [kind |-> "odd"]

Torn == [kind |-> "torn"]

Intents == [profile : Profiles, desired : {"up", "down"}]

GateStates == {"running", "test-recovery", "awaiting-egress", "awaiting-cleanup",
               "ready", "recovery-only"}

Gates == [gate : GateStates]

ASSUME GateAssumption == Required \in BOOLEAN /\ GateUse \subseteq GateStates

NotWriting == [at |-> "idle", content |-> NoContent, synced |-> FALSE]

VARIABLES
  live,     \* what the name of the file leads to
  durable,  \* what it may lead to after the power went
  writing,  \* each process: its step, its temporary file, whether it is synced
  kept      \* history: content of the last Write that returned nil, until a rename

atomicVars == <<live, durable, writing, kept>>

AtomicInit ==
  /\ live \in {NoContent, Odd}
  /\ durable = {live}
  /\ writing = [w \in Writers |-> NotWriting]
  /\ kept = NoContent

-----------------------------------------------------------------------------
WriteAt(w, step) == writing[w].at = step

WriteGoes(w, step) == writing' = [writing EXCEPT ![w].at = step]

(* MkdirAll, Chmod and CreateTemp; when one fails nothing has happened.    *)
Begin(w, content) ==
  /\ WriteAt(w, "idle")
  /\ writing' = [writing EXCEPT ![w] = [at |-> "fill", content |-> content, synced |-> FALSE]]
  /\ UNCHANGED <<live, durable, kept>>

(* Mutant: the temporary file is renamed before it is synced.              *)
FillUnsynced(w) ==
  /\ WriteAt(w, "fill")
  /\ WriteGoes(w, "rename")
  /\ UNCHANGED <<live, durable, kept>>

Fill(w) ==
  /\ WriteAt(w, "fill")
  /\ WriteGoes(w, "sync")
  /\ UNCHANGED <<live, durable, kept>>

SyncTemp(w) ==
  /\ WriteAt(w, "sync")
  /\ writing' = [writing EXCEPT ![w].at = "rename", ![w].synced = TRUE]
  /\ UNCHANGED <<live, durable, kept>>

(* Until the directory is synced the old entry may come back; a file that  *)
(* is not synced may come back torn.                                       *)
Rename(w) ==
  LET new == writing[w].content IN
  /\ WriteAt(w, "rename")
  /\ live' = new
  /\ durable' = durable \union {new} \union (IF writing[w].synced THEN {} ELSE {Torn})
  /\ kept' = NoContent
  /\ WriteGoes(w, "syncdir")

(* fsyncDir, and with it the return of nil: the promise is made unless     *)
(* another process has renamed its file over this one meanwhile.           *)
SyncDir(w) ==
  /\ WriteAt(w, "syncdir")
  /\ durable' = {live}
  /\ kept' = IF live = writing[w].content THEN live ELSE kept
  /\ writing' = [writing EXCEPT ![w] = NotWriting]
  /\ UNCHANGED live

(* A step that fails makes Write remove its temporary file and return the  *)
(* error; a process that is killed leaves the file to nobody.  Either way  *)
(* a rename that was done stays done.                                      *)
GiveUp(w) ==
  /\ ~WriteAt(w, "idle")
  /\ writing' = [writing EXCEPT ![w] = NotWriting]
  /\ UNCHANGED <<live, durable, kept>>

PowerLoss ==
  /\ live' \in durable
  /\ durable' = {live'}
  /\ writing' = [w \in Writers |-> NotWriting]
  /\ UNCHANGED kept

WriteSteps ==
  \/ \E w \in Writers : Fill(w) \/ SyncTemp(w) \/ Rename(w) \/ SyncDir(w) \/ GiveUp(w)
  \/ PowerLoss

-----------------------------------------------------------------------------
(* state.Store.  Write refuses an empty profile or protocol; what is read  *)
(* must name both.                                                         *)
StoreWrite(w, st) == Begin(w, st)

Readable == live \in Intents

(* SetDesired writes back, with one field changed, what it read.           *)
SetDesired(w, d) == Readable /\ Begin(w, [live EXCEPT !.desired = d])

StoreNext ==
  \/ \E w \in Writers, st \in Intents : st.desired = "up" /\ StoreWrite(w, st)
  \/ \E w \in Writers : SetDesired(w, "down")
  \/ WriteSteps

StoreSpec == AtomicInit /\ [][StoreNext]_atomicVars

-----------------------------------------------------------------------------
(* bootrecovery.Gate.                                                      *)
GateWrite(w, s) == Begin(w, [gate |-> s])

GateRead == IF live \in Gates THEN live.gate ELSE "unknown"

(* Mutant: the gate reads anything it does not know as ready.              *)
AllowedByDefault == ~Required \/ GateRead \in {"ready", "unknown"}

MutationAllowed == ~Required \/ GateRead = "ready"

ServiceGate == ~Required \/ GateRead \in {"ready", "awaiting-egress", "awaiting-cleanup"}

(* 75: retry later; 0: nothing to do; 77: a person is needed.              *)
ServiceExitCode ==
  IF GateRead \in {"running", "test-recovery"} THEN 75
  ELSE IF GateRead \in {"awaiting-egress", "awaiting-cleanup"} THEN 0 ELSE 77

GateNext ==
  \/ \E w \in Writers, s \in GateUse : GateWrite(w, s)
  \/ WriteSteps

GateSpec == AtomicInit /\ [][GateNext]_atomicVars

-----------------------------------------------------------------------------
(* A Write that returned nil is what every later read finds, after any     *)
(* kill, failed write or power loss, until the next rename; and no read    *)
(* ever finds a torn file.                                                 *)
WriteKept == live # Torn /\ (kept # NoContent => live = kept)

(* The gate is closed while the last completed Write said anything but     *)
(* "ready", whatever was killed or lost since, and on a file that is       *)
(* missing, foreign or torn; and when it is open the service may run and   *)
(* is not told to retry.                                                   *)
GateHolds ==
  Required =>
    /\ kept \notin {NoContent, [gate |-> "ready"]} => ~MutationAllowed
    /\ live \notin Gates => ~MutationAllowed
    /\ MutationAllowed => ServiceGate /\ ServiceExitCode # 75

=============================================================================
