------------------------------ MODULE Updater ------------------------------
(***************************************************************************)
(* mazzy-vpn update --apply: the newest release is compared with the       *)
(* running version, downloaded, and put in the place of the binary.  The   *)
(* updater may fail or be killed between any two steps, and is run again   *)
(* while a whole binary is in place; one updater runs at a time.           *)
(***************************************************************************)
EXTENDS Integers

CONSTANTS
  Numbers,  \* triples of numeric components
  Pre       \* whether a version has a suffix like -dev or -rc1

ASSUME UpdaterAssumption == Numbers \subseteq Nat \X Nat \X Nat /\ Pre \subseteq BOOLEAN

Version == [num : Numbers, pre : Pre]

(* The order of releases: a release follows its own pre-releases.          *)
Older(v, w) ==
  \/ v.num[1] < w.num[1]
  \/ v.num[1] = w.num[1] /\ v.num[2] < w.num[2]
  \/ v.num[1] = w.num[1] /\ v.num[2] = w.num[2] /\ v.num[3] < w.num[3]
  \/ v.num = w.num /\ v.pre /\ ~w.pre

NoFile == [num |-> <<0, 0, 0>>, pre |-> FALSE, whole |-> FALSE, there |-> FALSE]

Part == [NoFile EXCEPT !.there = TRUE]

Binary(v) == [num |-> v.num, pre |-> v.pre, whole |-> TRUE, there |-> TRUE]

VARIABLES
  bin,     \* the file os.Executable names
  old,     \* the same with ".old"
  update,  \* the updater: its step and the version it installs
  best     \* history: the newest version that was installed

updateVars == <<bin, old, update, best>>

NotUpdating == [at |-> "idle", new |-> NoFile]

UpdateInit ==
  /\ \E v \in Version : bin = Binary(v) /\ best = v
  /\ old = NoFile
  /\ update = NotUpdating

-----------------------------------------------------------------------------
(* Mutant: any component that is larger makes a version newer.             *)
NewerAnywhere(tag, cur) ==
  \E i \in 1..3 : tag.num[i] > cur.num[i]

(* The first component that differs decides; of equal ones a tag without   *)
(* suffix is newer than a current version with one.                        *)
IsNewer(tag, cur) ==
  \/ \E i \in 1..3 : tag.num[i] > cur.num[i] /\ \A j \in 1..(i - 1) : tag.num[j] = cur.num[j]
  \/ tag.num = cur.num /\ cur.pre /\ ~tag.pre

UpdateAt(step) == update.at = step

UpdateGoes(step) == update' = [update EXCEPT !.at = step]

(* The newest release is whatever GitHub says at the time; its tarball may *)
(* hold anything, and what is shorter than a megabyte is refused.          *)
UpdateStart ==
  \E tag \in Version :
    /\ UpdateAt("idle") /\ bin.whole
    /\ IsNewer(tag, bin)
    /\ update' = [at |-> "clear", new |-> Binary(tag)]
    /\ UNCHANGED <<bin, old, best>>

ClearBackup ==
  /\ UpdateAt("clear")
  /\ old' = NoFile
  /\ UpdateGoes("backup")
  /\ UNCHANGED <<bin, best>>

(* Where the rename fails, the copy over the running binary is refused by  *)
(* the kernel (text file busy): the updater gives up with nothing changed. *)
BackUp ==
  /\ UpdateAt("backup")
  /\ old' = bin
  /\ bin' = NoFile
  /\ UpdateGoes("open")
  /\ UNCHANGED best

CreateBinary ==
  /\ UpdateAt("open")
  /\ bin' = Part
  /\ UpdateGoes("copy")
  /\ UNCHANGED <<old, best>>

CopyBinary ==
  /\ UpdateAt("copy")
  /\ bin' = update.new
  /\ best' = IF Older(best, update.new) THEN [num |-> update.new.num, pre |-> update.new.pre] ELSE best
  /\ UpdateGoes("close")
  /\ UNCHANGED old

RemoveBackup ==
  /\ UpdateAt("close")
  /\ old' = NoFile
  /\ update' = NotUpdating
  /\ UNCHANGED <<bin, best>>

(* copyFile fails: the backup is renamed over whatever was written, unless *)
(* that fails too.                                                         *)
RollBack ==
  /\ UpdateAt("open") \/ UpdateAt("copy")
  /\ \/ bin' = old /\ old' = NoFile
     \/ UNCHANGED <<bin, old>>
  /\ update' = NotUpdating
  /\ UNCHANGED best

UpdateEnds ==
  /\ ~UpdateAt("idle")
  /\ update' = NotUpdating
  /\ UNCHANGED <<bin, old, best>>

UpdateNext ==
  \/ UpdateStart \/ ClearBackup \/ BackUp \/ CreateBinary \/ CopyBinary \/ RemoveBackup
  \/ RollBack \/ UpdateEnds

UpdateSpec == UpdateInit /\ [][UpdateNext]_updateVars

-----------------------------------------------------------------------------
(* Wherever an update is killed or fails, a whole binary is left, in place *)
(* or as its backup, and over any sequence of updates it is never older    *)
(* than one that was installed before.                                     *)
BinarySafe ==
  /\ bin.whole \/ old.whole
  /\ bin.whole => ~Older(bin, best)
  /\ ~bin.whole => ~Older(old, best)

=============================================================================
