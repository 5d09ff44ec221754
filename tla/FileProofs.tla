----------------------------- MODULE FileProofs -----------------------------
(***************************************************************************)
(* Proofs about what is on the disk, for any number of processes that may  *)
(* be killed between any two steps: what a Write of core/state or of the   *)
(* boot gate promised holds and the gate stays closed (AtomicFile), the    *)
(* user's JSON files are never torn and keep what was reported             *)
(* (UserFiles), and a binary is left that is not older (Updater).          *)
(***************************************************************************)
EXTENDS AtomicFile, UserFiles, Updater, FiniteSetTheorems, TLAPS

Contents == Intents \union Gates

(* Nothing torn can come back from the disk, since only a synced temporary *)
(* file is renamed; and from a completed Write to the next rename there is *)
(* one content the name can lead to.                                       *)
DurableInv ==
  /\ live \in Contents \union {NoContent, Odd}
  /\ live \in durable
  /\ durable \subseteq Contents \union {NoContent, Odd}
  /\ \A w \in Writers : ~WriteAt(w, "idle") => writing[w].content \in Contents
  /\ \A w \in Writers : WriteAt(w, "rename") => writing[w].synced
  /\ kept # NoContent => live = kept /\ durable = {kept}

WritingTyped ==
  writing \in [Writers -> [at : {"idle", "fill", "sync", "rename", "syncdir"},
                           content : Contents \union {NoContent}, synced : BOOLEAN]]

FileInv == WritingTyped /\ DurableInv

-----------------------------------------------------------------------------
(* The kinds of content are told apart by their fields.                    *)
LEMMA KindsDiffer == Torn \notin Contents /\ Torn # NoContent /\ Torn # Odd
<1>1. Torn \notin Intents
  BY DEF Torn, Intents
<1>2. Torn \notin Gates
  BY DEF Torn, Gates
<1> QED
  BY <1>1, <1>2 DEF Contents, Torn, NoContent, Odd

LEMMA InitHolds == AtomicInit => FileInv
  BY DEF AtomicInit, FileInv, WritingTyped, DurableInv, NotWriting, WriteAt

(* Begin touches no name: only the temporary file is there.                *)
LEMMA BeginKeeps ==
  ASSUME FileInv, NEW w \in Writers, NEW content \in Contents, Begin(w, content)
  PROVE  FileInv'
  BY DEF Begin, FileInv, WritingTyped, DurableInv, WriteAt

LEMMA WriteStepsKeep ==
  ASSUME FileInv, WriteSteps
  PROVE  FileInv'
<1>1. ASSUME NEW w \in Writers, Fill(w) PROVE FileInv'
  BY <1>1 DEF Fill, WriteGoes, FileInv, WritingTyped, DurableInv, WriteAt
<1>2. ASSUME NEW w \in Writers, SyncTemp(w) PROVE FileInv'
  BY <1>2 DEF SyncTemp, FileInv, WritingTyped, DurableInv, WriteAt
<1>3. ASSUME NEW w \in Writers, Rename(w) PROVE FileInv'
  <2>1. writing[w].content \in Contents /\ writing[w].synced
    BY <1>3 DEF Rename, FileInv, DurableInv, WriteAt
  <2>2. durable' = durable \union {writing[w].content}
    BY <1>3, <2>1 DEF Rename
  <2>3. WritingTyped'
    BY <1>3 DEF Rename, WriteGoes, FileInv, WritingTyped, WriteAt
  <2> QED
    BY <1>3, <2>1, <2>2, <2>3 DEF Rename, WriteGoes, FileInv, WritingTyped, DurableInv, WriteAt
<1>4. ASSUME NEW w \in Writers, SyncDir(w) PROVE FileInv'
  BY <1>4 DEF SyncDir, FileInv, WritingTyped, DurableInv, WriteAt, NotWriting
<1>5. ASSUME NEW w \in Writers, GiveUp(w) PROVE FileInv'
  BY <1>5 DEF GiveUp, FileInv, WritingTyped, DurableInv, WriteAt, NotWriting
<1>6. CASE PowerLoss
  BY <1>6 DEF PowerLoss, FileInv, WritingTyped, DurableInv, WriteAt, NotWriting
<1> QED
  BY <1>1, <1>2, <1>3, <1>4, <1>5, <1>6 DEF WriteSteps

LEMMA StoreStep ==
  ASSUME FileInv, StoreNext
  PROVE  FileInv'
<1>1. ASSUME NEW w \in Writers, NEW st \in Intents, StoreWrite(w, st) PROVE FileInv'
  BY <1>1, BeginKeeps DEF StoreWrite, Contents
<1>2. ASSUME NEW w \in Writers, SetDesired(w, "down") PROVE FileInv'
  <2>1. [live EXCEPT !.desired = "down"] \in Contents
    BY <1>2 DEF SetDesired, Readable, Intents, Contents
  <2> QED
    BY <1>2, <2>1, BeginKeeps DEF SetDesired
<1> QED
  BY <1>1, <1>2, WriteStepsKeep DEF StoreNext

LEMMA GateStep ==
  ASSUME FileInv, GateNext
  PROVE  FileInv'
<1>1. ASSUME NEW w \in Writers, NEW s \in GateUse, GateWrite(w, s) PROVE FileInv'
  <2>1. [gate |-> s] \in Contents
    BY GateAssumption DEF GateAssumption, Gates, Contents
  <2> QED
    BY <1>1, <2>1, BeginKeeps DEF GateWrite
<1> QED
  BY <1>1, WriteStepsKeep DEF GateNext

LEMMA StutterKeeps ==
  ASSUME FileInv, UNCHANGED atomicVars
  PROVE  FileInv'
  BY DEF FileInv, WritingTyped, DurableInv, WriteAt, atomicVars

LEMMA InvKeeps == FileInv => WriteKept /\ GateHolds
<1> SUFFICES ASSUME FileInv PROVE WriteKept /\ GateHolds
  OBVIOUS
<1>1. WriteKept
  BY KindsDiffer DEF FileInv, DurableInv, WriteKept
<1>2. ASSUME kept \notin {NoContent, [gate |-> "ready"]}, live \in Gates PROVE live.gate # "ready"
  BY <1>1, <1>2 DEF WriteKept, Gates
<1>3. GateHolds
  BY <1>1, <1>2 DEF WriteKept, GateHolds, MutationAllowed, GateRead, ServiceGate, ServiceExitCode
<1> QED
  BY <1>1, <1>3

-----------------------------------------------------------------------------
(* state.Store: after a Write or SetDesired that returned nil, every read  *)
(* finds its content until another rename, and none ever finds a torn one. *)
THEOREM IntentsAreKept == StoreSpec => []WriteKept
<1>1. FileInv /\ [StoreNext]_atomicVars => FileInv'
  BY StoreStep, StutterKeeps
<1> QED
  BY InitHolds, <1>1, InvKeeps, PTL DEF StoreSpec

(* bootrecovery.Gate: for any users, states written and failures the gate  *)
(* is closed unless the last completed Write said "ready".                 *)
THEOREM GateStaysClosed == GateSpec => []GateHolds
<1>1. FileInv /\ [GateNext]_atomicVars => FileInv'
  BY GateStep, StutterKeeps
<1> QED
  BY InitHolds, <1>1, InvKeeps, PTL DEF GateSpec

-----------------------------------------------------------------------------
(* The updater.                                                            *)
File == [num : Numbers \union {<<0, 0, 0>>}, pre : BOOLEAN, whole : BOOLEAN, there : BOOLEAN]

UpdaterTyped ==
  /\ bin \in File /\ old \in File /\ best \in Version
  /\ update \in [at : {"idle", "clear", "backup", "open", "copy", "close"}, new : File]

VersionOf(b) == [num |-> b.num, pre |-> b.pre]

(* An update under way installs a version newer than the one it found.     *)
Newer(b) ==
  /\ update.new.whole /\ VersionOf(update.new) \in Version
  /\ IsNewer(update.new, b)

(* What is whole at each step: the binary up to the backup, the backup     *)
(* until the copy is done, then the binary again.                          *)
WholeInv ==
  /\ UpdateAt("clear") => bin.whole /\ Newer(bin)
  /\ UpdateAt("backup") => bin.whole /\ ~old.whole /\ Newer(bin)
  /\ UpdateAt("open") \/ UpdateAt("copy") => ~bin.whole /\ old.whole /\ Newer(old)
  /\ UpdateAt("close") => bin.whole

UpdaterInv == UpdaterTyped /\ WholeInv /\ BinarySafe

(* Components are numbers, also those of no version.                       *)
LEMMA NumbersTyped ==
  ASSUME NEW f \in File \union Version
  PROVE  f.num \in Nat \X Nat \X Nat /\ f.pre \in BOOLEAN
  BY UpdaterAssumption DEF UpdaterAssumption, File, Version

(* What is newer than a release that is not older than another is not      *)
(* older than that one either.                                             *)
LEMMA NewerIsNotOlder ==
  ASSUME NEW a \in File, NEW b \in File, NEW c \in Version, IsNewer(a, b), ~Older(b, c)
  PROVE  ~Older(a, c)
<1>1. /\ a.num \in Nat \X Nat \X Nat /\ b.num \in Nat \X Nat \X Nat /\ c.num \in Nat \X Nat \X Nat
      /\ a.pre \in BOOLEAN /\ b.pre \in BOOLEAN /\ c.pre \in BOOLEAN
  BY NumbersTyped
<1>2. \/ a.num[1] > b.num[1]
      \/ a.num[1] = b.num[1] /\ a.num[2] > b.num[2]
      \/ a.num[1] = b.num[1] /\ a.num[2] = b.num[2] /\ a.num[3] > b.num[3]
      \/ a.num = b.num /\ b.pre /\ ~a.pre
  BY DEF IsNewer
<1> QED
  BY <1>1, <1>2 DEF Older

LEMMA NotOlderThanItself ==
  ASSUME NEW a \in File, NEW v \in Version, v.num = a.num, v.pre = a.pre
  PROVE  ~Older(a, v)
  BY NumbersTyped DEF Older

LEMMA NotInstalledTyped == NoFile \in File /\ Part \in File /\ ~NoFile.whole /\ ~Part.whole
  BY DEF NoFile, Part, File

LEMMA BinaryTyped ==
  ASSUME NEW v \in Version
  PROVE  /\ Binary(v) \in File /\ Binary(v).whole
         /\ Binary(v).num = v.num /\ Binary(v).pre = v.pre
  BY UpdaterAssumption DEF UpdaterAssumption, Binary, File, Version

LEMMA UpdaterStep ==
  ASSUME UpdaterInv, UpdateNext
  PROVE  UpdaterInv'
<1> USE DEF UpdaterInv, UpdaterTyped, WholeInv, BinarySafe, UpdateAt, UpdateGoes, Newer
<1>1. CASE UpdateStart
  <2>1. PICK tag \in Version : /\ bin.whole /\ IsNewer(tag, bin)
                               /\ update' = [at |-> "clear", new |-> Binary(tag)]
                               /\ UNCHANGED <<bin, old, best>>
    BY <1>1 DEF UpdateStart
  <2>2. IsNewer(Binary(tag), bin) /\ VersionOf(Binary(tag)) \in Version
    BY <2>1, BinaryTyped DEF IsNewer, Version, VersionOf
  <2> QED
    BY <2>1, <2>2, BinaryTyped
<1>2. CASE ClearBackup
  BY <1>2, NotInstalledTyped DEF ClearBackup
<1>3. CASE BackUp
  BY <1>3, NotInstalledTyped DEF BackUp
<1>4. CASE CreateBinary
  BY <1>4, NotInstalledTyped DEF CreateBinary
<1>5. CASE CopyBinary
  <2> DEFINE v == VersionOf(update.new)
  <2>1. update.new \in File /\ update.new.whole /\ v \in Version
        /\ bin' = update.new /\ best' = IF Older(best, bin') THEN v ELSE best
    BY <1>5 DEF CopyBinary, VersionOf
  <2>2. ~Older(bin', v)
    BY <2>1, NotOlderThanItself DEF VersionOf
  <2>3. ~Older(bin', best)
    BY <1>5, <2>1, NewerIsNotOlder DEF CopyBinary
  <2>4. best' \in Version /\ ~Older(bin', best')
    BY <2>1, <2>2, <2>3
  <2> QED
    BY <1>5, <2>1, <2>4 DEF CopyBinary
<1>6. CASE RemoveBackup
  BY <1>6, NotInstalledTyped DEF RemoveBackup, NotUpdating
<1>7. CASE RollBack
  BY <1>7, NotInstalledTyped DEF RollBack, NotUpdating
<1>8. CASE UpdateEnds
  BY <1>8, NotInstalledTyped DEF UpdateEnds, NotUpdating
<1> QED
  BY <1>1, <1>2, <1>3, <1>4, <1>5, <1>6, <1>7, <1>8 DEF UpdateNext

(* For any releases GitHub offers, and any update that fails or is killed  *)
(* between any two steps: a whole binary is left, in place or as its       *)
(* backup, and it is not older than any that was installed before.         *)
THEOREM BinaryIsLeft == UpdateSpec => []BinarySafe
<1>1. UpdateInit => UpdaterInv
  <2> SUFFICES ASSUME UpdateInit PROVE UpdaterInv
    OBVIOUS
  <2>1. PICK v \in Version : bin = Binary(v) /\ best = v
    BY DEF UpdateInit
  <2>2. bin \in File /\ bin.whole /\ ~Older(bin, best)
    BY <2>1, BinaryTyped, NotOlderThanItself
  <2> QED
    BY <2>1, <2>2, NotInstalledTyped
    DEF UpdateInit, NotUpdating, UpdaterInv, UpdaterTyped, WholeInv, BinarySafe, UpdateAt
<1>2. UpdaterInv /\ [UpdateNext]_updateVars => UpdaterInv'
  <2>1. CASE UNCHANGED updateVars
    BY <2>1 DEF updateVars, UpdaterInv, UpdaterTyped, WholeInv, BinarySafe, UpdateAt, Newer
  <2> QED
    BY <2>1, UpdaterStep
<1>3. UpdaterInv => BinarySafe
  BY DEF UpdaterInv
<1> QED
  BY <1>1, <1>2, <1>3, PTL DEF UpdateSpec

-----------------------------------------------------------------------------
(* The user's files.                                                       *)
Ops == {"import", "remove", "favorite", "pair", "identity", "settings", "score"}

JsonFile == [state : {"missing", "empty", "garbled", "whole"}, records : SUBSET Records]

Running ==
  [at : {"idle", "profile", "screen", "open", "write", "rename"}, op : Ops \union {NoName},
   arg : Records \union {NoName}, save : SUBSET Records, fd : {NoName, "tmp", "json"}]

FilesTyped ==
  /\ json \in JsonFile /\ tmp \in JsonFile
  /\ profiles \in [Records -> {"none", "part", "whole"}]
  /\ cmd \in [Commands -> Running]

(* The temporary file belongs to one save, from its truncation to its      *)
(* rename, as long as no two of them overlapped.                           *)
SaveInv ==
  overlap # "saves" =>
    /\ json.state \in {"missing", "whole"}
    /\ \A c \in Commands :
         /\ cmd[c].fd = IF cmd[c].at \in {"write", "rename"} THEN "tmp" ELSE NoName
         /\ cmd[c].at = "write" => tmp = Empty
         /\ cmd[c].at = "rename" => tmp = Whole(cmd[c].save)
         /\ \A d \in Commands \ {c} : cmd[c].fd = NoName \/ cmd[d].fd = NoName

(* What the command under way is about to save, by what is in the file     *)
(* now, if it could read it: nobody else changes it.                       *)
Adds(r) ==
  /\ r.arg \in r.save /\ r.save \subseteq json.records \union {r.arg}
  /\ ~misread => json.records \subseteq r.save

Saves(r) ==
  /\ r.op = "import" => /\ user = "catalog" /\ Adds(r)
                        /\ r.arg \in Records
                        /\ r.at = "profile" => r.arg \in cut \/ r.arg \notin json.records
                        /\ r.at # "profile" => profiles[r.arg] = "whole"
  /\ r.op = "remove" => /\ user = "catalog" /\ r.save = json.records \ {r.arg}
                        /\ r.arg \in cut
  /\ r.op = "favorite" => user = "catalog" /\ r.save = json.records /\ r.arg \in json.records
  /\ r.op = "pair" => user = "trust" /\ Adds(r)
  /\ r.op = "score" => user = "scores" /\ Adds(r)
  /\ r.op = "identity" => user = "identity" /\ Adds(r) /\ r.save = {r.arg}
  /\ r.op = "settings" => user = "settings"
  /\ r.at = "profile" => r.op = "import"
  /\ r.at = "screen" => r.op = "settings"
  /\ r.op # NoName

(* As long as no two commands overlapped there is one under way at most.   *)
StickInv ==
  overlap = "none" =>
    /\ ~misread => said \subseteq json.records
    /\ user = "identity" => \A k, l \in json.records : k = l
    /\ user = "settings" => json.records = said
    /\ user = "catalog" => \A n \in json.records : profiles[n] = "whole" \/ n \in cut
    /\ \A c \in Commands : cmd[c].at # "idle" =>
         Saves(cmd[c]) /\ \A d \in Commands \ {c} : cmd[d].at = "idle"

FilesInv == FilesTyped /\ SaveInv /\ StickInv

LEMMA FilesInitHolds == FilesInit => FilesInv
<1> SUFFICES ASSUME FilesInit PROVE FilesInv
  OBVIOUS
<1>1. FilesTyped
  BY DEF FilesInit, FilesTyped, JsonFile, Running, Missing, NoCommand, NoName
<1>2. SaveInv /\ StickInv
  BY DEF FilesInit, SaveInv, StickInv, Missing, NoCommand
<1> QED
  BY <1>1, <1>2 DEF FilesInv

LEMMA FileStatesTyped ==
  /\ Missing \in JsonFile /\ Empty \in JsonFile /\ Garbled \in JsonFile
  /\ \A r \in SUBSET Records : Whole(r) \in JsonFile /\ Whole(r).state = "whole" /\ Whole(r).records = r
  /\ Missing.state = "missing"
  BY DEF Missing, Empty, Garbled, Whole, JsonFile

(* A command that starts is idle before and has no file open; it is alone  *)
(* unless overlap says otherwise.                                          *)
LEMMA StartsOne ==
  ASSUME FilesInv, NEW c \in Commands, NEW op \in Ops, NEW n \in Records \union {NoName},
         NEW at \in {"profile", "screen", "open"}, NEW save \in SUBSET Records,
         Starts(c, op, n, at, save)
  PROVE  /\ cmd' \in [Commands -> Running]
         /\ cmd'[c] = [at |-> at, op |-> op, arg |-> n, save |-> save, fd |-> NoName]
         /\ \A d \in Commands \ {c} : cmd'[d] = cmd[d]
         /\ overlap = "none" /\ overlap' \in {"none", "commands"} /\ cmd[c].at = "idle"
         /\ overlap' = "none" => \A d \in Commands \ {c} : cmd[d].at = "idle"
<1>1. [at |-> at, op |-> op, arg |-> n, save |-> save, fd |-> NoName] \in Running
  BY DEF Running
<1> QED
  BY <1>1 DEF Starts, Becomes, FilesInv, FilesTyped

LEMMA StartKeeps ==
  ASSUME FilesInv, NEW c \in Commands, NEW op \in Ops, NEW n \in Records \union {NoName},
         NEW at \in {"profile", "screen", "open"}, NEW save \in SUBSET Records,
         Starts(c, op, n, at, save), UNCHANGED <<user, json, tmp, said>>,
         misread => misread',
         profiles' \in [Records -> {"none", "part", "whole"}],
         \A m \in Records : profiles'[m] = profiles[m] \/ m \in cut',
         cut \subseteq cut',
         Saves(cmd[c])'
  PROVE  FilesInv'
<1> DEFINE r == [at |-> at, op |-> op, arg |-> n, save |-> save, fd |-> NoName]
<1>1. /\ cmd' \in [Commands -> Running] /\ cmd'[c] = r
      /\ \A d \in Commands \ {c} : cmd'[d] = cmd[d]
      /\ overlap = "none" /\ overlap' \in {"none", "commands"} /\ cmd[c].at = "idle"
      /\ overlap' = "none" => \A d \in Commands \ {c} : cmd[d].at = "idle"
  BY StartsOne
<1>2. FilesTyped'
  BY <1>1 DEF FilesInv, FilesTyped
<1>3. SaveInv'
  BY <1>1 DEF FilesInv, SaveInv
<1>4. StickInv'
  BY <1>1 DEF FilesInv, FilesTyped, JsonFile, StickInv
<1> QED
  BY <1>2, <1>3, <1>4 DEF FilesInv

(* The commands that start, and what they are going to save.               *)
LEMMA StartsKeep ==
  ASSUME FilesInv, NEW c \in Commands, NEW n \in Records,
         \/ Import(c, n) \/ Remove(c, n) \/ SetFavorite(c, n) \/ Pair(c, n)
         \/ NewIdentity(c, n) \/ RecordScore(c, n)
  PROVE  FilesInv'
<1>1. FilesTyped /\ json.records \subseteq Records
  BY DEF FilesInv, FilesTyped, JsonFile
<1>2. ASSUME NEW op \in Ops, NEW a \in Records \union {NoName},
             NEW at \in {"profile", "screen", "open"}, NEW save \in SUBSET Records,
             Starts(c, op, a, at, save)
      PROVE  cmd'[c] = [at |-> at, op |-> op, arg |-> a, save |-> save, fd |-> NoName]
             /\ overlap = "none" /\ cmd[c].at = "idle"
  BY <1>2, StartsOne
<1>r. ASSUME NEW seen \in Seen, Reads(seen)
      PROVE  /\ seen \union {n} \in SUBSET Records /\ n \in seen \union {n}
             /\ seen \union {n} \subseteq json.records \union {n}
             /\ ~misread' => json.records \subseteq seen \union {n}
             /\ misread => misread'
  BY <1>1, <1>r DEF Seen, Reads
<1>3. CASE Import(c, n)
  <2>1. PICK seen \in Seen : Reads(seen) /\ Starts(c, "import", n, "profile", seen \union {n})
    BY <1>3 DEF Import
  <2> DEFINE save == seen \union {n}
  <2>2. user = "catalog" /\ profiles[n] = "none"
        /\ UNCHANGED <<user, json, tmp, profiles, said, cut>>
    BY <1>3 DEF Import
  <2>3. save \in SUBSET Records /\ "import" \in Ops /\ (misread => misread')
    BY <1>r, <2>1 DEF Ops
  <2>4. cmd'[c] = [at |-> "profile", op |-> "import", arg |-> n, save |-> save, fd |-> NoName]
        /\ overlap = "none"
    BY <1>2, <2>1, <2>3
  <2>5. n \in cut \/ n \notin json.records
    BY <2>2, <2>4 DEF FilesInv, StickInv
  <2>6. Saves(cmd[c])'
    BY <1>r, <2>1, <2>2, <2>4, <2>5 DEF Saves, Adds, NoName
  <2> QED
    BY <1>1, <2>1, <2>2, <2>3, <2>6, StartKeeps DEF FilesTyped
<1>4. CASE Remove(c, n)
  <2> DEFINE save == json.records \ {n}
  <2>1. user = "catalog" /\ Starts(c, "remove", n, "open", save)
        /\ profiles' \in {profiles, [profiles EXCEPT ![n] = "none"]} /\ cut' = cut \union {n}
        /\ UNCHANGED <<user, json, tmp, said, misread>>
    BY <1>4 DEF Remove
  <2>2. save \in SUBSET Records /\ "remove" \in Ops
    BY <1>1 DEF Ops
  <2>3. cmd'[c] = [at |-> "open", op |-> "remove", arg |-> n, save |-> save, fd |-> NoName]
    BY <1>2, <2>1, <2>2
  <2>4. Saves(cmd[c])'
    BY <2>1, <2>3 DEF Saves, NoName
  <2> QED
    BY <1>1, <2>1, <2>2, <2>4, StartKeeps DEF FilesTyped
<1>5. CASE SetFavorite(c, n)
  <2>1. user = "catalog" /\ n \in json.records /\ Starts(c, "favorite", n, "open", json.records)
        /\ UNCHANGED <<user, json, tmp, profiles, said, cut, misread>>
    BY <1>5 DEF SetFavorite
  <2>2. "favorite" \in Ops
    BY DEF Ops
  <2>3. cmd'[c] = [at |-> "open", op |-> "favorite", arg |-> n, save |-> json.records, fd |-> NoName]
    BY <1>1, <1>2, <2>1, <2>2
  <2>4. Saves(cmd[c])'
    BY <2>1, <2>3 DEF Saves, NoName
  <2> QED
    BY <1>1, <2>1, <2>2, <2>4, StartKeeps DEF FilesTyped
<1>6. CASE Pair(c, n) \/ RecordScore(c, n)
  <2>1. PICK op \in {"pair", "score"}, seen \in Seen :
           Reads(seen) /\ Starts(c, op, n, "open", seen \union {n})
           /\ user = (IF op = "pair" THEN "trust" ELSE "scores")
           /\ UNCHANGED <<user, json, tmp, profiles, said, cut>>
    <3>1. CASE Pair(c, n)
      BY <3>1 DEF Pair
    <3>2. CASE RecordScore(c, n)
      BY <3>2 DEF RecordScore
    <3> QED
      BY <1>6, <3>1, <3>2
  <2> DEFINE save == seen \union {n}
  <2>2. save \in SUBSET Records /\ op \in Ops /\ (misread => misread')
    BY <1>r, <2>1 DEF Ops
  <2>3. cmd'[c] = [at |-> "open", op |-> op, arg |-> n, save |-> save, fd |-> NoName]
    BY <1>2, <2>1, <2>2
  <2>4. Saves(cmd[c])'
    BY <1>r, <2>1, <2>3 DEF Saves, Adds, NoName
  <2> QED
    BY <1>1, <2>1, <2>2, <2>4, StartKeeps DEF FilesTyped
<1>7. CASE NewIdentity(c, n)
  <2>1. user = "identity" /\ Reads({}) /\ Starts(c, "identity", n, "open", {n})
        /\ UNCHANGED <<user, json, tmp, profiles, said, cut>>
    BY <1>7 DEF NewIdentity
  <2>2. "identity" \in Ops /\ (misread => misread') /\ (~misread' => json.records = {})
    BY <2>1 DEF Ops, Reads
  <2>3. cmd'[c] = [at |-> "open", op |-> "identity", arg |-> n, save |-> {n}, fd |-> NoName]
    BY <1>2, <2>1, <2>2
  <2>4. Saves(cmd[c])'
    BY <2>1, <2>2, <2>3 DEF Saves, Adds, NoName
  <2> QED
    BY <1>1, <2>1, <2>2, <2>4, StartKeeps DEF FilesTyped
<1> QED
  BY <1>3, <1>4, <1>5, <1>6, <1>7

LEMMA OpenSettingsKeeps ==
  ASSUME FilesInv, NEW c \in Commands, OpenSettings(c)
  PROVE  FilesInv'
<1>1. FilesTyped /\ json.records \subseteq Records
  BY DEF FilesInv, FilesTyped, JsonFile
<1>2. PICK save \in {json.records, Defaults} : Starts(c, "settings", NoName, "screen", save)
  BY DEF OpenSettings
<1>3. user = "settings" /\ (misread => misread') /\ UNCHANGED <<user, json, tmp, profiles, said, cut>>
  BY DEF OpenSettings
<1>4. save \in SUBSET Records /\ "settings" \in Ops
  BY <1>1, FilesAssumption DEF FilesAssumption, Ops
<1>5. cmd'[c] = [at |-> "screen", op |-> "settings", arg |-> NoName, save |-> save, fd |-> NoName]
  BY <1>2, <1>4, StartsOne
<1>6. Saves(cmd[c])'
  BY <1>3, <1>5 DEF Saves, NoName
<1> QED
  BY <1>1, <1>2, <1>3, <1>4, <1>6, StartKeeps DEF FilesTyped

(* A step of a command that does not rename.                               *)
LEMMA GoesOnKeeps ==
  ASSUME FilesInv, NEW c \in Commands, NEW r \in Running, Becomes(c, r),
         cmd[c].at # "idle",
         overlap' # "saves" => r.fd = IF r.at \in {"write", "rename"} THEN "tmp" ELSE NoName,
         tmp' \in JsonFile,
         \/ /\ overlap' # "saves" => /\ r.at = "write" => tmp' = Empty
                                     /\ r.at = "rename" => tmp' = Whole(r.save)
                                     /\ \A d \in Commands \ {c} : cmd[d].fd = NoName
         \/ UNCHANGED tmp /\ r.at \notin {"write", "rename"},
         overlap' \in {overlap, "saves"},
         UNCHANGED <<user, said, cut, misread>>,
         json' \in JsonFile, overlap' # "saves" => UNCHANGED json,
         profiles' \in [Records -> {"none", "part", "whole"}],
         overlap = "none" /\ user = "catalog" =>
           \A n \in json.records : profiles'[n] = "whole" \/ n \in cut,
         overlap' = "none" /\ r.at # "idle" => Saves(cmd[c])'
  PROVE  FilesInv'
<1>1. cmd' \in [Commands -> Running] /\ cmd'[c] = r /\ \A d \in Commands \ {c} : cmd'[d] = cmd[d]
  BY DEF Becomes, FilesInv, FilesTyped
<1>2. FilesTyped'
  BY <1>1 DEF FilesInv, FilesTyped
<1>3. SaveInv'
  <2> SUFFICES ASSUME overlap' # "saves", NEW e \in Commands
               PROVE  /\ json'.state \in {"missing", "whole"}
                      /\ cmd'[e].fd = IF cmd'[e].at \in {"write", "rename"} THEN "tmp" ELSE NoName
                      /\ cmd'[e].at = "write" => tmp' = Empty
                      /\ cmd'[e].at = "rename" => tmp' = Whole(cmd'[e].save)
                      /\ \A d \in Commands \ {e} : cmd'[e].fd = NoName \/ cmd'[d].fd = NoName
    BY DEF SaveInv, Whole
  <2>1. overlap # "saves" /\ SaveInv
    BY DEF FilesInv
  <2>2. CASE e = c
    BY <1>1, <2>1, <2>2 DEF SaveInv, NoName
  <2>3. CASE e # c
    BY <1>1, <2>1, <2>3 DEF SaveInv, NoName
  <2> QED
    BY <2>2, <2>3
<1>4. StickInv'
  BY <1>1 DEF FilesInv, StickInv
<1> QED
  BY <1>2, <1>3, <1>4 DEF FilesInv

LEMMA WrittenTyped ==
  ASSUME FilesTyped, NEW c \in Commands, NEW f \in JsonFile
  PROVE  Written(c, f) \subseteq JsonFile /\ (f = Empty => Written(c, f) = {Whole(cmd[c].save)})
<1>1. cmd[c].save \in SUBSET Records
  BY DEF FilesTyped, Running
<1> QED
  BY <1>1, FileStatesTyped DEF Written

(* A write that ends early: it is the temporary file of a single save, or  *)
(* two saves have overlapped.                                              *)
LEMMA HalfKeeps ==
  ASSUME FilesInv, NEW c \in Commands, HalfWritten(c)
  PROVE  /\ json' \in JsonFile /\ tmp' \in JsonFile
         /\ overlap # "saves" => json' = json /\ \A d \in Commands \ {c} : cmd[d].fd = NoName
  BY FileStatesTyped DEF HalfWritten, FilesInv, FilesTyped, SaveInv, NoName

LEMMA RunsKeep ==
  ASSUME FilesInv, NEW c \in Commands,
         \/ \E n \in Records : Toggle(c, n)
         \/ ImportProfile(c) \/ ShowIdentity(c) \/ SaveFails(c) \/ OpenTmp(c) \/ WriteTmp(c)
         \/ Stops(c)
  PROVE  FilesInv'
<1>1. FilesTyped /\ SaveInv /\ StickInv /\ cmd[c] \in Running
  BY DEF FilesInv, FilesTyped
<1>a. json \in JsonFile /\ tmp \in JsonFile
  BY <1>1 DEF FilesTyped
<1>b. overlap = "none" /\ cmd[c].at # "idle" => Saves(cmd[c])
  BY <1>1 DEF StickInv
<1>2. ASSUME NEW n \in Records, Toggle(c, n) PROVE FilesInv'
  <2> DEFINE on == cmd[c].save
             r == [cmd[c] EXCEPT !.at = "open", !.save = IF n \in on THEN on \ {n} ELSE on \union {n}]
  <2>1. cmd[c].at = "screen" /\ Becomes(c, r)
        /\ UNCHANGED <<user, json, tmp, profiles, said, cut, misread, overlap>>
    BY <1>2 DEF Toggle
  <2>2. r \in Running /\ r.at = "open" /\ r.fd = cmd[c].fd /\ r.op = cmd[c].op /\ r.arg = cmd[c].arg
    BY <1>1 DEF Running
  <2>3. overlap = "none" => Saves(cmd[c])'
    BY <1>1, <1>b, <2>1, <2>2 DEF Saves, Adds, NoName, Becomes, FilesTyped
  <2> HIDE DEF r
  <2> QED
    BY <1>1, <1>a, <2>1, <2>2, <2>3, GoesOnKeeps DEF FilesTyped, SaveInv, StickInv
<1>3. CASE ImportProfile(c)
  <2> DEFINE r == [cmd[c] EXCEPT !.at = "open"]
  <2>1. cmd[c].at = "profile" /\ Becomes(c, r)
        /\ profiles' = [profiles EXCEPT ![cmd[c].arg] = "whole"]
        /\ UNCHANGED <<user, json, tmp, said, cut, misread, overlap>>
    BY <1>3 DEF ImportProfile
  <2>2. r \in Running /\ r.at = "open" /\ r.fd = cmd[c].fd /\ r.op = cmd[c].op /\ r.arg = cmd[c].arg
        /\ r.save = cmd[c].save
    BY <1>1 DEF Running
  <2>3. overlap = "none" => Saves(cmd[c])'
    BY <1>1, <1>b, <2>1, <2>2 DEF Saves, Adds, NoName, Becomes, FilesTyped
  <2>4. profiles' \in [Records -> {"none", "part", "whole"}]
        /\ \A n \in Records : profiles[n] = "whole" => profiles'[n] = "whole"
    BY <1>1, <2>1 DEF FilesTyped
  <2> HIDE DEF r
  <2> QED
    BY <1>1, <1>a, <2>1, <2>2, <2>3, <2>4, GoesOnKeeps DEF FilesTyped, JsonFile, SaveInv, StickInv
<1>4. CASE ShowIdentity(c)
  <2>1. user = "identity" /\ json.records # {} /\ said' = said \union json.records
        /\ UNCHANGED <<user, json, tmp, profiles, cmd, cut, misread, overlap>>
    BY <1>4 DEF ShowIdentity
  <2>2. FilesTyped' /\ SaveInv'
    BY <1>1, <2>1 DEF FilesTyped, SaveInv
  <2>3. StickInv'
    BY <1>1, <2>1 DEF StickInv, Saves, Adds
  <2> QED
    BY <2>2, <2>3 DEF FilesInv
<1>5. CASE SaveFails(c)
  <2> DEFINE r == [cmd[c] EXCEPT !.at = "screen", !.fd = NoName]
  <2>1. cmd[c].op = "settings" /\ cmd[c].at \in {"open", "write", "rename"} /\ Becomes(c, r)
        /\ (UNCHANGED <<tmp, json>> \/ HalfWritten(c))
        /\ UNCHANGED <<user, profiles, said, cut, misread, overlap>>
    BY <1>5 DEF SaveFails
  <2>2. r \in Running /\ r.at = "screen" /\ r.fd = NoName /\ r.op = cmd[c].op
    BY <1>1 DEF Running
  <2>3. overlap = "none" => Saves(cmd[c])'
    BY <1>1, <1>b, <2>1, <2>2 DEF Saves, Adds, NoName, Becomes, FilesTyped
  <2> HIDE DEF r
  <2> QED
    BY <1>1, <1>a, <2>1, <2>2, <2>3, HalfKeeps, GoesOnKeeps DEF FilesTyped, StickInv
<1>6. CASE OpenTmp(c)
  <2> DEFINE r == [cmd[c] EXCEPT !.at = "write", !.fd = "tmp"]
  <2>1. cmd[c].at = "open" /\ tmp' = Empty /\ Becomes(c, r)
        /\ overlap' = (IF \E d \in Commands \ {c} : cmd[d].fd # NoName THEN "saves" ELSE overlap)
        /\ UNCHANGED <<user, json, profiles, said, cut, misread>>
    BY <1>6 DEF OpenTmp
  <2>2. r \in Running /\ r.at = "write" /\ r.fd = "tmp" /\ r.op = cmd[c].op /\ r.arg = cmd[c].arg
        /\ r.save = cmd[c].save
    BY <1>1 DEF Running
  <2>3. overlap' = "none" => Saves(cmd[c])'
    BY <1>1, <1>b, <2>1, <2>2 DEF Saves, Adds, NoName, Becomes, FilesTyped
  <2> HIDE DEF r
  <2> QED
    BY <1>1, <1>a, <2>1, <2>2, <2>3, FileStatesTyped, GoesOnKeeps DEF FilesTyped, StickInv
<1>7. CASE WriteTmp(c)
  <2> DEFINE r == [cmd[c] EXCEPT !.at = "rename"]
  <2>1. cmd[c].at = "write" /\ Becomes(c, r)
        /\ tmp' \in (IF cmd[c].fd = "tmp" THEN Written(c, tmp) ELSE {tmp})
        /\ json' \in (IF cmd[c].fd = "json" THEN Written(c, json) ELSE {json})
        /\ UNCHANGED <<user, profiles, said, cut, misread, overlap>>
    BY <1>7 DEF WriteTmp
  <2>2. r \in Running /\ r.at = "rename" /\ r.fd = cmd[c].fd /\ r.op = cmd[c].op
        /\ r.arg = cmd[c].arg /\ r.save = cmd[c].save
    BY <1>1 DEF Running
  <2>3. overlap = "none" => Saves(cmd[c])'
    <3>1. overlap = "none" => UNCHANGED json
      BY <1>1, <2>1 DEF SaveInv
    <3> QED
      BY <1>1, <1>b, <2>1, <2>2, <3>1 DEF Saves, Adds, NoName, Becomes, FilesTyped
  <2>4. json' \in JsonFile /\ tmp' \in JsonFile
    BY <1>1, <1>a, <2>1, WrittenTyped
  <2>5. overlap # "saves" => UNCHANGED json /\ tmp' = Whole(r.save)
                             /\ \A d \in Commands \ {c} : cmd[d].fd = NoName
    BY <1>1, <1>a, <2>1, <2>2, WrittenTyped DEF SaveInv, NoName
  <2> HIDE DEF r
  <2> QED
    BY <1>1, <2>1, <2>2, <2>3, <2>4, <2>5, GoesOnKeeps DEF FilesTyped, StickInv, SaveInv
<1>8. CASE Stops(c)
  <2>1. cmd[c].at # "idle" /\ Becomes(c, NoCommand) /\ UNCHANGED <<user, said, cut, misread, overlap>>
    BY <1>8 DEF Stops
  <2>2. NoCommand \in Running /\ NoCommand.at = "idle" /\ NoCommand.fd = NoName
    BY DEF NoCommand, Running
  <2>3. CASE UNCHANGED <<profiles, tmp, json>>
    BY <1>1, <1>a, <2>1, <2>2, <2>3, GoesOnKeeps DEF FilesTyped, StickInv
  <2>4. CASE cmd[c].at = "profile" /\ profiles' = [profiles EXCEPT ![cmd[c].arg] = "part"]
             /\ UNCHANGED <<tmp, json>>
    <3>1. profiles' \in [Records -> {"none", "part", "whole"}]
          /\ \A n \in Records : n = cmd[c].arg \/ profiles'[n] = profiles[n]
      BY <1>1, <2>4 DEF FilesTyped
    <3>2. overlap = "none" => cmd[c].arg \in cut \/ cmd[c].arg \notin json.records
      BY <1>b, <2>4 DEF Saves
    <3>3. overlap = "none" /\ user = "catalog" =>
            \A n \in json.records : profiles'[n] = "whole" \/ n \in cut
      BY <1>1, <1>a, <3>1, <3>2 DEF StickInv, JsonFile
    <3> QED
      BY <1>a, <2>1, <2>2, <2>4, <3>1, <3>3, GoesOnKeeps
  <2>5. CASE HalfWritten(c) /\ UNCHANGED profiles
    BY <1>1, <2>1, <2>2, <2>5, HalfKeeps, GoesOnKeeps DEF FilesTyped, StickInv
  <2> QED
    BY <1>8, <2>3, <2>4, <2>5 DEF Stops
<1> QED
  BY <1>2, <1>3, <1>4, <1>5, <1>6, <1>7, <1>8

(* A rename puts what the command saved in the place of the file, and      *)
(* nobody else has the temporary file open.                                *)
LEMMA RenameKeeps ==
  ASSUME FilesInv, NEW c \in Commands, RenameTmp(c)
  PROVE  FilesInv'
<1>1. FilesTyped /\ SaveInv /\ StickInv /\ cmd[c] \in Running
  BY DEF FilesInv, FilesTyped
<1>2. /\ cmd[c].at = "rename" /\ json' = tmp /\ tmp' = Missing
      /\ cmd' = [d \in Commands |-> IF d = c THEN Done(cmd[c]) ELSE [cmd[d] EXCEPT !.fd = Moved(@)]]
      /\ UNCHANGED <<user, profiles, misread, overlap>>
  BY <1>1 DEF RenameTmp
<1>3. Done(cmd[c]) \in Running /\ Done(cmd[c]).at \in {"idle", "screen"} /\ Done(cmd[c]).fd = NoName
      /\ (Done(cmd[c]).at = "screen" => Done(cmd[c]).op = "settings")
  BY <1>1 DEF Done, NoCommand, Running, NoName
<1>4. \A d \in Commands \ {c} : cmd'[d] = [cmd[d] EXCEPT !.fd = Moved(cmd[d].fd)]
  BY <1>2
<1>5. \A d \in Commands \ {c} : cmd'[d] \in Running /\ cmd'[d].at = cmd[d].at
  <2> TAKE d \in Commands \ {c}
  <2>1. cmd[d] \in Running /\ Moved(cmd[d].fd) \in {NoName, "tmp", "json"}
    BY <1>1 DEF Moved, FilesTyped
  <2> QED
    BY <1>4, <2>1 DEF Running
<1>6. FilesTyped'
  <2>1. cmd' \in [Commands -> Running]
    BY <1>2, <1>3, <1>5
  <2> QED
    BY <1>1, <1>2, <2>1, FileStatesTyped DEF FilesTyped
<1>7. ASSUME overlap # "saves"
      PROVE  /\ json' = Whole(cmd[c].save) /\ json'.state = "whole" /\ json'.records = cmd[c].save
             /\ \A d \in Commands \ {c} : cmd'[d].fd = NoName /\ cmd'[d].at \notin {"write", "rename"}
  <2>1. json' = Whole(cmd[c].save) /\ cmd[c].save \in SUBSET Records
    BY <1>1, <1>2, <1>7 DEF SaveInv, Running
  <2>2. \A d \in Commands \ {c} : cmd[d].fd = NoName /\ cmd[d].at \notin {"write", "rename"}
    BY <1>1, <1>2, <1>7 DEF SaveInv, NoName
  <2>3. \A d \in Commands \ {c} : cmd'[d].fd = NoName
    BY <1>1, <1>4, <2>2 DEF Moved, NoName, FilesTyped, Running
  <2> QED
    BY <1>5, <2>1, <2>2, <2>3, FileStatesTyped
<1>8. SaveInv'
  BY <1>2, <1>3, <1>7 DEF SaveInv, NoName
<1>9. ASSUME overlap = "none"
      PROVE  StickInv'
  <2>1. Saves(cmd[c]) /\ \A d \in Commands \ {c} : cmd[d].at = "idle" /\ cmd'[d].at = "idle"
    BY <1>1, <1>2, <1>5, <1>9 DEF StickInv
  <2>2. json'.records = cmd[c].save /\ cmd[c].op \in Ops
    BY <1>1, <1>7, <1>9, <2>1 DEF Saves, Running
  <2>3. /\ said' = (IF cmd[c].op = "remove" THEN said \ {cmd[c].arg}
                    ELSE IF cmd[c].op = "settings" THEN cmd[c].save
                    ELSE said \union {cmd[c].arg})
        /\ cut' = IF cmd[c].op = "remove" THEN cut \ {cmd[c].arg} ELSE cut
    BY DEF RenameTmp
  <2>4. ~misread' => said' \subseteq json'.records
    <3>1. SUFFICES ASSUME ~misread PROVE said' \subseteq json'.records
      BY <1>2
    <3>2. said \subseteq json.records
      BY <1>1, <1>9, <3>1 DEF StickInv
    <3>3. CASE cmd[c].op = "remove"
      BY <2>1, <2>2, <2>3, <3>1, <3>2, <3>3 DEF Saves, Adds
    <3>4. CASE cmd[c].op = "settings"
      BY <2>2, <2>3, <3>4
    <3>5. CASE cmd[c].op \notin {"remove", "settings"}
      BY <2>1, <2>2, <2>3, <3>1, <3>2, <3>5 DEF Saves, Adds, Ops
    <3> QED
      BY <3>3, <3>4, <3>5
  <2>5. user = "identity" => \A k, l \in json'.records : k = l
    BY <2>1, <2>2 DEF Saves, Adds, Ops
  <2>6. user = "settings" => json'.records = said'
    BY <2>1, <2>2, <2>3 DEF Saves, Adds, Ops
  <2>7. user = "catalog" => \A n \in json'.records : profiles[n] = "whole" \/ n \in cut'
    BY <1>1, <1>2, <1>9, <2>1, <2>2, <2>3 DEF StickInv, Saves, Adds, Ops
  <2>8. cmd'[c].at # "idle" => Saves(cmd[c])'
    <3>1. cmd'[c].at # "idle" => cmd[c].op = "settings" /\ cmd'[c].op = "settings" /\ cmd'[c].at = "screen"
      BY <1>1, <1>2, <1>3 DEF Done, NoCommand
    <3> QED
      BY <1>2, <2>1, <3>1 DEF Saves, NoName
  <2> QED
    BY <1>2, <2>1, <2>4, <2>5, <2>6, <2>7, <2>8 DEF StickInv
<1>10. StickInv'
  BY <1>2, <1>9 DEF StickInv
<1> QED
  BY <1>6, <1>8, <1>10 DEF FilesInv

LEMMA FilesInvariance == FilesSpec => []FilesInv
<1>1. FilesInv /\ [FilesNext]_fileVars => FilesInv'
  <2>1. CASE UNCHANGED fileVars
    BY <2>1 DEF fileVars, FilesInv, FilesTyped, SaveInv, StickInv, Saves, Adds
  <2>2. ASSUME FilesInv, NEW c \in Commands,
               \/ \E n \in Records :
                    \/ Import(c, n) \/ Remove(c, n) \/ SetFavorite(c, n) \/ Pair(c, n)
                    \/ NewIdentity(c, n) \/ Toggle(c, n) \/ RecordScore(c, n)
               \/ ImportProfile(c) \/ ShowIdentity(c) \/ OpenSettings(c) \/ SaveFails(c)
               \/ OpenTmp(c) \/ WriteTmp(c) \/ RenameTmp(c) \/ Stops(c)
        PROVE  FilesInv'
    <3>1. ASSUME NEW n \in Records,
                 \/ Import(c, n) \/ Remove(c, n) \/ SetFavorite(c, n) \/ Pair(c, n)
                 \/ NewIdentity(c, n) \/ RecordScore(c, n)
          PROVE  FilesInv'
      BY <2>2, <3>1, StartsKeep
    <3>2. CASE \/ \E n \in Records : Toggle(c, n)
               \/ ImportProfile(c) \/ ShowIdentity(c) \/ SaveFails(c) \/ OpenTmp(c)
               \/ WriteTmp(c) \/ Stops(c)
      BY <2>2, <3>2, RunsKeep
    <3>3. CASE OpenSettings(c)
      BY <2>2, <3>3, OpenSettingsKeeps
    <3>4. CASE RenameTmp(c)
      BY <2>2, <3>4, RenameKeeps
    <3> QED
      BY <2>2, <3>1, <3>2, <3>3, <3>4
  <2> QED
    BY <2>1, <2>2 DEF FilesNext
<1> QED
  BY FilesInitHolds, <1>1, PTL DEF FilesSpec

(* A command that is killed or fails in the middle of a save leaves the    *)
(* file as it was, whatever other commands do, as long as no two of them   *)
(* are saving at once.                                                     *)
THEOREM FilesAreNeverTorn == FilesSpec => []FilesNeverTorn
<1>1. FilesInv => FilesNeverTorn
  BY DEF FilesInv, SaveInv, FilesNeverTorn
<1> QED
  BY FilesInvariance, <1>1, PTL

(* What a command of catalog, trust store, identity or scores has reported *)
(* is not undone by any later one that is killed or fails, as long as no   *)
(* two commands overlap and none goes on after a read that failed.         *)
THEOREM CommandsAreKept == FilesSpec => []CommandsStick
<1>1. FilesInv => CommandsStick
  <2> SUFFICES ASSUME FilesInv, overlap = "none" PROVE user = "identity" => Cardinality(json.records) <= 1
    BY DEF FilesInv, StickInv, CommandsStick
  <2>1. CASE json.records = {}
    BY <2>1, FS_EmptySet
  <2>2. CASE user = "identity" /\ json.records # {}
    <3>1. PICK k : json.records = {k}
      BY <2>2 DEF FilesInv, StickInv
    <3>2. Cardinality({k}) = 1
      BY FS_Singleton
    <3> QED
      BY <3>1, <3>2
  <2> QED
    BY <2>1, <2>2
<1> QED
  BY FilesInvariance, <1>1, PTL

=============================================================================
