----------------------------- MODULE UserFiles -----------------------------
(***************************************************************************)
(* The JSON files of the user's configuration directory: the catalog's     *)
(* metadata with its profile files, the trusted participants, the node's   *)
(* identity, the settings and the scores of the zones.  A command reads    *)
(* the file, changes what it read and saves it: a temporary file of a      *)
(* FIXED name is truncated, written and renamed over it.  No lock is taken *)
(* and nothing is synced.  Two commands may overlap, and each may be       *)
(* killed, or fail, between any two steps.                                 *)
(***************************************************************************)
EXTENDS Naturals, FiniteSets

CONSTANTS
  Commands,  \* processes that run a command, one at a time each
  Records,   \* profiles, participants, key pairs, settings that are on, zones
  Defaults   \* the settings that are on by default

ASSUME FilesAssumption == Defaults \subseteq Records

NoName == "none"

Missing == [state |-> "missing", records |-> {}]
Empty == [state |-> "empty", records |-> {}]
Garbled == [state |-> "garbled", records |-> {}]
Whole(r) == [state |-> "whole", records |-> r]

VARIABLES
  user,     \* which of the files this is about
  json,     \* the file
  tmp,      \* the temporary file beside it
  profiles, \* the profile files of the catalog
  cmd,      \* the command of each process
  said,     \* history: records the commands that returned left in the file
  cut,      \* history: profiles whose Remove was begun and did not end
  misread,  \* history: a command failed to read the file, and went on
  overlap   \* history: "none", two "commands" at the same time, or two "saves"

fileVars == <<user, json, tmp, profiles, cmd, said, cut, misread, overlap>>

(* fd: the file the command has open for writing: tmp, json once another   *)
(* command has renamed tmp, or neither once that too was replaced.         *)
NoCommand == [at |-> "idle", op |-> NoName, arg |-> NoName, save |-> {}, fd |-> NoName]

FilesInit ==
  /\ user \in {"catalog", "trust", "identity", "settings", "scores"}
  /\ json = Missing /\ tmp = Missing
  /\ profiles = [n \in Records |-> "none"]
  /\ cmd = [c \in Commands |-> NoCommand]
  /\ said = {} /\ cut = {} /\ misread = FALSE
  /\ overlap = "none"

-----------------------------------------------------------------------------
(* Catalog.load: no file is an empty catalog, a garbled one an error.      *)
Loads == json.state \in {"missing", "whole"}

Becomes(c, r) == cmd' = [cmd EXCEPT ![c] = r]

(* Most commands take a read of the file that fails for a file without     *)
(* records.                                                                *)
Seen == {json.records, {}}

Reads(seen) == IF seen = json.records THEN UNCHANGED misread ELSE misread' = TRUE

(* Bound: nothing starts after two commands have overlapped.               *)
Starts(c, op, n, at, save) ==
  /\ cmd[c].at = "idle" /\ overlap = "none"
  /\ Becomes(c, [at |-> at, op |-> op, arg |-> n, save |-> save, fd |-> NoName])
  /\ overlap' = IF \E d \in Commands \ {c} : cmd[d].at # "idle" THEN "commands" ELSE overlap

(* Import ignores the error of load, refuses a profile whose content is in *)
(* the store and one whose file is there, and writes the profile first.    *)
Import(c, n) ==
  /\ user = "catalog"
  /\ profiles[n] = "none"
  /\ \E seen \in Seen : Reads(seen) /\ Starts(c, "import", n, "profile", seen \union {n})
  /\ UNCHANGED <<user, json, tmp, profiles, said, cut>>

ImportProfile(c) ==
  /\ cmd[c].at = "profile"
  /\ profiles' = [profiles EXCEPT ![cmd[c].arg] = "whole"]
  /\ Becomes(c, [cmd[c] EXCEPT !.at = "open"])
  /\ UNCHANGED <<user, json, tmp, said, cut, misread, overlap>>

(* Remove deletes the profile, ignoring a failure, before it saves the     *)
(* metadata.                                                               *)
Remove(c, n) ==
  /\ user = "catalog"
  /\ Loads /\ n \in json.records
  /\ Starts(c, "remove", n, "open", json.records \ {n})
  /\ profiles' \in {profiles, [profiles EXCEPT ![n] = "none"]}
  /\ cut' = cut \union {n}
  /\ UNCHANGED <<user, json, tmp, said, misread>>

(* SetFavorite saves the entries with one flag changed.                    *)
SetFavorite(c, n) ==
  /\ user = "catalog"
  /\ Loads /\ n \in json.records
  /\ Starts(c, "favorite", n, "open", json.records)
  /\ UNCHANGED <<user, json, tmp, profiles, said, cut, misread>>

(* Mutant: pair saves the new participant alone.                           *)
PairAlone(c, n) ==
  /\ user = "trust"
  /\ \E seen \in Seen : n \notin seen /\ Reads(seen) /\ Starts(c, "pair", n, "open", {n})
  /\ UNCHANGED <<user, json, tmp, profiles, said, cut>>

(* controlPair: a file that cannot be read or parsed counts as empty.      *)
Pair(c, n) ==
  /\ user = "trust"
  /\ \E seen \in Seen :
       n \notin seen /\ Reads(seen) /\ Starts(c, "pair", n, "open", seen \union {n})
  /\ UNCHANGED <<user, json, tmp, profiles, said, cut>>

(* nodeKeypair: an identity that can be read is shown, else a new key pair *)
(* is made and saved, over an identity that could not be read too.         *)
ShowIdentity(c) ==
  /\ user = "identity"
  /\ json.records # {}
  /\ cmd[c].at = "idle"
  /\ said' = said \union json.records
  /\ UNCHANGED <<user, json, tmp, profiles, cmd, cut, misread, overlap>>

NewIdentity(c, key) ==
  /\ user = "identity"
  /\ Reads({}) /\ Starts(c, "identity", key, "open", {key})
  /\ UNCHANGED <<user, json, tmp, profiles, said, cut>>

(* The settings screens load the file, or the defaults when it cannot be   *)
(* read, and save their whole copy after each key that toggles one.        *)
OpenSettings(c) ==
  /\ user = "settings"
  /\ \/ /\ UNCHANGED misread
        /\ Starts(c, "settings", NoName, "screen", IF json.state = "whole" THEN json.records ELSE Defaults)
     \/ /\ misread' = TRUE
        /\ Starts(c, "settings", NoName, "screen", Defaults)
  /\ UNCHANGED <<user, json, tmp, profiles, said, cut>>

Toggle(c, n) ==
  LET on == cmd[c].save IN
  /\ cmd[c].at = "screen"
  /\ Becomes(c, [cmd[c] EXCEPT !.at = "open", !.save = IF n \in on THEN on \ {n} ELSE on \union {n}])
  /\ UNCHANGED <<user, json, tmp, profiles, said, cut, misread, overlap>>

(* A write that ends early leaves the file it has open half written.       *)
HalfWritten(c) ==
  /\ cmd[c].at = "write"
  /\ \/ cmd[c].fd = "tmp" /\ tmp' = Garbled /\ UNCHANGED json
     \/ cmd[c].fd = "json" /\ json' = Garbled /\ UNCHANGED tmp

(* A Save that fails leaves the screen open with what it shows.            *)
SaveFails(c) ==
  /\ cmd[c].op = "settings" /\ cmd[c].at \in {"open", "write", "rename"}
  /\ Becomes(c, [cmd[c] EXCEPT !.at = "screen", !.fd = NoName])
  /\ UNCHANGED <<tmp, json>> \/ HalfWritten(c)
  /\ UNCHANGED <<user, profiles, said, cut, misread, overlap>>

(* Cache.Record: a cache that cannot be read counts as empty.              *)
RecordScore(c, n) ==
  /\ user = "scores"
  /\ \E seen \in Seen : Reads(seen) /\ Starts(c, "score", n, "open", seen \union {n})
  /\ UNCHANGED <<user, json, tmp, profiles, said, cut>>

-----------------------------------------------------------------------------
(* Mutant: the file itself is opened, truncated and written.               *)
OpenInPlace(c) ==
  /\ cmd[c].at = "open"
  /\ json' = Empty
  /\ tmp' = Whole(cmd[c].save)
  /\ Becomes(c, [cmd[c] EXCEPT !.at = "rename", !.fd = "tmp"])
  /\ UNCHANGED <<user, profiles, said, cut, misread, overlap>>

(* os.WriteFile(tmp) opens with O_TRUNC, whoever else has the file open.   *)
OpenTmp(c) ==
  /\ cmd[c].at = "open"
  /\ tmp' = Empty
  /\ Becomes(c, [cmd[c] EXCEPT !.at = "write", !.fd = "tmp"])
  /\ overlap' = IF \E d \in Commands \ {c} : cmd[d].fd # NoName THEN "saves" ELSE overlap
  /\ UNCHANGED <<user, json, profiles, said, cut, misread>>

(* A write over what another command has written may leave a mixture.      *)
Written(c, old) ==
  IF old \in {Empty, Whole(cmd[c].save)} THEN {Whole(cmd[c].save)}
  ELSE {Whole(cmd[c].save), Garbled}

WriteTmp(c) ==
  /\ cmd[c].at = "write"
  /\ tmp' \in IF cmd[c].fd = "tmp" THEN Written(c, tmp) ELSE {tmp}
  /\ json' \in IF cmd[c].fd = "json" THEN Written(c, json) ELSE {json}
  /\ Becomes(c, [cmd[c] EXCEPT !.at = "rename"])
  /\ UNCHANGED <<user, profiles, said, cut, misread, overlap>>

Moved(fd) == IF fd = "tmp" THEN "json" ELSE NoName

Done(r) == IF r.op = "settings" THEN [r EXCEPT !.at = "screen", !.fd = NoName] ELSE NoCommand

(* A success that is reported: what the file should hold from now on.      *)
RenameTmp(c) ==
  /\ cmd[c].at = "rename" /\ tmp # Missing
  /\ json' = tmp
  /\ tmp' = Missing
  /\ cmd' = [d \in Commands |-> IF d = c THEN Done(cmd[c]) ELSE [cmd[d] EXCEPT !.fd = Moved(@)]]
  /\ said' = IF cmd[c].op = "remove" THEN said \ {cmd[c].arg}
             ELSE IF cmd[c].op = "settings" THEN cmd[c].save
             ELSE said \union {cmd[c].arg}
  /\ cut' = IF cmd[c].op = "remove" THEN cut \ {cmd[c].arg} ELSE cut
  /\ UNCHANGED <<user, profiles, misread, overlap>>

(* Killed, or an error returned; a rename fails when another command has   *)
(* renamed the file away.                                                  *)
Stops(c) ==
  /\ cmd[c].at # "idle"
  /\ Becomes(c, NoCommand)
  /\ \/ UNCHANGED <<profiles, tmp, json>>
     \/ /\ cmd[c].at = "profile"
        /\ profiles' = [profiles EXCEPT ![cmd[c].arg] = "part"]
        /\ UNCHANGED <<tmp, json>>
     \/ HalfWritten(c) /\ UNCHANGED profiles
  /\ UNCHANGED <<user, said, cut, misread, overlap>>

FilesNext ==
  \E c \in Commands :
    \/ \E n \in Records :
         \/ Import(c, n) \/ Remove(c, n) \/ SetFavorite(c, n) \/ Pair(c, n) \/ NewIdentity(c, n)
         \/ Toggle(c, n) \/ RecordScore(c, n)
    \/ ImportProfile(c) \/ ShowIdentity(c) \/ OpenSettings(c) \/ SaveFails(c)
    \/ OpenTmp(c) \/ WriteTmp(c) \/ RenameTmp(c) \/ Stops(c)

FilesSpec == FilesInit /\ [][FilesNext]_fileVars

-----------------------------------------------------------------------------
(* control_cmd.go:137: a command that is killed or fails in the middle of  *)
(* a save never leaves a truncated file, not even when other commands run  *)
(* at the same time, as long as no two of them are saving at once.         *)
FilesNeverTorn == overlap # "saves" => json.state \in {"missing", "whole"}

(* What a command reported stays so through every later command that is    *)
(* killed or fails, as long as no two commands overlap and none fails to   *)
(* read the file: a paired participant stays trusted, an identity that was *)
(* made or shown stays the node's own, an imported profile stays listed, a *)
(* recorded score stays.  (After a failed read, all but Remove and         *)
(* SetFavorite save over a file that was whole.)  In any case there is one *)
(* identity at most, the settings are those last saved, and a listed       *)
(* profile has its whole file unless its Remove was cut short.             *)
CommandsStick ==
  overlap = "none" =>
    /\ ~misread => said \subseteq json.records
    /\ user = "identity" => Cardinality(json.records) <= 1
    /\ user = "settings" => json.records = said
    /\ user = "catalog" => \A n \in json.records : profiles[n] = "whole" \/ n \in cut

=============================================================================
