------------------------------ MODULE TuiKeys ------------------------------
(***************************************************************************)
(* The keys of the terminal UI.  A key may start a command, a goroutine    *)
(* beside the message loop: one that ranks the zones for the overlay, or   *)
(* one that writes the intent the daemon reads.  Commands end in any order.*)
(***************************************************************************)
EXTENDS Integers, Sequences, FiniteSets

CONSTANTS
  Places,      \* zones a ranking may list
  MaxRankings, \* bound: rankings that are under way at once
  MaxWrites    \* bound: intents that are being written at once

VARIABLES
  screen,   \* tuiModel.scr, or "quit"
  loading,  \* tuiModel.loading
  zones,    \* tuiModel.zones
  cursor,   \* tuiModel.cursor, from 1
  rankings, \* number of rankings under way
  writes,   \* intents that are being written
  desired,  \* the intent file
  asked     \* history: the requests since the last time no write was under
            \* way, but for those whose write failed

keyVars == <<screen, loading, zones, cursor, rankings, writes, desired, asked>>

NoRequest == [zone |-> "none", desired |-> "none"]

KeysInit ==
  /\ screen = "main" /\ loading = FALSE
  /\ zones = <<>> /\ cursor = 1
  /\ rankings = 0 /\ writes = {}
  /\ desired = NoRequest /\ asked = {}

unchangedLists == UNCHANGED <<loading, zones, cursor, rankings>>
unchangedIntents == UNCHANGED <<writes, desired, asked>>

-----------------------------------------------------------------------------
(* requestConnectCmd and requestDisconnectCmd: the write is started.       *)
(* Bound: not a second time while the same intent is being written.        *)
Requests(r) ==
  /\ r \notin writes /\ Cardinality(writes) < MaxWrites
  /\ writes' = writes \union {r}
  /\ asked' = (IF writes = {} THEN {} ELSE asked) \union {r}
  /\ UNCHANGED desired

ConnectBest ==
  /\ screen = "main"
  /\ Requests([zone |-> "--best", desired |-> "up"])
  /\ UNCHANGED screen /\ unchangedLists

Disconnect ==
  /\ screen = "main"
  /\ Requests([zone |-> "", desired |-> "down"])
  /\ UNCHANGED screen /\ unchangedLists

(* "z" opens the overlay and "t" stays; both rank.                         *)
StartRanking(to, at) ==
  /\ screen = "main" /\ rankings < MaxRankings
  /\ screen' = to
  /\ loading' = TRUE
  /\ cursor' = at
  /\ rankings' = rankings + 1
  /\ UNCHANGED zones /\ unchangedIntents

OpenZones == StartRanking("zones", 1)
TestZones == StartRanking("main", cursor)

ShowSettings ==
  /\ screen = "main" /\ screen' = "settings" /\ cursor' = 1
  /\ UNCHANGED <<loading, zones, rankings>> /\ unchangedIntents

Leave ==
  /\ screen \in {"zones", "settings"}
  /\ screen' = "main"
  /\ unchangedLists /\ unchangedIntents

Quit ==
  /\ screen = "main" /\ screen' = "quit"
  /\ unchangedLists /\ unchangedIntents

MoveCursor ==
  /\ screen = "zones"
  /\ \/ cursor > 1 /\ cursor' = cursor - 1
     \/ cursor < Len(zones) /\ cursor' = cursor + 1
  /\ UNCHANGED <<screen, loading, zones, rankings>> /\ unchangedIntents

(* Enter takes from the list there is, also while a new one is measured.   *)
Enter ==
  /\ screen = "zones" /\ cursor <= Len(zones)
  /\ screen' = "main"
  /\ Requests([zone |-> zones[cursor], desired |-> "up"])
  /\ unchangedLists

-----------------------------------------------------------------------------
Rankings == {<<>>} \union {s \in [1..Cardinality(Places) -> Places] : {s[i] : i \in DOMAIN s} = Places}

(* Mutant: a ranking that failed returns before loading is reset.          *)
ZonesMsgFails ==
  /\ screen # "quit" /\ rankings > 0
  /\ rankings' = rankings - 1
  /\ zones' \in Rankings
  /\ loading' = (zones' = <<>>)
  /\ UNCHANGED <<screen, cursor>> /\ unchangedIntents

(* Update of a zonesMsg; the error of a ranking leaves no zones.           *)
ZonesMsg ==
  /\ screen # "quit" /\ rankings > 0
  /\ rankings' = rankings - 1
  /\ zones' \in Rankings
  /\ loading' = FALSE
  /\ UNCHANGED <<screen, cursor>> /\ unchangedIntents

(* writeDesired: the file changes by one rename.                           *)
Write(r) ==
  /\ r \in writes
  /\ writes' = writes \ {r}
  /\ desired' = r
  /\ UNCHANGED <<screen, asked>> /\ unchangedLists

(* The log tells the failure, unless the program has quit: then commands   *)
(* that have not ended die with it.                                        *)
WriteFails(r) ==
  /\ r \in writes
  /\ writes' = writes \ {r}
  /\ asked' = IF r = desired THEN asked ELSE asked \ {r}
  /\ UNCHANGED <<screen, desired>> /\ unchangedLists

KeysNext ==
  \/ ConnectBest \/ Disconnect \/ OpenZones \/ TestZones \/ ShowSettings \/ Leave \/ Quit
  \/ MoveCursor \/ Enter \/ ZonesMsg
  \/ \E r \in writes : Write(r) \/ WriteFails(r)

KeysSpec == KeysInit /\ [][KeysNext]_keyVars

-----------------------------------------------------------------------------
(* "Measuring" is shown only while a ranking is under way, so it ends,     *)
(* however many were started and in whatever order the user left.  And     *)
(* once no write is under way the daemon finds a request made since the    *)
(* previous time none was, never an older one: the only request, if its    *)
(* write did not cross another, and of requests whose writes crossed any   *)
(* one, not always the last.  (Nothing is said when all of them failed.)   *)
RequestsLand ==
  /\ loading /\ screen # "quit" => rankings > 0
  /\ writes = {} /\ asked # {} => desired \in asked

=============================================================================
