------------------------------ MODULE LiveTest ------------------------------
(***************************************************************************)
(* core/livetest: Tester.Run brings a candidate profile up, verifies it    *)
(* and commits it to state.Store, or rolls back to the intent it found.    *)
(* The tester may be killed between any two steps and run again.  The      *)
(* Connector and the Verifier are interfaces: their outcomes are free.     *)
(***************************************************************************)
CONSTANTS Candidates  \* profiles that may be tested, or were connected before

NoIntent == [profile |-> "none", desired |-> "down"]

Intent(p, d) == [profile |-> p, desired |-> d]

VARIABLES
  intent,    \* what state.Store holds
  network,   \* profiles whose connection is up
  test,      \* the run under way: step, candidate, backup, outcome
  verified,  \* history: profiles in the store at first, or verified since
  failed     \* history: a step of the rollback failed, or a write half failed

testVars == <<intent, network, test, verified, failed>>

NoTest == [at |-> "idle", candidate |-> "none", backup |-> NoIntent, passed |-> FALSE]

(* A connected host, a disconnected one, one rebooted while it was         *)
(* connected, and a fresh one (or one whose state file is unreadable).     *)
TestInit ==
  /\ \/ intent = NoIntent /\ network = {}
     \/ \E p \in Candidates :
          \/ intent = Intent(p, "up") /\ network \in {{p}, {}}
          \/ intent = Intent(p, "down") /\ network = {}
  /\ test = NoTest
  /\ verified = {intent.profile}
  /\ failed = FALSE

-----------------------------------------------------------------------------
TestAt(step) == test.at = step

TestGoes(step) == test' = [test EXCEPT !.at = step]

(* snapshot: an intent that cannot be read counts as none.                 *)
TestStart(p) ==
  /\ TestAt("idle")
  /\ test' = [at |-> "up", candidate |-> p, backup |-> intent, passed |-> FALSE]
  /\ failed' = FALSE
  /\ UNCHANGED <<intent, network, verified>>

(* The previous connection is not taken down first; Up may refuse for it.  *)
TestUp ==
  /\ TestAt("up")
  /\ network' = network \union {test.candidate}
  /\ TestGoes("verify")
  /\ UNCHANGED <<intent, verified, failed>>

TestUpFails ==
  /\ TestAt("up")
  /\ TestGoes("down")
  /\ UNCHANGED <<intent, network, verified, failed>>

(* Mutant: Run commits what it brought up, and verifies afterwards.        *)
CommitUnverified ==
  /\ TestAt("verify")
  /\ TestGoes("commit")
  /\ UNCHANGED <<intent, network, verified, failed>>

TestVerify ==
  /\ TestAt("verify")
  /\ \/ verified' = verified \union {test.candidate} /\ TestGoes("commit")
     \/ TestGoes("down") /\ UNCHANGED verified
  /\ UNCHANGED <<intent, network, failed>>

TestCommit ==
  /\ TestAt("commit")
  /\ intent' = Intent(test.candidate, "up")
  /\ test' = [NoTest EXCEPT !.candidate = test.candidate, !.backup = test.backup, !.passed = TRUE]
  /\ UNCHANGED <<network, verified, failed>>

(* Write fails before its rename, or after it: fsync of the directory.     *)
TestCommitFails ==
  /\ TestAt("commit")
  /\ \/ UNCHANGED <<intent, failed>>
     \/ /\ intent' = Intent(test.candidate, "up")
        /\ failed' = (test.backup = NoIntent)
  /\ TestGoes("down")
  /\ UNCHANGED <<network, verified>>

-----------------------------------------------------------------------------
TestReturns == test' = [test EXCEPT !.at = "idle"]

(* rollback: Down; its error, and every later one, is ignored.             *)
RollDown ==
  /\ TestAt("down")
  /\ \/ network' = {} /\ UNCHANGED failed
     \/ UNCHANGED network /\ failed' = TRUE
  /\ IF test.backup = NoIntent THEN TestReturns ELSE TestGoes("restore")
  /\ UNCHANGED <<intent, verified>>

(* Mutant: the backup is written, but the connection is not restored.      *)
RestoreOnly ==
  /\ TestAt("restore")
  /\ intent' = test.backup
  /\ TestReturns
  /\ UNCHANGED <<network, verified, failed>>

RollWrite ==
  /\ TestAt("restore")
  /\ \/ intent' = test.backup /\ UNCHANGED failed
     \/ UNCHANGED intent /\ failed' = TRUE
  /\ IF test.backup.desired = "up" THEN TestGoes("reconnect") ELSE TestReturns
  /\ UNCHANGED <<network, verified>>

RollUp ==
  /\ TestAt("reconnect")
  /\ \/ network' = network \union {test.backup.profile} /\ UNCHANGED failed
     \/ UNCHANGED network /\ failed' = TRUE
  /\ TestReturns
  /\ UNCHANGED <<intent, verified>>

(* The kernel takes down the connections of a process that is killed.      *)
TestKilled ==
  /\ ~TestAt("idle")
  /\ test' = NoTest
  /\ network' = {}
  /\ failed' = TRUE
  /\ UNCHANGED <<intent, verified>>

(* Between tests the operator disconnects.                                 *)
Disconnected ==
  /\ TestAt("idle") /\ intent # NoIntent
  /\ intent' = [intent EXCEPT !.desired = "down"]
  /\ network' = {}
  /\ test' = NoTest
  /\ UNCHANGED <<verified, failed>>

TestNext ==
  \/ \E p \in Candidates : TestStart(p)
  \/ TestUp \/ TestUpFails \/ TestVerify \/ TestCommit \/ TestCommitFails
  \/ RollDown \/ RollWrite \/ RollUp \/ TestKilled \/ Disconnected

TestSpec == TestInit /\ [][TestNext]_testVars

-----------------------------------------------------------------------------
(* Whatever fails and whenever the tester is killed, over any number of    *)
(* tests, the store names only profiles that were there at first or whose  *)
(* egress was verified: the next boot never dials an untested candidate.   *)
OnlyVerifiedStored == intent.profile \in verified

(* A test that returned leaves the record and the network in agreement:    *)
(* the recorded connection is up when it passed, and when it rolled back   *)
(* the intent found before, alone, is in force, unless a step of the       *)
(* rollback itself failed, or the commit half failed on a fresh system.    *)
RecordMatchesNetwork ==
  TestAt("idle") /\ test.candidate # "none" =>
    /\ test.passed => intent = Intent(test.candidate, "up") /\ test.candidate \in network
    /\ ~test.passed /\ ~failed =>
         /\ intent = test.backup
         /\ network = IF intent.desired = "up" THEN {intent.profile} ELSE {}

=============================================================================
