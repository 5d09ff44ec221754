--------------------------- MODULE LiveTestProofs ---------------------------
(***************************************************************************)
(* Proofs about core/livetest: for any set of profiles, any number of      *)
(* tests, failures and kills, the store is never trusted with a profile    *)
(* that was not verified, and a test that returned leaves the record and   *)
(* the network in agreement.                                               *)
(***************************************************************************)
EXTENDS LiveTest, TLAPS

IntentOK(i) == i \in [profile : Candidates \union {"none"}, desired : {"up", "down"}]

TestTyped ==
  /\ IntentOK(intent)
  /\ test \in [at : {"idle", "up", "verify", "commit", "down", "restore", "reconnect"},
               candidate : Candidates \union {"none"},
               backup : [profile : Candidates \union {"none"}, desired : {"up", "down"}],
               passed : BOOLEAN]

(* The candidate may be written once it was verified; the backup may       *)
(* always be, as it was read from the store.                               *)
VerifiedInv ==
  /\ intent.profile \in verified
  /\ ~TestAt("idle") => test.backup.profile \in verified
  /\ TestAt("commit") => test.candidate \in verified

(* Until the commit the store holds what was found; the rollback empties   *)
(* the network, writes the backup, and then restores its connection.       *)
RollbackInv ==
  /\ TestAt("verify") \/ TestAt("commit") => test.candidate \in network
  /\ TestAt("up") \/ TestAt("verify") \/ TestAt("commit") => intent = test.backup
  /\ TestAt("down") /\ ~failed =>
       \/ intent = test.backup
       \/ test.backup # NoIntent
  /\ TestAt("restore") /\ ~failed => network = {}
  /\ TestAt("reconnect") /\ ~failed =>
       network = {} /\ intent = test.backup /\ intent.desired = "up"
  /\ ~TestAt("idle") => ~test.passed
  /\ RecordMatchesNetwork

TestInv == TestTyped /\ VerifiedInv /\ RollbackInv

-----------------------------------------------------------------------------
LEMMA TestInitHolds == TestInit => TestInv
  BY DEF TestInit, TestInv, TestTyped, IntentOK, VerifiedInv, RollbackInv, RecordMatchesNetwork,
         NoTest, NoIntent, Intent, TestAt

(* A candidate is written only from the step that follows its verification.*)
LEMMA StepVerified ==
  ASSUME TestInv, TestNext
  PROVE  TestTyped' /\ VerifiedInv'
<1> USE DEF TestInv, TestTyped, IntentOK, VerifiedInv, TestAt, TestGoes, TestReturns, NoTest,
            NoIntent, Intent
<1>1. ASSUME NEW p \in Candidates, TestStart(p) PROVE TestTyped' /\ VerifiedInv'
  BY <1>1 DEF TestStart
<1>2. CASE TestUp
  BY <1>2 DEF TestUp
<1>3. CASE TestUpFails
  BY <1>3 DEF TestUpFails
<1>4. CASE TestVerify
  BY <1>4 DEF TestVerify
<1>5. CASE TestCommit
  BY <1>5 DEF TestCommit
<1>6. CASE TestCommitFails
  BY <1>6 DEF TestCommitFails
<1>7. CASE RollDown
  BY <1>7 DEF RollDown
<1>8. CASE RollWrite
  BY <1>8 DEF RollWrite
<1>9. CASE RollUp
  BY <1>9 DEF RollUp
<1>10. CASE TestKilled
  BY <1>10 DEF TestKilled
<1>11. CASE Disconnected
  BY <1>11 DEF Disconnected
<1> QED
  BY <1>1, <1>2, <1>3, <1>4, <1>5, <1>6, <1>7, <1>8, <1>9, <1>10, <1>11 DEF TestNext

(* Every way out of a test leaves the record as the network is.            *)
LEMMA StepRollsBack ==
  ASSUME TestInv, TestNext
  PROVE  RollbackInv'
<1> USE DEF TestInv, TestTyped, IntentOK, RollbackInv, RecordMatchesNetwork, TestAt, TestGoes,
            TestReturns, NoTest, NoIntent, Intent
<1>1. ASSUME NEW p \in Candidates, TestStart(p) PROVE RollbackInv'
  BY <1>1 DEF TestStart
<1>2. CASE TestUp
  BY <1>2 DEF TestUp
<1>3. CASE TestUpFails
  BY <1>3 DEF TestUpFails
<1>4. CASE TestVerify
  BY <1>4 DEF TestVerify
<1>5. CASE TestCommit
  BY <1>5 DEF TestCommit
<1>6. CASE TestCommitFails
  <2>1. CASE UNCHANGED <<intent, failed>>
    BY <1>6, <2>1 DEF TestCommitFails
  <2>2. ASSUME intent' = Intent(test.candidate, "up"), failed' = (test.backup = NoIntent)
        PROVE  RollbackInv'
    <3>1. failed' <=> test.backup = NoIntent
      BY <2>2, Zenon
    <3> QED
      BY <1>6, <3>1 DEF TestCommitFails
  <2> QED
    BY <1>6, <2>1, <2>2 DEF TestCommitFails
<1>7. CASE RollDown
  BY <1>7 DEF RollDown
<1>8. CASE RollWrite
  BY <1>8 DEF RollWrite
<1>9. CASE RollUp
  BY <1>9 DEF RollUp
<1>10. CASE TestKilled
  BY <1>10 DEF TestKilled
<1>11. CASE Disconnected
  BY <1>11 DEF Disconnected
<1> QED
  BY <1>1, <1>2, <1>3, <1>4, <1>5, <1>6, <1>7, <1>8, <1>9, <1>10, <1>11 DEF TestNext

LEMMA TestInvariance == TestSpec => []TestInv
<1>1. TestInv /\ [TestNext]_testVars => TestInv'
  <2> SUFFICES ASSUME TestInv, [TestNext]_testVars PROVE TestInv'
    OBVIOUS
  <2>1. CASE TestNext
    BY <2>1, StepVerified, StepRollsBack DEF TestInv
  <2>2. CASE UNCHANGED testVars
    BY <2>2 DEF testVars, TestInv, TestTyped, VerifiedInv, RollbackInv, RecordMatchesNetwork, TestAt
  <2> QED
    BY <2>1, <2>2
<1> QED
  BY TestInitHolds, <1>1, PTL DEF TestSpec

-----------------------------------------------------------------------------
(* Tester.Run commits nothing it has not verified, whatever fails and      *)
(* whenever it is killed, and however often it is run again.               *)
THEOREM OnlyVerifiedIsStored == TestSpec => []OnlyVerifiedStored
<1>1. TestInv => OnlyVerifiedStored
  BY DEF TestInv, VerifiedInv, OnlyVerifiedStored
<1> QED
  BY TestInvariance, <1>1, PTL

(* A test that returned, with success or after its rollback, leaves the    *)
(* record and the network in agreement.                                    *)
THEOREM RollbackRestores == TestSpec => []RecordMatchesNetwork
<1>1. TestInv => RecordMatchesNetwork
  BY DEF TestInv, RollbackInv
<1> QED
  BY TestInvariance, <1>1, PTL

=============================================================================
