SPECIFICATION Spec
INVARIANTS
  WriteKept
  GateHolds
  OnlyVerifiedStored
  RecordMatchesNetwork
  OneRecoveryPerStreak
  FilesNeverTorn
  CommandsStick
  BinarySafe
  NothingLeaks
  ChoiceIsBest
  VerifyRight
  ReportsRight
  AnswersRight
  
PROPERTY
  HeaderCatchesUp
CONSTANTS
  Writers = {w1, w2}
  Profiles = {p1, p2}
  Required = TRUE
  GateUse = {"running", "awaiting-egress", "ready"}
  Candidates = {p1, p2}
  FailureLimit = 3
  Addresses = {a1, a2}
  FullTunnel = TRUE
  MaxStreak = 6
  Commands = {c1, c2}
  Records = {r1, r2}
  Defaults = {r1}
  Numbers <- MCNumbers
  Pre = {TRUE, FALSE}
  Fds = {f1, f2, f3}
  MaxHandle = 2
  Catalog <- MCCatalog
  Answers <- MCAnswers
  Scores <- MCScores
  Adapters <- MCAdapters
  MaxAdapters = 2
  Hosts = {a1, a2}
  Countries = {x, y}
  Samplings = {s1, s2, s3}
  Places = {"nl", "de"}
  MaxRankings = 2
  MaxWrites = 2
CHECK_DEADLOCK FALSE
