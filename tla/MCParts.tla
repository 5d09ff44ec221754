------------------------------ MODULE MCParts ------------------------------
(***************************************************************************)
(* The parts of the system that share no state, checked side by side: part *)
(* says which of them a behaviour is about; the others keep a fixed state  *)
(* of theirs.  So the states are the sum of those of the parts.            *)
(***************************************************************************)
EXTENDS AtomicFile, LiveTest, Health, UserFiles, Updater, AndroidTunnels,
        ZoneChoice, Verdicts, Router, TuiStatus, TuiKeys

MCNumbers == {<<1, 9, 9>>, <<1, 10, 0>>, <<2, 0, 0>>}

MCCatalog == <<"nl", "de", "fr">>

MCAnswers == {[how |-> "dns", time |-> 0]} \union [how : {"silent", "answers"}, time : {10, 20}]

(* Not known, known but stale, and fresh.                                  *)
MCScores ==
  {[known |-> FALSE, fresh |-> FALSE, datacenter |-> FALSE, score |-> 0],
   [known |-> TRUE, fresh |-> FALSE, datacenter |-> FALSE, score |-> 90],
   [known |-> TRUE, fresh |-> TRUE, datacenter |-> FALSE, score |-> 60],
   [known |-> TRUE, fresh |-> TRUE, datacenter |-> FALSE, score |-> 80],
   [known |-> TRUE, fresh |-> TRUE, datacenter |-> TRUE, score |-> 80]}

MCAdapters ==
  {[name |-> n, order |-> IF n = "eth0" THEN 1 ELSE 2, virtual |-> v, up |-> u,
    wireless |-> w, carrier |-> c, ipv4 |-> a] :
     n \in {"eth0", "wlan0"}, v \in BOOLEAN, u \in BOOLEAN, w \in BOOLEAN, c \in BOOLEAN,
     a \in {"none", "link-local", "routable"}}

-----------------------------------------------------------------------------
VARIABLE part

vars == <<part, atomicVars, testVars, healthVars, fileVars, updateVars, tunnelVars,
          choiceVars, verdictVars, routerVars, headerVars, keyVars>>

TestAsleep ==
  /\ intent = NoIntent /\ network = {} /\ test = NoTest
  /\ verified = {"none"} /\ failed = FALSE

FilesAsleep ==
  /\ user = "trust" /\ json = Missing /\ tmp = Missing /\ overlap = "none"
  /\ profiles = [n \in Records |-> "none"] /\ cmd = [c \in Commands |-> NoCommand]
  /\ said = {} /\ cut = {} /\ misread = FALSE

UpdateAsleep ==
  LET v == CHOOSE v \in Version : TRUE IN
  bin = Binary(v) /\ best = v /\ old = NoFile /\ update = NotUpdating

ChoiceAsleep ==
  /\ answers = [n \in Names |-> CHOOSE a \in Answers : TRUE]
  /\ scores = [n \in Names |-> CHOOSE s \in Scores : TRUE]
  /\ adapters = <<>> /\ choice = [of |-> "nothing", is |-> NoChoice]

RouterAsleep ==
  /\ request = CHOOSE r \in Request : TRUE
  /\ handlers = {} /\ stage = "received" /\ result = NotCalled /\ envelope = NoAnswer

HeaderAsleep ==
  /\ status = "disconnected" /\ header = "disconnected"
  /\ sampling = [s \in Samplings |-> "none"]
  /\ ticking = FALSE /\ running = FALSE

Init ==
  /\ part \in {"store", "gate", "test", "health", "files", "update", "tunnels", "choice",
               "verdict", "router", "header", "keys"}
  /\ IF part \in {"store", "gate"} THEN AtomicInit
     ELSE live = NoContent /\ durable = {live} /\ kept = NoContent
          /\ writing = [w \in Writers |-> NotWriting]
  /\ IF part = "test" THEN TestInit ELSE TestAsleep
  /\ IF part = "health" THEN HealthInit
     ELSE failures = 0 /\ recovered = FALSE /\ grace = FALSE /\ streak = 0 /\ fired = 0
  /\ IF part = "files" THEN FilesInit ELSE FilesAsleep
  /\ IF part = "update" THEN UpdateInit ELSE UpdateAsleep
  /\ TunnelsInit
  /\ IF part = "choice" THEN ChoiceInit ELSE ChoiceAsleep
  /\ IF part = "verdict" THEN VerdictInit ELSE seen = [by |-> "nobody"] /\ told = "nothing"
  /\ IF part = "router" THEN RouterInit ELSE RouterAsleep
  /\ IF part = "header" THEN HeaderInit ELSE HeaderAsleep
  /\ KeysInit

(* A step of one part, beside the variables it leaves alone.               *)
Step(p, next, others) == part = p /\ next /\ UNCHANGED part /\ UNCHANGED others

NotFiles ==
  <<testVars, healthVars, updateVars, tunnelVars, choiceVars, verdictVars, routerVars, headerVars, keyVars>>

Next ==
  \/ Step("store", StoreNext, <<fileVars, NotFiles>>)
  \/ Step("gate", GateNext, <<fileVars, NotFiles>>)
  \/ Step("files", FilesNext, <<atomicVars, NotFiles>>)
  \/ Step("test", TestNext,
          <<atomicVars, fileVars, healthVars, updateVars, tunnelVars, choiceVars, verdictVars,
            routerVars, headerVars, keyVars>>)
  \/ Step("health", HealthNext,
          <<atomicVars, fileVars, testVars, updateVars, tunnelVars, choiceVars, verdictVars,
            routerVars, headerVars, keyVars>>)
  \/ Step("update", UpdateNext,
          <<atomicVars, fileVars, testVars, healthVars, tunnelVars, choiceVars, verdictVars,
            routerVars, headerVars, keyVars>>)
  \/ Step("tunnels", TunnelsNext,
          <<atomicVars, fileVars, testVars, healthVars, updateVars, choiceVars, verdictVars,
            routerVars, headerVars, keyVars>>)
  \/ Step("choice", ChoiceNext,
          <<atomicVars, fileVars, testVars, healthVars, updateVars, tunnelVars, verdictVars,
            routerVars, headerVars, keyVars>>)
  \/ Step("verdict", VerdictNext,
          <<atomicVars, fileVars, testVars, healthVars, updateVars, tunnelVars, choiceVars,
            routerVars, headerVars, keyVars>>)
  \/ Step("router", RouterNext,
          <<atomicVars, fileVars, testVars, healthVars, updateVars, tunnelVars, choiceVars,
            verdictVars, headerVars, keyVars>>)
  \/ Step("header", HeaderNext,
          <<atomicVars, fileVars, testVars, healthVars, updateVars, tunnelVars, choiceVars,
            verdictVars, routerVars, keyVars>>)
  \/ Step("keys", KeysNext,
          <<atomicVars, fileVars, testVars, healthVars, updateVars, tunnelVars, choiceVars,
            verdictVars, routerVars, headerVars>>)

Spec == Init /\ [][Next]_vars /\ HeaderFairness

=============================================================================
