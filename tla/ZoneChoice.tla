----------------------------- MODULE ZoneChoice -----------------------------
(***************************************************************************)
(* Which zone a connection is made to: measure probes the endpoints of the *)
(* catalog and sorts the results, zonescore reorders the live ones by what *)
(* earlier connections showed, and up, up --clean and auto take the first. *)
(* Also which uplink netadapter recommends for the measurement.            *)
(***************************************************************************)
EXTENDS Integers, Sequences, FiniteSets

CONSTANTS
  Catalog,     \* the names of the profiles, in the catalog's order
  Answers,     \* what a server may answer to a probe
  Scores,      \* what the cache of scores may hold of a zone
  Adapters,    \* the network adapters a host may have; order: that of their names
  MaxAdapters  \* how many of them it has: bounds the model

Names == {Catalog[i] : i \in DOMAIN Catalog}

NoChoice == "none"

(* how: "bad" (endpoint), "dns", "dial" or "write" (errors), "silent" (no  *)
(* ICMP reply) or "answers"; time: of the socket, or of the ICMP reply.    *)
ASSUME ChoiceAssumption ==
  /\ Catalog \in Seq(Names)
  /\ Cardinality(Names) = Len(Catalog)
  /\ NoChoice \notin Names \union {a.name : a \in Adapters}
  /\ \A a \in Answers : a.how \in {"bad", "dns", "dial", "write", "silent", "answers"} /\ a.time \in Nat
  /\ \A s \in Scores :
       s.known \in BOOLEAN /\ s.fresh \in BOOLEAN /\ s.datacenter \in BOOLEAN /\ s.score \in 0..100
  /\ \A a \in Adapters : a.carrier \in BOOLEAN /\ a.order \in Nat
  /\ MaxAdapters \in Nat

VARIABLES
  answers,  \* what each server answers
  scores,   \* Cache.scores
  adapters, \* the adapters, in the kernel's order
  choice    \* the command and what it chose

choiceVars == <<answers, scores, adapters, choice>>

ChoiceInit ==
  /\ choice = [of |-> "nothing", is |-> NoChoice]
  /\ \/ /\ answers \in [Names -> Answers]
        /\ scores \in [Names -> Scores]
        /\ adapters = <<>>
     \/ /\ answers = [n \in Names |-> CHOOSE a \in Answers : TRUE]
        /\ scores = [n \in Names |-> CHOOSE s \in Scores : TRUE]
        /\ \E n \in 1..MaxAdapters : adapters \in [1..n -> Adapters]
        /\ \A i, j \in DOMAIN adapters : i # j => adapters[i].order # adapters[j].order

-----------------------------------------------------------------------------
(* sort.SliceStable by a strict weak order.                                *)
StableSort(s, Before(_, _)) ==
  LET Place(i) == Cardinality({j \in DOMAIN s : \/ Before(s[j], s[i])
                                                \/ ~Before(s[i], s[j]) /\ j <= i})
  IN [k \in DOMAIN s |-> s[CHOOSE i \in DOMAIN s : Place(i) = k]]

(* SelectSeq in a closed form: the elements that pass, in their order.     *)
Filter(s, Test(_)) ==
  LET kept == {i \in DOMAIN s : Test(s[i])}
      Place(i) == Cardinality({j \in kept : j <= i})
  IN [k \in 1..Cardinality(kept) |-> s[CHOOSE i \in kept : Place(i) = k]]

First(s, Test(_)) ==
  LET found == {i \in DOMAIN s : Test(s[i])} IN
  IF found = {} THEN NoChoice ELSE s[CHOOSE i \in found : \A j \in found : i <= j].name

-----------------------------------------------------------------------------
(* Probe: an endpoint that cannot be used sorts a second after the timeout.*)
ProbeTimeout == 3000

(* Mutant: a name that does not resolve counts as reachable at once.       *)
ProbeUnresolved(name) ==
  LET a == answers[name] IN
  [name |-> name, alive |-> a.how = "answers", latency |-> a.time,
   reachable |-> a.how \in {"dns", "silent", "answers"}]

Probe(name) ==
  LET a == answers[name]
      reachable == a.how \in {"silent", "answers"} IN
  [name |-> name, alive |-> a.how = "answers", reachable |-> reachable,
   latency |-> IF reachable THEN a.time ELSE ProbeTimeout + 1000]

BetterResult(r, q) ==
  \/ r.alive /\ ~q.alive
  \/ r.alive = q.alive /\ r.reachable /\ ~q.reachable
  \/ r.alive = q.alive /\ r.reachable = q.reachable /\ r.latency < q.latency

RankBest == StableSort([i \in DOMAIN Catalog |-> Probe(Catalog[i])], BetterResult)

Alive(r) == r.alive
Reachable(r) == r.reachable

BestAlive ==
  IF First(RankBest, Alive) # NoChoice THEN First(RankBest, Alive) ELSE First(RankBest, Reachable)

(* zonescore: a score that is known and fresh ranks its zone.              *)
Ranked(name) == scores[name].known /\ scores[name].fresh

Cleaner(r, q) ==
  \/ Ranked(r.name) /\ ~Ranked(q.name)
  \/ /\ Ranked(r.name) /\ Ranked(q.name)
     /\ \/ ~scores[r.name].datacenter /\ scores[q.name].datacenter
        \/ /\ scores[r.name].datacenter = scores[q.name].datacenter
           /\ scores[r.name].score > scores[q.name].score

(* up --clean: among the zones that answer, in their ranked order.         *)
Cleanest ==
  LET live == Filter(RankBest, Alive) IN
  IF live = <<>> THEN BestAlive ELSE StableSort(live, Cleaner)[1].name

(* auto: the head of the plan.                                             *)
AutoPlan ==
  LET live == Filter(RankBest, Alive) IN
  IF live # <<>> THEN live ELSE Filter(RankBest, Reachable)

-----------------------------------------------------------------------------
(* netadapter: listWith sorts, Recommend takes the first of the best kind. *)
Physical(a) == ~a.virtual

EarlierAdapter(a, b) ==
  \/ Physical(a) /\ ~Physical(b)
  \/ Physical(a) = Physical(b) /\ a.carrier /\ ~b.carrier
  \/ Physical(a) = Physical(b) /\ a.carrier = b.carrier /\ a.order < b.order

ListedAdapters == StableSort(adapters, EarlierAdapter)

Usable(a) == Physical(a) /\ a.up /\ a.ipv4 # "none"

Wired(a) == Usable(a) /\ ~a.wireless
WiredRoutable(a) == Wired(a) /\ a.ipv4 = "routable"
WifiRoutable(a) == Usable(a) /\ a.wireless /\ a.ipv4 = "routable"

Recommend ==
  LET list == ListedAdapters
      FirstOf(Test(_)) == First(list, Test) IN
  IF FirstOf(WiredRoutable) # NoChoice THEN FirstOf(WiredRoutable)
  ELSE IF FirstOf(WifiRoutable) # NoChoice THEN FirstOf(WifiRoutable)
  ELSE IF FirstOf(Wired) # NoChoice THEN FirstOf(Wired)
  ELSE FirstOf(Usable)

-----------------------------------------------------------------------------
Chooses(command, zone) ==
  /\ choice.of = "nothing"
  /\ choice' = [of |-> command, is |-> zone]
  /\ UNCHANGED <<answers, scores, adapters>>

UpBest == adapters = <<>> /\ Chooses("up best", BestAlive)
UpClean == adapters = <<>> /\ Chooses("up clean", Cleanest)
AutoCommand == adapters = <<>> /\ Chooses("auto", IF AutoPlan = <<>> THEN NoChoice ELSE AutoPlan[1].name)
Uplink == adapters # <<>> /\ Chooses("uplink", Recommend)

ChoiceNext == UpBest \/ UpClean \/ AutoCommand \/ Uplink

ChoiceSpec == ChoiceInit /\ [][ChoiceNext]_choiceVars

-----------------------------------------------------------------------------
LiveZones == {n \in Names : answers[n].how = "answers"}
UsableZones == LiveZones \union {n \in Names : answers[n].how = "silent"}

Fastest(zones) == {n \in zones : \A other \in zones : answers[n].time <= answers[other].time}

Cleanness(n) ==
  IF ~Ranked(n) THEN -1 ELSE scores[n].score + (IF scores[n].datacenter THEN 0 ELSE 1000)

CleanestOf(zones) == {n \in zones : \A other \in zones : Cleanness(n) >= Cleanness(other)}

UplinkKind(a) ==
  IF ~Usable(a) THEN 4
  ELSE IF a.ipv4 = "routable" THEN (IF a.wireless THEN 1 ELSE 0) ELSE (IF a.wireless THEN 3 ELSE 2)

(* A zone is dialled only if its server can be used, never a silent one    *)
(* while another answers, and then the fastest; up --best and auto agree;  *)
(* --clean gives up speed for a fresh better score only among zones that   *)
(* answer; nothing is refused while a zone can be used.  The zones are     *)
(* measured through the best kind of uplink the host has.                  *)
ChoiceIsBest ==
  /\ choice.of \in {"up best", "up clean", "auto"} =>
       (choice.is = NoChoice <=> UsableZones = {})
  /\ choice.of \in {"up best", "auto"} /\ UsableZones # {} =>
       /\ choice.is \in Fastest(IF LiveZones # {} THEN LiveZones ELSE UsableZones)
       /\ choice.is = BestAlive
  /\ choice.of = "up clean" /\ UsableZones # {} =>
       choice.is \in Fastest(IF LiveZones # {} THEN CleanestOf(LiveZones) ELSE UsableZones)
  /\ choice.of = "uplink" =>
       LET best == {i \in DOMAIN adapters :
                      \A j \in DOMAIN adapters : UplinkKind(adapters[i]) <= UplinkKind(adapters[j])} IN
       IF \E i \in best : Usable(adapters[i])
       THEN \E i \in best : choice.is = adapters[i].name
       ELSE choice.is = NoChoice

=============================================================================
