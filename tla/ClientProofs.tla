---------------------------- MODULE ClientProofs ----------------------------
(***************************************************************************)
(* Proofs about the parts of the client: the health monitor, the router of *)
(* the local API, the keys of the terminal UI, the verdicts and reports,   *)
(* and the choice of a zone (sorting first, then what each command takes). *)
(***************************************************************************)
EXTENDS Health, Router, TuiKeys, Verdicts, ZoneChoice, FiniteSetTheorems,
        FunctionTheorems, TLAPS

(* The counter follows the streak up to one past the limit, and the flag   *)
(* is set from the limit on.                                               *)
StreakInv ==
  /\ streak \in Nat
  /\ failures = IF streak <= Limit THEN streak ELSE Limit + 1
  /\ recovered <=> streak >= Limit
  /\ OneRecoveryPerStreak

LEMMA LimitPositive == Limit \in Nat /\ Limit >= 1
  BY HealthAssumption DEF HealthAssumption, Limit

(* health.go:10: whatever the ticks of the monitor observe, recovery fires *)
(* exactly once in a streak of failures, when it reaches the limit.        *)
THEOREM RecoveryFiresOnce == HealthSpec => []OneRecoveryPerStreak
<1>1. HealthInit => StreakInv
  BY LimitPositive DEF HealthInit, StreakInv, OneRecoveryPerStreak
<1>2. StreakInv /\ [HealthNext]_healthVars => StreakInv'
  <2> SUFFICES ASSUME StreakInv, [HealthNext]_healthVars PROVE StreakInv'
    OBVIOUS
  <2> USE LimitPositive DEF StreakInv, OneRecoveryPerStreak
  <2>1. CASE Fail
    <3> DEFINE n == IF failures < Limit + 1 THEN failures + 1 ELSE failures
    <3>1. /\ failures' = n
          /\ fired' = IF Fires(n) THEN fired + 1 ELSE fired
          /\ streak' = streak + 1
      BY <2>1 DEF Fail
    <3>2. recovered' <=> recovered \/ Fires(n)
      BY <2>1, Zenon DEF Fail
    <3>3. Fires(n) <=> streak + 1 = Limit
      BY DEF Fires
    <3> QED
      BY <3>1, <3>2, <3>3
  <2>2. CASE Reset
    <3>1. ~recovered'
      BY <2>2, Zenon DEF Reset
    <3> QED
      BY <2>2, <3>1 DEF Reset
  <2>3. CASE UNCHANGED <<failures, recovered, streak, fired>>
    BY <2>3
  <2> QED
    BY <2>1, <2>2, <2>3 DEF HealthNext, Check, GraceEnds, healthVars
<1>3. StreakInv => OneRecoveryPerStreak
  BY DEF StreakInv
<1> QED
  BY <1>1, <1>2, <1>3, PTL DEF HealthSpec

-----------------------------------------------------------------------------
(* What a handler returns.                                                 *)
HandlerResult ==
  [how : {"result", "unmarshalable", "error", "handler error"},
   code : HandlerCodes \union {"none"}, retryable : BOOLEAN]

(* What the stages of Dispatch have established, in the order they come.   *)
Established ==
  /\ stage # "answered" => envelope = NoAnswer
  /\ stage \in {"received", "decoded", "known", "allowed"} => result = NotCalled
  /\ stage \in {"decoded", "known", "allowed", "handled"} => request.form = "whole"
  /\ stage \in {"known", "allowed", "handled"} => request.version = "1.0" /\ (isRead \/ isMutation)
  /\ stage \in {"allowed", "handled"} => (request.actionID <=> isMutation) /\ (request.authorization <=> isMutation)

RouterInv ==
  /\ request \in Request
  /\ stage \in {"received", "decoded", "known", "allowed", "handled", "answered"}
  /\ Established
  /\ stage = "handled" => result # NotCalled
  /\ result # NotCalled => result \in HandlerResult
  /\ AnswersRight

(* No operation is both read-only and a mutation.                          *)
LEMMA ListsDisjoint == ~(isRead /\ isMutation)
  BY DEF isRead, isMutation, readOnlyOps, mutationOps

(* A refusal by the router itself ends the request and misleads nobody.    *)
LEMMA Refusal ==
  ASSUME RouterInv, result = NotCalled, NEW code, NEW retryable \in BOOLEAN,
         code = "permission-denied" => isMutation /\ ~(request.actionID /\ request.authorization),
         AnswersWith(Err(code, retryable))
  PROVE  RouterInv'
<1>1. stage' = "answered" /\ result' = NotCalled /\ request' = request
  BY DEF AnswersWith
<1>2. envelope'.status = "error" /\ envelope'.code = code
  BY DEF AnswersWith, Err
<1> QED
  BY <1>1, <1>2 DEF RouterInv, Established, AnswersRight, SaidSo, isMutation, NotCalled, Returned

(* For every request and whatever a handler returns, any error code with   *)
(* it: a handler sees only what the policy lets through, and ok, retryable *)
(* and permission-denied mean what a client takes them for, or were said   *)
(* by the handler itself.                                                  *)
THEOREM DispatchIsRight == RouterSpec => []AnswersRight
<1>1. RouterInit => RouterInv
  BY DEF RouterInit, RouterInv, Established, AnswersRight, NoAnswer
<1>2. RouterInv /\ [RouterNext]_routerVars => RouterInv'
  <2> SUFFICES ASSUME RouterInv, [RouterNext]_routerVars PROVE RouterInv'
    OBVIOUS
  <2>1. CASE Decode
    <3>1. CASE request.form = "whole"
      BY <2>1, <3>1 DEF Decode, PassesTo, RouterInv, Established, AnswersRight, SaidSo, isRead, isMutation
    <3>2. CASE request.form # "whole"
      BY <2>1, <3>2, Refusal DEF Decode, RouterInv, Established
    <3> QED
      BY <3>1, <3>2
  <2>2. CASE CheckOperation
    <3>1. CASE request.version = "1.0" /\ (isRead \/ isMutation)
      <4>1. PassesTo("known")
        BY <2>2, <3>1 DEF CheckOperation
      <4> QED
        BY <2>2, <3>1, <4>1
        DEF CheckOperation, PassesTo, RouterInv, Established, AnswersRight, SaidSo, isRead, isMutation
    <3>2. CASE ~(request.version = "1.0" /\ (isRead \/ isMutation))
      BY <2>2, <3>2, Refusal DEF CheckOperation, RouterInv, Established
    <3> QED
      BY <3>1, <3>2
  <2>3. CASE CheckCredentials
    <3>1. ASSUME PassesTo("allowed"),
                 ~(isRead /\ (request.actionID \/ request.authorization)),
                 ~(isMutation /\ (~request.actionID \/ ~request.authorization))
          PROVE  RouterInv'
      <4>1. (request.actionID <=> isMutation) /\ (request.authorization <=> isMutation)
        BY <2>3, <3>1, ListsDisjoint DEF CheckCredentials, RouterInv, Established
      <4> QED
        BY <2>3, <3>1, <4>1
        DEF CheckCredentials, PassesTo, RouterInv, Established, AnswersRight, SaidSo, isRead, isMutation
    <3>2. CASE isRead /\ (request.actionID \/ request.authorization)
      BY <2>3, <3>2, Refusal DEF CheckCredentials, RouterInv, Established
    <3>3. CASE ~isRead /\ isMutation /\ (~request.actionID \/ ~request.authorization)
      BY <2>3, <3>3, Refusal DEF CheckCredentials, RouterInv, Established
    <3> QED
      BY <2>3, <3>1, <3>2, <3>3, ListsDisjoint DEF CheckCredentials
  <2>4. CASE CallHandler
    <3>1. CASE request.operation \notin handlers
      BY <2>4, <3>1, Refusal DEF CallHandler, RouterInv, Established
    <3>2. CASE request.operation \in handlers
      <4>1. stage = "allowed" /\ stage' = "handled" /\ UNCHANGED <<request, handlers, envelope>>
        BY <2>4, <3>2 DEF CallHandler, AnswersWith
      <4>2. PICK how \in {"result", "unmarshalable", "error", "handler error"},
                 code \in HandlerCodes \union {"none"}, retryable \in BOOLEAN :
              result' = Returned(how, code, retryable)
        BY <2>4, <3>2, Zenon DEF CallHandler, AnswersWith
      <4>3. result' \in HandlerResult /\ result'.how = how
        BY <4>2 DEF Returned, HandlerResult
      <4>4. NotCalled.how = "not called"
        BY DEF NotCalled, Returned
      <4>5. result' # NotCalled
        BY <4>3, <4>4
      <4> QED
        BY <4>1, <4>3, <4>5 DEF RouterInv, Established, AnswersRight, SaidSo, isRead, isMutation
    <3> QED
      BY <3>1, <3>2
  <2>5. CASE WrapResult
    BY <2>5
    DEF WrapResult, AnswersWith, OK, Err, RouterInv, Established, AnswersRight, SaidSo, isRead, isMutation
  <2>6. CASE UNCHANGED routerVars
    BY <2>6 DEF routerVars, RouterInv, Established, AnswersRight, SaidSo, isRead, isMutation
  <2> QED
    BY <2>1, <2>2, <2>3, <2>4, <2>5, <2>6 DEF RouterNext
<1>3. RouterInv => AnswersRight
  BY DEF RouterInv
<1> QED
  BY <1>1, <1>2, <1>3, PTL DEF RouterSpec

-----------------------------------------------------------------------------
(* What is being written was asked for, and the file holds one of these    *)
(* requests as soon as one has been written.                               *)
KeysInv ==
  /\ rankings \in Nat
  /\ loading => rankings > 0
  /\ writes \subseteq asked
  /\ desired \in asked \/ asked \subseteq writes

(* However keys, rankings and writes interleave: "Measuring" is not shown  *)
(* without a ranking under way; and when the last write has ended, the     *)
(* daemon finds a request made since none was under way (which one, if the *)
(* writes of several crossed, is left open), unless all of them failed.    *)
THEOREM RequestsArrive == KeysSpec => []RequestsLand
<1>1. KeysInit => KeysInv
  BY DEF KeysInit, KeysInv
<1>2. KeysInv /\ [KeysNext]_keyVars => KeysInv'
  <2> SUFFICES ASSUME KeysInv, [KeysNext]_keyVars PROVE KeysInv'
    OBVIOUS
  <2> USE DEF KeysInv, unchangedLists, unchangedIntents
  <2>1. ASSUME NEW r, Requests(r), UNCHANGED <<loading, rankings>> PROVE KeysInv'
    BY <2>1 DEF Requests
  <2>2. ASSUME NEW to, NEW at, StartRanking(to, at) PROVE KeysInv'
    BY <2>2 DEF StartRanking
  <2>3. CASE ZonesMsg
    BY <2>3 DEF ZonesMsg
  <2>4. ASSUME NEW r \in writes, Write(r) PROVE KeysInv'
    BY <2>4 DEF Write
  <2>5. ASSUME NEW r \in writes, WriteFails(r) PROVE KeysInv'
    BY <2>5 DEF WriteFails
  <2>6. CASE UNCHANGED <<loading, rankings>> /\ unchangedIntents
    BY <2>6
  <2>7. CASE ConnectBest \/ Disconnect \/ Enter
    BY <2>1, <2>7 DEF ConnectBest, Disconnect, Enter
  <2>8. CASE OpenZones \/ TestZones
    BY <2>2, <2>8 DEF OpenZones, TestZones
  <2>9. CASE ShowSettings \/ Leave \/ Quit \/ MoveCursor \/ UNCHANGED keyVars
    BY <2>6, <2>9 DEF ShowSettings, Leave, Quit, MoveCursor, keyVars
  <2> QED
    BY <2>3, <2>4, <2>5, <2>7, <2>8, <2>9 DEF KeysNext
<1>3. KeysInv => RequestsLand
  BY DEF KeysInv, RequestsLand
<1> QED
  BY <1>1, <1>2, <1>3, PTL DEF KeysSpec

-----------------------------------------------------------------------------
(* What the user is told.  The state holds one observation and, once it    *)
(* has been told, the verdict of the function it was made for.             *)
VerdictOf(s) ==
  CASE s.by = "verify" -> VerifyEvaluate(s.of).verdict
    [] s.by = "diagnose" -> IF DiagnoseHealthy(DiagnoseAnalyze(s.of)) THEN "healthy" ELSE "critical"
    [] s.by = "stealth" -> StealthVerdict(StealthScore(s.of))
    [] s.by = "dnscheck" -> DNSVerdict(s.of)
    [] OTHER -> IF TraceHealthy(s.of) THEN "clear" ELSE "broken"

SeenInv ==
  \/ \E o \in Observation : seen = [by |-> "verify", of |-> o]
  \/ \E s \in DiagnoseSignal : seen = [by |-> "diagnose", of |-> s]
  \/ \E s \in StealthSignal : seen = [by |-> "stealth", of |-> s]
  \/ \E a \in Analysis : seen = [by |-> "dnscheck", of |-> a]
  \/ \E t \in TraceInput : seen = [by |-> "trace", of |-> t]

ToldInv == SeenInv /\ told \in {"nothing", VerdictOf(seen)}

LEMMA ToldInvariance == VerdictSpec => []ToldInv
<1>1. VerdictInit => ToldInv
  BY DEF VerdictInit, ToldInv, SeenInv
<1>2. ToldInv /\ [VerdictNext]_verdictVars => ToldInv'
  <2> SUFFICES ASSUME ToldInv, [VerdictNext]_verdictVars PROVE ToldInv'
    OBVIOUS
  <2>1. CASE VerdictNext
    <3>1. seen' = seen
      BY <2>1 DEF VerdictNext
    <3>2. told' = VerdictOf(seen)
      BY <2>1 DEF VerdictNext, Verify, Diagnose, Stealth, DNSCheck, Trace, VerdictOf, ToldInv, SeenInv
    <3>3. SeenInv'
      BY <3>1 DEF ToldInv, SeenInv
    <3> QED
      BY <3>1, <3>2, <3>3 DEF ToldInv
  <2>2. CASE UNCHANGED verdictVars
    BY <2>2 DEF verdictVars, ToldInv, SeenInv
  <2> QED
    BY <2>1, <2>2
<1> QED
  BY <1>1, <1>2, PTL DEF VerdictSpec

(* A connection with nothing to be said against it.                        *)
NothingFound(o) ==
  /\ o.boundV4 = o.defaultV4
  /\ o.defaultV6 \in {Unknown, o.boundV6}
  /\ ~Differ(o.observed, o.expected)
  /\ o.dns # "other"

LEMMA Joined ==
  ASSUME NEW S, NEW s \in Seq(S), NEW t \in Seq(S)
  PROVE  /\ s \o t \in Seq(S)
         /\ s \o t = <<>> <=> s = <<>> /\ t = <<>>
         /\ s # <<>> => (s \o t)[1] = s[1]
         /\ \A i \in DOMAIN (s \o t) : \/ i \in DOMAIN s /\ (s \o t)[i] = s[i]
                                       \/ i - Len(s) \in DOMAIN t /\ (s \o t)[i] = t[i - Len(s)]
  OBVIOUS

Finding == {"inactive", "no-egress", "route-mismatch", "ipv6-leak", "country-mismatch", "dns-leak"}

(* The list of findings is empty exactly when nothing is found, and starts *)
(* with the missing egress when there is none.                             *)
LEMMA FindingsMeaning ==
  ASSUME NEW o \in Observation
  PROVE  /\ VerifyFindings(o) \in Seq(Finding)
         /\ VerifyFindings(o) = <<>> <=> o.boundV4 # Unknown /\ NothingFound(o)
         /\ o.boundV4 = Unknown => VerifyFindings(o) # <<>> /\ VerifyFindings(o)[1] = "no-egress"
<1> DEFINE a == IF o.boundV4 = Unknown THEN <<"no-egress">>
                ELSE IF o.boundV4 = o.defaultV4 THEN <<>> ELSE <<"route-mismatch">>
           b == IF o.defaultV6 # Unknown /\ o.boundV6 # o.defaultV6 THEN <<"ipv6-leak">> ELSE <<>>
           c == IF Differ(o.expected, o.observed) THEN <<"country-mismatch">> ELSE <<>>
           d == IF o.dns = "other" THEN <<"dns-leak">> ELSE <<>>
<1>1. a \in Seq(Finding) /\ b \in Seq(Finding) /\ c \in Seq(Finding) /\ d \in Seq(Finding)
  <2>1. \A x \in Finding : <<x>> \in Seq(Finding)
    OBVIOUS
  <2>2. <<>> \in Seq(Finding)
    OBVIOUS
  <2>3. "no-egress" \in Finding /\ "route-mismatch" \in Finding /\ "ipv6-leak" \in Finding
        /\ "country-mismatch" \in Finding /\ "dns-leak" \in Finding
    BY DEF Finding
  <2>4. a \in {<<>>, <<"no-egress">>, <<"route-mismatch">>} /\ b \in {<<>>, <<"ipv6-leak">>}
        /\ c \in {<<>>, <<"country-mismatch">>} /\ d \in {<<>>, <<"dns-leak">>}
    BY Zenon
  <2> HIDE DEF a, b, c, d
  <2> QED
    BY <2>1, <2>2, <2>3, <2>4
<1>2. VerifyFindings(o) = ((a \o b) \o c) \o d
  BY DEF VerifyFindings
<1>3. /\ a = <<>> <=> o.boundV4 # Unknown /\ o.boundV4 = o.defaultV4
      /\ b = <<>> <=> o.defaultV6 \in {Unknown, o.boundV6}
      /\ c = <<>> <=> ~Differ(o.observed, o.expected)
      /\ d = <<>> <=> o.dns # "other"
      /\ o.boundV4 = Unknown => a # <<>> /\ a[1] = "no-egress"
  BY DEF Differ
<1> HIDE DEF a, b, c, d
<1>4. /\ a \o b \in Seq(Finding)
      /\ a \o b = <<>> <=> a = <<>> /\ b = <<>>
      /\ a # <<>> => (a \o b)[1] = a[1]
  BY <1>1, Joined
<1>5. /\ (a \o b) \o c \in Seq(Finding)
      /\ (a \o b) \o c = <<>> <=> a \o b = <<>> /\ c = <<>>
      /\ a \o b # <<>> => ((a \o b) \o c)[1] = (a \o b)[1]
  BY <1>1, <1>4, Joined
<1>6. /\ ((a \o b) \o c) \o d \in Seq(Finding)
      /\ ((a \o b) \o c) \o d = <<>> <=> (a \o b) \o c = <<>> /\ d = <<>>
      /\ (a \o b) \o c # <<>> => (((a \o b) \o c) \o d)[1] = ((a \o b) \o c)[1]
  BY <1>1, <1>5, Joined
<1> QED
  BY <1>2, <1>3, <1>4, <1>5, <1>6 DEF NothingFound

(* What the verdict means, and that the key of one that is not "verified"  *)
(* heads the list.                                                         *)
LEMMA VerifyMeaning ==
  ASSUME NEW o \in Observation
  PROVE  LET r == VerifyEvaluate(o)
         IN  /\ r.verdict = IF ~(o.active /\ o.boundV4 # Unknown) THEN "failed"
                            ELSE IF NothingFound(o) THEN "verified" ELSE "warning"
             /\ r.verdict # "verified" => \E i \in DOMAIN r.findings : r.findings[i] = r.key
<1> DEFINE f == VerifyFindings(o)
<1>1. /\ f \in Seq(Finding)
      /\ f = <<>> <=> o.boundV4 # Unknown /\ NothingFound(o)
      /\ o.boundV4 = Unknown => f # <<>> /\ f[1] = "no-egress"
  BY FindingsMeaning
<1>2. f # <<>> => 1 \in DOMAIN f
  BY <1>1
<1> HIDE DEF f
<1>3. CASE ~o.active
  BY <1>3 DEF VerifyEvaluate
<1>4. CASE o.active /\ o.boundV4 = Unknown
  <2>1. VerifyEvaluate(o) = [verdict |-> "failed", key |-> "no-egress", findings |-> f]
    BY <1>4 DEF VerifyEvaluate, Escalated, f
  <2> QED
    BY <1>1, <1>2, <1>4, <2>1
<1>5. CASE o.active /\ o.boundV4 # Unknown
  <2>1. VerifyEvaluate(o) = Escalated([verdict |-> "verified", key |-> "verified", findings |-> f])
    BY <1>5 DEF VerifyEvaluate, f
  <2>2. CASE f = <<>>
    BY <1>1, <1>5, <2>1, <2>2 DEF Escalated
  <2>3. CASE f # <<>>
    <3>1. VerifyEvaluate(o) = [verdict |-> "warning", key |-> f[1], findings |-> f]
      BY <2>1, <2>3 DEF Escalated
    <3> QED
      BY <1>1, <1>2, <1>5, <2>3, <3>1
  <2> QED
    BY <2>2, <2>3
<1> QED
  BY <1>3, <1>4, <1>5 DEF Observation

(* Whatever is observed: verified means that every check passed, failed    *)
(* that nothing goes through the tunnel, a verdict never improves when the *)
(* connection gets worse, and its reason is one of the findings.           *)
THEOREM VerifyIsRight == VerdictSpec => []VerifyRight
<1>1. ToldInv => VerifyRight
  <2> SUFFICES ASSUME ToldInv, seen.by = "verify", told # "nothing" PROVE VerifyRight
    BY DEF VerifyRight
  <2> DEFINE o == seen.of
  <2>1. o \in Observation /\ told = VerifyEvaluate(o).verdict
    BY DEF ToldInv, SeenInv, VerdictOf
  <2>2. \A w \in Worsened(o) : w \in Observation
    BY <2>1 DEF Worsened, Observation, Address
  <2> HIDE DEF o
  <2>3. told = (IF ~(o.active /\ o.boundV4 # Unknown) THEN "failed"
                ELSE IF NothingFound(o) THEN "verified" ELSE "warning")
    BY <2>1, VerifyMeaning
  <2>4. told # "verified" =>
          \E i \in DOMAIN VerifyEvaluate(o).findings :
            VerifyEvaluate(o).findings[i] = VerifyEvaluate(o).key
    BY <2>1, VerifyMeaning
  <2>5. ASSUME NEW w \in Worsened(o)
        PROVE  Severity(VerifyEvaluate(w).verdict) >= Severity(told)
    <3>1. VerifyEvaluate(w).verdict = (IF ~(w.active /\ w.boundV4 # Unknown) THEN "failed"
                                       ELSE IF NothingFound(w) THEN "verified" ELSE "warning")
      BY <2>2, <2>5, VerifyMeaning
    <3>2. CASE w = [o EXCEPT !.dns = "other"]
      <4>1. w.active = o.active /\ w.boundV4 = o.boundV4 /\ w.dns = "other"
        BY <2>1, <3>2 DEF Observation
      <4> QED
        BY <2>3, <3>1, <4>1 DEF NothingFound, Severity
    <3>3. CASE w = [o EXCEPT !.boundV4 = Unknown]
      <4>1. w.boundV4 = Unknown
        BY <2>1, <3>3 DEF Observation
      <4> QED
        BY <2>3, <3>1, <4>1 DEF Severity
    <3>4. CASE w = [o EXCEPT !.active = FALSE]
      <4>1. ~w.active
        BY <2>1, <3>4 DEF Observation
      <4> QED
        BY <2>3, <3>1, <4>1 DEF Severity
    <3> QED
      BY <2>5, <3>2, <3>3, <3>4 DEF Worsened
  <2> QED
    BY <2>3, <2>4, <2>5 DEF VerifyRight, NothingFound, o
<1> QED
  BY ToldInvariance, <1>1, PTL

-----------------------------------------------------------------------------
(* The problems diagnose lists: a critical one comes first or not at all.  *)
Severities == {"critical", "warn", "info"}

Titles == {"no uplink", "no internet", "no profiles", "no server", "tunnel missing", "no egress",
           "other vpn", "healthy", "dns"}

Listable == [severity : Severities, title : Titles]

CriticalFirst(p) == \A i \in DOMAIN p : p[i].severity = "critical" => i = 1

LEMMA OneProblem ==
  ASSUME NEW severity \in Severities, NEW title \in Titles
  PROVE  LET p == Problem(severity, title)
         IN  /\ p \in Seq(Listable) /\ CriticalFirst(p) /\ Len(p) = 1
             /\ DiagnoseHealthy(p) <=> severity # "critical"
             /\ Listed(p) = {title}
<1> DEFINE e == [severity |-> severity, title |-> title]
<1>1. Problem(severity, title) = <<e>> /\ e.severity = severity /\ e.title = title
  BY DEF Problem
<1> HIDE DEF e
<1>2. <<e>> \in Seq(Listable) /\ DOMAIN <<e>> = {1} /\ <<e>>[1] = e
  BY DEF e, Listable
<1> QED
  BY <1>1, <1>2 DEF CriticalFirst, DiagnoseHealthy, Listed

LEMMA NoProblem ==
  <<>> \in Seq(Listable) /\ CriticalFirst(<<>>) /\ DiagnoseHealthy(<<>>) /\ Listed(<<>>) = {}
<1>1. <<>> \in Seq(Listable) /\ DOMAIN <<>> = {}
  OBVIOUS
<1> QED
  BY <1>1 DEF CriticalFirst, DiagnoseHealthy, Listed

LEMMA Appended ==
  ASSUME NEW p \in Seq(Listable), NEW q \in Seq(Listable), CriticalFirst(p), DiagnoseHealthy(q)
  PROVE  /\ p \o q \in Seq(Listable) /\ CriticalFirst(p \o q)
         /\ DiagnoseHealthy(p \o q) <=> DiagnoseHealthy(p)
         /\ Listed(p \o q) = Listed(p) \union Listed(q)
<1> DEFINE r == p \o q
<1>1. r \in Seq(Listable) /\ \A i \in DOMAIN r : \/ i \in DOMAIN p /\ r[i] = p[i]
                                                 \/ i - Len(p) \in DOMAIN q /\ r[i] = q[i - Len(p)]
  BY Joined
<1>2. /\ \A i \in DOMAIN p : i \in DOMAIN r /\ r[i] = p[i]
      /\ \A i \in DOMAIN q : Len(p) + i \in DOMAIN r /\ r[Len(p) + i] = q[i]
  OBVIOUS
<1> HIDE DEF r
<1>3. CriticalFirst(r) /\ (DiagnoseHealthy(r) <=> DiagnoseHealthy(p))
  BY <1>1, <1>2 DEF CriticalFirst, DiagnoseHealthy
<1>4. Listed(r) = Listed(p) \union Listed(q)
  BY <1>1, <1>2 DEF Listed
<1> QED
  BY <1>1, <1>3, <1>4 DEF r

LEMMA TunnelProblems ==
  ASSUME NEW s \in DiagnoseSignal
  PROVE  LET p == DiagnoseTunnel(s)
             works == s.tunnel /\ s.link /\ s.egress
         IN  /\ p \in Seq(Listable) /\ CriticalFirst(p)
             /\ DiagnoseHealthy(p) <=> ~s.tunnel \/ works
             /\ works \/ Listed(p) \subseteq {"tunnel missing", "no egress"}
             /\ s.tunnel /\ ~works => Listed(p) # {}
<1>1. CASE ~s.tunnel
  BY <1>1, NoProblem DEF DiagnoseTunnel
<1>2. CASE s.tunnel /\ ~s.link
  <2>1. DiagnoseTunnel(s) = Problem("critical", "tunnel missing")
    BY <1>2 DEF DiagnoseTunnel
  <2>2. "critical" \in Severities /\ "tunnel missing" \in Titles
    BY DEF Severities, Titles
  <2> QED
    BY <1>2, <2>1, <2>2, OneProblem
<1>3. CASE s.tunnel /\ s.link /\ ~s.egress
  <2>1. DiagnoseTunnel(s) = Problem("critical", "no egress")
    BY <1>3 DEF DiagnoseTunnel
  <2>2. "critical" \in Severities /\ "no egress" \in Titles
    BY DEF Severities, Titles
  <2> QED
    BY <1>3, <2>1, <2>2, OneProblem
<1>4. CASE s.tunnel /\ s.link /\ s.egress
  <2> DEFINE p == IF s.conflict THEN Problem("warn", "other vpn") ELSE <<>>
             q == Problem("info", "healthy")
  <2>1. DiagnoseTunnel(s) = p \o q
    BY <1>4 DEF DiagnoseTunnel
  <2>2. "warn" \in Severities /\ "other vpn" \in Titles
        /\ "info" \in Severities /\ "healthy" \in Titles
    BY DEF Severities, Titles
  <2>3. q \in Seq(Listable) /\ DiagnoseHealthy(q)
    BY <2>2, OneProblem
  <2>4. p \in Seq(Listable) /\ CriticalFirst(p) /\ DiagnoseHealthy(p)
    BY <2>2, OneProblem, NoProblem
  <2> HIDE DEF p, q
  <2> QED
    BY <1>4, <2>1, <2>3, <2>4, Appended
<1> QED
  BY <1>1, <1>2, <1>3, <1>4 DEF DiagnoseSignal

LEMMA DiagnoseMeaning ==
  ASSUME NEW s \in DiagnoseSignal
  PROVE  LET p == DiagnoseAnalyze(s)
         IN  /\ CriticalFirst(p)
             /\ DiagnoseHealthy(p) <=> Connectable(s)
             /\ \/ Connectable(s)
                \/ Listed(p) \cap {"tunnel missing", "no egress"} # {}
                \/ Len(p) = 1
             /\ Connectable(s) \/ Listed(p) \cap {"healthy", "other vpn"} = {}
<1>0. Connectable(s) <=> /\ s.uplink /\ s.profiles /\ s.anyAlive
                         /\ s.tunnel => s.link /\ s.egress
                         /\ ~s.tunnel => s.internet
  BY DEF Connectable, DiagnoseSignal
<1>1. /\ "critical" \in Severities /\ "no uplink" \in Titles
      /\ "critical" \in Severities /\ "no internet" \in Titles
      /\ "critical" \in Severities /\ "no profiles" \in Titles
      /\ "critical" \in Severities /\ "no server" \in Titles
      /\ "warn" \in Severities /\ "dns" \in Titles
      /\ "info" \in Severities /\ "other vpn" \in Titles
  BY DEF Severities, Titles
<1>2. CASE ~s.uplink
  <2>1. DiagnoseAnalyze(s) = Problem("critical", "no uplink")
    BY <1>2 DEF DiagnoseAnalyze
  <2>2. ~Connectable(s)
    BY <1>0, <1>2, Zenon
  <2> QED
    BY <1>1, <2>1, <2>2, OneProblem
<1>3. CASE s.uplink /\ ~s.internet /\ ~s.tunnel
  <2>1. DiagnoseAnalyze(s) = Problem("critical", "no internet")
    BY <1>3 DEF DiagnoseAnalyze
  <2>2. ~Connectable(s)
    BY <1>0, <1>3, Zenon
  <2> QED
    BY <1>1, <2>1, <2>2, OneProblem
<1>4. CASE s.uplink /\ ~(~s.internet /\ ~s.tunnel) /\ ~s.profiles
  <2>1. DiagnoseAnalyze(s) = Problem("critical", "no profiles")
    BY <1>4 DEF DiagnoseAnalyze
  <2>2. ~Connectable(s)
    BY <1>0, <1>4, Zenon
  <2> QED
    BY <1>1, <2>1, <2>2, OneProblem
<1>5. CASE s.uplink /\ ~(~s.internet /\ ~s.tunnel) /\ s.profiles /\ ~s.anyAlive
  <2>1. DiagnoseAnalyze(s) = Problem("critical", "no server")
    BY <1>5 DEF DiagnoseAnalyze
  <2>2. ~Connectable(s)
    BY <1>0, <1>5, Zenon
  <2> QED
    BY <1>1, <2>1, <2>2, OneProblem
<1>6. CASE s.uplink /\ ~(~s.internet /\ ~s.tunnel) /\ s.profiles /\ s.anyAlive
  <2>1. CASE s.tunnel /\ s.link /\ s.egress
    <3>1. DiagnoseAnalyze(s) = DiagnoseTunnel(s)
      BY <1>6, <2>1 DEF DiagnoseAnalyze
    <3>2. Connectable(s)
      BY <1>0, <1>6, <2>1, Zenon
    <3> QED
      BY <2>1, <3>1, <3>2, TunnelProblems
  <2>2. CASE ~(s.tunnel /\ s.link /\ s.egress)
    <3> DEFINE t == DiagnoseTunnel(s)
               p == IF ~s.dns THEN Problem("warn", "dns") ELSE <<>>
               q == IF ~s.tunnel /\ s.conflict THEN Problem("info", "other vpn") ELSE <<>>
    <3>1. DiagnoseAnalyze(s) = (t \o p) \o q
      BY <1>6, <2>2 DEF DiagnoseAnalyze
    <3>2. /\ t \in Seq(Listable) /\ CriticalFirst(t)
          /\ DiagnoseHealthy(t) <=> ~s.tunnel
          /\ Listed(t) \subseteq {"tunnel missing", "no egress"}
          /\ s.tunnel => Listed(t) # {}
      BY <2>2, TunnelProblems
    <3>3. /\ p \in Seq(Listable) /\ DiagnoseHealthy(p) /\ Listed(p) \subseteq {"dns"}
          /\ q \in Seq(Listable) /\ DiagnoseHealthy(q) /\ (s.tunnel => Listed(q) = {})
      BY <1>1, OneProblem, NoProblem
    <3> HIDE DEF t, p, q
    <3>4. /\ t \o p \in Seq(Listable) /\ CriticalFirst(t \o p)
          /\ Listed(t \o p) = Listed(t) \union Listed(p)
          /\ DiagnoseHealthy(t \o p) <=> ~s.tunnel
      BY <3>2, <3>3, Appended
    <3>5. /\ CriticalFirst((t \o p) \o q)
          /\ Listed((t \o p) \o q) = Listed(t) \union Listed(p) \union Listed(q)
          /\ DiagnoseHealthy((t \o p) \o q) <=> ~s.tunnel
      BY <3>3, <3>4, Appended
    <3>6. Connectable(s) <=> ~s.tunnel
      BY <1>0, <1>6, <2>2, Zenon
    <3> QED
      BY <3>1, <3>2, <3>3, <3>5, <3>6
  <2> QED
    BY <2>1, <2>2
<1> QED
  BY <1>2, <1>3, <1>4, <1>5, <1>6

(* The score, its verdict and its exit code.                               *)
LEMMA StealthMeaning ==
  ASSUME NEW s \in StealthSignal
  PROVE  /\ StealthScore([s EXCEPT !.ipv6 = TRUE]) <= StealthScore(s)
         /\ StealthScore([s EXCEPT !.hosting = TRUE]) <= StealthScore(s)
         /\ StealthExit(s) = 1 <=> StealthVerdict(StealthScore(s)) \in {"risky", "exposed"}
         /\ s.ipv6 \/ Differ(s.zone, s.egress) => StealthVerdict(StealthScore(s)) # "clean"
<1>1. \A c, n : n \in Nat => Penalty(c, n) \in {0, n} /\ (c => Penalty(c, n) = n)
                             /\ (~c => Penalty(c, n) = 0)
  BY DEF Penalty
<1> DEFINE z == Penalty(Differ(s.zone, s.egress), 35)
           d == Penalty(Differ(s.dns, s.egress), 15)
           f == Penalty(Differ(s.cloudflare, s.egress), 5)
           i == Penalty(s.ipv6, 40)
           h == Penalty(s.hosting, 15)
           left(x, y) == IF 100 - x - z - d - y - f < 0 THEN 0 ELSE 100 - x - z - d - y - f
<1>2. /\ z \in {0, 35} /\ d \in {0, 15} /\ f \in {0, 5} /\ i \in {0, 40} /\ h \in {0, 15}
      /\ Differ(s.zone, s.egress) => z = 35
      /\ s.ipv6 => i = 40
  BY <1>1
<1>3. StealthScore(s) = left(i, h)
  BY DEF StealthScore
<1>4. StealthScore([s EXCEPT !.ipv6 = TRUE]) = left(40, h)
  <2> DEFINE w == [s EXCEPT !.ipv6 = TRUE]
  <2>1. w.ipv6 /\ w.zone = s.zone /\ w.egress = s.egress /\ w.dns = s.dns
        /\ w.hosting = s.hosting /\ w.cloudflare = s.cloudflare
    BY DEF StealthSignal
  <2> HIDE DEF w
  <2>2. Penalty(w.ipv6, 40) = 40
    BY <1>1, <2>1
  <2>3. StealthScore(w) = left(40, h)
    BY <2>1, <2>2 DEF StealthScore
  <2> QED
    BY <2>3 DEF w
<1>5. StealthScore([s EXCEPT !.hosting = TRUE]) = left(i, 15)
  <2> DEFINE w == [s EXCEPT !.hosting = TRUE]
  <2>1. w.hosting /\ w.zone = s.zone /\ w.egress = s.egress /\ w.dns = s.dns
        /\ w.ipv6 = s.ipv6 /\ w.cloudflare = s.cloudflare
    BY DEF StealthSignal
  <2> HIDE DEF w
  <2>2. Penalty(w.hosting, 15) = 15
    BY <1>1, <2>1
  <2>3. StealthScore(w) = left(i, 15)
    BY <2>1, <2>2 DEF StealthScore
  <2> QED
    BY <2>3 DEF w
<1> HIDE DEF z, d, f, i, h
<1>6. left(40, h) <= left(i, h) /\ left(i, 15) <= left(i, h)
  BY <1>2
<1>7. StealthScore(s) \in Int /\ (s.ipv6 \/ Differ(s.zone, s.egress) => StealthScore(s) < 85)
  BY <1>2, <1>3
<1>8. StealthExit(s) = 1 <=> StealthVerdict(StealthScore(s)) \in {"risky", "exposed"}
  BY <1>7 DEF StealthExit, StealthVerdict
<1>9. s.ipv6 \/ Differ(s.zone, s.egress) => StealthVerdict(StealthScore(s)) # "clean"
  BY <1>7 DEF StealthVerdict
<1> QED
  BY <1>3, <1>4, <1>5, <1>6, <1>8, <1>9

LEMMA TraceMeaning ==
  ASSUME NEW t \in TraceInput
  PROVE  TraceHealthy(t) <=> t.parses /\ t.resolves /\ (t.tunnel => t.link /\ t.egress)
<1>1. ~t.parses => ~TraceHealthy(t)
  <2>1. DOMAIN <<"fail">> = {1} /\ <<"fail">>[1] = "fail"
    OBVIOUS
  <2> QED
    BY <2>1 DEF TraceHealthy, TraceSteps
<1> DEFINE steps == << IF t.resolves THEN "ok" ELSE "fail",
                       IF t.pings THEN "ok" ELSE "warn",
                       IF ~t.tunnel THEN "warn" ELSE IF t.link THEN "ok" ELSE "fail",
                       IF ~t.tunnel THEN "warn" ELSE IF t.egress THEN "ok" ELSE "fail" >>
<1>2. t.parses => TraceSteps(t) = steps
  BY DEF TraceSteps
<1>3. /\ DOMAIN steps = {1, 2, 3, 4} /\ steps[2] # "fail"
      /\ steps[1] # "fail" <=> t.resolves
      /\ steps[3] # "fail" /\ steps[4] # "fail" <=> (t.tunnel => t.link /\ t.egress)
  OBVIOUS
<1> HIDE DEF steps
<1>4. t.parses => (TraceHealthy(t) <=> \A i \in {1, 2, 3, 4} : steps[i] # "fail")
  BY <1>2, <1>3 DEF TraceHealthy
<1> QED
  BY <1>1, <1>3, <1>4

(* Whatever is observed: critical, clean, clear, leaking and the exit code *)
(* are said exactly of the facts they are about.  Clean does not mean a    *)
(* resolver in the country, nor clear a trace without warnings, and a      *)
(* broken tunnel is followed by its DNS symptom: see ReportsRight.         *)
THEOREM ReportsAreRight == VerdictSpec => []ReportsRight
<1>1. ToldInv => ReportsRight
  <2> SUFFICES ASSUME ToldInv, told # "nothing" PROVE ReportsRight
    BY DEF ReportsRight
  <2> DEFINE s == seen.of
  <2>1. ASSUME seen.by = "diagnose"
        PROVE  LET problems == DiagnoseAnalyze(s)
               IN  /\ told = "critical" <=> ~Connectable(s)
                   /\ \A i \in DOMAIN problems : problems[i].severity = "critical" => i = 1
                   /\ told = "critical" /\ Listed(problems) \cap {"tunnel missing", "no egress"} = {} =>
                        Len(problems) = 1
                   /\ told = "critical" => Listed(problems) \cap {"healthy", "other vpn"} = {}
    <3>1. s \in DiagnoseSignal
      BY <2>1 DEF ToldInv, SeenInv
    <3>2. told = IF DiagnoseHealthy(DiagnoseAnalyze(s)) THEN "healthy" ELSE "critical"
      BY <2>1 DEF ToldInv, VerdictOf
    <3> HIDE DEF s
    <3> QED
      BY <3>1, <3>2, DiagnoseMeaning DEF CriticalFirst
  <2>2. ASSUME seen.by = "stealth"
        PROVE  /\ StealthScore([s EXCEPT !.ipv6 = TRUE]) <= StealthScore(s)
               /\ StealthScore([s EXCEPT !.hosting = TRUE]) <= StealthScore(s)
               /\ StealthExit(s) = 1 <=> told \in {"risky", "exposed"}
               /\ s.ipv6 \/ Differ(s.zone, s.egress) => told # "clean"
    <3>1. s \in StealthSignal
      BY <2>2 DEF ToldInv, SeenInv
    <3>2. told = StealthVerdict(StealthScore(s))
      BY <2>2 DEF ToldInv, VerdictOf
    <3> HIDE DEF s
    <3> QED
      BY <3>1, <3>2, StealthMeaning
  <2>3. ASSUME seen.by = "dnscheck"
        PROVE  /\ told = "clean" <=> s.bound /\ s.encrypted
               /\ told = "leaking" <=> ~s.bound
               /\ told # "leaking" /\ Differ(s.dns, s.egress) => "other country" \in DNSFindings(s)
               /\ ~("same country" \in DNSFindings(s) /\ "other country" \in DNSFindings(s))
    <3>1. s \in Analysis
      BY <2>3 DEF ToldInv, SeenInv
    <3>2. told = DNSVerdict(s)
      BY <2>3 DEF ToldInv, VerdictOf
    <3> HIDE DEF s
    <3> QED
      BY <3>1, <3>2 DEF DNSVerdict, DNSFindings, Differ, Analysis
  <2>4. ASSUME seen.by = "trace"
        PROVE  told = "clear" <=> s.parses /\ s.resolves /\ (s.tunnel => s.link /\ s.egress)
    <3>1. s \in TraceInput
      BY <2>4 DEF ToldInv, SeenInv
    <3>2. told = IF TraceHealthy(s) THEN "clear" ELSE "broken"
      BY <2>4 DEF ToldInv, VerdictOf
    <3> HIDE DEF s
    <3> QED
      BY <3>1, <3>2, TraceMeaning
  <2> QED
    BY <2>1, <2>2, <2>3, <2>4 DEF ReportsRight
<1> QED
  BY ToldInvariance, <1>1, PTL

-----------------------------------------------------------------------------
(* A total order of S, given by the elements up to each; the rank of an    *)
(* element is how many these are.                                          *)
TotalOrder(UpTo, S) ==
  /\ UpTo \in [S -> SUBSET S]
  /\ \A i \in S : i \in UpTo[i]
  /\ \A i, j, k \in S : i \in UpTo[j] /\ j \in UpTo[k] => i \in UpTo[k]
  /\ \A i, j \in S : i \in UpTo[j] /\ j \in UpTo[i] => i = j
  /\ \A i, j \in S : i \in UpTo[j] \/ j \in UpTo[i]

Rank(S, UpTo) == [i \in S |-> Cardinality(UpTo[i])]

RanksTaken(S, UpTo, rank) ==
  /\ Cardinality(S) \in Nat
  /\ \A i \in S : rank[i] \in 1..Cardinality(S)
  /\ \A i, j \in S : rank[i] <= rank[j] => i \in UpTo[j]
  /\ \A i, j \in S : rank[i] = rank[j] => i = j
  /\ \A k \in 1..Cardinality(S) : \E i \in S : rank[i] = k

(* Each rank is taken once.                                                *)
LEMMA Ranks ==
  ASSUME NEW S, IsFiniteSet(S), NEW UpTo, TotalOrder(UpTo, S)
  PROVE  RanksTaken(S, UpTo, Rank(S, UpTo))
<1> DEFINE n == Cardinality(S)
           rank == Rank(S, UpTo)
<1>8. /\ UpTo \in [S -> SUBSET S]
      /\ \A i \in S : i \in UpTo[i]
      /\ \A i, j, k \in S : i \in UpTo[j] /\ j \in UpTo[k] => i \in UpTo[k]
      /\ \A i, j \in S : i \in UpTo[j] /\ j \in UpTo[i] => i = j
      /\ \A i, j \in S : i \in UpTo[j] \/ j \in UpTo[i]
  BY DEF TotalOrder
<1>9. rank \in [S -> Nat] /\ \A i \in S : rank[i] = Cardinality(UpTo[i])
  BY <1>8, FS_Subset, FS_CardinalityType DEF Rank
<1>1. n \in Nat
  BY FS_CardinalityType
<1>2. \A i \in S : IsFiniteSet(UpTo[i]) /\ Cardinality(UpTo[i]) <= n
  BY <1>8, FS_Subset
<1>3. \A i \in S : Cardinality(UpTo[i]) # 0
  BY <1>2, <1>8, FS_EmptySet
<1> HIDE DEF n, rank
<1>4. \A i \in S : rank[i] \in 1..n
  BY <1>1, <1>2, <1>3, <1>9
<1>5. ASSUME NEW i \in S, NEW j \in S, rank[i] <= rank[j] PROVE i \in UpTo[j]
  <2> SUFFICES ASSUME i \notin UpTo[j] PROVE FALSE
    OBVIOUS
  <2>1. j \in UpTo[i] /\ UpTo[j] \subseteq UpTo[i] /\ UpTo[j] # UpTo[i]
    BY <1>8
  <2>2. Cardinality(UpTo[j]) <= Cardinality(UpTo[i]) /\ Cardinality(UpTo[j]) # Cardinality(UpTo[i])
    BY <1>2, <1>8, <2>1, FS_Subset
  <2>3. rank[i] \in Nat /\ rank[j] \in Nat /\ rank[i] = Cardinality(UpTo[i]) /\ rank[j] = Cardinality(UpTo[j])
    BY <1>9
  <2> QED
    BY <1>5, <2>2, <2>3
<1>6. ASSUME NEW i \in S, NEW j \in S, rank[i] = rank[j] PROVE i = j
  <2>1. rank[i] <= rank[j] /\ rank[j] <= rank[i]
    BY <1>6, <1>9
  <2> QED
    BY <1>5, <1>8, <2>1
<1>7. \A k \in 1..n : \E i \in S : rank[i] = k
  <2>1. rank \in [S -> 1..n]
    BY <1>4, <1>9
  <2>2. rank \in Injection(S, 1..n)
    BY <1>6, <2>1, Fun_IsInj
  <2>3. IsFiniteSet(1..n) /\ Cardinality(1..n) = n
    BY <1>1, FS_Interval
  <2>4. rank \in Surjection(S, 1..n)
    BY <2>2, <2>3, FS_Injection DEF n
  <2> QED
    BY <2>4 DEF Surjection
<1> QED
  <2>1. RanksTaken(S, UpTo, rank)
    BY <1>1, <1>4, <1>5, <1>6, <1>7 DEF n, RanksTaken
  <2> QED
    BY <2>1 DEF rank

(* What comes before, and of what is level what stood earlier, make a      *)
(* total order.                                                            *)
LEMMA StableOrder ==
  ASSUME NEW S, \A i \in S : i \in Int,
         NEW before, NEW UpTo \in [S -> SUBSET S],
         \A i, j \in S : i \in before[j] => j \notin before[i],
         \A i, j, k \in S : i \in before[k] => i \in before[j] \/ j \in before[k],
         \A i, j \in S : i \in UpTo[j] <=> i \in before[j] \/ (j \notin before[i] /\ i <= j)
  PROVE  TotalOrder(UpTo, S)
<1>1. \A i \in S : i \in UpTo[i]
  OBVIOUS
<1>2. \A i, j \in S : i \in UpTo[j] \/ j \in UpTo[i]
  OBVIOUS
<1>3. ASSUME NEW i \in S, NEW j \in S, NEW k \in S, i \in UpTo[j], j \in UpTo[k]
      PROVE  i \in UpTo[k]
  <2>1. i \in before[j] \/ (j \notin before[i] /\ i <= j)
    BY <1>3
  <2>2. j \in before[k] \/ (k \notin before[j] /\ j <= k)
    BY <1>3
  <2>3. i \in before[k] \/ (k \notin before[i] /\ i <= k)
    BY <2>1, <2>2
  <2> QED
    BY <2>3
<1>4. \A i, j \in S : i \in UpTo[j] /\ j \in UpTo[i] => i = j
  OBVIOUS
<1> QED
  BY <1>1, <1>2, <1>3, <1>4 DEF TotalOrder

(* StableSort, by positions: at[k] is the place in the given sequence of   *)
(* what comes k-th; before[i] are the places of what the order puts before *)
(* the element at i.                                                       *)
WeakOrder(before, n) ==
  /\ \A i, j \in 1..n : i \in before[j] => j \notin before[i]
  /\ \A i, j, k \in 1..n : i \in before[k] => i \in before[j] \/ j \in before[k]

StableUpTo(before, n) ==
  [i \in 1..n |-> {j \in 1..n : j \in before[i] \/ (i \notin before[j] /\ j <= i)}]

Position(before, n) ==
  [k \in 1..n |-> CHOOSE i \in 1..n : Cardinality(StableUpTo(before, n)[i]) = k]

Sorted(at, before, n) ==
  /\ \A k \in 1..n : at[k] \in 1..n
  /\ \A i \in 1..n : \E k \in 1..n : at[k] = i
  /\ \A k, l \in 1..n :
       k < l => at[k] \in before[at[l]] \/ (at[l] \notin before[at[k]] /\ at[k] < at[l])

LEMMA Sorts ==
  ASSUME NEW n \in Nat, NEW before, WeakOrder(before, n)
  PROVE  Sorted(Position(before, n), before, n)
<1> DEFINE S == 1..n
           UpTo == StableUpTo(before, n)
           at == Position(before, n)
           rank == Rank(S, UpTo)
<1>1. IsFiniteSet(S) /\ Cardinality(S) = n /\ \A i \in S : i \in Int
  BY FS_Interval
<1>11. /\ \A i, j \in S : i \in before[j] => j \notin before[i]
       /\ \A i, j, k \in S : i \in before[k] => i \in before[j] \/ j \in before[k]
  BY DEF WeakOrder
<1>3. /\ UpTo \in [S -> SUBSET S]
      /\ \A i, j \in S : i \in UpTo[j] <=> i \in before[j] \/ (j \notin before[i] /\ i <= j)
  BY DEF StableUpTo
<1>4. \A k \in S : at[k] = CHOOSE i \in S : rank[i] = k
  BY DEF Position, Rank
<1> HIDE DEF S, UpTo, at, rank
<1>2. TotalOrder(UpTo, S)
  BY <1>1, <1>3, <1>11, StableOrder
<1>5. /\ \A i \in S : rank[i] \in S
      /\ \A i, j \in S : rank[i] <= rank[j] => i \in UpTo[j]
      /\ \A i, j \in S : rank[i] = rank[j] => i = j
      /\ \A k \in S : \E i \in S : rank[i] = k
  <2>1. S = 1..Cardinality(S)
    BY <1>1 DEF S
  <2>2. /\ \A i \in S : rank[i] \in 1..Cardinality(S)
        /\ \A i, j \in S : rank[i] <= rank[j] => i \in UpTo[j]
        /\ \A i, j \in S : rank[i] = rank[j] => i = j
        /\ \A k \in 1..Cardinality(S) : \E i \in S : rank[i] = k
    BY <1>1, <1>2, Ranks DEF RanksTaken, rank
  <2> QED
    BY <2>1, <2>2
<1>6. \A k \in S : at[k] \in S /\ rank[at[k]] = k
  BY <1>4, <1>5
<1>7. \A i \in S : at[rank[i]] = i
  BY <1>5, <1>6
<1>8. ASSUME NEW k \in S, NEW l \in S, k < l
      PROVE  at[k] \in before[at[l]] \/ (at[l] \notin before[at[k]] /\ at[k] < at[l])
  <2>1. at[k] \in S /\ at[l] \in S /\ rank[at[k]] = k /\ rank[at[l]] = l
    BY <1>6
  <2>2. k \in Int /\ l \in Int /\ at[k] \in Int /\ at[l] \in Int
    BY <2>1, <1>1
  <2>3. at[k] # at[l]
    BY <2>1, <2>2, <1>8
  <2>4. rank[at[k]] <= rank[at[l]]
    BY <2>1, <2>2, <1>8
  <2>5. at[k] \in UpTo[at[l]]
    BY <2>1, <2>4, <1>5
  <2> QED
    BY <2>1, <2>2, <2>3, <2>5, <1>3
<1>10. \A i \in S : \E k \in S : at[k] = i
  BY <1>5, <1>7
<1>12. Sorted(at, before, n)
  BY <1>6, <1>8, <1>10 DEF S, Sorted
<1> QED
  BY <1>12 DEF at

(* Filter, likewise.                                                       *)
KeptUpTo(kept) == [i \in kept |-> {j \in kept : j <= i}]

KeptPosition(kept) ==
  [k \in 1..Cardinality(kept) |-> CHOOSE i \in kept : Cardinality(KeptUpTo(kept)[i]) = k]

InOrder(at, kept, m) ==
  /\ m \in Nat
  /\ m = 0 <=> kept = {}
  /\ \A k \in 1..m : at[k] \in kept
  /\ \A i \in kept : \E k \in 1..m : at[k] = i
  /\ \A k, l \in 1..m : k < l => at[k] < at[l]

LEMMA Filters ==
  ASSUME NEW n \in Nat, NEW kept \in SUBSET (1..n)
  PROVE  InOrder(KeptPosition(kept), kept, Cardinality(kept))
<1> DEFINE m == Cardinality(kept)
           UpTo == KeptUpTo(kept)
           at == KeptPosition(kept)
           rank == Rank(kept, UpTo)
<1>1. IsFiniteSet(kept)
  <2>1. IsFiniteSet(1..n)
    BY FS_Interval
  <2> QED
    BY <2>1, FS_Subset
<1>3. UpTo \in [kept -> SUBSET kept] /\ \A i, j \in kept : i \in UpTo[j] <=> i <= j
  BY DEF KeptUpTo
<1>4. \A k \in 1..m : at[k] = CHOOSE i \in kept : rank[i] = k
  BY DEF KeptPosition, Rank
<1> HIDE DEF UpTo, at, rank
<1>2. TotalOrder(UpTo, kept)
  BY <1>3 DEF TotalOrder
<1>5. /\ Cardinality(kept) \in Nat
      /\ \A i \in kept : rank[i] \in 1..Cardinality(kept)
      /\ \A i, j \in kept : rank[i] <= rank[j] => i \in UpTo[j]
      /\ \A i, j \in kept : rank[i] = rank[j] => i = j
      /\ \A k \in 1..Cardinality(kept) : \E i \in kept : rank[i] = k
  <2>1. RanksTaken(kept, UpTo, rank)
    BY <1>1, <1>2, Ranks DEF rank
  <2> QED
    BY <2>1 DEF RanksTaken
<1>6. \A k \in 1..m : at[k] \in kept /\ rank[at[k]] = k
  BY <1>4, <1>5
<1>7. \A i \in kept : rank[i] \in 1..m /\ at[rank[i]] = i
  BY <1>5, <1>6
<1>8. ASSUME NEW k \in 1..m, NEW l \in 1..m, k < l PROVE at[k] < at[l]
  <2>1. at[k] \in kept /\ at[l] \in kept /\ rank[at[k]] = k /\ rank[at[l]] = l
    BY <1>6
  <2>2. at[k] # at[l] /\ rank[at[k]] <= rank[at[l]]
    BY <2>1, <1>8
  <2>3. at[k] <= at[l]
    BY <2>1, <2>2, <1>3, <1>5
  <2>4. at[k] \in 1..n /\ at[l] \in 1..n
    BY <2>1
  <2> QED
    BY <2>2, <2>3, <2>4
<1>9. m = 0 <=> kept = {}
  BY <1>1, FS_EmptySet
<1>10. \A i \in kept : \E k \in 1..m : at[k] = i
  BY <1>7
<1>11. InOrder(at, kept, m)
  BY <1>5, <1>6, <1>8, <1>9, <1>10 DEF InOrder
<1> QED
  BY <1>11 DEF at

Results == [name : Names, alive : BOOLEAN, reachable : BOOLEAN, latency : Nat]

Measured == [i \in DOMAIN Catalog |-> Probe(Catalog[i])]

BetterAt == [j \in DOMAIN Catalog |-> {i \in DOMAIN Catalog : BetterResult(Measured[i], Measured[j])}]

LEMMA BetterOrders ==
  ASSUME NEW r \in Results, NEW q \in Results, NEW t \in Results
  PROVE  /\ BetterResult(r, q) => ~BetterResult(q, r)
         /\ BetterResult(r, t) => BetterResult(r, q) \/ BetterResult(q, t)
<1>1. /\ r.alive \in BOOLEAN /\ q.alive \in BOOLEAN /\ t.alive \in BOOLEAN
      /\ r.reachable \in BOOLEAN /\ q.reachable \in BOOLEAN /\ t.reachable \in BOOLEAN
      /\ r.latency \in Nat /\ q.latency \in Nat /\ t.latency \in Nat
  BY DEF Results
<1> QED
  BY <1>1 DEF BetterResult

LEMMA ProbesAreResults ==
  ASSUME answers \in [Names -> Answers]
  PROVE  /\ \A i \in DOMAIN Catalog : Catalog[i] \in Names /\ Measured[i] = Probe(Catalog[i])
         /\ \A i \in DOMAIN Catalog : Measured[i] \in Results
<1>1. \A i \in DOMAIN Catalog : Catalog[i] \in Names
  BY DEF Names
<1>2. \A name \in Names : Probe(name) \in Results
  <2> SUFFICES ASSUME NEW name \in Names PROVE Probe(name) \in Results
    OBVIOUS
  <2>1. answers[name] \in Answers
    OBVIOUS
  <2>2. answers[name].time \in Nat
    BY <2>1, ChoiceAssumption DEF ChoiceAssumption
  <2> QED
    BY <2>2 DEF Probe, Results, ProbeTimeout
<1> QED
  BY <1>1, <1>2 DEF Measured

LEMMA CatalogDomain == Len(Catalog) \in Nat /\ DOMAIN Catalog = 1..Len(Catalog)
  BY ChoiceAssumption DEF ChoiceAssumption

LEMMA BestIsSorted ==
  ASSUME answers \in [Names -> Answers]
  PROVE  \E at : /\ Sorted(at, BetterAt, Len(Catalog))
                 /\ RankBest = [k \in 1..Len(Catalog) |-> Measured[at[k]]]
<1> DEFINE n == Len(Catalog)
           UpTo == StableUpTo(BetterAt, n)
           at == Position(BetterAt, n)
<1>1. n \in Nat /\ DOMAIN Catalog = 1..n /\ DOMAIN Measured = 1..n
  BY CatalogDomain DEF Measured
<1>2. \A i, j \in 1..n : i \in BetterAt[j] <=> BetterResult(Measured[i], Measured[j])
  BY <1>1 DEF BetterAt
<1>3. \A i \in 1..n : Measured[i] \in Results
  BY <1>1, ProbesAreResults
<1>4. WeakOrder(BetterAt, n)
  <2> HIDE DEF n
  <2> QED
    BY <1>2, <1>3, BetterOrders DEF WeakOrder
<1>5. RankBest = [k \in 1..n |-> Measured[at[k]]]
  <2> DEFINE Upto(i) == {j \in 1..n : (BetterResult(Measured[j], Measured[i])
                                     \/ (~BetterResult(Measured[i], Measured[j]) /\ j <= i))}
  <2>1. \A i \in 1..n : UpTo[i] = Upto(i)
    BY <1>2 DEF StableUpTo
  <2>2. RankBest = StableSort(Measured, BetterResult)
    BY DEF RankBest, Measured
  <2>3. RankBest = [k \in 1..n |-> Measured[CHOOSE i \in 1..n : Cardinality(Upto(i)) = k]]
    <3> HIDE DEF n
    <3> QED
      BY <1>1, <2>2 DEF StableSort
  <2> HIDE DEF Upto, n
  <2>4. \A k \in 1..n : at[k] = CHOOSE i \in 1..n : Cardinality(Upto(i)) = k
    BY <2>1 DEF Position
  <2> QED
    BY <2>3, <2>4
<1>6. Sorted(at, BetterAt, n)
  BY <1>1, <1>4, Sorts
<1> QED
  BY <1>5, <1>6

(* What the sorted measurements hold: one for each zone, no later one      *)
(* better than an earlier one.                                             *)
Ranking(r) ==
  /\ Len(Catalog) \in Nat
  /\ DOMAIN r = 1..Len(Catalog)
  /\ \A k \in DOMAIN r : r[k] \in Results /\ r[k] = Probe(r[k].name)
  /\ \A name \in Names : \E k \in DOMAIN r : r[k] = Probe(name)
  /\ \A k, l \in DOMAIN r : k < l => ~BetterResult(r[l], r[k])

LEMMA RankBestRanks ==
  ASSUME answers \in [Names -> Answers]
  PROVE  Ranking(RankBest)
<1> DEFINE n == Len(Catalog)
           r == RankBest
<1>1. PICK at : Sorted(at, BetterAt, n) /\ r = [k \in 1..n |-> Measured[at[k]]]
  BY BestIsSorted
<1>2. n \in Nat /\ DOMAIN Catalog = 1..n /\ DOMAIN r = 1..n
  BY <1>1, CatalogDomain
<1>3. /\ \A k \in 1..n : at[k] \in 1..n
      /\ \A i \in 1..n : \E k \in 1..n : at[k] = i
      /\ \A k, l \in 1..n :
           k < l => at[k] \in BetterAt[at[l]] \/ (at[l] \notin BetterAt[at[k]] /\ at[k] < at[l])
  BY <1>1 DEF Sorted
<1>4. \A i \in 1..n : Catalog[i] \in Names /\ Measured[i] = Probe(Catalog[i]) /\ Measured[i] \in Results
  BY <1>2, ProbesAreResults
<1>5. \A k \in 1..n : r[k] = Measured[at[k]]
  BY <1>1
<1>6. \A name \in Names : Probe(name).name = name
  BY DEF Probe
<1>7. \A name \in Names : \E i \in 1..n : Catalog[i] = name
  BY <1>2 DEF Names
<1>8. \A i, j \in 1..n : i \in BetterAt[j] <=> BetterResult(Measured[i], Measured[j])
  BY <1>2 DEF BetterAt
<1> HIDE DEF n, r
<1>9. \A k \in 1..n : r[k] \in Results /\ r[k] = Probe(r[k].name)
  BY <1>3, <1>4, <1>5, <1>6
<1>10. \A name \in Names : \E k \in 1..n : r[k] = Probe(name)
  BY <1>3, <1>4, <1>5, <1>7
<1>11. ASSUME NEW k \in 1..n, NEW l \in 1..n, k < l PROVE ~BetterResult(r[l], r[k])
  <2>1. at[k] \in 1..n /\ at[l] \in 1..n /\ r[k] = Measured[at[k]] /\ r[l] = Measured[at[l]]
    BY <1>3, <1>5
  <2>2. BetterResult(r[k], r[l]) \/ ~BetterResult(r[l], r[k])
    BY <1>3, <1>8, <1>11, <2>1
  <2> QED
    BY <2>1, <2>2, <1>4, BetterOrders
<1>12. Ranking(r)
  BY <1>2, <1>9, <1>10, <1>11 DEF Ranking, n
<1> QED
  BY <1>12 DEF r

LEMMA ProbeMeaning ==
  ASSUME answers \in [Names -> Answers], NEW name \in Names
  PROVE  /\ answers[name].time \in Nat
         /\ Probe(name) \in Results
         /\ Probe(name).name = name
         /\ Probe(name).alive <=> name \in LiveZones
         /\ Probe(name).reachable <=> name \in UsableZones
         /\ name \in UsableZones => Probe(name).latency = answers[name].time
<1>1. answers[name] \in Answers
  OBVIOUS
<1>2. answers[name].time \in Nat
  BY <1>1, ChoiceAssumption DEF ChoiceAssumption
<1>3. Probe(name) \in Results
  BY <1>2 DEF Probe, Results, ProbeTimeout
<1>4. Probe(name).alive <=> name \in LiveZones
  BY DEF Probe, LiveZones
<1>5. Probe(name).reachable <=> name \in UsableZones
  BY DEF Probe, UsableZones, LiveZones
<1>6. name \in UsableZones => Probe(name).latency = answers[name].time
  BY <1>5 DEF Probe
<1> QED
  BY <1>2, <1>3, <1>4, <1>5, <1>6 DEF Probe

(* The first of the ranking is the fastest zone that answers, or that can  *)
(* be used when none answers.                                              *)
LEMMA HeadIsBest ==
  ASSUME answers \in [Names -> Answers], UsableZones # {}
  PROVE  /\ 1 \in DOMAIN RankBest
         /\ RankBest[1].name \in Fastest(IF LiveZones # {} THEN LiveZones ELSE UsableZones)
         /\ RankBest[1].reachable
         /\ RankBest[1].alive <=> LiveZones # {}
<1> DEFINE r == RankBest
           n == Len(Catalog)
<1>1. /\ n \in Nat /\ DOMAIN r = 1..n
      /\ \A k \in DOMAIN r : r[k] \in Results /\ r[k] = Probe(r[k].name)
      /\ \A name \in Names : \E k \in DOMAIN r : r[k] = Probe(name)
      /\ \A k, l \in DOMAIN r : k < l => ~BetterResult(r[l], r[k])
  BY RankBestRanks DEF Ranking
<1> HIDE DEF r, n
<1>2. LiveZones \subseteq UsableZones /\ UsableZones \subseteq Names
  BY DEF LiveZones, UsableZones
<1>3. 1 \in DOMAIN r
  BY <1>1, <1>2
<1> DEFINE head == r[1].name
<1>4. head \in Names /\ r[1] = Probe(head)
  BY <1>1, <1>3 DEF Results
<1> HIDE DEF head
<1>5. ASSUME NEW name \in Names PROVE Probe(name) = Probe(head) \/ ~BetterResult(Probe(name), Probe(head))
  <2>1. PICK k \in DOMAIN r : r[k] = Probe(name)
    BY <1>1
  <2> QED
    BY <2>1, <1>1, <1>3, <1>4
<1>6. ASSUME NEW name \in Names, name \in UsableZones
      PROVE  /\ head \in UsableZones
             /\ name \in LiveZones => head \in LiveZones
             /\ (name \in LiveZones <=> head \in LiveZones) => answers[head].time <= answers[name].time
  <2>1. /\ Probe(name).alive <=> name \in LiveZones
        /\ Probe(name).reachable
        /\ Probe(name).latency = answers[name].time /\ answers[name].time \in Nat
        /\ Probe(name) \in Results
    BY <1>6, ProbeMeaning
  <2>2. /\ Probe(head).alive <=> head \in LiveZones
        /\ Probe(head).reachable <=> head \in UsableZones
        /\ head \in UsableZones => Probe(head).latency = answers[head].time
        /\ answers[head].time \in Nat
        /\ Probe(head) \in Results
    BY <1>4, ProbeMeaning
  <2>3. Probe(name) = Probe(head) \/ ~BetterResult(Probe(name), Probe(head))
    BY <1>5
  <2> DEFINE a == Probe(name)
             b == Probe(head)
  <2>4. /\ a.alive \in BOOLEAN /\ a.reachable \in BOOLEAN /\ a.latency \in Nat
        /\ b.alive \in BOOLEAN /\ b.reachable \in BOOLEAN /\ b.latency \in Nat
    BY <2>1, <2>2 DEF Results
  <2> HIDE DEF a, b
  <2>5. /\ a.alive => b.alive
        /\ a.alive = b.alive => b.reachable
        /\ (a.alive = b.alive /\ b.reachable) => b.latency <= a.latency
    <3>1. a = b \/ ~BetterResult(a, b)
      BY <2>3 DEF a, b
    <3>2. a.reachable = TRUE
      BY <2>1, <2>4 DEF a
    <3>3. CASE a = b
      BY <3>2, <3>3, <2>4
    <3>4. CASE ~BetterResult(a, b)
      <4>1. ~(a.alive /\ ~b.alive)
        BY <3>4 DEF BetterResult
      <4>2. a.alive = b.alive => b.reachable
        BY <3>2, <3>4 DEF BetterResult
      <4>3. a.alive = b.alive /\ a.reachable = b.reachable => ~(a.latency < b.latency)
        BY <3>4 DEF BetterResult
      <4> QED
        BY <4>1, <4>2, <4>3, <3>2, <2>4
    <3> QED
      BY <3>1, <3>3, <3>4
  <2>6. /\ a.alive <=> name \in LiveZones
        /\ a.latency = answers[name].time
        /\ b.alive <=> head \in LiveZones
        /\ b.reachable <=> head \in UsableZones
        /\ head \in UsableZones => b.latency = answers[head].time
    BY <2>1, <2>2 DEF a, b
  <2> QED
    BY <2>4, <2>5, <2>6, <1>2
<1>7. head \in UsableZones /\ (LiveZones # {} <=> head \in LiveZones)
  BY <1>2, <1>6
<1>8. head \in Fastest(IF LiveZones # {} THEN LiveZones ELSE UsableZones)
  BY <1>2, <1>6, <1>7 DEF Fastest
<1>9. r[1].reachable /\ (r[1].alive <=> LiveZones # {})
  BY <1>4, <1>7, ProbeMeaning
<1> QED
  BY <1>3, <1>8, <1>9 DEF r, head

(* measure.go:160: what BestAlive picks.                                   *)
LEMMA BestAliveIsBest ==
  ASSUME answers \in [Names -> Answers]
  PROVE  /\ BestAlive = NoChoice <=> UsableZones = {}
         /\ UsableZones # {} =>
              /\ BestAlive = RankBest[1].name
              /\ BestAlive \in Fastest(IF LiveZones # {} THEN LiveZones ELSE UsableZones)
<1> DEFINE r == RankBest
           n == Len(Catalog)
           first(found) == CHOOSE i \in found : \A j \in found : i <= j
           alive == {k \in DOMAIN r : r[k].alive}
           reachable == {k \in DOMAIN r : r[k].reachable}
<1>1. /\ n \in Nat /\ DOMAIN r = 1..n
      /\ \A k \in DOMAIN r : r[k] \in Results /\ r[k] = Probe(r[k].name)
  BY RankBestRanks DEF Ranking
<1>2. /\ First(r, Alive) = IF alive = {} THEN NoChoice ELSE r[first(alive)].name
      /\ First(r, Reachable) = IF reachable = {} THEN NoChoice ELSE r[first(reachable)].name
  BY DEF First, Alive, Reachable
<1>3. \A k \in DOMAIN r : r[k].name \in Names /\ r[k].name # NoChoice
  BY <1>1, ChoiceAssumption DEF ChoiceAssumption, Results
<1>4. BestAlive = IF First(r, Alive) # NoChoice THEN First(r, Alive) ELSE First(r, Reachable)
  BY DEF BestAlive
<1> HIDE DEF r, n, first
<1>5. CASE UsableZones = {}
  <2>1. alive = {} /\ reachable = {}
    <3>1. \A k \in DOMAIN r : ~r[k].alive /\ ~r[k].reachable
      <4> SUFFICES ASSUME NEW k \in DOMAIN r PROVE ~r[k].alive /\ ~r[k].reachable
        OBVIOUS
      <4>1. r[k].name \in Names /\ r[k] = Probe(r[k].name)
        BY <1>1, <1>3
      <4>2. r[k].name \notin LiveZones /\ r[k].name \notin UsableZones
        BY <1>5 DEF UsableZones
      <4> QED
        BY <4>1, <4>2, ProbeMeaning
    <3> QED
      BY <3>1
  <2> QED
    BY <2>1, <1>2, <1>4, <1>5
<1>6. CASE UsableZones # {}
  <2>1. /\ 1 \in DOMAIN r
        /\ r[1].name \in Fastest(IF LiveZones # {} THEN LiveZones ELSE UsableZones)
        /\ r[1].reachable
    BY <1>6, HeadIsBest DEF r
  <2>2. \A found \in SUBSET DOMAIN r : 1 \in found => first(found) = 1
    BY <1>1 DEF first
  <2>3. 1 \in reachable
    BY <2>1
  <2>4. 1 \in alive \/ alive = {}
    <3>1. r[1].alive <=> LiveZones # {}
      BY <1>6, HeadIsBest DEF r
    <3> SUFFICES ASSUME NEW k \in DOMAIN r, r[k].alive PROVE r[1].alive
      BY <2>1
    <3>2. r[k].name \in LiveZones
      BY <1>1, <1>3, ProbeMeaning
    <3> QED
      BY <3>1, <3>2
  <2>5. BestAlive = r[1].name
    BY <1>2, <1>3, <1>4, <2>1, <2>2, <2>3, <2>4
  <2> QED
    BY <2>1, <2>5, <1>3, <1>6 DEF r
<1> QED
  BY <1>5, <1>6

(* What Filter keeps, by positions.                                        *)
LEMMA FilterMeaning ==
  ASSUME NEW r
  PROVE  /\ Filter(r, Alive) =
              LET kept == {i \in DOMAIN r : r[i].alive} IN
              [k \in 1..Cardinality(kept) |-> r[KeptPosition(kept)[k]]]
         /\ Filter(r, Reachable) =
              LET kept == {i \in DOMAIN r : r[i].reachable} IN
              [k \in 1..Cardinality(kept) |-> r[KeptPosition(kept)[k]]]
<1> DEFINE Place(kept, k) == CHOOSE i \in kept : Cardinality({j \in kept : j <= i}) = k
           At(kept) == [k \in 1..Cardinality(kept) |-> r[Place(kept, k)]]
<1>1. /\ Filter(r, Alive) = At({i \in DOMAIN r : r[i].alive})
      /\ Filter(r, Reachable) = At({i \in DOMAIN r : r[i].reachable})
  BY DEF Filter, Alive, Reachable
<1>2. ASSUME NEW kept
      PROVE  At(kept) = [k \in 1..Cardinality(kept) |-> r[KeptPosition(kept)[k]]]
  <2>1. \A i \in kept : KeptUpTo(kept)[i] = {j \in kept : j <= i}
    BY DEF KeptUpTo
  <2>2. \A k \in 1..Cardinality(kept) :
          KeptPosition(kept)[k] = Place(kept, k)
    BY <2>1 DEF KeptPosition
  <2> HIDE DEF Place
  <2> QED
    BY <2>2
<1> HIDE DEF At
<1> QED
  BY <1>1, <1>2

LEMMA EmptySeq ==
  ASSUME NEW m \in Nat, NEW f
  PROVE  [k \in 1..m |-> f[k]] = <<>> <=> m = 0
<1> DEFINE q == [k \in 1..m |-> f[k]]
<1>1. q \in Seq({f[k] : k \in 1..m}) /\ Len(q) = m
  OBVIOUS
<1> HIDE DEF q
<1>2. q = <<>> <=> m = 0
  BY <1>1
<1> QED
  BY <1>2 DEF q

(* The zones that pass the test, in the order of the ranking.              *)
Passed(q, r, kept) ==
  \E at, m : /\ InOrder(at, kept, m)
             /\ DOMAIN q = 1..m
             /\ \A k \in 1..m : q[k] = r[at[k]]
             /\ q = <<>> <=> m = 0

LEMMA FilterPasses ==
  ASSUME NEW r, NEW n \in Nat, DOMAIN r = 1..n
  PROVE  /\ Passed(Filter(r, Alive), r, {i \in DOMAIN r : r[i].alive})
         /\ Passed(Filter(r, Reachable), r, {i \in DOMAIN r : r[i].reachable})
<1>1. ASSUME NEW kept \in SUBSET (1..n), NEW q,
             q = [k \in 1..Cardinality(kept) |-> r[KeptPosition(kept)[k]]]
      PROVE  Passed(q, r, kept)
  <2> DEFINE at == KeptPosition(kept)
             m == Cardinality(kept)
             f == [k \in 1..m |-> r[at[k]]]
  <2>1. InOrder(at, kept, m)
    BY Filters
  <2>2. m \in Nat
    BY <2>1 DEF InOrder
  <2>3. q = [k \in 1..m |-> f[k]]
    BY <1>1
  <2>4. \A k \in 1..m : f[k] = r[at[k]]
    OBVIOUS
  <2> HIDE DEF m, f
  <2>5. q = <<>> <=> m = 0
    BY <2>2, <2>3, EmptySeq
  <2>6. DOMAIN q = 1..m /\ \A k \in 1..m : q[k] = r[at[k]]
    BY <2>3, <2>4
  <2> HIDE DEF at
  <2> QED
    BY <2>1, <2>5, <2>6 DEF Passed
<1> QED
  BY <1>1, FilterMeaning

(* up_cmd.go:101: the plan of auto begins with the same zone.              *)
LEMMA AutoPlanIsBest ==
  ASSUME answers \in [Names -> Answers]
  PROVE  (IF AutoPlan = <<>> THEN NoChoice ELSE AutoPlan[1].name) = BestAlive
<1> DEFINE r == RankBest
           n == Len(Catalog)
           live == Filter(r, Alive)
           usable == Filter(r, Reachable)
           liveAt == {i \in DOMAIN r : r[i].alive}
           usableAt == {i \in DOMAIN r : r[i].reachable}
<1>1. /\ n \in Nat /\ DOMAIN r = 1..n
      /\ \A k \in DOMAIN r : r[k] \in Results /\ r[k] = Probe(r[k].name)
  BY RankBestRanks DEF Ranking
<1>2. AutoPlan = IF live # <<>> THEN live ELSE usable
  BY DEF AutoPlan
<1>3. Passed(live, r, liveAt) /\ Passed(usable, r, usableAt)
  BY <1>1, FilterPasses
<1> HIDE DEF r, n, live, usable
<1>4. ASSUME NEW q, NEW kept \in SUBSET (1..n), Passed(q, r, kept)
      PROVE  /\ q = <<>> <=> kept = {}
             /\ 1 \in kept => q[1] = r[1]
  <2>1. PICK at, m : /\ InOrder(at, kept, m)
                     /\ DOMAIN q = 1..m
                     /\ \A k \in 1..m : q[k] = r[at[k]]
                     /\ q = <<>> <=> m = 0
    BY <1>4 DEF Passed
  <2>2. /\ m \in Nat
        /\ m = 0 <=> kept = {}
        /\ \A k \in 1..m : at[k] \in kept
        /\ \A i \in kept : \E k \in 1..m : at[k] = i
        /\ \A k, l \in 1..m : k < l => at[k] < at[l]
    BY <2>1 DEF InOrder
  <2>3. ASSUME 1 \in kept PROVE q[1] = r[1]
    <3>1. PICK k \in 1..m : at[k] = 1
      BY <2>2, <2>3
    <3>5. 1 \in 1..m
      BY <2>2
    <3>2. 1 \in 1..m /\ at[1] \in 1..n
      BY <2>2, <3>5
    <3>3. ~(1 < k)
      BY <2>2, <3>1, <3>2
    <3>4. k = 1
      BY <2>2, <3>3
    <3> QED
      BY <2>1, <3>1, <3>2, <3>4
  <2> QED
    BY <2>1, <2>2, <2>3
<1>5. /\ live = <<>> <=> liveAt = {}
      /\ usable = <<>> <=> usableAt = {}
      /\ 1 \in liveAt => live[1] = r[1]
      /\ 1 \in usableAt => usable[1] = r[1]
  BY <1>1, <1>3, <1>4
<1>6. \A k \in DOMAIN r : /\ r[k].name \in Names
                          /\ r[k].alive <=> r[k].name \in LiveZones
                          /\ r[k].reachable <=> r[k].name \in UsableZones
  <2> SUFFICES ASSUME NEW k \in DOMAIN r
               PROVE  /\ r[k].name \in Names
                      /\ r[k].alive <=> r[k].name \in LiveZones
                      /\ r[k].reachable <=> r[k].name \in UsableZones
    OBVIOUS
  <2>1. r[k].name \in Names /\ r[k] = Probe(r[k].name)
    BY <1>1 DEF Results
  <2> QED
    BY <2>1, ProbeMeaning
<1>7. CASE UsableZones = {}
  <2>1. liveAt = {} /\ usableAt = {}
    BY <1>6, <1>7 DEF UsableZones
  <2> QED
    BY <1>2, <1>5, <1>7, <2>1, BestAliveIsBest
<1>8. CASE UsableZones # {}
  <2>1. 1 \in DOMAIN r /\ r[1].reachable /\ (r[1].alive <=> LiveZones # {})
    BY <1>8, HeadIsBest DEF r
  <2>2. 1 \in liveAt \/ liveAt = {}
    BY <2>1, <1>6
  <2>3. 1 \in usableAt
    BY <2>1
  <2>4. AutoPlan # <<>> /\ AutoPlan[1] = r[1]
    BY <1>2, <1>5, <2>2, <2>3
  <2>5. BestAlive = r[1].name
    BY <1>8, BestAliveIsBest DEF r
  <2> QED
    BY <2>4, <2>5
<1> QED
  BY <1>7, <1>8

LEMMA CleanerMeaning ==
  ASSUME scores \in [Names -> Scores]
  PROVE  /\ \A name \in Names : Cleanness(name) \in Int
         /\ \A r, q : r.name \in Names /\ q.name \in Names =>
              (Cleaner(r, q) <=> Cleanness(r.name) > Cleanness(q.name))
<1>1. \A name \in Names : /\ scores[name].known \in BOOLEAN /\ scores[name].fresh \in BOOLEAN
                          /\ scores[name].datacenter \in BOOLEAN /\ scores[name].score \in 0..100
  <2> SUFFICES ASSUME NEW name \in Names
               PROVE  /\ scores[name].known \in BOOLEAN /\ scores[name].fresh \in BOOLEAN
                      /\ scores[name].datacenter \in BOOLEAN /\ scores[name].score \in 0..100
    OBVIOUS
  <2>1. scores[name] \in Scores
    OBVIOUS
  <2> QED
    BY <2>1, ChoiceAssumption DEF ChoiceAssumption
<1>2. \A name \in Names : Cleanness(name) \in Int
  BY <1>1 DEF Cleanness
<1>3. ASSUME NEW r, NEW q, r.name \in Names, q.name \in Names
      PROVE  Cleaner(r, q) <=> Cleanness(r.name) > Cleanness(q.name)
  <2> DEFINE a == scores[r.name]
             b == scores[q.name]
  <2>1. /\ a.datacenter \in BOOLEAN /\ a.score \in 0..100
        /\ b.datacenter \in BOOLEAN /\ b.score \in 0..100
    BY <1>1, <1>3
  <2>2. /\ Cleanness(r.name) = IF ~Ranked(r.name) THEN -1 ELSE a.score + (IF a.datacenter THEN 0 ELSE 1000)
        /\ Cleanness(q.name) = IF ~Ranked(q.name) THEN -1 ELSE b.score + (IF b.datacenter THEN 0 ELSE 1000)
    BY DEF Cleanness
  <2>3. Cleaner(r, q) <=> \/ Ranked(r.name) /\ ~Ranked(q.name)
                          \/ /\ Ranked(r.name) /\ Ranked(q.name)
                             /\ \/ ~a.datacenter /\ b.datacenter
                                \/ a.datacenter = b.datacenter /\ a.score > b.score
    BY DEF Cleaner
  <2> HIDE DEF a, b
  <2>4. CASE Ranked(r.name) /\ Ranked(q.name)
    <3>1. CASE a.datacenter = TRUE /\ b.datacenter = TRUE
      BY <2>1, <2>2, <2>3, <2>4, <3>1
    <3>2. CASE a.datacenter = TRUE /\ b.datacenter = FALSE
      BY <2>1, <2>2, <2>3, <2>4, <3>2
    <3>3. CASE a.datacenter = FALSE /\ b.datacenter = TRUE
      BY <2>1, <2>2, <2>3, <2>4, <3>3
    <3>4. CASE a.datacenter = FALSE /\ b.datacenter = FALSE
      <4>1. Cleanness(r.name) = a.score + 1000 /\ Cleanness(q.name) = b.score + 1000
        BY <2>1, <2>2, <2>4, <3>4
      <4>2. Cleaner(r, q) <=> a.score > b.score
        BY <2>3, <2>4, <3>4
      <4>3. a.score \in Int /\ b.score \in Int
        BY <2>1
      <4>4. a.score + 1000 > b.score + 1000 <=> a.score > b.score
        BY <4>3
      <4> QED
        BY <4>1, <4>2, <4>4
    <3> QED
      BY <3>1, <3>2, <3>3, <3>4, <2>1
  <2>5. CASE ~Ranked(r.name) \/ ~Ranked(q.name)
    BY <2>1, <2>2, <2>3, <2>5
  <2> QED
    BY <2>4, <2>5
<1> QED
  BY <1>2, <1>3

CleanerAt(live) == [j \in DOMAIN live |-> {i \in DOMAIN live : Cleaner(live[i], live[j])}]

LEMMA CleanIsSorted ==
  ASSUME scores \in [Names -> Scores],
         NEW n \in Nat, NEW live, DOMAIN live = 1..n, \A k \in 1..n : live[k].name \in Names
  PROVE  \E at : /\ Sorted(at, CleanerAt(live), n)
                 /\ StableSort(live, Cleaner) = [k \in 1..n |-> live[at[k]]]
<1> DEFINE before == CleanerAt(live)
           UpTo == StableUpTo(before, n)
           at == Position(before, n)
<1>1. \A i, j \in 1..n : i \in before[j] <=> Cleaner(live[i], live[j])
  BY DEF CleanerAt
<1>2. \A i, j \in 1..n :
        /\ i \in before[j] <=> Cleanness(live[i].name) > Cleanness(live[j].name)
        /\ Cleanness(live[i].name) \in Int
  BY <1>1, CleanerMeaning
<1>3. StableSort(live, Cleaner) = [k \in 1..n |-> live[at[k]]]
  <2> DEFINE Upto(i) == {j \in 1..n : (Cleaner(live[j], live[i])
                                     \/ (~Cleaner(live[i], live[j]) /\ j <= i))}
  <2>1. \A i \in 1..n : UpTo[i] = Upto(i)
    BY <1>1 DEF StableUpTo
  <2>2. StableSort(live, Cleaner) = [k \in 1..n |-> live[CHOOSE i \in 1..n : Cardinality(Upto(i)) = k]]
    BY DEF StableSort
  <2> HIDE DEF Upto, before
  <2>3. \A k \in 1..n : at[k] = CHOOSE i \in 1..n : Cardinality(Upto(i)) = k
    BY <2>1 DEF Position
  <2> QED
    BY <2>2, <2>3
<1> HIDE DEF before
<1>4. WeakOrder(before, n)
  BY <1>2 DEF WeakOrder
<1>5. Sorted(at, before, n)
  BY <1>4, Sorts
<1> QED
  BY <1>3, <1>5 DEF before

(* up_cmd.go:58: what --clean picks.                                       *)
LEMMA CleanestIsBest ==
  ASSUME answers \in [Names -> Answers], scores \in [Names -> Scores]
  PROVE  IF LiveZones = {} THEN Cleanest = BestAlive ELSE Cleanest \in Fastest(CleanestOf(LiveZones))
<1> DEFINE r == RankBest
           n == Len(Catalog)
           live == Filter(r, Alive)
           kept == {i \in DOMAIN r : r[i].alive}
<1>1. /\ n \in Nat /\ DOMAIN r = 1..n
      /\ \A k \in DOMAIN r : r[k] \in Results /\ r[k] = Probe(r[k].name)
      /\ \A name \in Names : \E k \in DOMAIN r : r[k] = Probe(name)
      /\ \A k, l \in DOMAIN r : k < l => ~BetterResult(r[l], r[k])
  BY RankBestRanks DEF Ranking
<1>2. Cleanest = IF live = <<>> THEN BestAlive ELSE StableSort(live, Cleaner)[1].name
  BY DEF Cleanest
<1>3. PICK at, m : /\ InOrder(at, kept, m)
                   /\ DOMAIN live = 1..m
                   /\ \A k \in 1..m : live[k] = r[at[k]]
                   /\ live = <<>> <=> m = 0
  BY <1>1, FilterPasses DEF Passed
<1> HIDE DEF r, n, live
<1>4. /\ m \in Nat
      /\ m = 0 <=> kept = {}
      /\ \A k \in 1..m : at[k] \in kept
      /\ \A i \in kept : \E k \in 1..m : at[k] = i
      /\ \A k, l \in 1..m : k < l => at[k] < at[l]
  BY <1>3 DEF InOrder
<1>5. \A k \in DOMAIN r : r[k].name \in Names /\ (r[k].alive <=> r[k].name \in LiveZones)
  <2> SUFFICES ASSUME NEW k \in DOMAIN r
               PROVE  r[k].name \in Names /\ (r[k].alive <=> r[k].name \in LiveZones)
    OBVIOUS
  <2>1. r[k].name \in Names /\ r[k] = Probe(r[k].name)
    BY <1>1 DEF Results
  <2> QED
    BY <2>1, ProbeMeaning
<1>6. ASSUME NEW zone \in LiveZones PROVE \E k \in 1..m : live[k] = Probe(zone) /\ live[k].name = zone
  <2>1. zone \in Names
    BY DEF LiveZones
  <2>2. PICK i \in DOMAIN r : r[i] = Probe(zone)
    BY <1>1, <2>1
  <2>3. i \in kept /\ Probe(zone).name = zone
    BY <2>1, <2>2, ProbeMeaning
  <2> QED
    BY <1>3, <1>4, <2>2, <2>3
<1>7. CASE LiveZones = {}
  <2>1. kept = {}
    BY <1>5, <1>7
  <2> QED
    BY <1>2, <1>3, <1>4, <1>7, <2>1
<1>8. CASE LiveZones # {}
  <2>1. m # 0 /\ 1 \in 1..m
    BY <1>4, <1>6, <1>8
  <2>2. \A k \in 1..m : /\ live[k].name \in LiveZones /\ live[k].name \in Names
                        /\ live[k] = r[at[k]] /\ at[k] \in DOMAIN r /\ live[k] = Probe(live[k].name)
    BY <1>1, <1>3, <1>4, <1>5
  <2>3. PICK by : Sorted(by, CleanerAt(live), m) /\ StableSort(live, Cleaner) = [k \in 1..m |-> live[by[k]]]
    BY <1>3, <1>4, <2>2, CleanIsSorted
  <2>4. /\ \A k \in 1..m : by[k] \in 1..m
        /\ \A i \in 1..m : \E k \in 1..m : by[k] = i
        /\ \A k, l \in 1..m :
             k < l => \/ by[k] \in CleanerAt(live)[by[l]]
                      \/ by[l] \notin CleanerAt(live)[by[k]] /\ by[k] < by[l]
    BY <2>3 DEF Sorted
  <2>5. \A i, j \in 1..m : i \in CleanerAt(live)[j] <=> Cleanness(live[i].name) > Cleanness(live[j].name)
    BY <1>3, <2>2, CleanerMeaning DEF CleanerAt
  <2> DEFINE c == by[1]
             head == live[c].name
  <2>6. c \in 1..m /\ Cleanest = head
    BY <1>2, <1>3, <2>1, <2>3, <2>4
  <2> HIDE DEF c
  <2>7. head \in LiveZones /\ head \in Names
    BY <2>2, <2>6
  <2>8. ASSUME NEW zone \in LiveZones
        PROVE  /\ Cleanness(head) >= Cleanness(zone)
               /\ Cleanness(head) = Cleanness(zone) => answers[head].time <= answers[zone].time
    <3>1. PICK j \in 1..m : live[j] = Probe(zone) /\ live[j].name = zone
      BY <1>6
    <3>2. PICK p \in 1..m : by[p] = j
      BY <2>4
    <3>3. p = 1 \/ 1 < p
      BY <1>4
    <3>4. CASE p = 1
      <4>1. head = zone
        BY <3>1, <3>2, <3>4 DEF c
      <4>2. Cleanness(zone) \in Int /\ answers[zone].time \in Nat
        BY <2>7, <4>1, CleanerMeaning, ProbeMeaning
      <4> QED
        BY <4>1, <4>2
    <3>5. CASE 1 < p
      <4>1. c \in CleanerAt(live)[j] \/ (j \notin CleanerAt(live)[c] /\ c < j)
        BY <2>1, <2>4, <3>2, <3>5 DEF c
      <4>2. /\ c \in CleanerAt(live)[j] <=> Cleanness(head) > Cleanness(zone)
            /\ j \in CleanerAt(live)[c] <=> Cleanness(zone) > Cleanness(head)
        BY <2>5, <2>6, <3>1
      <4>3. Cleanness(zone) \in Int /\ Cleanness(head) \in Int
        BY <2>2, <2>7, <3>1, CleanerMeaning
      <4>4. ASSUME c < j PROVE answers[head].time <= answers[zone].time
        <5>1. at[c] < at[j]
          BY <1>4, <2>6, <4>4
        <5>2. ~BetterResult(live[j], live[c])
          BY <1>1, <2>2, <2>6, <5>1
        <5>3. live[j] = Probe(zone) /\ live[c] = Probe(head) /\ zone \in Names
          BY <2>2, <2>6, <3>1
        <5>4. /\ head \in UsableZones /\ zone \in UsableZones
          BY <2>7 DEF UsableZones
        <5>5. /\ Probe(zone).latency = answers[zone].time /\ Probe(head).latency = answers[head].time
              /\ answers[zone].time \in Nat /\ answers[head].time \in Nat
              /\ Probe(zone).alive /\ Probe(head).alive
              /\ Probe(zone).reachable /\ Probe(head).reachable
              /\ Probe(zone) \in Results /\ Probe(head) \in Results
          BY <2>7, <5>3, <5>4, ProbeMeaning
        <5>6. Probe(zone).alive = Probe(head).alive /\ Probe(zone).reachable = Probe(head).reachable
          BY <5>5 DEF Results
        <5>7. ~(Probe(zone).latency < Probe(head).latency)
          BY <5>2, <5>3, <5>6 DEF BetterResult
        <5> QED
          BY <5>5, <5>7
      <4> QED
        BY <4>1, <4>2, <4>3, <4>4
    <3> QED
      BY <3>3, <3>4, <3>5
  <2>9. \A zone \in LiveZones : Cleanness(zone) \in Int
    BY CleanerMeaning DEF LiveZones
  <2>10. head \in CleanestOf(LiveZones)
    BY <2>7, <2>8 DEF CleanestOf
  <2>11. \A other \in CleanestOf(LiveZones) : answers[head].time <= answers[other].time
    <3> SUFFICES ASSUME NEW other \in CleanestOf(LiveZones) PROVE answers[head].time <= answers[other].time
      OBVIOUS
    <3>1. other \in LiveZones /\ Cleanness(other) >= Cleanness(head)
      BY <2>7 DEF CleanestOf
    <3> QED
      BY <2>7, <2>8, <2>9, <3>1
  <2> QED
    BY <1>8, <2>6, <2>10, <2>11 DEF Fastest
<1> QED
  BY <1>7, <1>8

EarlierAt(n) == [j \in 1..n |-> {i \in 1..n : EarlierAdapter(adapters[i], adapters[j])}]

(* netadapter.go:118: the list holds the adapters of the host.             *)
LEMMA ListedAreAdapters ==
  ASSUME NEW n \in Nat, DOMAIN adapters = 1..n, \A i \in 1..n : adapters[i] \in Adapters
  PROVE  /\ DOMAIN ListedAdapters = 1..n
         /\ \A k \in 1..n : \E i \in 1..n : ListedAdapters[k] = adapters[i]
         /\ \A i \in 1..n : \E k \in 1..n : ListedAdapters[k] = adapters[i]
<1> DEFINE before == EarlierAt(n)
           UpTo == StableUpTo(before, n)
           at == Position(before, n)
<1>2. \A i \in 1..n : adapters[i].carrier \in BOOLEAN /\ adapters[i].order \in Nat
  BY ChoiceAssumption DEF ChoiceAssumption
<1>3. \A i, j \in 1..n : i \in before[j] <=> EarlierAdapter(adapters[i], adapters[j])
  BY DEF EarlierAt
<1>4. ASSUME NEW i \in 1..n, NEW j \in 1..n, NEW k \in 1..n
      PROVE  /\ EarlierAdapter(adapters[i], adapters[j]) => ~EarlierAdapter(adapters[j], adapters[i])
             /\ EarlierAdapter(adapters[i], adapters[k]) =>
                  \/ EarlierAdapter(adapters[i], adapters[j])
                  \/ EarlierAdapter(adapters[j], adapters[k])
  <2> DEFINE a == adapters[i]
             b == adapters[j]
             c == adapters[k]
  <2>1. /\ a.carrier \in BOOLEAN /\ a.order \in Nat
        /\ b.carrier \in BOOLEAN /\ b.order \in Nat
        /\ c.carrier \in BOOLEAN /\ c.order \in Nat
        /\ Physical(a) \in BOOLEAN /\ Physical(b) \in BOOLEAN /\ Physical(c) \in BOOLEAN
    BY <1>2 DEF Physical
  <2> HIDE DEF a, b, c
  <2>2. /\ EarlierAdapter(a, b) => ~EarlierAdapter(b, a)
        /\ EarlierAdapter(a, c) => EarlierAdapter(a, b) \/ EarlierAdapter(b, c)
    BY <2>1 DEF EarlierAdapter
  <2> QED
    BY <2>2 DEF a, b, c
<1>5. WeakOrder(before, n)
  BY <1>3, <1>4 DEF WeakOrder
<1>6. ListedAdapters = [k \in 1..n |-> adapters[at[k]]]
  <2> DEFINE Upto(i) == {j \in 1..n : (EarlierAdapter(adapters[j], adapters[i])
                                     \/ (~EarlierAdapter(adapters[i], adapters[j]) /\ j <= i))}
  <2>1. \A i \in 1..n : UpTo[i] = Upto(i)
    BY <1>3 DEF StableUpTo
  <2> DEFINE Place(k) == CHOOSE i \in 1..n : Cardinality(Upto(i)) = k
  <2>2. ListedAdapters = [k \in 1..n |-> adapters[Place(k)]]
    BY DEF ListedAdapters, StableSort
  <2> HIDE DEF Upto
  <2>3. \A k \in 1..n : at[k] = Place(k)
    BY <2>1 DEF Position
  <2> HIDE DEF Place
  <2> QED
    BY <2>2, <2>3
<1>7. Sorted(at, before, n)
  BY <1>5, Sorts
<1> HIDE DEF at
<1> QED
  BY <1>6, <1>7 DEF Sorted

(* What First finds among the adapters.                                    *)
Finds(name, kept) ==
  IF kept = {} THEN name = NoChoice
  ELSE name # NoChoice /\ \E k \in kept : name = ListedAdapters[k].name

LEMMA RecommendIsBest ==
  ASSUME NEW n \in Nat, DOMAIN adapters = 1..n, \A i \in 1..n : adapters[i] \in Adapters
  PROVE  LET best == {i \in 1..n : \A j \in 1..n : UplinkKind(adapters[i]) <= UplinkKind(adapters[j])} IN
         IF \E i \in best : Usable(adapters[i])
         THEN \E i \in best : Recommend = adapters[i].name
         ELSE Recommend = NoChoice
<1> DEFINE list == ListedAdapters
           best == {i \in 1..n : \A j \in 1..n : UplinkKind(adapters[i]) <= UplinkKind(adapters[j])}
           R(k) == Wired(list[k]) /\ list[k].ipv4 = "routable"
<1>1. /\ DOMAIN list = 1..n
      /\ \A k \in 1..n : \E i \in 1..n : list[k] = adapters[i]
      /\ \A i \in 1..n : \E k \in 1..n : list[k] = adapters[i]
  BY ListedAreAdapters
<1>2. \A k \in 1..n : list[k].name # NoChoice
  <2>2. \A i \in 1..n : adapters[i].name # NoChoice
    BY ChoiceAssumption DEF ChoiceAssumption
  <2> QED
    BY <1>1, <2>2
<1>3. \A found \in SUBSET (1..n) : found # {} =>
        (CHOOSE i \in found : \A j \in found : i <= j) \in found
  <2> SUFFICES ASSUME NEW found \in SUBSET (1..n), found # {}
               PROVE  \E i \in found : \A j \in found : i <= j
    OBVIOUS
  <2> DEFINE at == KeptPosition(found)
             m == Cardinality(found)
  <2>1. InOrder(at, found, m)
    BY Filters
  <2> HIDE DEF at, m
  <2>2. /\ m \in Nat /\ m # 0
        /\ \A k \in 1..m : at[k] \in found
        /\ \A i \in found : \E k \in 1..m : at[k] = i
        /\ \A k, l \in 1..m : k < l => at[k] < at[l]
    BY <2>1 DEF InOrder
  <2>3. 1 \in 1..m /\ at[1] \in found
    BY <2>2
  <2>4. ASSUME NEW j \in found PROVE at[1] <= j
    <3>1. PICK k \in 1..m : at[k] = j
      BY <2>2
    <3>2. at[1] \in 1..n
      BY <2>3, Zenon
    <3>3. k = 1 \/ 1 < k
      OBVIOUS
    <3> QED
      BY <2>2, <2>3, <3>1, <3>2, <3>3
  <2> QED
    BY <2>3, <2>4
<1>4. /\ Finds(First(list, WiredRoutable), {k \in 1..n : WiredRoutable(list[k])})
      /\ Finds(First(list, WifiRoutable), {k \in 1..n : WifiRoutable(list[k])})
      /\ Finds(First(list, Wired), {k \in 1..n : Wired(list[k])})
      /\ Finds(First(list, Usable), {k \in 1..n : Usable(list[k])})
  <2> DEFINE Chosen(found) == IF found = {} THEN NoChoice
                              ELSE list[CHOOSE i \in found : \A j \in found : i <= j].name
  <2>1. \A found \in SUBSET (1..n) : Finds(Chosen(found), found)
    BY <1>2, <1>3 DEF Finds
  <2>2. /\ First(list, WiredRoutable) = Chosen({k \in 1..n : WiredRoutable(list[k])})
        /\ First(list, WifiRoutable) = Chosen({k \in 1..n : WifiRoutable(list[k])})
        /\ First(list, Wired) = Chosen({k \in 1..n : Wired(list[k])})
        /\ First(list, Usable) = Chosen({k \in 1..n : Usable(list[k])})
    BY <1>1 DEF First
  <2> HIDE DEF Chosen
  <2> QED
    BY <2>1, <2>2
<1>5. Recommend = IF First(list, WiredRoutable) # NoChoice THEN First(list, WiredRoutable)
                  ELSE IF First(list, WifiRoutable) # NoChoice THEN First(list, WifiRoutable)
                  ELSE IF First(list, Wired) # NoChoice THEN First(list, Wired)
                  ELSE First(list, Usable)
  BY DEF Recommend
<1>6. \A a : /\ WiredRoutable(a) <=> UplinkKind(a) = 0
             /\ WifiRoutable(a) <=> UplinkKind(a) = 1
             /\ Wired(a) <=> UplinkKind(a) \in {0, 2}
             /\ Usable(a) <=> UplinkKind(a) \in {0, 1, 2, 3}
             /\ UplinkKind(a) \in 0..4
  BY DEF UplinkKind, WiredRoutable, WifiRoutable, Wired
<1> HIDE DEF list
<1>a. ASSUME NEW k \in 1..n, Usable(list[k]), Recommend = list[k].name,
             \A l \in 1..n : UplinkKind(list[k]) <= UplinkKind(list[l])
      PROVE  IF \E i \in best : Usable(adapters[i])
             THEN \E i \in best : Recommend = adapters[i].name
             ELSE Recommend = NoChoice
  <2>1. PICK i \in 1..n : list[k] = adapters[i]
    BY <1>1
  <2>2. ASSUME NEW j \in 1..n PROVE UplinkKind(adapters[i]) <= UplinkKind(adapters[j])
    <3>1. PICK l \in 1..n : list[l] = adapters[j]
      BY <1>1
    <3> QED
      BY <1>a, <2>1, <3>1
  <2>3. i \in best
    BY <2>2
  <2> HIDE DEF best
  <2> QED
    BY <1>a, <2>1, <2>3
<1>7. CASE \E k \in 1..n : WiredRoutable(list[k])
  <2>1. PICK k \in 1..n : WiredRoutable(list[k]) /\ Recommend = list[k].name
    BY <1>4, <1>5, <1>7 DEF Finds, list
  <2>2. Usable(list[k]) /\ \A l \in 1..n : UplinkKind(list[k]) <= UplinkKind(list[l])
    BY <1>6, <2>1
  <2> QED
    BY <1>a, <2>1, <2>2
<1>8. CASE (\A k \in 1..n : ~WiredRoutable(list[k])) /\ \E k \in 1..n : WifiRoutable(list[k])
  <2>1. PICK k \in 1..n : WifiRoutable(list[k]) /\ Recommend = list[k].name
    BY <1>4, <1>5, <1>8 DEF Finds, list
  <2>2. Usable(list[k]) /\ \A l \in 1..n : UplinkKind(list[k]) <= UplinkKind(list[l])
    BY <1>6, <1>8, <2>1
  <2> QED
    BY <1>a, <2>1, <2>2
<1>9. CASE (\A k \in 1..n : ~WiredRoutable(list[k]) /\ ~WifiRoutable(list[k])) /\ \E k \in 1..n : Wired(list[k])
  <2>1. PICK k \in 1..n : Wired(list[k]) /\ Recommend = list[k].name
    BY <1>4, <1>5, <1>9 DEF Finds, list
  <2>2. Usable(list[k]) /\ \A l \in 1..n : UplinkKind(list[k]) <= UplinkKind(list[l])
    BY <1>6, <1>9, <2>1
  <2> QED
    BY <1>a, <2>1, <2>2
<1>10. CASE /\ \A k \in 1..n : ~WiredRoutable(list[k]) /\ ~WifiRoutable(list[k]) /\ ~Wired(list[k])
            /\ \E k \in 1..n : Usable(list[k])
  <2>1. PICK k \in 1..n : Usable(list[k]) /\ Recommend = list[k].name
    BY <1>4, <1>5, <1>10 DEF Finds, list
  <2>2. Usable(list[k]) /\ \A l \in 1..n : UplinkKind(list[k]) <= UplinkKind(list[l])
    BY <1>6, <1>10, <2>1
  <2> QED
    BY <1>a, <2>1, <2>2
<1>11. CASE \A k \in 1..n : ~Usable(list[k])
  <2>1. \A k \in 1..n : ~WiredRoutable(list[k]) /\ ~WifiRoutable(list[k]) /\ ~Wired(list[k])
    BY <1>11 DEF WiredRoutable, WifiRoutable, Wired
  <2>2. Recommend = NoChoice
    BY <1>4, <1>5, <1>11, <2>1 DEF Finds
  <2>3. \A i \in 1..n : ~Usable(adapters[i])
    BY <1>1, <1>11
  <2> QED
    BY <2>2, <2>3
<1> QED
  BY <1>7, <1>8, <1>9, <1>10, <1>11

-----------------------------------------------------------------------------
(* A command chooses once, by what it measured.                            *)
ChoiceInv ==
  /\ adapters = <<>> => answers \in [Names -> Answers] /\ scores \in [Names -> Scores]
  /\ adapters # <<>> =>
       \E n \in Nat : DOMAIN adapters = 1..n /\ \A i \in 1..n : adapters[i] \in Adapters
  /\ choice.of \in {"nothing", "up best", "up clean", "auto", "uplink"}
  /\ choice.of \in {"up best", "up clean", "auto"} => adapters = <<>>
  /\ choice.of = "up best" => choice.is = BestAlive
  /\ choice.of = "auto" => choice.is = BestAlive
  /\ choice.of = "up clean" => choice.is = Cleanest
  /\ choice.of = "uplink" => choice.is = Recommend /\ adapters # <<>>

LEMMA ChoicesAreMade ==
  ASSUME UNCHANGED <<answers, scores, adapters>>
  PROVE  BestAlive' = BestAlive /\ Cleanest' = Cleanest /\ Recommend' = Recommend
<1>1. answers' = answers /\ scores' = scores /\ adapters' = adapters
  OBVIOUS
<1>2. RankBest' = RankBest
  BY <1>1 DEF RankBest, StableSort, Probe, BetterResult
<1>3. BestAlive' = BestAlive
  BY <1>2 DEF BestAlive, First, Alive, Reachable
<1>4. Cleanest' = Cleanest
  BY <1>1, <1>2, <1>3 DEF Cleanest, Filter, StableSort, Alive, Cleaner, Ranked
<1>5. ListedAdapters' = ListedAdapters
  BY <1>1 DEF ListedAdapters, StableSort, EarlierAdapter, Physical
<1>6. Recommend' = Recommend
  BY <1>5 DEF Recommend, First, WiredRoutable, WifiRoutable, Wired, Usable, Physical
<1> QED
  BY <1>3, <1>4, <1>6

LEMMA ChoiceIsRight == ChoiceInv => ChoiceIsBest
<1> SUFFICES ASSUME ChoiceInv PROVE ChoiceIsBest
  OBVIOUS
<1>1. ASSUME choice.of \in {"up best", "up clean", "auto"}
      PROVE  answers \in [Names -> Answers] /\ scores \in [Names -> Scores]
  BY <1>1 DEF ChoiceInv
<1>2. ASSUME choice.of \in {"up best", "auto"}
      PROVE  /\ choice.is = NoChoice <=> UsableZones = {}
             /\ UsableZones # {} =>
                  /\ choice.is \in Fastest(IF LiveZones # {} THEN LiveZones ELSE UsableZones)
                  /\ choice.is = BestAlive
  <2>1. choice.is = BestAlive
    BY <1>2 DEF ChoiceInv
  <2> QED
    BY <1>1, <1>2, <2>1, BestAliveIsBest
<1>3. ASSUME choice.of = "up clean"
      PROVE  /\ choice.is = NoChoice <=> UsableZones = {}
             /\ UsableZones # {} =>
                  choice.is \in Fastest(IF LiveZones # {} THEN CleanestOf(LiveZones) ELSE UsableZones)
  <2>1. choice.is = Cleanest
    BY <1>3 DEF ChoiceInv
  <2>2. CASE LiveZones = {}
    BY <1>1, <1>3, <2>1, <2>2, BestAliveIsBest, CleanestIsBest
  <2>3. CASE LiveZones # {}
    <3>1. choice.is \in Fastest(CleanestOf(LiveZones))
      BY <1>1, <1>3, <2>1, <2>3, CleanestIsBest
    <3>2. choice.is \in Names
      BY <3>1 DEF Fastest, CleanestOf, LiveZones
    <3>3. choice.is # NoChoice /\ UsableZones # {}
      BY <3>2, <2>3, ChoiceAssumption DEF ChoiceAssumption, UsableZones
    <3> QED
      BY <2>3, <3>1, <3>3
  <2> QED
    BY <2>2, <2>3
<1>4. ASSUME choice.of = "uplink"
      PROVE  LET best == {i \in DOMAIN adapters :
                            \A j \in DOMAIN adapters : UplinkKind(adapters[i]) <= UplinkKind(adapters[j])} IN
             IF \E i \in best : Usable(adapters[i])
             THEN \E i \in best : choice.is = adapters[i].name
             ELSE choice.is = NoChoice
  <2>1. /\ choice.is = Recommend
        /\ adapters # <<>>
    BY <1>4 DEF ChoiceInv
  <2>2. PICK n \in Nat : DOMAIN adapters = 1..n /\ \A i \in 1..n : adapters[i] \in Adapters
    BY <2>1 DEF ChoiceInv
  <2> QED
    BY <2>1, <2>2, RecommendIsBest
<1> QED
  BY <1>2, <1>3, <1>4 DEF ChoiceIsBest

(* measure.go:160, zonescore.go:113: for any catalog, answers of the       *)
(* servers, scores and adapters, the zone that up, up --clean and auto     *)
(* choose, and the uplink Recommend picks, are the best there are.         *)
THEOREM ChoicesAreBest == ChoiceSpec => []ChoiceIsBest
<1>1. ChoiceInit => ChoiceInv
  <2> SUFFICES ASSUME ChoiceInit PROVE ChoiceInv
    OBVIOUS
  <2>1. choice.of = "nothing"
    BY DEF ChoiceInit
  <2>2. CASE answers \in [Names -> Answers] /\ scores \in [Names -> Scores] /\ adapters = <<>>
    BY <2>1, <2>2 DEF ChoiceInv
  <2>3. CASE \E n \in 1..MaxAdapters : adapters \in [1..n -> Adapters]
    <3>2. PICK n \in 1..MaxAdapters : adapters \in [1..n -> Adapters]
      BY <2>3
    <3>3. n \in Nat /\ 1 \in 1..n
      BY ChoiceAssumption DEF ChoiceAssumption
    <3>4. adapters # <<>>
      BY <3>2, <3>3
    <3>1. /\ adapters # <<>>
          /\ \E k \in Nat : DOMAIN adapters = 1..k /\ \A i \in 1..k : adapters[i] \in Adapters
      BY <3>2, <3>3, <3>4
    <3> QED
      BY <2>1, <3>1 DEF ChoiceInv
  <2> QED
    BY <2>2, <2>3 DEF ChoiceInit
<1>2. ChoiceInv /\ [ChoiceNext]_choiceVars => ChoiceInv'
  <2> SUFFICES ASSUME ChoiceInv, [ChoiceNext]_choiceVars PROVE ChoiceInv'
    OBVIOUS
  <2>1. UNCHANGED <<answers, scores, adapters>>
    <3>1. CASE UpBest
      BY <3>1 DEF UpBest, Chooses
    <3>2. CASE UpClean
      BY <3>2 DEF UpClean, Chooses
    <3>3. CASE AutoCommand
      BY <3>3 DEF AutoCommand, Chooses
    <3>4. CASE Uplink
      BY <3>4 DEF Uplink, Chooses
    <3>5. CASE UNCHANGED choiceVars
      BY <3>5 DEF choiceVars
    <3> QED
      BY <3>1, <3>2, <3>3, <3>4, <3>5 DEF ChoiceNext
  <2>2. BestAlive' = BestAlive /\ Cleanest' = Cleanest /\ Recommend' = Recommend
    BY <2>1, ChoicesAreMade
  <2>3. CASE UpBest
    BY <2>1, <2>2, <2>3 DEF ChoiceInv, UpBest, Chooses
  <2>4. CASE UpClean
    BY <2>1, <2>2, <2>4 DEF ChoiceInv, UpClean, Chooses
  <2>5. CASE AutoCommand
    <3> DEFINE head == IF AutoPlan = <<>> THEN NoChoice ELSE AutoPlan[1].name
    <3>2. adapters = <<>> /\ choice' = [of |-> "auto", is |-> head]
      BY <2>5 DEF AutoCommand, Chooses
    <3>3. answers \in [Names -> Answers]
      BY <3>2 DEF ChoiceInv
    <3>4. head = BestAlive
      BY <3>3, AutoPlanIsBest
    <3> HIDE DEF head
    <3>1. choice' = [of |-> "auto", is |-> BestAlive] /\ adapters = <<>>
      BY <3>2, <3>4
    <3> QED
      BY <2>1, <2>2, <3>1 DEF ChoiceInv
  <2>6. CASE Uplink
    BY <2>1, <2>2, <2>6 DEF ChoiceInv, Uplink, Chooses
  <2>7. CASE UNCHANGED choiceVars
    BY <2>2, <2>7 DEF ChoiceInv, choiceVars
  <2> QED
    BY <2>3, <2>4, <2>5, <2>6, <2>7 DEF ChoiceNext
<1>3. ChoiceInv => ChoiceIsBest
  BY ChoiceIsRight
<1> QED
  BY <1>1, <1>2, <1>3, PTL DEF ChoiceSpec
=============================================================================
