------------------------------ MODULE Verdicts ------------------------------
(***************************************************************************)
(* What the CLI tells its user about a connection: verify.Evaluate,        *)
(* diagnose.Analyze, stealth.Analyze, dnscheck.Evaluate and pathtrace.Run  *)
(* are functions of what was observed.  They are written as the code       *)
(* computes them, step after step, and compared with what they mean.       *)
(***************************************************************************)
EXTENDS Integers, Sequences

CONSTANTS
  Hosts,     \* public addresses that may be observed
  Countries  \* country codes that may be observed

Unknown == "unknown"

ASSUME VerdictAssumption == Unknown \notin Hosts /\ Unknown \notin Countries

Address == Hosts \union {Unknown}
Country == Countries \union {Unknown}

Observation ==
  [active : BOOLEAN, boundV4 : Address, defaultV4 : Address, boundV6 : Address,
   defaultV6 : Address, observed : Country, expected : Country,
   dns : {"vpn", "other", Unknown}]

(* What gatherSignal can collect: it checks the link of the interface it   *)
(* found, the egress of a link that is there, and the servers it knows.    *)
DiagnoseSignal ==
  {s \in [uplink : BOOLEAN, internet : BOOLEAN, tunnel : BOOLEAN, link : BOOLEAN, egress : BOOLEAN,
          dns : BOOLEAN, conflict : BOOLEAN, anyAlive : BOOLEAN, profiles : BOOLEAN] :
     (s.link => s.tunnel) /\ (s.egress => s.link) /\ (s.anyAlive => s.profiles)}

StealthSignal ==
  [ipv6 : BOOLEAN, zone : Country, egress : Country, dns : Country,
   hosting : BOOLEAN, cloudflare : Country]

Analysis == [bound : BOOLEAN, encrypted : BOOLEAN, dns : Country, egress : Country]

TraceInput ==
  [parses : BOOLEAN, resolves : BOOLEAN, pings : BOOLEAN, tunnel : BOOLEAN,
   link : BOOLEAN, egress : BOOLEAN]

-----------------------------------------------------------------------------
Differ(a, b) == a # Unknown /\ b # Unknown /\ a # b

(* verify.Evaluate: findings in order; a warning's key is kept from the    *)
(* first escalation, and failed stays failed.                              *)
VerifyFindings(o) ==
  (IF o.boundV4 = Unknown THEN <<"no-egress">>
   ELSE IF o.boundV4 = o.defaultV4 THEN <<>> ELSE <<"route-mismatch">>)
  \o (IF o.defaultV6 # Unknown /\ o.boundV6 # o.defaultV6 THEN <<"ipv6-leak">> ELSE <<>>)
  \o (IF Differ(o.expected, o.observed) THEN <<"country-mismatch">> ELSE <<>>)
  \o (IF o.dns = "other" THEN <<"dns-leak">> ELSE <<>>)

(* Mutant: a warning replaces whatever verdict there was.                  *)
AlwaysWarns(r) ==
  IF r.findings # <<>> THEN [r EXCEPT !.verdict = "warning", !.key = r.findings[1]] ELSE r

Escalated(r) ==
  IF r.verdict = "verified" /\ r.findings # <<>>
  THEN [r EXCEPT !.verdict = "warning", !.key = r.findings[1]] ELSE r

VerifyEvaluate(o) ==
  LET found == VerifyFindings(o) IN
  IF ~o.active THEN [verdict |-> "failed", key |-> "inactive", findings |-> <<"inactive">>]
  ELSE IF o.boundV4 = Unknown THEN Escalated([verdict |-> "failed", key |-> "no-egress", findings |-> found])
  ELSE Escalated([verdict |-> "verified", key |-> "verified", findings |-> found])

(* diagnose.Analyze: the problems it lists, with their severities.         *)
Problem(severity, title) == <<[severity |-> severity, title |-> title]>>

DiagnoseTunnel(s) ==
  IF ~s.tunnel THEN <<>>
  ELSE IF ~s.link THEN Problem("critical", "tunnel missing")
  ELSE IF ~s.egress THEN Problem("critical", "no egress")
  ELSE (IF s.conflict THEN Problem("warn", "other vpn") ELSE <<>>) \o Problem("info", "healthy")

(* Mutant: with no live server the analysis goes on.                       *)
DiagnoseGoesOn(s) ==
  IF ~s.uplink THEN Problem("critical", "no uplink")
  ELSE IF ~s.internet /\ ~s.tunnel THEN Problem("critical", "no internet")
  ELSE IF ~s.profiles THEN Problem("critical", "no profiles")
  ELSE (IF ~s.anyAlive THEN Problem("critical", "no server") ELSE <<>>) \o DiagnoseTunnel(s)

(* Whatever is found before the tunnel explains all the rest.              *)
DiagnoseAnalyze(s) ==
  IF ~s.uplink THEN Problem("critical", "no uplink")
  ELSE IF ~s.internet /\ ~s.tunnel THEN Problem("critical", "no internet")
  ELSE IF ~s.profiles THEN Problem("critical", "no profiles")
  ELSE IF ~s.anyAlive THEN Problem("critical", "no server")
  ELSE IF s.tunnel /\ s.link /\ s.egress THEN DiagnoseTunnel(s)
  ELSE DiagnoseTunnel(s)
       \o (IF ~s.dns THEN Problem("warn", "dns") ELSE <<>>)
       \o (IF ~s.tunnel /\ s.conflict THEN Problem("info", "other vpn") ELSE <<>>)

Listed(problems) == {problems[i].title : i \in DOMAIN problems}

DiagnoseHealthy(problems) == \A i \in DOMAIN problems : problems[i].severity # "critical"

(* stealth.Analyze: each risk has a penalty; the score ends at 0.          *)
Penalty(condition, points) == IF condition THEN points ELSE 0

StealthScore(s) ==
  LET score == 100 - Penalty(s.ipv6, 40) - Penalty(Differ(s.zone, s.egress), 35)
                   - Penalty(Differ(s.dns, s.egress), 15) - Penalty(s.hosting, 15)
                   - Penalty(Differ(s.cloudflare, s.egress), 5)
  IN IF score < 0 THEN 0 ELSE score

StealthVerdict(score) ==
  IF score >= 85 THEN "clean" ELSE IF score >= 60 THEN "acceptable"
  ELSE IF score >= 35 THEN "risky" ELSE "exposed"

StealthExit(s) == IF StealthScore(s) < 60 THEN 1 ELSE 0

(* dnscheck.Evaluate.  A resolver in another country is only a warning,    *)
(* and the verdict does not look at it.                                    *)
DNSVerdict(a) == IF ~a.bound THEN "leaking" ELSE IF a.encrypted THEN "clean" ELSE "ok"

DNSFindings(a) ==
  IF ~a.bound THEN {"not bound"}
  ELSE (IF Differ(a.dns, a.egress) THEN {"other country"} ELSE {})
       \union (IF a.encrypted THEN {"encrypted"} ELSE {"plaintext"})
       \union (IF a.dns # Unknown /\ a.dns = a.egress THEN {"same country"} ELSE {})

(* pathtrace.Run: a step that cannot be tried yet only warns.              *)
TraceSteps(t) ==
  IF ~t.parses THEN <<"fail">>
  ELSE << IF t.resolves THEN "ok" ELSE "fail",
          IF t.pings THEN "ok" ELSE "warn",
          IF ~t.tunnel THEN "warn" ELSE IF t.link THEN "ok" ELSE "fail",
          IF ~t.tunnel THEN "warn" ELSE IF t.egress THEN "ok" ELSE "fail" >>

TraceHealthy(t) == \A i \in DOMAIN TraceSteps(t) : TraceSteps(t)[i] # "fail"

-----------------------------------------------------------------------------
VARIABLES
  seen,  \* what was observed, by which of the five
  told   \* what the user is told

verdictVars == <<seen, told>>

VerdictInit ==
  /\ told = "nothing"
  /\ \/ \E o \in Observation : seen = [by |-> "verify", of |-> o]
     \/ \E s \in DiagnoseSignal : seen = [by |-> "diagnose", of |-> s]
     \/ \E s \in StealthSignal : seen = [by |-> "stealth", of |-> s]
     \/ \E a \in Analysis : seen = [by |-> "dnscheck", of |-> a]
     \/ \E t \in TraceInput : seen = [by |-> "trace", of |-> t]

Verify == seen.by = "verify" /\ told' = VerifyEvaluate(seen.of).verdict
Diagnose == seen.by = "diagnose" /\ told' = IF DiagnoseHealthy(DiagnoseAnalyze(seen.of)) THEN "healthy" ELSE "critical"
Stealth == seen.by = "stealth" /\ told' = StealthVerdict(StealthScore(seen.of))
DNSCheck == seen.by = "dnscheck" /\ told' = DNSVerdict(seen.of)
Trace == seen.by = "trace" /\ told' = IF TraceHealthy(seen.of) THEN "clear" ELSE "broken"

VerdictNext ==
  told = "nothing" /\ UNCHANGED seen /\ (Verify \/ Diagnose \/ Stealth \/ DNSCheck \/ Trace)

VerdictSpec == VerdictInit /\ [][VerdictNext]_verdictVars

-----------------------------------------------------------------------------
Severity(verdict) == CASE verdict = "verified" -> 0 [] verdict = "warning" -> 1 [] OTHER -> 2

Worsened(o) ==
  {[o EXCEPT !.dns = "other"], [o EXCEPT !.boundV4 = Unknown], [o EXCEPT !.active = FALSE]}

(* A connection is called verified exactly when every check of it passed,  *)
(* failed exactly when nothing goes through the tunnel, whatever else was  *)
(* found, and one that got worse is never told a better verdict; the       *)
(* reason given is one of the findings.                                    *)
VerifyRight ==
  seen.by = "verify" /\ told # "nothing" =>
    LET o == seen.of
        r == VerifyEvaluate(o)
        egress == o.active /\ o.boundV4 # Unknown
        clean == /\ o.boundV4 = o.defaultV4
                 /\ o.defaultV6 \in {Unknown, o.boundV6}
                 /\ ~Differ(o.observed, o.expected)
                 /\ o.dns # "other" IN
    /\ told = IF ~egress THEN "failed" ELSE IF clean THEN "verified" ELSE "warning"
    /\ told # "verified" => \E i \in DOMAIN r.findings : r.findings[i] = r.key
    /\ \A worse \in Worsened(o) : Severity(VerifyEvaluate(worse).verdict) >= Severity(told)

(* An uplink, profiles, a server that answers and traffic: over the tunnel *)
(* when there is one, else without.                                        *)
Connectable(s) ==
  /\ s.uplink /\ s.profiles /\ s.anyAlive
  /\ IF s.tunnel THEN s.link /\ s.egress ELSE s.internet

(* What a user may conclude from a report, which is less than its words    *)
(* say. Diagnose: critical is said exactly when one of these is missing,   *)
(* of one cause, and it comes first; if the cause is not the tunnel itself *)
(* nothing else is listed. (A broken tunnel is followed by its DNS         *)
(* symptom, against diagnose.go:78-79.) Stealth: the score only falls when *)
(* a risk is added, the exit code agrees with the verdict, a leak or a     *)
(* foreign timezone is never clean. DNS: clean means through the tunnel    *)
(* and encrypted; a resolver known to be in another country is listed      *)
(* beside it (against dnscheck.go:109, where clean also means in-country,  *)
(* and is told of an unknown country). Trace: clear means that nothing     *)
(* that could be tried has failed; steps with a warning pass (against      *)
(* pathtrace.go:145, every step is OK).                                    *)
ReportsRight ==
  told # "nothing" =>
    /\ seen.by = "diagnose" =>
         LET s == seen.of
             problems == DiagnoseAnalyze(s) IN
         /\ told = "critical" <=> ~Connectable(s)
         /\ \A i \in DOMAIN problems : problems[i].severity = "critical" => i = 1
         /\ told = "critical" /\ Listed(problems) \cap {"tunnel missing", "no egress"} = {} =>
              Len(problems) = 1
         /\ told = "critical" => Listed(problems) \cap {"healthy", "other vpn"} = {}
    /\ seen.by = "stealth" =>
         LET s == seen.of IN
         /\ StealthScore([s EXCEPT !.ipv6 = TRUE]) <= StealthScore(s)
         /\ StealthScore([s EXCEPT !.hosting = TRUE]) <= StealthScore(s)
         /\ StealthExit(s) = 1 <=> told \in {"risky", "exposed"}
         /\ s.ipv6 \/ Differ(s.zone, s.egress) => told # "clean"
    /\ seen.by = "dnscheck" =>
         LET a == seen.of IN
         /\ told = "clean" <=> a.bound /\ a.encrypted
         /\ told = "leaking" <=> ~a.bound
         /\ told # "leaking" /\ Differ(a.dns, a.egress) => "other country" \in DNSFindings(a)
         /\ ~("same country" \in DNSFindings(a) /\ "other country" \in DNSFindings(a))
    /\ seen.by = "trace" =>
         LET t == seen.of IN
         told = "clear" <=> t.parses /\ t.resolves /\ (t.tunnel => t.link /\ t.egress)

=============================================================================
