---------------------------- MODULE ControlPlane ----------------------------
(***************************************************************************)
(* core/control: the registry of participants (Plane), the local trust     *)
(* store (TrustStore), the grants (GrantBook), and the Broker that opens   *)
(* channels through all three.  Every store has a lock of its own and a    *)
(* method holds it for one step; Broker.Open takes them one after another, *)
(* so anything may change between two of its gates.                        *)
(***************************************************************************)
EXTENDS Naturals

CONSTANTS
  Participants,  \* participant IDs
  Edges,         \* the pairs from->to that are granted, routed and opened
  Scopes,        \* what a grant can convey
  Grants,        \* the grants that are issued: records as in Grant below
  Given,         \* contents of the stores that NewBroker is called with
  Callers,       \* goroutines in Broker.Open or Broker.Reachable
  MaxTime,       \* the clock stops here: bounds the model
  MaxOps         \* changes of the stores: bounds the model

(* Endpoints: a participant is absent, or registered with or without one.  *)
Presence == {"absent", "mute", "reachable"}

Levels == {"untrusted", "paired", "owned"}

(* A grant for its scopes; it expires at a time, or never when that is 0.  *)
Grant == [scopes : SUBSET Scopes, expires : 0..MaxTime]

Stores == [present : [Participants -> Presence], trust : [Participants -> Levels],
           grants : [Edges -> SUBSET Grant]]

ASSUME ControlAssumption ==
  /\ Edges \subseteq Participants \X Participants
  /\ Edges # {} /\ Scopes # {}
  /\ Given \subseteq Stores
  /\ MaxTime \in Nat /\ MaxOps \in Nat
  /\ Grants \subseteq Grant

VARIABLES
  present,  \* Plane.participants
  routes,   \* Plane.routes
  trust,    \* TrustStore.trust
  grants,   \* GrantBook.grants, by edge
  open,     \* Broker.open: by edge, the channel or NoChannel
  clock,    \* time.Now()
  ops,      \* changes of the stores so far
  call,     \* the Open or Reachable of each caller
  held,     \* history: gates that held at some time during the current Open
  steady    \* history: gates that held all the time during it

stores == <<present, routes, trust, grants>>

vars == <<stores, open, clock, ops, call, held, steady>>

Channel == [up : BOOLEAN, scopes : SUBSET Scopes]

NoChannel == [up |-> FALSE, scopes |-> {}]

(* The gates of Open, in its order, and what remains to be done after them.*)
Gates == {"from", "to", "trust", "grant"}

Stages == Gates \union {"scopes", "put"}

(*   at      the lock Open is about to take, or "idle"                     *)
(*   edge    the channel asked for;  todo  further targets of Reachable    *)
(*   now     the time the caller passed;  target  what Get(to) returned    *)
Call == [at : Stages \union {"idle"}, edge : Edges, todo : SUBSET Participants,
         scope : Scopes, now : 0..MaxTime, target : Presence, scopes : SUBSET Scopes]

NoCall == [at |-> "idle", edge |-> CHOOSE e \in Edges : TRUE, todo |-> {},
           scope |-> CHOOSE s \in Scopes : TRUE, now |-> 0, target |-> "absent",
           scopes |-> {}]

TypeOK ==
  /\ present \in [Participants -> Presence]
  /\ routes \in SUBSET Edges
  /\ trust \in [Participants -> Levels]
  /\ grants \in [Edges -> SUBSET Grant]
  /\ open \in [Edges -> Channel]
  /\ clock \in 0..MaxTime
  /\ ops \in 0..MaxOps
  /\ call \in [Callers -> Call]
  /\ held \in [Callers -> SUBSET Gates]
  /\ steady \in [Callers -> SUBSET Gates]

Init ==
  /\ \E s \in Given : present = s.present /\ trust = s.trust /\ grants = s.grants
  /\ routes = {}
  /\ open = [e \in Edges |-> NoChannel]
  /\ clock = 0
  /\ ops = 0
  /\ call = [c \in Callers |-> NoCall]
  /\ held = [c \in Callers |-> {}]
  /\ steady = [c \in Callers |-> {}]

-----------------------------------------------------------------------------
Expired(g, now) == g.expires # 0 /\ now >= g.expires

(* scopesOn: the scopes of the edge's grants that have not expired.        *)
ScopesOn(e, now) == UNION {g.scopes : g \in {h \in grants[e] : ~Expired(h, now)}}

Allows(e, scope, now) == \E g \in grants[e] : ~Expired(g, now) /\ scope \in g.scopes

IsTrusted(p) == trust[p] \in {"paired", "owned"}

(* The gates that let this call's channel through at this moment.          *)
Passing(k) ==
  {g \in Gates :
     CASE g = "from"  -> present[k.edge[1]] # "absent"
       [] g = "to"    -> present[k.edge[2]] # "absent"
       [] g = "trust" -> IsTrusted(k.edge[2])
       [] g = "grant" -> Allows(k.edge, k.scope, k.now)}

(* An Open starts whenever its first gate is about to be looked at.        *)
Watch ==
  /\ held' = [c \in Callers |->
       Passing(call[c])' \union (IF call'[c].at = "from" THEN {} ELSE held[c])]
  /\ steady' = [c \in Callers |->
       IF call'[c].at = "from" THEN Passing(call[c])' ELSE steady[c] \intersect Passing(call[c])']

-----------------------------------------------------------------------------
(* The operations of the stores.  An operation that is refused, or finds   *)
(* nothing to do, is a stuttering step.                                    *)
Operation ==
  /\ ops < MaxOps
  /\ ops' = ops + 1
  /\ UNCHANGED <<open, clock, call>>

Register(p) ==
  /\ present[p] = "absent"
  /\ \E how \in Presence \ {"absent"} : present' = [present EXCEPT ![p] = how]
  /\ UNCHANGED <<routes, trust, grants>>

(* Mutant: only the routes from the participant are removed.               *)
DeregisterOutgoing(p) ==
  /\ present' = [present EXCEPT ![p] = "absent"]
  /\ routes' = {e \in routes : p # e[1]}
  /\ UNCHANGED <<trust, grants>>

(* Deregister removes the routes of a participant, not trust or grants.    *)
Deregister(p) ==
  /\ present' = [present EXCEPT ![p] = "absent"]
  /\ routes' = {e \in routes : p \notin {e[1], e[2]}}
  /\ UNCHANGED <<trust, grants>>

Allow(e) ==
  /\ present[e[1]] # "absent" /\ present[e[2]] # "absent"
  /\ routes' = routes \union {e}
  /\ UNCHANGED <<present, trust, grants>>

RevokeRoute(e) == routes' = routes \ {e} /\ UNCHANGED <<present, trust, grants>>

(* Pair does not downgrade an owned participant; the key matches the ID.   *)
Pair(p) ==
  /\ trust' = [trust EXCEPT ![p] = IF @ = "owned" THEN "owned" ELSE "paired"]
  /\ UNCHANGED <<present, routes, grants>>

SetOwned(p) == trust' = [trust EXCEPT ![p] = "owned"] /\ UNCHANGED <<present, routes, grants>>

Unpair(p) == trust' = [trust EXCEPT ![p] = "untrusted"] /\ UNCHANGED <<present, routes, grants>>

Issue(e, g) ==
  /\ grants' = [grants EXCEPT ![e] = @ \union {g}]
  /\ UNCHANGED <<present, routes, trust>>

Revoke(e) == grants' = [grants EXCEPT ![e] = {}] /\ UNCHANGED <<present, routes, trust>>

RevokeAllTo(p) ==
  /\ grants' = [e \in Edges |-> IF e[2] = p THEN {} ELSE grants[e]]
  /\ UNCHANGED <<present, routes, trust>>

(* Mutant: a grant that never expires is taken for an old one.             *)
PruneForever ==
  /\ \E now \in 0..clock :
       grants' = [e \in Edges |-> {g \in grants[e] : now < g.expires}]
  /\ UNCHANGED <<present, routes, trust>>

(* Prune drops what has expired at the time its caller has read.           *)
Prune ==
  /\ \E now \in 0..clock :
       grants' = [e \in Edges |-> {g \in grants[e] : ~Expired(g, now)}]
  /\ UNCHANGED <<present, routes, trust>>

ChangeStores ==
  /\ Operation
  /\ \/ \E p \in Participants :
          \/ Register(p) \/ Deregister(p)
          \/ Pair(p) \/ SetOwned(p) \/ Unpair(p) \/ RevokeAllTo(p)
     \/ \E e \in Edges : Allow(e) \/ RevokeRoute(e) \/ Revoke(e)
     \/ \E e \in Edges, g \in Grants : Issue(e, g)
     \/ Prune

(* Close tears an open channel down.                                       *)
Close ==
  /\ \E e \in Edges : open[e].up /\ open' = [open EXCEPT ![e] = NoChannel]
  /\ UNCHANGED <<stores, clock, ops, call>>

Time ==
  /\ clock < MaxTime
  /\ clock' = clock + 1
  /\ UNCHANGED <<stores, open, ops, call>>

-----------------------------------------------------------------------------
(* Broker.Open, one lock at a time.                                        *)
Reading(c, gate) == call[c].at = gate /\ UNCHANGED <<stores, open, clock, ops>>

Set(c, k) == call' = [call EXCEPT ![c] = k]

Begin(c, e, rest) ==
  /\ call[c].at = "idle"
  /\ \E s \in Scopes :
       Set(c, [NoCall EXCEPT !.at = "from", !.edge = e, !.todo = rest,
                             !.scope = s, !.now = clock])
  /\ UNCHANGED <<stores, open, clock, ops>>

OpenStart(c) == \E e \in Edges : Begin(c, e, {})

(* Reachable opens a channel to every other participant of a snapshot.     *)
ReachableStart(c) ==
  \E from \in Participants :
    LET others == {p \in Participants : present[p] # "absent" /\ <<from, p>> \in Edges}
    IN  \E to \in others : Begin(c, <<from, to>>, others \ {to})

(* Open has returned k: to Reachable, if it has targets left.              *)
Returned(c, k) ==
  \/ /\ k.todo = {}
     /\ Set(c, [k EXCEPT !.at = "idle"])
  \/ \E to \in k.todo :
       Set(c, [k EXCEPT !.at = "from", !.edge = <<k.edge[1], to>>, !.todo = @ \ {to}])

Refuse(c) == Returned(c, call[c])

CheckFrom(c) ==
  /\ Reading(c, "from")
  /\ IF present[call[c].edge[1]] = "absent"
     THEN Refuse(c) ELSE Set(c, [call[c] EXCEPT !.at = "to"])

CheckTo(c) ==
  /\ Reading(c, "to")
  /\ LET found == present[call[c].edge[2]]
     IN  IF found = "absent"
         THEN Refuse(c) ELSE Set(c, [call[c] EXCEPT !.at = "trust", !.target = found])

(* Mutant: the second gate is left out.                                    *)
CheckTrustSkipped(c) ==
  /\ Reading(c, "trust")
  /\ Set(c, [call[c] EXCEPT !.at = "grant"])

CheckTrust(c) ==
  /\ Reading(c, "trust")
  /\ IF IsTrusted(call[c].edge[2])
     THEN Set(c, [call[c] EXCEPT !.at = "grant"]) ELSE Refuse(c)

(* Mutant: the gate looks at the clock again.                              *)
CheckGrantNow(c) ==
  /\ Reading(c, "grant")
  /\ IF Allows(call[c].edge, call[c].scope, clock) /\ call[c].target = "reachable"
     THEN Set(c, [call[c] EXCEPT !.at = "scopes"]) ELSE Refuse(c)

(* Mutant: the test of the endpoint is a step of its own, left unhandled.  *)
CheckGrantOnly(c) ==
  /\ Reading(c, "grant")
  /\ IF Allows(call[c].edge, call[c].scope, call[c].now)
     THEN Set(c, [call[c] EXCEPT !.at = "endpoint"]) ELSE Refuse(c)

(* The endpoint tested after this gate is the one found by CheckTo.        *)
CheckGrant(c) ==
  /\ Reading(c, "grant")
  /\ IF Allows(call[c].edge, call[c].scope, call[c].now) /\ call[c].target = "reachable"
     THEN Set(c, [call[c] EXCEPT !.at = "scopes"]) ELSE Refuse(c)

(* Mutant: the scopes are those of a later time than the gate's.           *)
ReadScopesNow(c) ==
  /\ Reading(c, "scopes")
  /\ Set(c, [call[c] EXCEPT !.at = "put", !.scopes = ScopesOn(call[c].edge, clock)])

ReadScopes(c) ==
  /\ Reading(c, "scopes")
  /\ Set(c, [call[c] EXCEPT !.at = "put", !.scopes = ScopesOn(call[c].edge, call[c].now)])

PutChannel(c) ==
  /\ call[c].at = "put"
  /\ open' = [open EXCEPT ![call[c].edge] =
                [up |-> TRUE, scopes |-> call[c].scopes]]
  /\ Returned(c, call[c])
  /\ UNCHANGED <<stores, clock, ops>>

Broker(c) ==
  \/ OpenStart(c) \/ ReachableStart(c)
  \/ CheckFrom(c) \/ CheckTo(c) \/ CheckTrust(c) \/ CheckGrant(c)
  \/ ReadScopes(c) \/ PutChannel(c)

Next ==
  /\ ChangeStores \/ Close \/ Time \/ \E c \in Callers : Broker(c)
  /\ Watch

Spec == Init /\ [][Next]_vars

-----------------------------------------------------------------------------
Refused(c) == call'[c] # call[c] /\ call[c].at \in Gates /\ call'[c].at \in {"idle", "from"}

(* A channel is never stored on the strength of what was, or became, no    *)
(* longer so outside the call: each gate let it through at some moment of  *)
(* this Open, whatever was revoked, unpaired or deregistered meanwhile.    *)
OpenJustified == \A c \in Callers : call[c].at = "put" => held[c] = Gates

(* An Open whose gates held all through it opens the channel, for at least *)
(* the scope asked for: only a change during the call, or a target without *)
(* an endpoint, can refuse it or leave its scope out.                      *)
OpenSound ==
  \A c \in Callers :
    steady[c] = Gates /\ call[c].at = "put" => call[c].scope \in call[c].scopes

OpenSucceeds ==
  [][\A c \in Callers :
       Refused(c) /\ steady[c] = Gates => call[c].at = "grant" /\ call[c].target = "mute"]_vars

(* Prune is invisible to authorization: it never takes away a scope that   *)
(* is still granted at the time it runs, nor at any later time.            *)
PruneIsInvisible ==
  [][Prune =>
       \A e \in Edges, now \in clock..MaxTime : ScopesOn(e, now)' = ScopesOn(e, now)]_vars

(* Routes refer to registered participants only: a participant that is     *)
(* deregistered and comes back does not find its old routes again.         *)
RoutesKnown == \A e \in routes : present[e[1]] # "absent" /\ present[e[2]] # "absent"

(* channel.go:14: "A Channel only exists when ALL THREE gates pass".       *)
ChannelGated ==
  \A e \in Edges : open[e].up =>
    /\ present[e[1]] # "absent" /\ present[e[2]] # "absent"
    /\ IsTrusted(e[2])
    /\ ScopesOn(e, clock) # {}

=============================================================================
