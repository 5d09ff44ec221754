------------------------- MODULE ControlPlaneProofs -------------------------
(***************************************************************************)
(* Proofs about the control plane: for any participants, grants, number of *)
(* concurrent Opens and changes of the stores between their gates, routes  *)
(* lead to registered participants, a channel is only stored after each    *)
(* gate has let it through, an Open whose gates all held is not refused,   *)
(* and Prune never changes an authorization.                               *)
(***************************************************************************)
EXTENDS ControlPlane, TLAPS

(* The targets that remain for Reachable are edges of the same agent.      *)
TodoInv == \A c \in Callers : \A to \in call[c].todo : <<call[c].edge[1], to>> \in Edges

(* An Open that has come to a stage has passed the gates before it.        *)
PassedGates(c) ==
  /\ call[c].at \in {"to", "trust", "grant", "scopes", "put"} => "from" \in held[c]
  /\ call[c].at \in {"trust", "grant", "scopes", "put"} => "to" \in held[c]
  /\ call[c].at \in {"grant", "scopes", "put"} => "trust" \in held[c]
  /\ call[c].at \in {"scopes", "put"} => "grant" \in held[c]

StageInv == \A c \in Callers : PassedGates(c)

PlaneInv == TypeOK /\ TodoInv /\ StageInv /\ RoutesKnown

-----------------------------------------------------------------------------
LEMMA EdgesOfPairs ==
  ASSUME NEW e \in Edges
  PROVE  e[1] \in Participants /\ e[2] \in Participants /\ e = <<e[1], e[2]>>
  BY ControlAssumption DEF ControlAssumption

LEMMA NoCallTyped == NoCall \in Call
<1>1. (CHOOSE e \in Edges : TRUE) \in Edges /\ (CHOOSE s \in Scopes : TRUE) \in Scopes
  BY ControlAssumption DEF ControlAssumption
<1>2. 0 \in 0..MaxTime
  BY ControlAssumption DEF ControlAssumption
<1> QED
  BY <1>1, <1>2 DEF NoCall, Call, Stages, Gates, Presence

LEMMA ScopesTyped ==
  ASSUME TypeOK, NEW e \in Edges, NEW now
  PROVE  ScopesOn(e, now) \subseteq Scopes
  BY DEF TypeOK, Grant, ScopesOn

(* What Watch records: all that held before, unless the Open has just      *)
(* begun, and all that lets the channel through now.                       *)
LEMMA WatchRecords ==
  ASSUME Watch, TypeOK, NEW c \in Callers, call'[c].at # "from"
  PROVE  held[c] \union Passing(call[c])' \subseteq held'[c]
  BY DEF Watch, TypeOK

LEMMA WatchTyped ==
  ASSUME Watch, TypeOK
  PROVE  held' \in [Callers -> SUBSET Gates] /\ steady' \in [Callers -> SUBSET Gates]
<1>1. \A c \in Callers : Passing(call[c])' \subseteq Gates
  BY DEF Passing
<1> QED
  BY <1>1 DEF Watch, TypeOK

-----------------------------------------------------------------------------
(* What one step makes of the call of c, the others staying as they are.   *)
LEMMA CallsTyped ==
  ASSUME TypeOK, TodoInv, NEW c \in Callers, NEW k \in Call, Set(c, k),
         \A to \in k.todo : <<k.edge[1], to>> \in Edges
  PROVE  call' \in [Callers -> Call] /\ TodoInv' /\ call'[c] = k
         /\ \A d \in Callers \ {c} : call'[d] = call[d]
  BY DEF Set, TypeOK, TodoInv

(* Open returns: the caller is idle, or at the first gate again.           *)
LEMMA ReturnTyped ==
  ASSUME TypeOK, TodoInv, NEW c \in Callers, Returned(c, call[c])
  PROVE  call' \in [Callers -> Call] /\ TodoInv' /\ call'[c].at \in {"idle", "from"}
         /\ \A d \in Callers \ {c} : call'[d] = call[d]
<1>1. call[c] \in Call /\ \A to \in call[c].todo : <<call[c].edge[1], to>> \in Edges
  BY DEF TypeOK, TodoInv
<1>2. CASE Set(c, [call[c] EXCEPT !.at = "idle"])
  <2> DEFINE k == [call[c] EXCEPT !.at = "idle"]
  <2>1. k \in Call /\ k.at = "idle" /\ k.todo = call[c].todo /\ k.edge = call[c].edge
    BY <1>1 DEF Call
  <2> QED
    BY <1>1, <1>2, <2>1, CallsTyped
<1>3. ASSUME NEW to \in call[c].todo,
             Set(c, [call[c] EXCEPT !.at = "from", !.edge = <<call[c].edge[1], to>>,
                                    !.todo = @ \ {to}])
      PROVE  call' \in [Callers -> Call] /\ TodoInv' /\ call'[c].at \in {"idle", "from"}
             /\ \A d \in Callers \ {c} : call'[d] = call[d]
  <2> DEFINE k == [call[c] EXCEPT !.at = "from", !.edge = <<call[c].edge[1], to>>,
                                  !.todo = @ \ {to}]
  <2>1. <<call[c].edge[1], to>> \in Edges
    BY <1>1
  <2>2. k \in Call /\ k.at = "from" /\ k.todo = call[c].todo \ {to}
    BY <1>1, <2>1 DEF Call, Stages, Gates
  <2>3. k.edge[1] = call[c].edge[1]
    BY <1>1 DEF Call
  <2> QED
    BY <1>1, <1>3, <2>2, <2>3, CallsTyped
<1> QED
  BY <1>2, <1>3 DEF Returned

(* The call goes on to its next stage.                                     *)
LEMMA AdvanceTyped ==
  ASSUME TypeOK, TodoInv, NEW c \in Callers, NEW s \in Stages,
         Set(c, [call[c] EXCEPT !.at = s])
  PROVE  call' \in [Callers -> Call] /\ TodoInv' /\ call'[c] = [call[c] EXCEPT !.at = s]
         /\ call'[c].at = s
         /\ \A d \in Callers \ {c} : call'[d] = call[d]
<1> DEFINE k == [call[c] EXCEPT !.at = s]
<1>1. call[c] \in Call /\ \A to \in call[c].todo : <<call[c].edge[1], to>> \in Edges
  BY DEF TypeOK, TodoInv
<1>2. k \in Call /\ k.at = s /\ k.todo = call[c].todo /\ k.edge = call[c].edge
  BY <1>1 DEF Call
<1> QED
  BY <1>1, <1>2, CallsTyped

(* A caller that does not move keeps what it has passed, and so does one   *)
(* that begins anew: it has passed nothing.                                *)
LEMMA OthersKeep ==
  ASSUME PlaneInv, Watch, NEW c \in Callers,
         call'[c] = call[c] \/ call'[c].at \in {"idle", "from"}
  PROVE  PassedGates(c)'
<1>1. CASE call'[c].at \in {"idle", "from"}
  BY <1>1 DEF PassedGates
<1>2. CASE call'[c] = call[c] /\ call[c].at \notin {"idle", "from"}
  <2>1. held[c] \subseteq held'[c]
    BY <1>2, WatchRecords DEF PlaneInv
  <2> QED
    BY <1>2, <2>1 DEF PassedGates, PlaneInv, StageInv
<1> QED
  BY <1>1, <1>2

(* The stores, the clock and the channels are typed after a broker's step. *)
LEMMA ReadingTyped ==
  ASSUME PlaneInv, Watch, UNCHANGED <<stores, clock, ops>>, open' \in [Edges -> Channel],
         call' \in [Callers -> Call]
  PROVE  TypeOK' /\ RoutesKnown'
  BY WatchTyped DEF PlaneInv, TypeOK, RoutesKnown, stores

(* A gate that lets the call through brings it to the next stage with what *)
(* the gate found on record.                                               *)
LEMMA GatePassed ==
  ASSUME PlaneInv, Watch, NEW c \in Callers, NEW g \in Gates,
         call[c].at = g, g \in Passing(call[c])', call'[c].at # "from",
         \/ g = "from" /\ call'[c].at = "to"
         \/ g = "to" /\ call'[c].at = "trust"
         \/ g = "trust" /\ call'[c].at = "grant"
         \/ g = "grant" /\ call'[c].at = "scopes"
  PROVE  PassedGates(c)'
  BY WatchRecords DEF PlaneInv, PassedGates, StageInv

LEMMA BrokerKeeps ==
  ASSUME PlaneInv, Watch, NEW c \in Callers, Broker(c)
  PROVE  PlaneInv'
<1> TypeOK /\ TodoInv /\ RoutesKnown /\ StageInv
  BY DEF PlaneInv
<1> DEFINE Kept == /\ call' \in [Callers -> Call] /\ TodoInv'
                   /\ \A d \in Callers \ {c} : call'[d] = call[d]
<1>a. ASSUME Kept, PassedGates(c)', UNCHANGED <<stores, clock, ops>>,
             open' \in [Edges -> Channel]
      PROVE  PlaneInv'
  <2>1. StageInv'
    BY <1>a, OthersKeep DEF StageInv
  <2> QED
    BY <1>a, <2>1, ReadingTyped DEF PlaneInv
<1>b. call[c] \in Call /\ open \in [Edges -> Channel] /\ call[c].edge \in Edges
  BY DEF TypeOK, Call
<1>1. CASE \E g \in Gates : Reading(c, g) /\ Refuse(c)
  <2>1. Kept /\ call'[c].at \in {"idle", "from"} /\ UNCHANGED <<stores, open, clock, ops>>
    BY <1>1, ReturnTyped DEF Reading, Refuse
  <2> QED
    BY <2>1, <1>a, <1>b, OthersKeep
<1>2. ASSUME NEW e \in Edges, NEW rest \in SUBSET Participants, Begin(c, e, rest),
             \A to \in rest : <<e[1], to>> \in Edges
      PROVE  PlaneInv'
  <2>1. PICK s \in Scopes :
          Set(c, [NoCall EXCEPT !.at = "from", !.edge = e, !.todo = rest,
                                !.scope = s, !.now = clock])
    BY <1>2 DEF Begin
  <2> DEFINE k == [NoCall EXCEPT !.at = "from", !.edge = e, !.todo = rest,
                                 !.scope = s, !.now = clock]
  <2>2. k \in Call /\ k.at = "from" /\ k.edge = e /\ k.todo = rest
    BY NoCallTyped DEF Call, Stages, Gates, TypeOK
  <2>3. Kept /\ call'[c] = k
    BY <1>2, <2>1, <2>2, CallsTyped
  <2> QED
    BY <1>2, <2>2, <2>3, <1>a, <1>b, OthersKeep DEF Begin
<1>3. CASE OpenStart(c)
  BY <1>2, <1>3 DEF OpenStart
<1>4. CASE ReachableStart(c)
  <2>1. PICK from \in Participants :
          LET others == {p \in Participants : present[p] # "absent" /\ <<from, p>> \in Edges}
          IN  \E to \in others : Begin(c, <<from, to>>, others \ {to})
    BY <1>4 DEF ReachableStart
  <2> DEFINE others == {p \in Participants : present[p] # "absent" /\ <<from, p>> \in Edges}
  <2>2. PICK to \in others : Begin(c, <<from, to>>, others \ {to})
    BY <2>1
  <2>3. \A p \in others \ {to} : <<<<from, to>>[1], p>> \in Edges
    OBVIOUS
  <2>4. <<from, to>> \in Edges /\ others \ {to} \in SUBSET Participants
    OBVIOUS
  <2> HIDE DEF others
  <2> QED
    BY <1>2, <2>2, <2>3, <2>4
<1>5. CASE CheckFrom(c) /\ ~Refuse(c)
  <2>1. Reading(c, "from") /\ Set(c, [call[c] EXCEPT !.at = "to"])
        /\ present[call[c].edge[1]] # "absent"
    BY <1>5 DEF CheckFrom
  <2>a. Kept /\ call'[c] = [call[c] EXCEPT !.at = "to"] /\ call'[c].at = "to"
    BY <2>1, AdvanceTyped DEF Stages, Gates
  <2>2. Kept /\ call'[c].at = "to" /\ call'[c].edge = call[c].edge
    BY <2>a, <1>b DEF Call
  <2>3. "from" \in Passing(call[c])'
    BY <2>1, <2>2 DEF Passing, Gates, Reading, stores
  <2> QED
    BY <2>1, <2>2, <2>3, GatePassed, <1>a, <1>b DEF Reading, Gates
<1>6. CASE CheckTo(c) /\ ~Refuse(c)
  <2> DEFINE found == present[call[c].edge[2]]
             k == [call[c] EXCEPT !.at = "trust", !.target = found]
  <2>1. Reading(c, "to") /\ Set(c, k) /\ found # "absent"
    BY <1>6 DEF CheckTo
  <2>2. found \in Presence
    BY <1>b, EdgesOfPairs DEF TypeOK
  <2>3. k \in Call /\ k.at = "trust" /\ k.edge = call[c].edge /\ k.todo = call[c].todo
    BY <1>b, <2>2 DEF Call, Stages, Gates
  <2>4. Kept /\ call'[c].at = "trust" /\ call'[c].edge = call[c].edge
    BY <2>1, <2>3, CallsTyped DEF TodoInv
  <2>5. "to" \in Passing(call[c])'
    BY <2>1, <2>4 DEF Passing, Gates, Reading, stores
  <2> QED
    BY <2>1, <2>4, <2>5, GatePassed, <1>a, <1>b DEF Reading, Gates
<1>7. CASE CheckTrust(c) /\ ~Refuse(c)
  <2>1. Reading(c, "trust") /\ Set(c, [call[c] EXCEPT !.at = "grant"])
        /\ IsTrusted(call[c].edge[2])
    BY <1>7 DEF CheckTrust
  <2>a. Kept /\ call'[c] = [call[c] EXCEPT !.at = "grant"] /\ call'[c].at = "grant"
    BY <2>1, AdvanceTyped DEF Stages, Gates
  <2>2. Kept /\ call'[c].at = "grant" /\ call'[c].edge = call[c].edge
    BY <2>a, <1>b DEF Call
  <2>3. "trust" \in Passing(call[c])'
    BY <2>1, <2>2 DEF Passing, Gates, Reading, stores, IsTrusted
  <2> QED
    BY <2>1, <2>2, <2>3, GatePassed, <1>a, <1>b DEF Reading, Gates
<1>8. CASE CheckGrant(c) /\ ~Refuse(c)
  <2>1. Reading(c, "grant") /\ Set(c, [call[c] EXCEPT !.at = "scopes"])
        /\ Allows(call[c].edge, call[c].scope, call[c].now)
    BY <1>8 DEF CheckGrant
  <2>2. Kept /\ call'[c].at = "scopes" /\ call'[c].edge = call[c].edge
        /\ call'[c].scope = call[c].scope /\ call'[c].now = call[c].now
    BY <2>1, AdvanceTyped, <1>b DEF Stages, Call
  <2>3. "grant" \in Passing(call[c])'
    BY <2>1, <2>2 DEF Passing, Gates, Reading, stores, Allows, Expired
  <2> QED
    BY <2>1, <2>2, <2>3, GatePassed, <1>a, <1>b DEF Reading, Gates
<1>9. CASE ReadScopes(c)
  <2> DEFINE k == [call[c] EXCEPT !.at = "put",
                                  !.scopes = ScopesOn(call[c].edge, call[c].now)]
  <2>1. Reading(c, "scopes") /\ Set(c, k)
    BY <1>9 DEF ReadScopes
  <2>2. k \in Call /\ k.at = "put" /\ k.edge = call[c].edge /\ k.todo = call[c].todo
    BY <1>b, ScopesTyped DEF Call, Stages
  <2>3. Kept /\ call'[c].at = "put"
    BY <2>1, <2>2, CallsTyped DEF TodoInv
  <2>4. PassedGates(c)'
    BY <2>1, <2>3, WatchRecords DEF PassedGates, StageInv, Reading
  <2> QED
    BY <2>1, <2>3, <2>4, <1>a, <1>b DEF Reading
<1>10. CASE PutChannel(c)
  <2>1. Kept /\ call'[c].at \in {"idle", "from"} /\ UNCHANGED <<stores, clock, ops>>
    BY <1>10, ReturnTyped DEF PutChannel
  <2>2. open' \in [Edges -> Channel]
    BY <1>10, <1>b DEF PutChannel, Channel, Call
  <2> QED
    BY <2>1, <2>2, <1>a, OthersKeep
<1> QED
  BY <1>1, <1>3, <1>4, <1>5, <1>6, <1>7, <1>8, <1>9, <1>10
  DEF Broker, CheckFrom, CheckTo, CheckTrust, CheckGrant, Gates

-----------------------------------------------------------------------------
(* The changes of the stores.  A participant is only unregistered together *)
(* with all of its routes, and a route only added between registered ones. *)
LEMMA StoresKeep ==
  ASSUME PlaneInv, Watch, ChangeStores
  PROVE  PlaneInv'
<1> TypeOK /\ TodoInv /\ RoutesKnown /\ StageInv
  BY DEF PlaneInv
<1>a. ops' \in 0..MaxOps /\ UNCHANGED <<open, clock, call>>
  BY ControlAssumption DEF ChangeStores, Operation, TypeOK, ControlAssumption
<1>b. ASSUME present' \in [Participants -> Presence], routes' \in SUBSET Edges,
             trust' \in [Participants -> Levels], grants' \in [Edges -> SUBSET Grant],
             RoutesKnown'
      PROVE  PlaneInv'
  <2>1. TypeOK' /\ TodoInv'
    BY <1>a, <1>b, WatchTyped DEF TypeOK, TodoInv
  <2>2. StageInv'
    BY <1>a, OthersKeep DEF StageInv
  <2> QED
    BY <1>b, <2>1, <2>2 DEF PlaneInv
<1>c. /\ present \in [Participants -> Presence] /\ routes \in SUBSET Edges
      /\ trust \in [Participants -> Levels] /\ grants \in [Edges -> SUBSET Grant]
  BY DEF TypeOK
<1>1. ASSUME NEW p \in Participants, Register(p) PROVE PlaneInv'
  BY <1>1, <1>b, <1>c DEF Register, RoutesKnown, Presence
<1>2. ASSUME NEW p \in Participants, Deregister(p) PROVE PlaneInv'
  <2>1. RoutesKnown'
    BY <1>2, <1>c, EdgesOfPairs DEF Deregister, RoutesKnown
  <2> QED
    BY <1>2, <2>1, <1>b, <1>c DEF Deregister, Presence
<1>3. ASSUME NEW p \in Participants, Pair(p) \/ SetOwned(p) \/ Unpair(p) PROVE PlaneInv'
  <2>1. RoutesKnown' /\ UNCHANGED <<present, routes, grants>>
    BY <1>3 DEF Pair, SetOwned, Unpair, RoutesKnown
  <2>2. trust' \in [Participants -> Levels]
    BY <1>3, <1>c DEF Pair, SetOwned, Unpair, Levels
  <2> QED
    BY <2>1, <2>2, <1>b, <1>c
<1>4. CASE \/ \E p \in Participants : RevokeAllTo(p)
           \/ \E e \in Edges : Revoke(e) \/ \E g \in Grants : Issue(e, g)
           \/ Prune
  <2>1. RoutesKnown' /\ UNCHANGED <<present, routes, trust>>
    BY <1>4 DEF RevokeAllTo, Revoke, Issue, Prune, RoutesKnown
  <2>2. grants' \in [Edges -> SUBSET Grant]
    BY <1>4, <1>c, ControlAssumption DEF RevokeAllTo, Revoke, Issue, Prune, ControlAssumption
  <2> QED
    BY <2>1, <2>2, <1>b, <1>c
<1>5. ASSUME NEW e \in Edges, Allow(e) \/ RevokeRoute(e) PROVE PlaneInv'
  <2>1. RoutesKnown' /\ routes' \in SUBSET Edges
    BY <1>5, <1>c DEF Allow, RevokeRoute, RoutesKnown
  <2> QED
    BY <1>5, <2>1, <1>b, <1>c DEF Allow, RevokeRoute
<1> QED
  BY <1>1, <1>2, <1>3, <1>4, <1>5 DEF ChangeStores

LEMMA PlaneInitHolds == Init => PlaneInv
<1> SUFFICES ASSUME Init PROVE PlaneInv
  OBVIOUS
<1>1. present \in [Participants -> Presence] /\ trust \in [Participants -> Levels]
      /\ grants \in [Edges -> SUBSET Grant]
  BY ControlAssumption DEF Init, ControlAssumption, Stores
<1>2. NoChannel \in Channel /\ 0 \in 0..MaxTime /\ 0 \in 0..MaxOps
  BY ControlAssumption DEF NoChannel, Channel, ControlAssumption
<1>3. TypeOK
  BY <1>1, <1>2, NoCallTyped DEF Init, TypeOK
<1>4. NoCall.at = "idle" /\ NoCall.todo = {}
  BY DEF NoCall
<1> QED
  BY <1>3, <1>4 DEF Init, PlaneInv, TodoInv, StageInv, PassedGates, RoutesKnown

LEMMA PlaneInvariance == Spec => []PlaneInv
<1>1. PlaneInv /\ [Next]_vars => PlaneInv'
  <2> SUFFICES ASSUME PlaneInv, [Next]_vars PROVE PlaneInv'
    OBVIOUS
  <2> TypeOK /\ TodoInv /\ RoutesKnown /\ StageInv
    BY DEF PlaneInv
  <2>1. CASE UNCHANGED vars
    BY <2>1 DEF vars, stores, PlaneInv, TypeOK, TodoInv, RoutesKnown, StageInv, PassedGates
  <2>2. CASE Watch /\ (Close \/ Time)
    <3>a. UNCHANGED <<stores, ops, call>>
      BY <2>2 DEF Close, Time
    <3>b. open' \in [Edges -> Channel]
      <4>1. NoChannel \in Channel
        BY DEF NoChannel, Channel
      <4>2. open' = open \/ \E e \in Edges : open' = [open EXCEPT ![e] = NoChannel]
        BY <2>2 DEF Close, Time
      <4> QED
        BY <4>1, <4>2 DEF TypeOK
    <3>c. clock' \in 0..MaxTime
      BY <2>2, ControlAssumption DEF Close, Time, TypeOK, ControlAssumption
    <3>1. UNCHANGED <<stores, ops, call>> /\ open' \in [Edges -> Channel]
          /\ clock' \in 0..MaxTime
      BY <3>a, <3>b, <3>c
    <3>2. TypeOK' /\ TodoInv' /\ RoutesKnown'
      BY <2>2, <3>1, WatchTyped DEF TypeOK, TodoInv, RoutesKnown, stores
    <3>3. StageInv'
      BY <2>2, <3>1, OthersKeep DEF StageInv
    <3> QED
      BY <3>2, <3>3 DEF PlaneInv
  <2> QED
    BY <2>1, <2>2, StoresKeep, BrokerKeeps DEF Next
<1> QED
  BY PlaneInitHolds, <1>1, PTL DEF Spec

-----------------------------------------------------------------------------
(* The stores and the calls keep to their types; Reachable only asks for   *)
(* edges of its agent.                                                     *)
THEOREM ControlTypes == Spec => []TypeOK
<1>1. PlaneInv => TypeOK
  BY DEF PlaneInv
<1> QED
  BY PlaneInvariance, <1>1, PTL

(* Whatever is registered, deregistered, allowed and revoked: a route      *)
(* leads from and to a participant that is registered (plane.go:           *)
(* Deregister takes the routes of both directions along).                  *)
THEOREM RoutesAreKnown == Spec => []RoutesKnown
<1>1. PlaneInv => RoutesKnown
  BY DEF PlaneInv
<1> QED
  BY PlaneInvariance, <1>1, PTL

(* For any number of Opens and any changes of the stores between their     *)
(* gates: a call about to store its channel was let through by every gate. *)
THEOREM OpensAreJustified == Spec => []OpenJustified
<1>1. PlaneInv => OpenJustified
  BY DEF PlaneInv, TypeOK, StageInv, PassedGates, OpenJustified, Gates
<1> QED
  BY PlaneInvariance, <1>1, PTL

(* Only a step of its own changes a caller's call.                         *)
LEMMA CallersMoveAlone ==
  ASSUME PlaneInv, Next, NEW c \in Callers, call'[c] # call[c]
  PROVE  Broker(c)
<1>1. PICK d \in Callers : Broker(d)
  BY DEF Next, ChangeStores, Operation, Close, Time
<1>2. d = c
  BY <1>1
  DEF Broker, OpenStart, ReachableStart, Begin, CheckFrom, CheckTo, CheckTrust, CheckGrant,
      ReadScopes, PutChannel, Refuse, Returned, Set, PlaneInv, TypeOK
<1> QED
  BY <1>1, <1>2

(* An Open that starts, or goes on to the next target, is at the first gate.*)
LEMMA StartsAtFrom ==
  ASSUME PlaneInv, NEW c \in Callers,
         OpenStart(c) \/ ReachableStart(c) \/ Returned(c, call[c])
  PROVE  call'[c].at \in {"idle", "from"}
<1>1. ASSUME NEW e, NEW rest, Begin(c, e, rest) PROVE call'[c].at = "from"
  BY <1>1 DEF Begin, Set, NoCall, PlaneInv, TypeOK
<1>2. CASE Returned(c, call[c])
  BY <1>2, ReturnTyped DEF PlaneInv
<1> QED
  BY <1>1, <1>2 DEF OpenStart, ReachableStart

(* An Open only comes to the last stage by ReadScopes.                     *)
LEMMA PutsHaveRead ==
  ASSUME PlaneInv, Next, NEW c \in Callers, call'[c].at = "put", call'[c] # call[c]
  PROVE  ReadScopes(c)
<1> TypeOK /\ TodoInv /\ call[c] \in Call
  BY DEF PlaneInv, TypeOK
<1>1. Broker(c)
  BY CallersMoveAlone
<1>2. ~OpenStart(c) /\ ~ReachableStart(c) /\ ~Returned(c, call[c])
  BY StartsAtFrom
<1>3. ~CheckFrom(c) /\ ~CheckTo(c) /\ ~CheckTrust(c) /\ ~CheckGrant(c)
  BY <1>2 DEF CheckFrom, CheckTo, CheckTrust, CheckGrant, Refuse, Set, TypeOK, Call
<1> QED
  BY <1>1, <1>2, <1>3 DEF Broker, PutChannel

(* For any changes of the stores: an Open whose gates held all through it  *)
(* stores a channel that conveys at least the scope it was asked for.      *)
THEOREM OpensAreSound == Spec => []OpenSound
<1>1. Init => OpenSound
  BY DEF Init, OpenSound, NoCall
<1>2. PlaneInv /\ OpenSound /\ [Next]_vars => OpenSound'
  <2> SUFFICES ASSUME PlaneInv, OpenSound, Next, NEW c \in Callers,
                      steady'[c] = Gates, call'[c].at = "put"
               PROVE  call'[c].scope \in call'[c].scopes
    BY DEF vars, OpenSound
  <2>1. steady[c] = Gates /\ "grant" \in Passing(call[c])'
    BY DEF Next, Watch, PlaneInv, TypeOK, Gates
  <2>2. CASE call'[c] = call[c]
    BY <2>1, <2>2 DEF OpenSound
  <2>3. CASE ReadScopes(c)
    <3>1. /\ call[c] \in Call /\ UNCHANGED grants
          /\ call'[c] = [call[c] EXCEPT !.at = "put",
                                        !.scopes = ScopesOn(call[c].edge, call[c].now)]
      BY <2>3 DEF ReadScopes, Reading, stores, Set, PlaneInv, TypeOK
    <3>2. /\ call'[c].scopes = ScopesOn(call[c].edge, call[c].now)
          /\ call'[c].scope = call[c].scope /\ call'[c].edge = call[c].edge
          /\ call'[c].now = call[c].now
      BY <3>1 DEF Call
    <3>3. Allows(call[c].edge, call[c].scope, call[c].now)
      BY <2>1, <3>1, <3>2 DEF Passing, Gates, Allows, Expired
    <3> QED
      BY <3>2, <3>3 DEF Allows, ScopesOn
  <2> QED
    BY <2>2, <2>3, PutsHaveRead
<1> QED
  BY PlaneInvariance, <1>1, <1>2, PTL DEF Spec

(* What has held since the Open began holds now, and the endpoint that     *)
(* CheckTo found was registered.                                           *)
SteadyInv == \A c \in Callers : steady[c] \subseteq Passing(call[c])

TargetInv == \A c \in Callers : call[c].at \in {"trust", "grant"} => call[c].target # "absent"

LEMMA TargetStep ==
  ASSUME PlaneInv, TargetInv, Next
  PROVE  TargetInv'
<1> SUFFICES ASSUME NEW c \in Callers, call'[c].at \in {"trust", "grant"}, call'[c] # call[c]
             PROVE  call'[c].target # "absent"
  BY DEF TargetInv
<1> call \in [Callers -> Call] /\ call[c] \in Call
  BY DEF PlaneInv, TypeOK
<1>1. Broker(c)
  BY CallersMoveAlone
<1>2. ~OpenStart(c) /\ ~ReachableStart(c) /\ ~Returned(c, call[c])
  BY StartsAtFrom
<1>3. CASE CheckTo(c)
  <2>1. /\ call'[c] = [call[c] EXCEPT !.at = "trust", !.target = present[call[c].edge[2]]]
        /\ present[call[c].edge[2]] # "absent"
    BY <1>2, <1>3 DEF CheckTo, Refuse, Set
  <2> QED
    BY <2>1 DEF Call
<1>4. CASE CheckTrust(c)
  <2>1. call[c].at = "trust" /\ call'[c] = [call[c] EXCEPT !.at = "grant"]
    BY <1>2, <1>4 DEF CheckTrust, Reading, Refuse, Set
  <2> QED
    BY <2>1 DEF Call, TargetInv
<1>5. ~CheckFrom(c) /\ ~CheckGrant(c) /\ ~ReadScopes(c) /\ ~PutChannel(c)
  <2>1. \A s \in {"to", "scopes"} : ~Set(c, [call[c] EXCEPT !.at = s])
    BY DEF Set, Call
  <2>2. ASSUME ReadScopes(c) PROVE FALSE
    <3>1. call'[c] = [call[c] EXCEPT !.at = "put", !.scopes = ScopesOn(call[c].edge, call[c].now)]
      BY <2>2 DEF ReadScopes, Set
    <3>2. call'[c].at = "put"
      BY <3>1 DEF Call
    <3> QED
      BY <3>2
  <2> QED
    BY <1>2, <2>1, <2>2 DEF CheckFrom, CheckGrant, PutChannel, Refuse
<1> QED
  BY <1>1, <1>2, <1>3, <1>4, <1>5 DEF Broker

(* For any changes of the stores: an Open whose gates held all through it  *)
(* is refused for a target without an endpoint only.                       *)
THEOREM OpensDoSucceed == Spec => OpenSucceeds
<1>1. Init => SteadyInv /\ TargetInv
  BY DEF Init, SteadyInv, TargetInv, NoCall
<1>2. PlaneInv /\ SteadyInv /\ TargetInv /\ [Next]_vars => SteadyInv' /\ TargetInv'
  <2> SUFFICES ASSUME PlaneInv, SteadyInv, TargetInv, [Next]_vars PROVE SteadyInv' /\ TargetInv'
    OBVIOUS
  <2>1. CASE Next
    <3>1. ASSUME NEW c \in Callers PROVE steady'[c] \subseteq Passing(call[c])'
      BY <2>1 DEF Next, Watch, PlaneInv, TypeOK
    <3> QED
      BY <2>1, <3>1, TargetStep DEF SteadyInv
  <2>2. CASE UNCHANGED vars
    BY <2>2 DEF vars, stores, SteadyInv, TargetInv, Passing, IsTrusted, Allows, Expired
  <2> QED
    BY <2>1, <2>2
<1>3. ASSUME PlaneInv, SteadyInv, TargetInv, Next, NEW c \in Callers, Refused(c), steady[c] = Gates
      PROVE  call[c].at = "grant" /\ call[c].target = "mute"
  <2>1. Broker(c) /\ call[c] \in Call /\ call \in [Callers -> Call]
    BY <1>3, CallersMoveAlone DEF Refused, PlaneInv, TypeOK
  <2>2. /\ present[call[c].edge[1]] # "absent" /\ present[call[c].edge[2]] # "absent"
        /\ IsTrusted(call[c].edge[2]) /\ Allows(call[c].edge, call[c].scope, call[c].now)
    <3>1. Gates \subseteq Passing(call[c])
      BY <1>3 DEF SteadyInv
    <3>2. "from" \in Passing(call[c]) /\ "to" \in Passing(call[c])
          /\ "trust" \in Passing(call[c]) /\ "grant" \in Passing(call[c])
      BY <3>1 DEF Gates
    <3> QED
      BY <3>2 DEF Passing
  <2>3. call[c].at \in Gates /\ call'[c].at \in {"idle", "from"}
    BY <1>3 DEF Refused
  <2>4. \A s \in {"to", "trust", "grant", "scopes"} : ~Set(c, [call[c] EXCEPT !.at = s])
    BY <2>1, <2>3 DEF Set, Call
  <2>5. CheckGrant(c)
    <3>1. ~CheckFrom(c)
      BY <2>2, <2>4 DEF CheckFrom
    <3>2. ~CheckTo(c)
      BY <2>1, <2>2, <2>3 DEF CheckTo, Set, Call
    <3>3. ~CheckTrust(c)
      BY <2>2, <2>4 DEF CheckTrust
    <3>4. ~OpenStart(c) /\ ~ReachableStart(c) /\ ~ReadScopes(c) /\ ~PutChannel(c)
      BY <2>3 DEF OpenStart, ReachableStart, Begin, ReadScopes, PutChannel, Reading, Gates
    <3> QED
      BY <2>1, <3>1, <3>2, <3>3, <3>4 DEF Broker
  <2>6. call[c].at = "grant" /\ call[c].target # "reachable"
    BY <2>2, <2>4, <2>5 DEF CheckGrant, Reading
  <2>7. call[c].target \in Presence /\ call[c].target # "absent"
    BY <1>3, <2>1, <2>6 DEF Call, TargetInv
  <2> QED
    BY <2>6, <2>7 DEF Presence
<1>4. PlaneInv /\ SteadyInv /\ TargetInv /\ [Next]_vars =>
        [\A c \in Callers :
           Refused(c) /\ steady[c] = Gates => call[c].at = "grant" /\ call[c].target = "mute"]_vars
  BY <1>3
<1> QED
  BY PlaneInvariance, <1>1, <1>2, <1>4, PTL DEF Spec, OpenSucceeds

(* Pruning what has expired changes no authorization, now or later.        *)
THEOREM PruningIsInvisible == Spec => PruneIsInvisible
<1>1. ASSUME PlaneInv, Prune, NEW e \in Edges, NEW now \in clock..MaxTime
      PROVE  ScopesOn(e, now)' = ScopesOn(e, now)
  <2>1. PICK t \in 0..clock :
          grants' = [d \in Edges |-> {g \in grants[d] : ~Expired(g, t)}]
    BY <1>1 DEF Prune
  <2>2. t \in Nat /\ now \in Nat /\ t <= now /\ grants[e] \subseteq Grant
    BY <1>1, <2>1, ControlAssumption DEF PlaneInv, TypeOK, ControlAssumption
  <2>3. \A g \in grants[e] : Expired(g, t) => Expired(g, now)
    BY <2>2, ControlAssumption DEF Expired, Grant, ControlAssumption
  <2>4. {g \in grants'[e] : ~Expired(g, now)} = {g \in grants[e] : ~Expired(g, now)}
    BY <2>1, <2>3
  <2> QED
    BY <2>4 DEF ScopesOn, Expired
<1>2. PlaneInv /\ [Next]_vars =>
        [Prune => \A e \in Edges, now \in clock..MaxTime :
                    ScopesOn(e, now)' = ScopesOn(e, now)]_vars
  BY <1>1
<1> QED
  BY PlaneInvariance, <1>2, PTL DEF Spec, PruneIsInvisible

=============================================================================
